------------------------------ MODULE Transforms ------------------------------
(***************************************************************************)
(* The complex transforms (src/foundation/fft.cpp) over the dispatched     *)
(* butterflies: the transform in place, the plan that tabulates its        *)
(* factors, and Bluestein's transform of any length.                       *)
(***************************************************************************)
EXTENDS Kernels

CONSTANTS
    Over(_, _),       \* a double divided by a whole number
    Unit(_, _)        \* the cosine and the sine of a fraction of a turn

MinVectorFftSize == 8     \* kMinVectorFftSize

Divided(memory, n) == [k \in DOMAIN memory |-> Over(memory[k], n)]

\* One is the only odd divisor.
IsPowerOfTwo(n) == n # 0 /\ \A d \in 1 .. n : n % d = 0 => d = 1 \/ d % 2 = 0

next_power_of_two(value) ==
    CHOOSE n \in {2 ^ k : k \in 0 .. value} : n >= value /\ (n = 1 \/ n \div 2 < value)

\* The increment of a counter whose bits are read backwards: what the carry, going
\* down, has turned from each bit to the lowest adds up to.
ReversedIncrement(reversed, count) ==
    LET turned == [bit \in 1 .. count |-> [carry \in -count .. count |->
                       IF (reversed \div bit) % 2 = 1 THEN carry - bit ELSE bit]]
    IN  reversed + Stages(count, turned, 0)

\* reverse_: where each index goes.
Reversed(index, count) ==
    Loop(index, [k \in 0 .. index - 1 |-> [r \in 0 .. count - 1 |-> ReversedIncrement(r, count)]], 0)

Permuted(data, count) ==
    LET reversed == Evaluated([index \in 0 .. count - 1 |-> Reversed(index, count)])
    IN  [k \in 0 .. 2 * count - 1 |-> data[2 * reversed[k \div 2] + (k % 2)]]

\* A factor is the previous one times the step: never a cosine of its own.
Factor(offset, length, inverse) ==
    LET step == Unit(IF inverse THEN 1 ELSE -1, length)
    IN  Loop(offset, [k \in 0 .. offset - 1 |-> [f \in Doubles \X Doubles |-> ComplexTimes(f, step)]], <<1, 0>>)

\* The stages of a transform in place work the factors out as they go.
GroupInPlace(data, count, half, inverse, start) ==
    Loop(half,
         [offset \in 0 .. half - 1 |-> [m \in Memory(2 * count) |->
              Butterfly(m, start + offset, start + offset + half, Factor(offset, 2 * half, inverse))]], data)
StageInPlace(data, count, half, inverse) ==
    Loop(Groups(count, half),
         [group \in 0 .. Groups(count, half) - 1 |-> [m \in Memory(2 * count) |->
              GroupInPlace(m, count, half, inverse, 2 * half * group)]], data)

fft_in_place(data, count, inverse) ==
    LET stage == [half \in 1 .. count |-> [m \in Memory(2 * count) |-> StageInPlace(m, count, half, inverse)]]
        transformed == Stages(count, stage, Evaluated(Permuted(data, count)))
    IN  IF count < 2 THEN data
        ELSE IF inverse THEN Divided(transformed, count) ELSE transformed

\* FftPlan: the factors of all the stages, one stage behind the other.
Tabled(table, half, inverse) ==
    LET begin == 2 * (half - 1)
    IN  [i \in 0 .. begin + 2 * half - 1 |->
            IF i < begin THEN table[i] ELSE Factor((i - begin) \div 2, 2 * half, inverse)[(i % 2) + 1]]
Twiddle(size, inverse) ==
    Stages(size,
           [half \in 1 .. size |-> [table \in Memory(2 * (half - 1)) |-> Tabled(table, half, inverse)]],
           [i \in 0 .. -1 |-> 0])

StageBegin(size) == [half \in 1 .. size |-> half - 1]

\* FftPlan::apply.  Small transforms do not go through the kernel.
apply(isa, data, size, inverse) ==
    LET permuted == Evaluated(Permuted(data, size))
        table == Evaluated(Twiddle(size, inverse))
        transformed ==
            IF size >= MinVectorFftSize /\ IsPowerOfTwo(size)
            THEN fft_butterflies(isa, permuted, size, table, StageBegin(size))
            ELSE ButterfliesScalar(permuted, size, table, StageBegin(size))
    IN  IF size < 2 THEN data
        ELSE IF inverse THEN Divided(transformed, size) ELSE transformed

\* The chirp of an index; its angle is reduced before it is a double.
Chirp(index, count, inverse) ==
    LET unit == Unit((index * index) % (2 * count), 2 * count)
    IN  <<unit[1], IF inverse THEN unit[2] ELSE Negated(unit[2])>>
Conjugate(z) == <<z[1], Negated(z[2])>>

\* Mutant: the wrapped half of the chirp is missing.
BluesteinRight_NotWrapped(size, count, inverse) ==
    [k \in 0 .. 2 * size - 1 |->
        LET index == k \div 2
        IN  IF index < count THEN Conjugate(Chirp(index, count, inverse))[(k % 2) + 1] ELSE 0]

\* What the chirped input is convolved with: the chirp on both sides of zero.
BluesteinRight(size, count, inverse) ==
    [k \in 0 .. 2 * size - 1 |->
        LET index == k \div 2
        IN  IF index < count THEN Conjugate(Chirp(index, count, inverse))[(k % 2) + 1]
            ELSE IF size - index < count THEN Conjugate(Chirp(size - index, count, inverse))[(k % 2) + 1]
            ELSE 0]

Bluestein(data, count, inverse) ==
    LET size == next_power_of_two(2 * count + 1)
        left == [k \in 0 .. 2 * size - 1 |->
                    IF k \div 2 < count
                    THEN ComplexTimes(Complex(data, k \div 2), Chirp(k \div 2, count, inverse))[(k % 2) + 1]
                    ELSE 0]
        a == Evaluated(fft_in_place(Evaluated(left), size, FALSE))
        b == Evaluated(fft_in_place(Evaluated(BluesteinRight(size, count, inverse)), size, FALSE))
        convolved == fft_in_place(Evaluated(MultiplyScalar(a, b, size)), size, TRUE)
        unchirped == [k \in 0 .. 2 * count - 1 |->
                         ComplexTimes(Complex(convolved, k \div 2),
                                      Chirp(k \div 2, count, inverse))[(k % 2) + 1]]
    IN  IF inverse THEN Divided(unchirped, count) ELSE unchirped

fft_any(data, count, inverse) ==
    IF IsPowerOfTwo(count) THEN fft_in_place(data, count, inverse) ELSE Bluestein(data, count, inverse)

-----------------------------------------------------------------------------
(* What a transform means: the sum over the input, each term turned by the *)
(* product of the two indices; the inverse is scaled.                      *)

Transform(data, count, inverse) ==
    LET turned(k, n) ==
            ComplexTimes(Complex(data, n), Unit((IF inverse THEN 1 ELSE -1) * ((k * n) % count), count))
        sum(k) == FoldLeft(LAMBDA s, n : Evaluated(ComplexPlus(s, turned(k, n))), <<0, 0>>,
                           [i \in 1 .. count |-> i - 1])
        sums == [k \in 0 .. 2 * count - 1 |-> sum(k \div 2)[(k % 2) + 1]]
    IN  IF inverse THEN Divided(sums, count) ELSE sums

=============================================================================
