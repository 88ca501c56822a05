------------------------------- MODULE Kernels -------------------------------
(***************************************************************************)
(* The dispatched DSP kernels (src/simd): the scalar reference and the     *)
(* AVX2, AVX-512 and NEON units.  A vector unit may only compute           *)
(* independent outputs in parallel lanes, so that every output has the     *)
(* bits the reference gives it.                                            *)
(*                                                                         *)
(* Memory is a function from 0, of doubles; a complex is two of them.  The *)
(* arithmetic is a parameter.  A vector is a function from 0 as well.      *)
(***************************************************************************)
EXTENDS Integers, SequencesExt

CONSTANTS
    Doubles,                              \* the values of a double, rounded
    Plus(_, _), Times(_, _), Negated(_),  \* and their arithmetic
    SynthesisBands,   \* kSynthesisBands
    SynthesisTaps,    \* kSynthesisTaps
    HybridTerms,      \* kHybridTerms
    HybridOutputs,    \* kHybridOutputs
    PathBands,        \* kPathBands
    AnalysisBands     \* kQmfAnalysisBands

\* Of the laws of arithmetic a vector unit may use that addition commutes.
ASSUME ArithmeticAssumption ==
    /\ {0, 1} \subseteq Doubles
    /\ \A x, y \in Doubles : /\ Plus(x, y) \in Doubles /\ Times(x, y) \in Doubles
                             /\ Plus(x, y) = Plus(y, x)
    /\ \A x \in Doubles : Negated(x) \in Doubles

\* Whole vectors: AVX-512's hold eight doubles.
ASSUME SizesAssumption ==
    /\ {SynthesisBands, SynthesisTaps, HybridTerms, HybridOutputs, PathBands, AnalysisBands} \subseteq Nat
    /\ HybridOutputs % 8 = 0 /\ AnalysisBands % 8 = 0

Ranks == 4            \* kSynthesisRanks: one AVX2 vector

Memory(size) == [0 .. size - 1 -> Doubles]

\* A value worked out now: TLC leaves a function unevaluated otherwise.
Evaluated(v) == CHOOSE w \in {v} : w = v

\* A loop over 0 .. count - 1: the body of each index is a function of the state.
Loop(count, body, state) ==
    LET after[k \in 0 .. count] == IF k = 0 THEN state ELSE Evaluated(body[k - 1][after[k - 1]])
    IN  after[count]

-----------------------------------------------------------------------------
(* The scalar reference (kernels_scalar.cpp).                              *)

Minus(x, y) == Plus(x, Negated(y))

Complex(memory, k) == <<memory[2 * k], memory[2 * k + 1]>>
ComplexPlus(a, b) == <<Plus(a[1], b[1]), Plus(a[2], b[2])>>
ComplexMinus(a, b) == <<Minus(a[1], b[1]), Minus(a[2], b[2])>>
ComplexTimes(a, b) ==
    <<Minus(Times(a[1], b[1]), Times(a[2], b[2])), Plus(Times(a[1], b[2]), Times(a[2], b[1]))>>
PutComplex(memory, k, value) == [memory EXCEPT ![2 * k] = value[1], ![2 * k + 1] = value[2]]

Butterfly(data, even, odd, factor) ==
    LET first == Complex(data, even)
        rotated == ComplexTimes(Complex(data, odd), factor)
    IN  PutComplex(PutComplex(data, even, ComplexPlus(first, rotated)),
                   odd, ComplexMinus(first, rotated))

\* The butterflies of one stage, whose groups are of 2 * half complexes.
GroupScalar(data, size, half, table, begin, start) ==
    Loop(half,
         [offset \in 0 .. half - 1 |-> [m \in Memory(2 * size) |->
              Butterfly(m, start + offset, start + offset + half, Complex(table, begin + offset))]],
         data)

\* A stage goes through its groups.
Groups(size, half) == size \div (2 * half)
StageScalar(data, size, half, table, begin) ==
    Loop(Groups(size, half),
         [group \in 0 .. Groups(size, half) - 1 |-> [m \in Memory(2 * size) |->
              GroupScalar(m, size, half, table, begin, 2 * half * group)]],
         data)

\* The stages: groups of one complex are done, those of two halves come next.
Stages(size, stage, data) ==
    LET done[length \in 1 .. size] ==
            IF length = 1 THEN data ELSE Evaluated(stage[length \div 2][done[length \div 2]])
    IN  done[size]

\* begin[half] is where the factors of a stage start in the table.
ButterfliesScalar(data, size, table, begin) ==
    Stages(size,
           [half \in 1 .. size |-> [m \in Memory(2 * size) |-> StageScalar(m, size, half, table, begin[half])]],
           data)

\* One output: the taps in their order.
Dot(values, basis, row, band, rank) ==
    Loop(SynthesisTaps,
         [tap \in 0 .. SynthesisTaps - 1 |-> [sum \in Doubles |->
              Plus(sum, Times(values[row * SynthesisTaps + tap],
                              basis[(band * SynthesisTaps + tap) * Ranks + rank]))]],
         0)

SynthesisScalar(values, basis, rows) ==
    [k \in 0 .. rows * SynthesisBands * Ranks - 1 |->
        Dot(values, basis, (k \div Ranks) \div SynthesisBands, (k \div Ranks) % SynthesisBands, k % Ranks)]

\* One output: terms that are zero are skipped.
Join(values, taps, row, output) ==
    Loop(HybridTerms,
         [term \in 0 .. HybridTerms - 1 |-> [sum \in Doubles |->
              LET value == values[row * HybridTerms + term]
              IN  IF value = 0 THEN sum ELSE Plus(sum, Times(value, taps[term * HybridOutputs + output]))]],
         0)

HybridJoinScalar(values, taps, rows) ==
    [k \in 0 .. rows * HybridOutputs - 1 |-> Join(values, taps, k \div HybridOutputs, k % HybridOutputs)]

\* What a path adds to one band of one ear; every product is scaled on its own.
PathTerm(transfer, history, scale, ear, band) ==
    LET h == Complex(history, band)
        t == Complex(transfer, ear * PathBands + band)
        term(x, y) == Times(Times(x, y), scale)
    IN  <<Minus(term(h[1], t[1]), term(h[2], t[2])), Plus(term(h[1], t[2]), term(h[2], t[1]))>>

PathScalar(out, transfer, histories, scale) ==
    [i \in 0 .. 4 * PathBands - 1 |->
        LET k == i \div 2
        IN  Plus(out[i], PathTerm(transfer, histories[k \div PathBands], scale,
                                  k \div PathBands, k % PathBands)[(i % 2) + 1])]

AxpyScalar(out, field, scale, count) ==
    [i \in 0 .. 2 * count - 1 |-> Plus(out[i], Times(field[i], scale))]

AnalysisScalar(out, source, coefficients, rows) ==
    [i \in 0 .. rows * AnalysisBands - 1 |-> Plus(out[i], Times(source[i], coefficients[i % AnalysisBands]))]

MultiplyScalar(left, right, count) ==
    [i \in 0 .. 2 * count - 1 |-> ComplexTimes(Complex(left, i \div 2), Complex(right, i \div 2))[(i % 2) + 1]]

-----------------------------------------------------------------------------
(***************************************************************************)
(* The vector units (kernels_intrin_avx2.cpp, _avx512.cpp and _neon.cpp),  *)
(* instruction by instruction where it matters: which lanes an instruction *)
(* combines, and what is left over for the scalar loop behind the vector   *)
(* loop.                                                                   *)
(***************************************************************************)

-----------------------------------------------------------------------------
(* Vectors.                                                                *)

Load(memory, at, width) == [i \in 0 .. width - 1 |-> memory[at + i]]
Store(memory, at, v) ==
    [i \in DOMAIN memory |-> IF i - at \in DOMAIN v THEN v[i - at] ELSE memory[i]]
Broadcast(x, width) == [i \in 0 .. width - 1 |-> x]

Added(a, b) == [i \in DOMAIN a |-> Plus(a[i], b[i])]
Subtracted(a, b) == [i \in DOMAIN a |-> Minus(a[i], b[i])]
Multiplied(a, b) == [i \in DOMAIN a |-> Times(a[i], b[i])]

\* The two doubles of every 128 bits exchanged, the first of them twice, the
\* second of them twice.
Swapped(a) == [i \in DOMAIN a |-> a[IF i % 2 = 0 THEN i + 1 ELSE i - 1]]
Firsts(a) == [i \in DOMAIN a |-> a[i - (i % 2)]]
Seconds(a) == [i \in DOMAIN a |-> a[i - (i % 2) + 1]]

\* The even lanes of one vector and the odd ones of another.
Blend(a, b) == [i \in DOMAIN a |-> IF i % 2 = 0 THEN a[i] ELSE b[i]]
AddSub(a, b) == Blend(Subtracted(a, b), Added(a, b))

\* A vector put together from 128-bit lanes of others.
FromLanes(lanes) ==
    [i \in 0 .. 2 * Len(lanes) - 1 |->
        LET lane == lanes[(i \div 2) + 1] IN lane[1][2 * lane[2] + (i % 2)]]

\* The two products of two whole complexes: real parts in the even lanes of
\* the first, imaginary parts in the odd lanes of the second.
PairwiseDifference(a) == AddSub(a, Swapped(a))
PairwiseSum(a) == Added(a, Swapped(a))

\* A vector loop from 0 in steps of its width, and the scalar loop behind it for
\* what is left of the count.
VectorLoop(count, width, vector, rest, state) ==
    LET whole == count \div width
    IN  Loop(count % width, [j \in 0 .. (count % width) - 1 |-> rest[width * whole + j]],
             Loop(whole, [j \in 0 .. whole - 1 |-> vector[width * j]], state))

-----------------------------------------------------------------------------
(* AVX2: two complexes, or four doubles, in a vector.                      *)

MulPair(odd, twiddle) ==
    AddSub(Multiplied(odd, Firsts(twiddle)), Multiplied(Swapped(odd), Seconds(twiddle)))

\* Stage 0: the butterflies of two neighbouring groups in one vector.
PackAvx2(m, factor, at) ==
    LET low == Load(m, at, 4)
        high == Load(m, at + 4, 4)
        even == FromLanes(<<<<low, 0>>, <<high, 0>>>>)
        rotated == Evaluated(MulPair(FromLanes(<<<<low, 1>>, <<high, 1>>>>), factor))
        sum == Added(even, rotated)
        difference == Subtracted(even, rotated)
    IN  Store(Store(m, at, FromLanes(<<<<sum, 0>>, <<difference, 0>>>>)),
              at + 4, FromLanes(<<<<sum, 1>>, <<difference, 1>>>>))

FirstStageAvx2(data, size, table, begin) ==
    LET pair == Load(table, 2 * begin, 2)
        factor == FromLanes(<<<<pair, 0>>, <<pair, 0>>>>)
    IN  Loop(size \div 4,
             [j \in 0 .. (size \div 4) - 1 |-> [m \in Memory(2 * size) |-> PackAvx2(m, factor, 8 * j)]], data)

\* A later stage: neighbouring butterflies of one group.
PairAvx2(m, half, table, begin, start, offset) ==
    LET even == (start + offset) * 2
        odd == even + half * 2
        rotated == Evaluated(MulPair(Load(m, odd, 4), Load(table, 2 * (begin + offset), 4)))
    IN  Store(Store(m, even, Added(Load(m, even, 4), rotated)),
              odd, Subtracted(Load(m, even, 4), rotated))

GroupAvx2(data, size, half, table, begin, start) ==
    Loop(half \div 2,
         [j \in 0 .. (half \div 2) - 1 |-> [m \in Memory(2 * size) |->
              PairAvx2(m, half, table, begin, start, 2 * j)]], data)

StageAvx2(data, size, half, table, begin) ==
    Loop(Groups(size, half),
         [group \in 0 .. Groups(size, half) - 1 |-> [m \in Memory(2 * size) |->
              GroupAvx2(m, size, half, table, begin, 2 * half * group)]], data)

ButterfliesAvx2(data, size, table, begin) ==
    Stages(size,
           [half \in 1 .. size |-> [m \in Memory(2 * size) |->
                IF half = 1 THEN FirstStageAvx2(m, size, table, begin[1])
                ELSE StageAvx2(m, size, half, table, begin[half])]], data)

\* Rows of one band side by side, four ranks in a vector.
BandSumsAvx2(values, basis, first, count, band) ==
    Loop(SynthesisTaps,
         [tap \in 0 .. SynthesisTaps - 1 |-> [sums \in [0 .. count - 1 -> Memory(Ranks)] |->
              LET weight == Load(basis, (band * SynthesisTaps + tap) * Ranks, Ranks)
              IN  [row \in 0 .. count - 1 |->
                      Added(sums[row],
                            Multiplied(Broadcast(values[(first + row) * SynthesisTaps + tap], Ranks), weight))]]],
         [row \in 0 .. count - 1 |-> Broadcast(0, Ranks)])

SynthesizeRowsAvx2(out, size, values, basis, first, count) ==
    Loop(SynthesisBands,
         [band \in 0 .. SynthesisBands - 1 |-> [m \in Memory(size) |->
              LET sums == Evaluated(BandSumsAvx2(values, basis, first, count, band))
              IN  Loop(count,
                       [row \in 0 .. count - 1 |-> [n \in Memory(size) |->
                            Store(n, ((first + row) * SynthesisBands + band) * Ranks, sums[row])]], m)]], out)

\* Four rows at a time, then one.
SynthesisAvx2(out, values, basis, rows) ==
    LET size == rows * SynthesisBands * Ranks
        four == [row \in 0 .. rows - 1 |-> [m \in Memory(size) |->
                    SynthesizeRowsAvx2(m, size, values, basis, row, 4)]]
        one == [row \in 0 .. rows - 1 |-> [m \in Memory(size) |->
                   SynthesizeRowsAvx2(m, size, values, basis, row, 1)]]
    IN  VectorLoop(rows, 4, four, one, out)

\* One term against all the outputs of a row, so many in a vector.
JoinSums(values, taps, row, lanes) ==
    Loop(HybridTerms,
         [term \in 0 .. HybridTerms - 1 |-> [sums \in [0 .. (HybridOutputs \div lanes) - 1 -> Memory(lanes)] |->
              LET value == values[row * HybridTerms + term]
              IN  IF value = 0 THEN sums
                  ELSE [n \in 0 .. (HybridOutputs \div lanes) - 1 |->
                           Added(sums[n], Multiplied(Broadcast(value, lanes),
                                                     Load(taps, term * HybridOutputs + lanes * n, lanes)))]]],
         [n \in 0 .. (HybridOutputs \div lanes) - 1 |-> Broadcast(0, lanes)])

HybridJoin(out, values, taps, rows, lanes) ==
    LET size == rows * HybridOutputs
        chunks == HybridOutputs \div lanes
    IN  Loop(rows,
             [row \in 0 .. rows - 1 |-> [m \in Memory(size) |->
                  LET sums == Evaluated(JoinSums(values, taps, row, lanes))
                  IN  Loop(chunks,
                           [n \in 0 .. chunks - 1 |-> [k \in Memory(size) |->
                                Store(k, row * HybridOutputs + lanes * n, sums[n])]], m)]], out)

HybridJoinAvx2(out, values, taps, rows) == HybridJoin(out, values, taps, rows, 4)

\* A band of the loops behind the vector loops.
PathRest(m, transfer, history, scale, ear, band) ==
    LET at == ear * PathBands + band
    IN  PutComplex(m, at, ComplexPlus(Complex(m, at), PathTerm(transfer, history, scale, ear, band)))

\* Two bands.
PathPair(m, transfer, history, scale, ear, band) ==
    LET factor == Broadcast(scale, 4)
        at == 2 * (ear * PathBands + band)
        bands == Load(history, 2 * band, 4)
        tap == Load(transfer, at, 4)
        product == Evaluated(Multiplied(Multiplied(bands, tap), factor))
        crossed == Evaluated(Multiplied(Multiplied(bands, Swapped(tap)), factor))
    IN  Store(m, at, Added(Load(m, at, 4), Blend(PairwiseDifference(product), PairwiseSum(crossed))))

PathAvx2(out, transfer, histories, scale) ==
    LET vector(ear) == [band \in 0 .. PathBands - 1 |-> [m \in Memory(4 * PathBands) |->
                           PathPair(m, transfer, histories[ear], scale, ear, band)]]
        rest(ear) == [band \in 0 .. PathBands - 1 |-> [m \in Memory(4 * PathBands) |->
                         PathRest(m, transfer, histories[ear], scale, ear, band)]]
    IN  Loop(2, [ear \in 0 .. 1 |-> [m \in Memory(4 * PathBands) |->
                    VectorLoop(PathBands, 2, vector(ear), rest(ear), m)]], out)

\* One complex of the loops behind the vector loops, and a vector of doubles.
AxpyRest(m, field, scale, k) ==
    [m EXCEPT ![2 * k] = Plus(@, Times(field[2 * k], scale)),
              ![2 * k + 1] = Plus(@, Times(field[2 * k + 1], scale))]
AxpyVector(m, field, scale, k, width) ==
    Store(m, 2 * k, Added(Load(m, 2 * k, width),
                          Multiplied(Load(field, 2 * k, width), Broadcast(scale, width))))

\* Whole complexes in a vector of so many doubles.
Axpy(out, field, scale, count, complexes, width) ==
    VectorLoop(count, complexes,
               [k \in 0 .. count - 1 |-> [m \in Memory(2 * count) |-> AxpyVector(m, field, scale, k, width)]],
               [k \in 0 .. count - 1 |-> [m \in Memory(2 * count) |-> AxpyRest(m, field, scale, k)]], out)

AxpyAvx2(out, field, scale, count) == Axpy(out, field, scale, count, 2, 4)

Analysis(out, source, coefficients, rows, width) ==
    LET size == rows * AnalysisBands
    IN  Loop(rows,
             [row \in 0 .. rows - 1 |-> [m \in Memory(size) |->
                  Loop(AnalysisBands \div width,
                       [j \in 0 .. (AnalysisBands \div width) - 1 |-> [n \in Memory(size) |->
                            LET band == width * j
                                at == row * AnalysisBands + band
                            IN  Store(n, at, Added(Load(n, at, width),
                                                   Multiplied(Load(source, at, width),
                                                              Load(coefficients, band, width))))]], m)]], out)

AnalysisAvx2(out, source, coefficients, rows) == Analysis(out, source, coefficients, rows, 4)

\* A product behind the vector loops, and two of them.
MultiplyRest(m, left, right, k) == PutComplex(m, k, ComplexTimes(Complex(left, k), Complex(right, k)))
MultiplyPair(m, left, right, k) ==
    LET first == Load(left, 2 * k, 4)
        second == Load(right, 2 * k, 4)
    IN  Store(m, 2 * k, Blend(PairwiseDifference(Multiplied(first, second)),
                              PairwiseSum(Multiplied(Swapped(first), second))))

MultiplyAvx2(out, left, right, count) ==
    VectorLoop(count, 2,
               [k \in 0 .. count - 1 |-> [m \in Memory(2 * count) |-> MultiplyPair(m, left, right, k)]],
               [k \in 0 .. count - 1 |-> [m \in Memory(2 * count) |-> MultiplyRest(m, left, right, k)]], out)

-----------------------------------------------------------------------------
(* AVX-512: four complexes, or eight doubles.  There is no 512-bit addsub, *)
(* but masked additions and subtractions.                                  *)

\* The odd lanes add first, then the even ones subtract.
MulQuad(odd, twiddle) ==
    LET real == Multiplied(odd, Firsts(twiddle))
        cross == Multiplied(Swapped(odd), Seconds(twiddle))
        upper == Blend(real, Added(real, cross))
    IN  Blend(Subtracted(real, cross), upper)

\* VSHUFF64X2: two lanes of the first operand, then two of the second.
Shuffle(a, b, lanes) == FromLanes(<<<<a, lanes[1]>>, <<a, lanes[2]>>, <<b, lanes[3]>>, <<b, lanes[4]>>>>)

HalvesEven == <<0, 2, 0, 2>>
HalvesOdd == <<1, 3, 1, 3>>
GroupsEven == <<0, 1, 0, 1>>
GroupsOdd == <<2, 3, 2, 3>>
SwapMiddle == <<0, 2, 1, 3>>

\* Stage 0 of eight complexes.
PackHalves(data, at, factor) ==
    LET low == Load(data, at, 8)
        high == Load(data, at + 8, 8)
        even == Shuffle(low, high, HalvesEven)
        rotated == Evaluated(MulQuad(Shuffle(low, high, HalvesOdd), factor))
        sum == Evaluated(Added(even, rotated))
        difference == Evaluated(Subtracted(even, rotated))
        pairsLow == Evaluated(Shuffle(sum, difference, GroupsEven))
        pairsHigh == Evaluated(Shuffle(sum, difference, GroupsOdd))
    IN  Store(Store(data, at, Shuffle(pairsLow, pairsLow, SwapMiddle)),
              at + 8, Shuffle(pairsHigh, pairsHigh, SwapMiddle))

\* Stage 1 of eight complexes.
PackGroups(data, at, factor) ==
    LET low == Load(data, at, 8)
        high == Load(data, at + 8, 8)
        even == Shuffle(low, high, GroupsEven)
        rotated == Evaluated(MulQuad(Shuffle(low, high, GroupsOdd), factor))
        sum == Evaluated(Added(even, rotated))
        difference == Evaluated(Subtracted(even, rotated))
    IN  Store(Store(data, at, Shuffle(sum, difference, GroupsEven)),
              at + 8, Shuffle(sum, difference, GroupsOdd))

\* Four neighbouring butterflies of one group.
QuadAvx512(m, half, table, begin, start, offset) ==
    LET even == (start + offset) * 2
        odd == even + half * 2
        rotated == Evaluated(MulQuad(Load(m, odd, 8), Load(table, 2 * (begin + offset), 8)))
    IN  Store(Store(m, even, Added(Load(m, even, 8), rotated)),
              odd, Subtracted(Load(m, even, 8), rotated))

GroupAvx512(data, size, half, table, begin, start) ==
    Loop(half \div 4,
         [j \in 0 .. (half \div 4) - 1 |-> [m \in Memory(2 * size) |->
              QuadAvx512(m, half, table, begin, start, 4 * j)]], data)

StageAvx512(data, size, half, table, begin) ==
    Loop(Groups(size, half),
         [group \in 0 .. Groups(size, half) - 1 |-> [m \in Memory(2 * size) |->
              GroupAvx512(m, size, half, table, begin, 2 * half * group)]], data)

HalvesAvx512(data, size, table, begin) ==
    LET pair == Load(table, 2 * begin, 2)
        factor == FromLanes(<<<<pair, 0>>, <<pair, 0>>, <<pair, 0>>, <<pair, 0>>>>)
    IN  Loop(size \div 8,
             [j \in 0 .. (size \div 8) - 1 |-> [m \in Memory(2 * size) |-> PackHalves(m, 16 * j, factor)]], data)

GroupsAvx512(data, size, table, begin) ==
    LET pairs == Load(table, 2 * begin, 4)
        factor == FromLanes(<<<<pairs, 0>>, <<pairs, 1>>, <<pairs, 0>>, <<pairs, 1>>>>)
    IN  Loop(size \div 8,
             [j \in 0 .. (size \div 8) - 1 |-> [m \in Memory(2 * size) |-> PackGroups(m, 16 * j, factor)]], data)

ButterfliesAvx512(data, size, table, begin) ==
    Stages(size,
           [half \in 1 .. size |-> [m \in Memory(2 * size) |->
                IF half = 1 THEN HalvesAvx512(m, size, table, begin[1])
                ELSE IF half = 2 THEN GroupsAvx512(m, size, table, begin[2])
                ELSE StageAvx512(m, size, half, table, begin[half])]], data)

AxpyAvx512(out, field, scale, count) == Axpy(out, field, scale, count, 4, 8)

AnalysisAvx512(out, source, coefficients, rows) == Analysis(out, source, coefficients, rows, 8)

HybridJoinAvx512(out, values, taps, rows) == HybridJoin(out, values, taps, rows, 8)

\* Four bands: the real lanes of a product are masked.
PathQuad(m, transfer, history, scale, ear, band) ==
    LET factor == Broadcast(scale, 8)
        at == 2 * (ear * PathBands + band)
        bands == Load(history, 2 * band, 8)
        tap == Load(transfer, at, 8)
        product == Evaluated(Multiplied(Multiplied(bands, tap), factor))
        crossed == Evaluated(Multiplied(Multiplied(bands, Swapped(tap)), factor))
        difference == Blend(Subtracted(product, Swapped(product)), product)
    IN  Store(m, at, Added(Load(m, at, 8), Blend(difference, PairwiseSum(crossed))))

PathAvx512(out, transfer, histories, scale) ==
    LET vector(ear) == [band \in 0 .. PathBands - 1 |-> [m \in Memory(4 * PathBands) |->
                           PathQuad(m, transfer, histories[ear], scale, ear, band)]]
        rest(ear) == [band \in 0 .. PathBands - 1 |-> [m \in Memory(4 * PathBands) |->
                         PathRest(m, transfer, histories[ear], scale, ear, band)]]
    IN  Loop(2, [ear \in 0 .. 1 |-> [m \in Memory(4 * PathBands) |->
                    VectorLoop(PathBands, 4, vector(ear), rest(ear), m)]], out)

MultiplyQuad(m, left, right, k) ==
    LET first == Load(left, 2 * k, 8)
        second == Load(right, 2 * k, 8)
        product == Evaluated(Multiplied(first, second))
        difference == Blend(Subtracted(product, Swapped(product)), product)
    IN  Store(m, 2 * k, Blend(difference, PairwiseSum(Multiplied(Swapped(first), second))))

MultiplyAvx512(out, left, right, count) ==
    VectorLoop(count, 4,
               [k \in 0 .. count - 1 |-> [m \in Memory(2 * count) |-> MultiplyQuad(m, left, right, k)]],
               [k \in 0 .. count - 1 |-> [m \in Memory(2 * count) |-> MultiplyRest(m, left, right, k)]], out)

-----------------------------------------------------------------------------
(* NEON: two doubles in a vector; real and imaginary parts in vectors of   *)
(* their own.                                                              *)

\* VLD2, VST2: two complexes, taken apart and put together.
Parts(memory, k) == <<[i \in 0 .. 1 |-> memory[2 * (k + i)]], [i \in 0 .. 1 |-> memory[2 * (k + i) + 1]]>>
StoreParts(memory, k, parts) ==
    Store(memory, 2 * k, [i \in 0 .. 3 |-> parts[1 + (i % 2)][i \div 2]])

ComplexMulNeon(odd, weight) ==
    <<Subtracted(Multiplied(odd[1], weight[1]), Multiplied(odd[2], weight[2])),
      Added(Multiplied(odd[1], weight[2]), Multiplied(odd[2], weight[1]))>>

\* VTRN1, VTRN2: the first, or the second, doubles of two vectors.
Firstly(a, b) == [i \in 0 .. 1 |-> IF i = 0 THEN a[0] ELSE b[0]]
Secondly(a, b) == [i \in 0 .. 1 |-> IF i = 0 THEN a[1] ELSE b[1]]

PackNeon(m, weight, at) ==
    LET quarter(n) == Load(m, at + 2 * n, 2)
        even == <<Firstly(quarter(0), quarter(2)), Secondly(quarter(0), quarter(2))>>
        odd == <<Firstly(quarter(1), quarter(3)), Secondly(quarter(1), quarter(3))>>
        rotated == Evaluated(ComplexMulNeon(odd, weight))
        sum == [p \in 1 .. 2 |-> Added(even[p], rotated[p])]
        difference == [p \in 1 .. 2 |-> Subtracted(even[p], rotated[p])]
    IN  Store(Store(Store(Store(m, at, Firstly(sum[1], sum[2])),
                          at + 2, Firstly(difference[1], difference[2])),
                    at + 4, Secondly(sum[1], sum[2])),
              at + 6, Secondly(difference[1], difference[2]))

FirstStageNeon(data, size, table, begin) ==
    LET weight == <<Broadcast(table[2 * begin], 2), Broadcast(table[2 * begin + 1], 2)>>
    IN  Loop(size \div 4,
             [j \in 0 .. (size \div 4) - 1 |-> [m \in Memory(2 * size) |-> PackNeon(m, weight, 8 * j)]], data)

PairNeon(m, half, table, begin, start, offset) ==
    LET even == start + offset
        first == Parts(m, even)
        rotated == Evaluated(ComplexMulNeon(Parts(m, even + half), Parts(table, begin + offset)))
    IN  StoreParts(StoreParts(m, even, [p \in 1 .. 2 |-> Added(first[p], rotated[p])]),
                   even + half, [p \in 1 .. 2 |-> Subtracted(first[p], rotated[p])])

GroupNeon(data, size, half, table, begin, start) ==
    Loop(half \div 2,
         [j \in 0 .. (half \div 2) - 1 |-> [m \in Memory(2 * size) |->
              PairNeon(m, half, table, begin, start, 2 * j)]], data)

StageNeon(data, size, half, table, begin) ==
    Loop(Groups(size, half),
         [group \in 0 .. Groups(size, half) - 1 |-> [m \in Memory(2 * size) |->
              GroupNeon(m, size, half, table, begin, 2 * half * group)]], data)

ButterfliesNeon(data, size, table, begin) ==
    Stages(size,
           [half \in 1 .. size |-> [m \in Memory(2 * size) |->
                IF half = 1 THEN FirstStageNeon(m, size, table, begin[1])
                ELSE StageNeon(m, size, half, table, begin[half])]], data)

\* The four ranks of a band are two vectors.
BandSumsNeon(values, basis, first, count, band) ==
    Loop(SynthesisTaps,
         [tap \in 0 .. SynthesisTaps - 1 |-> [sums \in [0 .. count - 1 -> [0 .. 1 -> Memory(2)]] |->
              [row \in 0 .. count - 1 |-> [half \in 0 .. 1 |->
                  LET weight == Load(basis, (band * SynthesisTaps + tap) * Ranks + 2 * half, 2)
                  IN  Added(sums[row][half],
                            Multiplied(Broadcast(values[(first + row) * SynthesisTaps + tap], 2), weight))]]]],
         [row \in 0 .. count - 1 |-> [half \in 0 .. 1 |-> Broadcast(0, 2)]])

SynthesizeRowsNeon(out, size, values, basis, first, count) ==
    Loop(SynthesisBands,
         [band \in 0 .. SynthesisBands - 1 |-> [m \in Memory(size) |->
              LET sums == Evaluated(BandSumsNeon(values, basis, first, count, band))
              IN  Loop(count,
                       [row \in 0 .. count - 1 |-> [n \in Memory(size) |->
                            LET at == ((first + row) * SynthesisBands + band) * Ranks
                            IN  Store(Store(n, at, sums[row][0]), at + 2, sums[row][1])]], m)]], out)

SynthesisNeon(out, values, basis, rows) ==
    LET size == rows * SynthesisBands * Ranks
        four == [row \in 0 .. rows - 1 |-> [m \in Memory(size) |->
                    SynthesizeRowsNeon(m, size, values, basis, row, 4)]]
        one == [row \in 0 .. rows - 1 |-> [m \in Memory(size) |->
                   SynthesizeRowsNeon(m, size, values, basis, row, 1)]]
    IN  VectorLoop(rows, 4, four, one, out)

HybridJoinNeon(out, values, taps, rows) == HybridJoin(out, values, taps, rows, 2)

\* The scaled product of two parts.
Scaled(h, t, factor) == Multiplied(Multiplied(h, t), factor)

\* Mutant: the difference and the sum are scaled, not the products.
PathTermNeon_ScaledOnce(h, t, factor) ==
    <<Multiplied(Subtracted(Multiplied(h[1], t[1]), Multiplied(h[2], t[2])), factor),
      Multiplied(Added(Multiplied(h[1], t[2]), Multiplied(h[2], t[1])), factor)>>

\* What two bands of a path add to an ear.
PathTermNeon(h, t, factor) ==
    <<Subtracted(Scaled(h[1], t[1], factor), Scaled(h[2], t[2], factor)),
      Added(Scaled(h[1], t[2], factor), Scaled(h[2], t[1], factor))>>

PathPairNeon(m, transfer, history, scale, ear, band) ==
    LET at == ear * PathBands + band
        output == Parts(m, at)
        term == PathTermNeon(Parts(history, band), Parts(transfer, at), Broadcast(scale, 2))
    IN  StoreParts(m, at, [p \in 1 .. 2 |-> Added(output[p], term[p])])

PathNeon(out, transfer, histories, scale) ==
    LET vector(ear) == [band \in 0 .. PathBands - 1 |-> [m \in Memory(4 * PathBands) |->
                           PathPairNeon(m, transfer, histories[ear], scale, ear, band)]]
        rest(ear) == [band \in 0 .. PathBands - 1 |-> [m \in Memory(4 * PathBands) |->
                         PathRest(m, transfer, histories[ear], scale, ear, band)]]
    IN  Loop(2, [ear \in 0 .. 1 |-> [m \in Memory(4 * PathBands) |->
                    VectorLoop(PathBands, 2, vector(ear), rest(ear), m)]], out)

\* Two complexes from an iteration, but one vector: the second is not reached.
AxpyNeon(out, field, scale, count) == Axpy(out, field, scale, count, 2, 2)

AnalysisNeon(out, source, coefficients, rows) == Analysis(out, source, coefficients, rows, 2)

MultiplyPairNeon(m, left, right, k) == StoreParts(m, k, ComplexMulNeon(Parts(left, k), Parts(right, k)))

MultiplyNeon(out, left, right, count) ==
    VectorLoop(count, 2,
               [k \in 0 .. count - 1 |-> [m \in Memory(2 * count) |-> MultiplyPairNeon(m, left, right, k)]],
               [k \in 0 .. count - 1 |-> [m \in Memory(2 * count) |-> MultiplyRest(m, left, right, k)]], out)

-----------------------------------------------------------------------------
(* The kernels as their callers know them: the unit the table names does   *)
(* the work.  There is no SSE2 unit, and no synthesis in the AVX-512 one.  *)

fft_butterflies(isa, data, size, table, begin) ==
    CASE isa = "avx2" -> ButterfliesAvx2(data, size, table, begin)
      [] isa = "avx512" -> ButterfliesAvx512(data, size, table, begin)
      [] isa = "neon" -> ButterfliesNeon(data, size, table, begin)
      [] OTHER -> ButterfliesScalar(data, size, table, begin)

qmf_synthesis_basis(isa, out, values, basis, rows) ==
    CASE isa = "avx2" -> SynthesisAvx2(out, values, basis, rows)
      [] isa = "neon" -> SynthesisNeon(out, values, basis, rows)
      [] OTHER -> SynthesisScalar(values, basis, rows)

hybrid_low_join(isa, out, values, taps, rows) ==
    CASE isa = "avx2" -> HybridJoinAvx2(out, values, taps, rows)
      [] isa = "avx512" -> HybridJoinAvx512(out, values, taps, rows)
      [] isa = "neon" -> HybridJoinNeon(out, values, taps, rows)
      [] OTHER -> HybridJoinScalar(values, taps, rows)

render_hybrid_path(isa, out, transfer, histories, scale) ==
    CASE isa = "avx2" -> PathAvx2(out, transfer, histories, scale)
      [] isa = "avx512" -> PathAvx512(out, transfer, histories, scale)
      [] isa = "neon" -> PathNeon(out, transfer, histories, scale)
      [] OTHER -> PathScalar(out, transfer, histories, scale)

complex_axpy(isa, out, field, scale, count) ==
    CASE isa = "avx2" -> AxpyAvx2(out, field, scale, count)
      [] isa = "avx512" -> AxpyAvx512(out, field, scale, count)
      [] isa = "neon" -> AxpyNeon(out, field, scale, count)
      [] OTHER -> AxpyScalar(out, field, scale, count)

qmf_analysis_taps(isa, out, source, coefficients, rows) ==
    CASE isa = "avx2" -> AnalysisAvx2(out, source, coefficients, rows)
      [] isa = "avx512" -> AnalysisAvx512(out, source, coefficients, rows)
      [] isa = "neon" -> AnalysisNeon(out, source, coefficients, rows)
      [] OTHER -> AnalysisScalar(out, source, coefficients, rows)

complex_multiply(isa, out, left, right, count) ==
    CASE isa = "avx2" -> MultiplyAvx2(out, left, right, count)
      [] isa = "avx512" -> MultiplyAvx512(out, left, right, count)
      [] isa = "neon" -> MultiplyNeon(out, left, right, count)
      [] OTHER -> MultiplyScalar(left, right, count)

=============================================================================
