----------------------------- MODULE BitReader -----------------------------
(***************************************************************************)
(* bits::BitReader: fields of a byte string, most significant bit first.   *)
(* A reader is the sequence of bits before its limit and a position; a     *)
(* position beyond the limit stands for the sticky truncation error, after *)
(* which every field reads as zero.                                        *)
(***************************************************************************)
EXTENDS Integers, Sequences, SequencesExt

\* A machine word is Word values wide.  2^32 in the code; a smaller power
\* keeps TLC's own integers from overflowing.
CONSTANT Word

Number(bits) == FoldLeft(LAMBDA n, b : (2 * n + b) % Word, 0, bits)

Failed(d, p) == p > Len(d)

Remaining(d, p) == IF Failed(d, p) THEN 0 ELSE Len(d) - p

\* read(n) at position p; the position after it is p + n.
Read(d, p, n) == IF p + n > Len(d) THEN 0 ELSE Number(SubSeq(d, p + 1, p + n))

Flag(d, p) == Read(d, p, 1) = 1

\* read_bytes: what a payload of n bits at p holds, its bits if it can.
ReadBits(d, p, n) == IF p + n > Len(d) THEN <<>> ELSE SubSeq(d, p + 1, p + n)

(***************************************************************************)
(* Variable-length fields: groups of w bits, each followed by a bit that   *)
(* says whether another one follows.  The result is the value, the         *)
(* position after it, and whether the chain was longer than allowed.       *)
(***************************************************************************)

RECURSIVE Groups(_, _, _, _, _)
Groups(d, p, w, left, acc) ==
    LET value == (acc + Read(d, p, w)) % Word
        next == p + w + 1
    IN IF Failed(d, next) \/ ~Flag(d, p + w)
       THEN [value |-> value, end |-> next, endless |-> FALSE]
       ELSE IF left = 1 THEN [value |-> 0, end |-> next, endless |-> TRUE]
       ELSE Groups(d, next, w, left - 1, ((value + 1) * 2^w) % Word)

\* variable_bits: at most most groups, and a longer chain is an error.
VariableBits(d, p, w, most) == Groups(d, p, w, most, 0)

\* variable_bits_max of the OAMD parser: a chain of more than most further
\* groups is simply cut.
RECURSIVE MoreGroups(_, _, _, _, _)
MoreGroups(d, p, w, left, acc) ==
    LET value == (acc + Read(d, p, w)) % Word
        next == p + w + 1
    IN IF Failed(d, next) \/ ~Flag(d, p + w) \/ left = 0
       THEN [value |-> value, end |-> next]
       ELSE MoreGroups(d, next, w, left - 1, ((value + 1) * 2^w) % Word)

VariableBitsMax(d, p, w, most) ==
    MoreGroups(d, p, w, IF most > 1 THEN most ELSE 0, 0)

=============================================================================
