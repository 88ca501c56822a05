----------------------------- MODULE Filterbank -----------------------------
(***************************************************************************)
(* The filterbanks of the binaural renderers: a 64-band QMF whose lowest   *)
(* bands are split further (77 hybrid bands), and the way back.  There are *)
(* four.  The classes of jochrtf_renderer.cpp and of PublicFilterbank join *)
(* their history in front of a block, the Renderer of                      *)
(* binaural_renderer.cpp shifts registers, RosellaFilterbank writes rings. *)
(*                                                                         *)
(* A hop of 64 samples is one number here: what the banks do within a hop  *)
(* (modulation, FFT, sparse maps) has no memory.  Two hybrid bands stay    *)
(* apart, a low one that is filtered again and a high one that is delayed. *)
(* Every bank works on one channel; the code runs the same loop on each.   *)
(***************************************************************************)
EXTENDS Integers, FiniteSets, Sequences, SequencesExt

CONSTANTS
    QmfTaps,       \* weights of the QMF analysis by lag: 10
    LowTaps,       \* weights of the low hybrid bands by lag: 13
    HighDelay,     \* slots the high hybrid bands wait for the low ones: 6
    SynthTaps,     \* weights of the QMF synthesis by lag: 10
    RingLowTaps,   \* the low hybrid bands of the ring bank: 11
    RingHighDelay  \* kHybridDelay: 3

ASSUME FilterbankAssumption ==
    /\ \A taps \in {QmfTaps, LowTaps, SynthTaps, RingLowTaps} : taps \in Seq(Int) /\ Len(taps) > 1
    /\ HighDelay \in Nat \ {0} /\ RingHighDelay \in 0 .. Len(RingLowTaps) - 1

BankKinds == {"jochrtf", "public", "shifted", "captured"}

\* v itself.  TLC evaluates a function when it is compared, not where it is built.
Evaluated(v) == CHOOSE w \in {v} : w = v
Run(Step(_, _), start, inputs) == FoldLeft(LAMBDA acc, x : Evaluated(Step(acc, x)), start, inputs)

Total(f) == FoldFunction(LAMBDA a, b : a + b, 0, f)
Silence(n) == [i \in 1 .. n |-> 0]

\* What a filter is: the definition the designs are measured against.  What
\* came before the first slot is silent.
At(xs, n) == IF n \in 1 .. Len(xs) THEN xs[n] ELSE 0
Convolved(xs, taps, n) == Total([lag \in 0 .. Len(taps) - 1 |-> At(xs, n - lag) * taps[lag + 1]])
Filtered(xs, taps) == [n \in 1 .. Len(xs) |-> Convolved(xs, taps, n)]
Delayed(xs, d) == [n \in 1 .. Len(xs) |-> At(xs, n - d)]

-----------------------------------------------------------------------------
\* Joined history: a block at a time, read at past + slot - lag.

JoinedSums(joined, past, taps, n) ==
    [s \in 1 .. n |-> Total([lag \in 0 .. past |-> joined[past + s - lag] * taps[lag + 1]])]

\* Mutant: the history is the end of the block alone.
JoinedFilter_ShortBlock(history, taps, xs) ==
    [out |-> JoinedSums(history \o xs, Len(history), taps, Len(xs)),
     state |-> [lag \in 1 .. Len(history) |-> At(xs, Len(xs) - Len(history) + lag)]]

\* QmfAnalysis: the history is the end of what was joined, which for a short
\* block is partly history.
JoinedFilter(history, taps, xs) ==
    [out |-> JoinedSums(history \o xs, Len(history), taps, Len(xs)),
     state |-> SubSeq(history \o xs, Len(xs) + 1, Len(xs) + Len(history))]

JochrtfLow(history, qmf) == JoinedFilter(history, LowTaps, qmf)
JochrtfHigh(history, qmf) ==
    [out |-> SubSeq(history \o qmf, 1, Len(qmf)),
     state |-> SubSeq(history \o qmf, Len(qmf) + 1, Len(qmf) + Len(history))]

PublicQmf(history, xs) == JoinedFilter(history, QmfTaps, xs)
PublicLow(history, qmf) == JoinedFilter(history, LowTaps, qmf)

\* The high bands of PublicFilterbank join nothing: slot n of history and
\* block together.
PublicSlot(history, qmf, n) == IF n <= HighDelay THEN history[n] ELSE qmf[n - HighDelay]
PublicHigh(history, qmf) ==
    [out |-> [s \in 1 .. Len(qmf) |-> PublicSlot(history, qmf, s)],
     state |-> [entry \in 1 .. HighDelay |-> PublicSlot(history, qmf, Len(qmf) + entry)]]

-----------------------------------------------------------------------------
\* Shift registers: a slot at a time, the newest entry first.

ShiftIn(register, x) == <<x>> \o Front(register)
Weighted(register, taps) == Total([lag \in 1 .. Len(register) |-> register[lag] * taps[lag]])

\* analyze_qmf
ShiftedQmf(register, x) ==
    [out |-> Weighted(ShiftIn(register, x), QmfTaps), state |-> ShiftIn(register, x)]

\* analyze_hybrid: its low bands, and its high ones with the oldest entry first.
ShiftedLow(register, x) ==
    [out |-> Weighted(ShiftIn(register, x), LowTaps), state |-> ShiftIn(register, x)]
ShiftedHigh(register, x) == [out |-> Head(register), state |-> Append(Tail(register), x)]

\* synthesize_qmf: its register holds the slots before this one only.
ShiftedSynthesis(register, x) ==
    [out |-> x * SynthTaps[1] + Weighted(register, Tail(SynthTaps)), state |-> ShiftIn(register, x)]

-----------------------------------------------------------------------------
\* Rings: a slot at a time, at a position that moves on.

FreshRing(n) == [memory |-> [p \in 0 .. n - 1 |-> 0], position |-> 0]
Write(ring, x) == [ring.memory EXCEPT ![ring.position] = x]
Written(ring, x) == [memory |-> Write(ring, x), position |-> (ring.position + 1) % Cardinality(DOMAIN ring.memory)]

\* The slot of the given lag, read before the position moves on.
RingAt(ring, n, lag) == ring.memory[(ring.position + n - lag) % n]
RingSums(memory, position, taps, n) ==
    Total([tap \in 0 .. n - 1 |-> memory[(position + tap + 1) % n] * taps[n - tap]])

\* analyze_qmf: the tables list the oldest slot first.
RingQmf(ring, x) ==
    [out |-> RingSums(Write(ring, x), ring.position, QmfTaps, Len(QmfTaps)), state |-> Written(ring, x)]

\* analyze_hybrid: the high bands are read from the ring of the low ones.
RingHybrid(ring, x) ==
    [low |-> RingSums(Write(ring, x), ring.position, RingLowTaps, Len(RingLowTaps)),
     high |-> RingAt([ring EXCEPT !.memory = Write(ring, x)], Len(RingLowTaps), RingHighDelay)]

\* synthesize_qmf
RingSynthesis(ring, x) ==
    [out |-> Total([lag \in 0 .. Len(SynthTaps) - 1 |->
                RingAt([ring EXCEPT !.memory = Write(ring, x)], Len(SynthTaps), lag) * SynthTaps[lag + 1]]),
     state |-> Written(ring, x)]

-----------------------------------------------------------------------------
\* The banks.  A hybrid slot is its low and its high band.

\* reset
FreshJoined == [qmf |-> Silence(Len(QmfTaps) - 1), low |-> Silence(Len(LowTaps) - 1), high |-> Silence(HighDelay)]
FreshShifted == [qmf |-> Silence(Len(QmfTaps)), low |-> Silence(Len(LowTaps)), high |-> Silence(HighDelay)]
FreshRings == [qmf |-> FreshRing(Len(QmfTaps)), low |-> FreshRing(Len(RingLowTaps))]
FreshAnalysis(kind) ==
    CASE kind \in {"jochrtf", "public"} -> FreshJoined
      [] kind = "shifted" -> FreshShifted
      [] kind = "captured" -> FreshRings
FreshSynthesis(kind) ==
    IF kind = "captured" THEN FreshRing(Len(SynthTaps)) ELSE Silence(Len(SynthTaps) - 1)

Slots(low, high) == [n \in DOMAIN low |-> [low |-> low[n], high |-> high[n]]]
Joined(qmf, low, high) ==
    [bank |-> [qmf |-> qmf.state, low |-> low.state, high |-> high.state], hybrid |-> Slots(low.out, high.out)]

\* The analysis chain of jochrtf_renderer.cpp, and analysis_77.
AfterJochrtfQmf(bank, qmf) == Joined(qmf, JochrtfLow(bank.low, qmf.out), JochrtfHigh(bank.high, qmf.out))
JochrtfAnalysis(bank, xs) == AfterJochrtfQmf(bank, Evaluated(JoinedFilter(bank.qmf, QmfTaps, xs)))
AfterPublicQmf(bank, qmf) == Joined(qmf, PublicLow(bank.low, qmf.out), PublicHigh(bank.high, qmf.out))
PublicAnalysis(bank, xs) == AfterPublicQmf(bank, Evaluated(PublicQmf(bank.qmf, xs)))

\* A slot of binaural_renderer.cpp
ShiftedSlot(acc, qmf, low, high) ==
    [bank |-> [qmf |-> qmf.state, low |-> low.state, high |-> high.state],
     hybrid |-> Append(acc.hybrid, [low |-> low.out, high |-> high.out])]
AfterShiftedQmf(acc, qmf) ==
    ShiftedSlot(acc, qmf, ShiftedLow(acc.bank.low, qmf.out), ShiftedHigh(acc.bank.high, qmf.out))
AnalyseShifted(acc, x) == AfterShiftedQmf(acc, ShiftedQmf(acc.bank.qmf, x))

\* A slot of RosellaFilterbank
AfterRingQmf(acc, qmf) ==
    [bank |-> [qmf |-> qmf.state, low |-> Written(acc.bank.low, qmf.out)],
     hybrid |-> Append(acc.hybrid, RingHybrid(acc.bank.low, qmf.out))]
AnalyseRing(acc, x) == AfterRingQmf(acc, RingQmf(acc.bank.qmf, x))

Analyse(kind, bank, xs) ==
    CASE kind = "jochrtf" -> JochrtfAnalysis(bank, xs)
      [] kind = "public" -> PublicAnalysis(bank, xs)
      [] kind = "shifted" -> Run(AnalyseShifted, [bank |-> bank, hybrid |-> <<>>], xs)
      [] kind = "captured" -> Run(AnalyseRing, [bank |-> bank, hybrid |-> <<>>], xs)

\* HybridSynthesis: an instantaneous map.
Merged(hybrid) == [n \in DOMAIN hybrid |-> hybrid[n].low + hybrid[n].high]

SlotOut(acc, y) == [bank |-> y.state, out |-> Append(acc.out, y.out)]
SynthesiseShifted(acc, x) == SlotOut(acc, ShiftedSynthesis(acc.bank, x))
SynthesiseRing(acc, x) == SlotOut(acc, RingSynthesis(acc.bank, x))

\* QmfSynthesis, and synthesis_77
BlockOut(y) == [bank |-> y.state, out |-> y.out]
JochrtfSynthesis(history, qmf) == BlockOut(JoinedFilter(history, SynthTaps, qmf))
PublicSynthesis(history, qmf) == BlockOut(JoinedFilter(history, SynthTaps, qmf))

Synthesise(kind, bank, hybrid) ==
    CASE kind = "jochrtf" -> JochrtfSynthesis(bank, Merged(hybrid))
      [] kind = "public" -> PublicSynthesis(bank, Merged(hybrid))
      [] kind = "shifted" -> Run(SynthesiseShifted, [bank |-> bank, out |-> <<>>], Merged(hybrid))
      [] kind = "captured" -> Run(SynthesiseRing, [bank |-> bank, out |-> <<>>], Merged(hybrid))

-----------------------------------------------------------------------------
\* What the banks are to compute from all that was ever fed to them.

HybridOfQmf(kind, qmf) ==
    IF kind = "captured" THEN Slots(Filtered(qmf, RingLowTaps), Delayed(qmf, RingHighDelay))
                         ELSE Slots(Filtered(qmf, LowTaps), Delayed(qmf, HighDelay))
HybridOf(kind, xs) == Evaluated(HybridOfQmf(kind, Evaluated(Filtered(xs, QmfTaps))))
SamplesOf(hybrid) == Evaluated(Filtered(Evaluated(Merged(hybrid)), SynthTaps))
=============================================================================
