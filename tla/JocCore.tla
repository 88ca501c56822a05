------------------------------ MODULE JocCore ------------------------------
(***************************************************************************)
(* The JOC core (class ejoc::Renderer in src/joc_core/eac3joc_core.cpp)    *)
(* as it is called: a frame of core channels goes in, every object the     *)
(* mask selects comes out, and what overlaps the next frame stays in delay *)
(* lines and filter memories.                                              *)
(*                                                                         *)
(* A frame is Slots time slots.  A slot of a core channel is known by its  *)
(* number and by the gains it is scaled with; a filtered slot is known by  *)
(* the window of input slots it is computed from, a slot of an object by   *)
(* what it is mixed from and by its matrix coefficient.                    *)
(***************************************************************************)
EXTENDS Integers, FiniteSets, Sequences

CONSTANTS
    Objects,     \* 0 .. EJOC_MAX_OBJECTS - 1
    Slots,       \* time slots of a frame: 24
    Group,       \* slots surround_post handles at once: 4
    Delay,       \* slots of delay of a core channel: 10
    Taps,        \* earlier slots a filter remembers: 9
    LfeDelay,    \* kLfeDelay, in slots
    Frames       \* the calls considered, see Frame

Channels == 0 .. 6
Surround == {3, 4}
Lanes == 0 .. 4

\* The arguments of a process call.  fault says which check refuses them.
Frame ==
    [channels : {5, 7}, phase : BOOLEAN, lfe : BOOLEAN, gain : Nat \ {0}, mask : SUBSET Objects,
     slope : {0, 1}, offset : Seq(Nat), targets : Seq(Nat),
     fault : {"none", "channels", "objects"}]

ASSUME JocCoreAssumption ==
    /\ {Slots, Group, Delay, Taps, LfeDelay} \subseteq Nat \ {0}
    /\ Slots % Group = 0 /\ Group <= Delay /\ LfeDelay < Slots
    /\ Objects \subseteq Nat /\ IsFiniteSet(Objects)
    /\ \A f \in Frames : f \in Frame
    /\ \A f \in Frames : Len(f.offset) = Len(f.targets) /\ Len(f.targets) \in {1, 2}

\* A slot of silence, and memories full of it.
Silent == <<0, 0, 0>>
Zeros(n) == [i \in 1 .. n |-> Silent]
SilentWindow == Zeros(Taps + 1)
SilentWindows(n) == [i \in 1 .. n |-> {SilentWindow}]
Unset == 0

\* The end and the beginning of a delay line of n slots.
Newest(line, n) == SubSeq(line, Len(line) - n + 1, Len(line))

\* reset.  History: n counts the frames since, counts has their channel counts.
FreshCore ==
    [delay   |-> [l \in Lanes |-> Zeros(Delay)],
     fifo    |-> [c \in Channels |-> Zeros(Taps)],
     x       |-> [c \in Channels |-> <<>>],
     later   |-> [c \in Surround |-> SilentWindows(Delay)],
     history |-> [c \in Surround |-> SilentWindows(2 * Delay)],
     lfe     |-> Zeros(LfeDelay),
     matrix  |-> [o \in Objects |-> Unset],
     overlap |-> [o \in Objects |-> [i \in 1 .. Taps |-> <<>>]],
     gain    |-> Unset,
     n       |-> 0,
     counts  |-> {}]

-----------------------------------------------------------------------------
\* Analysis: one job per core channel.

\* A slot of the frame, with the gains between which it is scaled: the gain
\* moves at the start of a frame, here in its first slot.
InSlot(core, f, t) ==
    LET from == IF core.gain = Unset THEN f.gain ELSE core.gain
    IN <<core.n * Slots + t, IF t = 1 THEN from ELSE f.gain, f.gain>>

\* Mutant: the extra pair of a 7-channel frame uses the lanes of L and R.
Lane_Shared(c) == IF c < 3 THEN c ELSE c - 5

\* analysis_channel's delay_lane
Lane(c) == IF c < 3 THEN c ELSE c - 2

\* analysis_slot: the bands of a slot come from it and the Taps slots before.
\* The window, the rotation and the transform weigh each of them.
AnalysisSlot(fed, t) == {SubSeq(fed, t, t + Taps)}

\* analysis_channel.  All channels but the surrounds are delayed before the
\* filter; the filter runs over the last Taps slots and the new one.
Ins(core, f) == [t \in 1 .. Slots |-> InSlot(core, f, t)]
Line(core, f, c) == core.delay[Lane(c)] \o Ins(core, f)
Fed(core, f, c) ==
    core.fifo[c] \o (IF c \in Surround THEN Ins(core, f) ELSE SubSeq(Line(core, f, c), 1, Slots))
AnalysisJob(core, f, c) ==
    [core EXCEPT
        !.delay = IF c \in Surround THEN @
                  ELSE [@ EXCEPT ![Lane(c)] = Newest(Line(core, f, c), Delay)],
        !.fifo[c] = Newest(Fed(core, f, c), Taps),
        !.x[c] = [t \in 1 .. Slots |-> AnalysisSlot(Fed(core, f, c), t)]]

\* One group of slots of a surround channel, whose x, later and history are
\* those of post: the delay that the others had before the filter, and with the
\* phase shift the lowest band from a filter over 2 * Delay + 1 slots, whose
\* middle is the delayed slot.
SurroundGroup(post, first, phase) ==
    LET current == [s \in 1 .. Group |-> post.x[first + s]]
        filtered == post.history \o current
        delayed(s) == post.later[s] \cup (IF phase THEN filtered[s + Delay] ELSE {})
    IN [x |-> [t \in 1 .. Slots |-> IF t \in first + 1 .. first + Group
                                    THEN delayed(t - first) ELSE post.x[t]],
        later |-> SubSeq(post.later, Group + 1, Delay) \o current,
        history |-> Newest(filtered, 2 * Delay)]

\* surround_post, for a channel: one group after the other.
SurroundChannel(core, c, phase) ==
    LET post[g \in 0 .. Slots \div Group] ==
            IF g = 0 THEN [x |-> core.x[c], later |-> core.later[c], history |-> core.history[c]]
            ELSE SurroundGroup(post[g - 1], (g - 1) * Group, phase)
    IN post[Slots \div Group]
SurroundPost(core, f) ==
    LET post == [c \in Surround |-> SurroundChannel(core, c, f.phase)]
    IN [core EXCEPT
           !.x = [c \in Channels |-> IF c \in Surround THEN post[c].x ELSE @[c]],
           !.later = [c \in Surround |-> post[c].later],
           !.history = [c \in Surround |-> post[c].history]]

\* analysis, after its jobs: the gain the next frame starts from.
AfterAnalysis(core, f) == SurroundPost([core EXCEPT !.gain = f.gain], f)

-----------------------------------------------------------------------------
\* Objects: one job per object of the mask.

\* Between two coefficients, at step k of n; at the end it is the second.
Blend(a, b, k, n) == IF a = b \/ k = n THEN <<b>> ELSE <<a, b, k>>

\* matrix_object's coefficient of slot t (0, 1, ...), coming from previous.
Coefficient(f, previous, t) ==
    LET points == Len(f.targets)
        half == Slots \div 2
    IN CASE f.slope = 0 /\ points = 1 -> Blend(previous, f.targets[1], t + 1, Slots)
         [] f.slope = 0 /\ points = 2 /\ t < half -> Blend(previous, f.targets[1], t + 1, half)
         [] f.slope = 0 /\ points = 2 /\ t >= half ->
               Blend(f.targets[1], f.targets[2], t + 1 - half, Slots - half)
         [] f.slope = 1 ->
               IF points = 2 /\ t >= f.offset[2] THEN <<f.targets[2]>>
               ELSE IF t < f.offset[1] THEN <<previous>> ELSE <<f.targets[1]>>

\* matrix_object and synthesis_object: mixed slots, and the filter over the
\* last Taps of them and the new one.
Mixed(core, f, o) ==
    [t \in 1 .. Slots |-> <<UNION {core.x[c][t] : c \in 0 .. f.channels - 1},
                            Coefficient(f, core.matrix[o], t - 1)>>]
Synthesis(core, f, o) == core.overlap[o] \o Mixed(core, f, o)

\* process_one_object: the memories it leaves, and what it writes.
ObjectJob(core, f, o) ==
    [core EXCEPT !.matrix[o] = Head(Coefficient(f, @, Slots - 1)),
                 !.overlap[o] = Newest(Synthesis(core, f, o), Taps)]
ObjectOut(core, f, o) ==
    [t \in 1 .. Slots |-> SubSeq(Synthesis(core, f, o), t, t + Taps)]

\* render_lfe: nothing moves when the call has no LFE.
LfeLine(core, f) == core.lfe \o [t \in 1 .. Slots |-> <<core.n * Slots + t, 1, 1>>]
LfeOut(core, f) == IF f.lfe THEN SubSeq(LfeLine(core, f), 1, Slots) ELSE <<>>
LfeAfter(core, f) == IF f.lfe THEN Newest(LfeLine(core, f), LfeDelay) ELSE core.lfe

-----------------------------------------------------------------------------
\* A call as a whole, one job after the other, as with a single thread.

\* The members of a set of numbers in their order.
Below(n, S) == Cardinality({m \in S : m < n})
Nth(S, i) == CHOOSE n \in S : Below(n, S) = i - 1
Ascending(S) == [i \in 1 .. Cardinality(S) |-> Nth(S, i)]
AnalysisJobs(core, f) ==
    LET done[n \in 0 .. f.channels] ==
            IF n = 0 THEN core ELSE AnalysisJob(done[n - 1], f, n - 1)
    IN done[f.channels]
Analysed(core, f) == AfterAnalysis(AnalysisJobs(core, f), f)
ObjectJobs(core, f) ==
    LET done[n \in 0 .. Cardinality(f.mask)] ==
            IF n = 0 THEN core ELSE ObjectJob(done[n - 1], f, Ascending(f.mask)[n])
    IN done[Cardinality(f.mask)]
Counted(core, f) == [core EXCEPT !.n = @ + 1, !.counts = @ \cup {f.channels}]
Processed(core, f) ==
    LET ready == [Analysed(core, f) EXCEPT !.lfe = LfeAfter(core, f)]
    IN Counted(ObjectJobs(ready, f), f)

\* What the caller gets: the LFE and the selected objects, the others silent.
Rendered(core, f) ==
    [lfe |-> LfeOut(core, f),
     objects |-> [o \in f.mask |-> ObjectOut(Analysed(core, f), f, o)]]

NoOutput == [lfe |-> <<>>, objects |-> <<>>]

=============================================================================
