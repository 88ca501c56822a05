--------------------------- MODULE PositionTimeline ---------------------------
(***************************************************************************)
(* OamdPositionTimeline (src/timeline/position_timeline.cpp) inside the    *)
(* binaural runtime that owns it (JochrtfRuntime, RosellaRuntime).  Each   *)
(* submitted frame may carry an OAMD update, which schedules a transition  *)
(* for every object it moves; the runtime then asks for the positions at   *)
(* the start of each block it renders.  JochrtfRuntime renders a block as  *)
(* soon as it is full, RosellaRuntime a chunk of whole frames at a time,   *)
(* so updates arrive while submitted samples are still unrendered.         *)
(*                                                                         *)
(* A position is one integer, of which a ramp interpolates exactly.  An    *)
(* update holds one payload's block offset (the outer EMDF offset          *)
(* included), ramp and moved objects; last_target_ and previous_targets_,  *)
(* which the code always assigns together, are one variable.               *)
(***************************************************************************)
EXTENDS Integers, Sequences, SequencesExt

CONSTANTS
    N,           \* kTimelineObjects
    Grid,        \* kMetadataBlockSamples
    Block,       \* kBlockSamples of the runtime
    Frame,       \* JOC_FRAME_SAMPLES
    Chunks,      \* samples a runtime renders at a time: Block, or whole frames
    Delays,      \* object_delay_samples of the configurations considered
    Updates,     \* the OAMD updates a frame may carry, None among them
    None,        \* no update; an object an update does not move
    Bed,         \* the objects that are channels of a declared bed
    BedPosition, \* the position its layout gives them
    Zero,        \* the position of a track without initial state
    Corner,      \* the position of an object no update has moved
    FlushTail,   \* samples of silence a finish renders
    MaxFrames,   \* bound on the frames submitted in a pass
    MaxPass      \* bound on the resets

Object == 1 .. N
Update == Updates \ {None}

ASSUME TimelineAssumption ==
    /\ N \in Nat /\ FlushTail \in Nat /\ MaxFrames \in Nat /\ MaxPass \in Nat
    /\ Grid \in Nat \ {0, 1} /\ Block \in Nat \ {0} /\ Frame \in Nat
    /\ \E k \in 0 .. Frame : Frame = Grid * k
    /\ \E k \in 0 .. Frame : Frame = Block * k
    /\ Chunks \subseteq Nat \ {0} /\ Delays \subseteq Nat
    /\ \A c \in Chunks : \E k \in 0 .. c : c = Block * k
    /\ BedPosition \in Int /\ Zero \in Int /\ Corner \in Int /\ Bed \subseteq Object
    /\ None \notin Int
    /\ \A u \in Update :
          /\ u.offset \in Nat /\ u.ramp \in Nat
          /\ u.moves \in [Object -> Int \cup {None}]

VARIABLES
    chunk, delay,     \* the runtime's chunk size and object delay
    bed,              \* fixed_: whether the bed has been declared
    coded,            \* state_: the position the OAMD state gives each object
    initialized,      \* initialized_
    lastCoded,        \* last_coded_event_sample_
    lastTarget,       \* last_target_ and previous_targets_
    transitions,      \* transitions_ of each track
    initial,          \* initial_ of each track
    cursor,           \* cursor_ of each track: how many transitions are over
    lastQuery,        \* last_query_sample_, the same for every track
    input,            \* input_samples
    processed,        \* processed samples: the next block to render
    finished,         \* RosellaRuntime's finished
    status,           \* the result of the last call
    submitted, pass,  \* bounds
    changes, start,   \* history: accepted changes and initial position of each object
    answers           \* history: the positions each block was rendered at

configVars == <<chunk, delay>>
trackVars == <<lastTarget, transitions, initial>>
queryVars == <<cursor, lastQuery, processed, answers>>
vars == <<chunk, delay, bed, coded, initialized, lastCoded, lastTarget, transitions, initial,
          cursor, lastQuery, input, processed, finished, status, submitted, pass, changes, start, answers>>

Init ==
    /\ chunk \in Chunks /\ delay \in Delays
    /\ bed = FALSE /\ pass = 0
    /\ coded = [o \in Object |-> Corner]
    /\ initialized = FALSE /\ lastCoded = -1
    /\ lastTarget = [o \in Object |-> Zero] /\ initial = [o \in Object |-> Zero]
    /\ transitions = [o \in Object |-> <<>>]
    /\ cursor = [o \in Object |-> 0] /\ lastQuery = -1
    /\ input = 0 /\ processed = 0 /\ finished = FALSE /\ status = "ok" /\ submitted = 0
    /\ changes = [o \in Object |-> <<>>] /\ start = [o \in Object |-> Zero]
    /\ answers = <<>>

-----------------------------------------------------------------------------
(***************************************************************************)
(* Scheduling an update.                                                   *)
(***************************************************************************)
\* Mutant: the grid boundary at or before the sample's predecessor.
Align_TooEarly(sample) == Grid * ((sample - Grid \div 2) \div Grid)

\* align_metadata_sample: the nearest grid boundary, ties towards the earlier.
Align(sample) == Grid * ((sample + Grid \div 2 - 1) \div Grid)

End(t) == t.start + t.ramp

CodedEvent(u) == input + u.offset
TransitionStart(u) == Align(CodedEvent(u) + delay)

\* OamdState::apply: an object the update does not move keeps its position.
Applied(u) == [o \in Object |-> IF u.moves[o] = None THEN coded[o] ELSE u.moves[o]]
Targets(u) == [o \in Object |-> IF bed /\ o \in Bed THEN BedPosition ELSE Applied(u)[o]]

\* Mutant: the overlap check looks at where the last ramp starts, not at its end.
Overlaps_Start(o, s) == transitions[o] # <<>> /\ s < Last(transitions[o]).start

\* ObjectPositionTrack::append refuses a start within the last ramp.
Overlaps(o, s) == transitions[o] # <<>> /\ s < End(Last(transitions[o]))

\* append replaces a jump that the new transition starts together with.
Replaces(o, s) ==
    transitions[o] # <<>> /\ Last(transitions[o]).start = s /\ Last(transitions[o]).ramp = 0

Appended(o, s, ramp, target) ==
    LET t == [start |-> s, ramp |-> ramp, origin |-> lastTarget[o], target |-> target]
    IN  IF Replaces(o, s)
        THEN [transitions[o] EXCEPT ![Len(transitions[o])] =
                 [t EXCEPT !.origin = Last(transitions[o]).origin]]
        ELSE Append(transitions[o], t)

Moved(u) == {o \in Object : Targets(u)[o] # lastTarget[o]}

\* The objects whose tracks are updated before the first one that refuses.
Accepting(u) ==
    {o \in Moved(u) : \A p \in Moved(u) : p <= o => ~Overlaps(p, TransitionStart(u))}

-----------------------------------------------------------------------------
(***************************************************************************)
(* submit_frame with an update.  What is rejected leaves its mark on the   *)
(* carried state, and the frame is not consumed.                           *)
(***************************************************************************)
\* Mutant: an initial state is taken whenever it comes.
MayInitialize_Always == ~initialized

MayInitialize == ~initialized /\ processed = 0

\* An update older than its predecessor.
RejectStale(u) ==
    /\ CodedEvent(u) < lastCoded
    /\ coded' = Applied(u)
    /\ status' = "non_monotonic_binaural_updates"
    /\ UNCHANGED <<initialized, lastCoded, trackVars, input, changes, start>>

\* The first update, too late to be the state at sample 0.
RejectLate(u) ==
    /\ CodedEvent(u) >= lastCoded /\ ~initialized /\ ~MayInitialize
    /\ coded' = Applied(u) /\ lastCoded' = CodedEvent(u)
    /\ status' = "late_initial_binaural_state"
    /\ UNCHANGED <<initialized, trackVars, input, changes, start>>

\* The first update, which gives the initial state.
Initialize(u) ==
    /\ CodedEvent(u) >= lastCoded /\ MayInitialize
    /\ coded' = Applied(u) /\ lastCoded' = CodedEvent(u)
    /\ initialized' = TRUE
    /\ initial' = Targets(u) /\ lastTarget' = Targets(u) /\ start' = Targets(u)
    /\ input' = input + Frame /\ status' = "ok"
    /\ UNCHANGED <<transitions, changes>>

\* A later update: the tracks it moves are appended to in the order of their
\* numbers, up to the first one that refuses.
Schedule(u) ==
    /\ CodedEvent(u) >= lastCoded /\ initialized
    /\ coded' = Applied(u) /\ lastCoded' = CodedEvent(u)
    /\ LET s == TransitionStart(u)
           accepting == Accepting(u)
       IN  /\ transitions' = [o \in Object |->
                  IF o \in accepting THEN Appended(o, s, u.ramp, Targets(u)[o]) ELSE transitions[o]]
           /\ lastTarget' = [o \in Object |->
                  IF o \in accepting THEN Targets(u)[o] ELSE lastTarget[o]]
           /\ changes' = [o \in Object |->
                  IF o \in accepting
                  THEN Append(changes[o], [start |-> s, ramp |-> u.ramp, target |-> Targets(u)[o]])
                  ELSE changes[o]]
           /\ IF accepting = Moved(u)
              THEN status' = "ok" /\ input' = input + Frame
              ELSE status' = "overlapping_binaural_position_ramps" /\ UNCHANGED input
    /\ UNCHANGED <<initialized, initial, start>>

\* Every full chunk of the samples submitted is rendered before the call
\* returns, and a finish renders the rest and its tail.
Due == IF finished THEN input + FlushTail ELSE chunk * (input \div chunk)
Idle == processed >= Due

SubmitFrame ==
    /\ Idle /\ ~finished /\ submitted < MaxFrames
    /\ submitted' = submitted + 1
    /\ \/ /\ None \in Updates
          /\ input' = input + Frame /\ status' = "ok"
          /\ UNCHANGED <<coded, initialized, lastCoded, trackVars, changes, start>>
       \/ \E u \in Update : RejectStale(u) \/ RejectLate(u) \/ Initialize(u) \/ Schedule(u)
    /\ UNCHANGED <<configVars, bed, queryVars, finished, pass>>

\* The bed is declared: its objects have fixed positions from the next update on.
\* The thread that reads the bitstream declares it, whatever the caller's thread
\* has submitted and rendered by then.
DeclareBed ==
    /\ ~bed /\ Bed # {}
    /\ bed' = TRUE
    /\ UNCHANGED <<configVars, coded, initialized, lastCoded, trackVars, queryVars, input, finished,
                   status, submitted, pass, changes, start>>

\* finish of RosellaRuntime; JochrtfRuntime's asks for no position.
Finish ==
    /\ Idle /\ ~finished /\ chunk # Block
    /\ finished' = TRUE /\ status' = "ok"
    /\ UNCHANGED <<configVars, bed, coded, initialized, lastCoded, trackVars, queryVars, input,
                   submitted, pass, changes, start>>

ResetTracks ==
    /\ lastTarget' = [o \in Object |-> Zero] /\ initial' = [o \in Object |-> Zero]
    /\ transitions' = [o \in Object |-> <<>>]
    /\ cursor' = [o \in Object |-> 0] /\ lastQuery' = -1

\* reset: everything but the bed and the configuration.
Reset ==
    /\ Idle /\ pass < MaxPass
    /\ pass' = pass + 1
    /\ ResetTracks
    /\ coded' = [o \in Object |-> Corner]
    /\ initialized' = FALSE /\ lastCoded' = -1
    /\ input' = 0 /\ processed' = 0 /\ finished' = FALSE /\ status' = "ok" /\ submitted' = 0
    /\ changes' = [o \in Object |-> <<>>] /\ start' = [o \in Object |-> Zero]
    /\ answers' = <<>>
    /\ UNCHANGED <<configVars, bed>>

-----------------------------------------------------------------------------
(***************************************************************************)
(* Rendering a block.                                                      *)
(***************************************************************************)
\* position_at drops the transitions that are over at the sample.
Passed(o, sample) ==
    CHOOSE c \in cursor[o] .. Len(transitions[o]) :
        /\ \A i \in cursor[o] + 1 .. c : End(transitions[o][i]) <= sample
        /\ c < Len(transitions[o]) => End(transitions[o][c + 1]) > sample

Between(from, to, elapsed, ramp) == from + ((to - from) * elapsed) \div ramp

\* The position of one object, after dropping what is over.
PositionAt(o, sample) ==
    LET c == Passed(o, sample)
        rest == IF c > cursor[o] THEN transitions[o][c].target ELSE initial[o]
        t == transitions[o][c + 1]
    IN  IF c = Len(transitions[o]) \/ sample < t.start
        THEN rest
        ELSE Between(t.origin, t.target, sample - t.start, t.ramp)

RenderBlock ==
    /\ ~Idle
    /\ lastQuery' = processed
    /\ answers' = Append(answers, [o \in Object |-> PositionAt(o, processed)])
    /\ cursor' = [o \in Object |-> Passed(o, processed)]
    /\ initial' = [o \in Object |->
           IF cursor'[o] > cursor[o] THEN transitions[o][cursor'[o]].target ELSE initial[o]]
    /\ processed' = processed + Block
    /\ UNCHANGED <<configVars, bed, coded, initialized, lastCoded, lastTarget, transitions, input,
                   finished, status, submitted, pass, changes, start>>

Next == SubmitFrame \/ DeclareBed \/ Finish \/ Reset \/ RenderBlock

Spec == Init /\ [][Next]_vars

-----------------------------------------------------------------------------
Ordered(o) ==
    \A i \in 1 .. Len(transitions[o]) - 1 :
        /\ End(transitions[o][i]) <= transitions[o][i + 1].start
        /\ transitions[o][i].start < transitions[o][i + 1].start

\* The variables have their types, no track's cursor is beyond its transitions,
\* and the query made last is older than the next block: the guard of
\* position_at against decreasing samples never fires.
TypeOK ==
    /\ chunk \in Chunks /\ delay \in Delays /\ bed \in BOOLEAN
    /\ coded \in [Object -> Int] /\ lastTarget \in [Object -> Int]
    /\ initial \in [Object -> Int] /\ start \in [Object -> Int]
    /\ initialized \in BOOLEAN /\ finished \in BOOLEAN
    /\ lastCoded \in Nat \cup {-1}
    /\ transitions \in [Object -> Seq([start : Nat, ramp : Nat, origin : Int, target : Int])]
    /\ changes \in [Object -> Seq([start : Nat, ramp : Nat, target : Int])]
    /\ cursor \in [Object -> Nat]
    /\ \A o \in Object : cursor[o] <= Len(transitions[o])
    /\ input \in Nat /\ processed \in Nat
    /\ lastQuery \in Nat \cup {-1} /\ lastQuery < processed
    /\ status \in {"ok", "non_monotonic_binaural_updates", "late_initial_binaural_state",
                   "overlapping_binaural_position_ramps"}
    /\ submitted \in 0 .. MaxFrames /\ pass \in 0 .. MaxPass
    /\ answers \in Seq([Object -> Int])

(***************************************************************************)
(* What the accepted updates say of the position of object o at a sample:  *)
(* the last change that has started rules, ramping from the target of the  *)
(* last change that started before it.                                     *)
(***************************************************************************)
Started(o, sample) == {i \in DOMAIN changes[o] : changes[o][i].start <= sample}
Latest(S) == CHOOSE i \in S : \A j \in S : j <= i
TargetBefore(o, sample) ==
    IF Started(o, sample) = {} THEN start[o] ELSE changes[o][Latest(Started(o, sample))].target
Meant(o, sample) ==
    IF Started(o, sample) = {} THEN start[o]
    ELSE LET c == changes[o][Latest(Started(o, sample))]
         IN  IF sample >= c.start + c.ramp
             THEN c.target
             ELSE Between(TargetBefore(o, c.start - 1), c.target, sample - c.start, c.ramp)

\* Every block was rendered at the positions that all the updates accepted so
\* far, the later ones too, give its first sample: whatever the chunk, an
\* update is scheduled before the samples it concerns are rendered, and the
\* cursors lose nothing.  Holds after rejected updates as well.
AnswersAreFinal ==
    \A b \in DOMAIN answers : \A o \in Object : answers[b][o] = Meant(o, (b - 1) * Block)

\* The transitions of an object follow one another without overlap, and each
\* starts from the target of the one before it, so that an object jumps only
\* where an update has no ramp.
RampsConnect ==
    \A o \in Object :
        /\ Ordered(o)
        /\ \A i \in 1 .. Len(transitions[o]) - 1 :
              transitions[o][i + 1].origin = transitions[o][i].target
        /\ transitions[o] # <<>> => Last(transitions[o]).target = lastTarget[o]

\* No step but a reset changes what a track says of samples already rendered: a
\* transition that is added or replaced starts at the next unrendered sample or
\* after it.
Rewritten(o) ==
    {i \in DOMAIN transitions[o] :
        i \notin DOMAIN transitions'[o] \/ transitions'[o][i] # transitions[o][i]}
Added(o) == DOMAIN transitions'[o] \ DOMAIN transitions[o]
NeverRewrites ==
    [][pass' = pass =>
          \A o \in Object :
              /\ \A i \in Rewritten(o) : transitions[o][i].start >= processed
              /\ \A i \in Rewritten(o) \cup Added(o) :
                    i \in DOMAIN transitions'[o] => transitions'[o][i].start >= processed]_vars

=============================================================================
