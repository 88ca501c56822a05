--------------------------- MODULE SpeakerRenderer ---------------------------
(***************************************************************************)
(* The gains of the speaker renderer (src/speaker/speaker_renderer.cpp)    *)
(* and of its caller, which turns the OAMD update of a frame into an event *)
(* (step in src/speaker/speaker_step.cpp).  A call renders a frame block   *)
(* by block.  An event is applied at the block boundary nearest to its     *)
(* sample and sets the gains of every object in every channel on a ramp of *)
(* whole blocks, which later events and frames may interrupt or outlast.   *)
(*                                                                         *)
(* Panning, trim and balance are a table from controls and positions to    *)
(* gains.  Gains are integers that the ramps considered divide.            *)
(***************************************************************************)
EXTENDS Integers, Sequences, SequencesExt

CONSTANTS
    Objects, Channels, Positions,
    Corner,        \* the position of an object no update has moved
    Bed,           \* the objects that are channels of a declared bed
    BedPosition,   \* the position bed_positions has for them
    Controls,      \* speaker controls, "automatic" among them
    Gain,          \* Gain[controls][object][position][channel]: render_point
    None,          \* no update, an object not moved, no trim element
    Updates,       \* the OAMD updates a frame may carry, None among them
    Batches,       \* the sequences of events of the direct calls considered
    Offsets,       \* metadata_offset of the configurations considered
    Block,         \* EJOC_SPEAKER_BLOCK_SAMPLES
    FrameBlocks,   \* blocks of a call
    Snap,          \* kGainSnapThreshold: a smaller change is not ramped
    MaxCalls       \* bound on the calls

Route == Objects \X Channels
Samples == FrameBlocks * Block
Update == Updates \ {None}

ASSUME SpeakerAssumption ==
    /\ Block \in Nat \ {0, 1} /\ FrameBlocks \in Nat /\ Snap \in Nat \ {0} /\ MaxCalls \in Nat
    /\ Corner \in Positions /\ BedPosition \in Positions /\ Bed \subseteq Objects
    /\ "automatic" \in Controls /\ "invalid" \notin Controls /\ None \notin Controls
    /\ None \notin Positions /\ None \notin Nat /\ Offsets \subseteq Nat
    /\ Gain \in [Controls -> [Objects -> [Positions -> [Channels -> Int]]]]
    /\ \A u \in Update :
          /\ u.moves \in [Objects -> Positions \cup {None}]
          /\ u.trim \in Controls \cup {None, "invalid"} /\ u.ramp \in Nat /\ u.offset \in Nat
    /\ \A b \in Batches :
          b \in Seq([offset : Nat, ramp : Nat, positions : [Objects -> Positions]])

VARIABLES
    offset,                      \* metadata_offset; None for a direct caller's events
    coded, fixed, controls,      \* SpeakerStep: state, bed_override, controls
    current, target, step, remaining,   \* of every route
    at, block, queue,            \* the call under way: its block, the events left
    status, calls,               \* the result of the last call; bound
    heard,                       \* history: the gains each block began and ended with
    schedule                     \* history: the accepted events, with their blocks

stepVars == <<coded, fixed, controls>>
gainVars == <<current, target, step, remaining>>
callVars == <<at, block, queue>>
historyVars == <<heard, schedule>>
vars == <<offset, stepVars, gainVars, callVars, status, calls, historyVars>>

Flat(value) == [r \in Route |-> value]
ResetGains ==
    /\ current' = Flat(0) /\ target' = Flat(0) /\ step' = Flat(0) /\ remaining' = Flat(0)

\* A file task may seed the controls from a later trim element (probe_atmos_trim).
Init ==
    /\ offset \in Offsets \cup {None}
    /\ coded = [o \in Objects |-> Corner] /\ fixed = FALSE /\ controls \in Controls
    /\ current = Flat(0) /\ target = Flat(0) /\ step = Flat(0) /\ remaining = Flat(0)
    /\ at = "idle" /\ block = 0 /\ queue = <<>> /\ status = "ok" /\ calls = 0
    /\ heard = <<>> /\ schedule = <<>>

-----------------------------------------------------------------------------
\* Accepting a call

\* aligned_block and ramp_blocks: the nearest block, ties towards the earlier.
Align(samples) == (samples + Block \div 2 - 1) \div Block

\* validate_metadata, of what has an order or a range that matters here.
Valid(events) ==
    /\ \A i \in DOMAIN events : events[i].offset <= Samples
    /\ \A i \in 1 .. Len(events) - 1 : events[i].offset <= events[i + 1].offset

\* What an event is and when it is due, counted in blocks from the first call.
Scheduled(events, late) ==
    [i \in DOMAIN events |->
        [block |-> Len(heard) + Align(events[i].offset), ramp |-> Align(events[i].ramp),
         gains |-> events[i].gains, late |-> late]]

\* The beginning of process.  late is the offset within its frame that the
\* bitstream gives the update.
Begin(events, late) ==
    /\ calls' = calls + 1
    /\ IF Valid(events)
       THEN /\ at' = "mix" /\ block' = 0 /\ queue' = events /\ status' = "ok"
            /\ schedule' = schedule \o Scheduled(events, late)
       ELSE /\ status' = "refused" /\ UNCHANGED <<callVars, schedule>>
    /\ UNCHANGED <<offset, fixed, gainVars, heard>>

GainsOf(set, positions) == [r \in Route |-> Gain[set][r[1]][positions[r[1]]][r[2]]]

\* Mutant: a frame without an update raises an event with the last positions.
StepWithoutUpdate_Event ==
    /\ at = "idle" /\ calls < MaxCalls /\ offset # None
    /\ None \in Updates
    /\ at' = "mix" /\ block' = 0 /\ status' = "ok" /\ calls' = calls + 1
    /\ queue' = <<[offset |-> 0, ramp |-> 0, gains |-> GainsOf(controls, coded)]>>
    /\ UNCHANGED <<offset, stepVars, gainVars, historyVars>>

\* step, for a frame without an update: no event.
StepWithoutUpdate ==
    /\ at = "idle" /\ calls < MaxCalls /\ offset # None
    /\ None \in Updates
    /\ Begin(<<>>, 0)
    /\ UNCHANGED <<coded, controls>>

\* step, for a frame with an update.  A trim element that cannot be used fails
\* the frame before the update is applied; an event that process refuses, after.
StepWithUpdate ==
    /\ at = "idle" /\ calls < MaxCalls /\ offset # None
    /\ \E u \in Update :
          IF u.trim = "invalid"
          THEN /\ status' = "refused" /\ calls' = calls + 1
               /\ UNCHANGED <<offset, stepVars, gainVars, callVars, historyVars>>
          ELSE /\ controls' = IF u.trim = None THEN controls ELSE u.trim
               /\ coded' = [o \in Objects |-> IF u.moves[o] = None THEN coded[o] ELSE u.moves[o]]
               /\ LET positions ==
                          [o \in Objects |-> IF fixed /\ o \in Bed THEN BedPosition ELSE coded'[o]]
                  IN Begin(<<[offset |-> offset, ramp |-> u.ramp,
                              gains |-> GainsOf(controls', positions)]>>, u.offset)

\* ejoc_speaker_renderer_process, called with any number of events.
ProcessDirectly ==
    /\ at = "idle" /\ calls < MaxCalls /\ offset = None
    /\ \E b \in Batches :
          Begin([i \in DOMAIN b |-> [offset |-> b[i].offset, ramp |-> b[i].ramp,
                                     gains |-> GainsOf(controls, b[i].positions)]], 0)
    /\ UNCHANGED <<coded, controls>>

\* The frame that is about to be rendered declares a bed.
DeclareBed ==
    /\ at = "idle" /\ calls < MaxCalls /\ offset # None /\ ~fixed
    /\ fixed' = TRUE
    /\ UNCHANGED <<offset, coded, controls, gainVars, callVars, status, calls, historyVars>>

\* reset of the renderer and of the stream around it; the bed stays.
Reset ==
    /\ at = "idle" /\ calls < MaxCalls
    /\ coded' = [o \in Objects |-> Corner] /\ controls' = "automatic"
    /\ ResetGains
    /\ heard' = <<>> /\ schedule' = <<>> /\ calls' = calls + 1 /\ status' = "ok"
    /\ UNCHANGED <<offset, fixed, callVars>>

-----------------------------------------------------------------------------
\* Rendering a call

AbsoluteOf(n) == IF n < 0 THEN -n ELSE n

\* Mutant: an event at the end of the call is not looked for.
EventDue_InsideOnly ==
    queue # <<>> /\ block < FrameBlocks /\ Align(Head(queue).offset) = block

\* The loops of process: the next event is due at this block, or at the end.
EventDue == queue # <<>> /\ Align(Head(queue).offset) = block

\* apply_event: from the gains reached so far, a ramp that may be under way
\* included.
ApplyEvent ==
    /\ at = "mix" /\ EventDue
    /\ LET event == Head(queue)
           blocks == Align(event.ramp)
           ramped == {r \in Route : AbsoluteOf(event.gains[r] - current[r]) >= Snap /\ blocks # 0}
       IN /\ target' = event.gains
          /\ current' = [r \in Route |-> IF r \in ramped THEN current[r] ELSE event.gains[r]]
          /\ step' = [r \in Route |->
                        IF r \in ramped THEN (event.gains[r] - current[r]) \div blocks ELSE 0]
          /\ remaining' = [r \in Route |-> IF r \in ramped THEN blocks ELSE 0]
    /\ queue' = Tail(queue)
    /\ UNCHANGED <<offset, stepVars, at, block, status, calls, historyVars>>

\* One block less of a ramp that is under way.
Remaining(r) == IF remaining[r] = 0 THEN 0 ELSE remaining[r] - 1

\* mix_block: within a block a gain moves by its step or stays at its target,
\* and the last block of a ramp ends at the target.
MixBlock ==
    /\ at = "mix" /\ ~EventDue /\ block < FrameBlocks
    /\ heard' = Append(heard,
          [r \in Route |-> IF remaining[r] = 0 THEN [from |-> target[r], to |-> target[r]]
                           ELSE [from |-> current[r], to |-> current[r] + step[r]]])
    /\ remaining' = [r \in Route |-> Remaining(r)]
    /\ current' = [r \in Route |-> IF remaining'[r] = 0 THEN target[r] ELSE current[r] + step[r]]
    /\ block' = block + 1
    /\ UNCHANGED <<offset, stepVars, target, step, at, queue, status, calls, schedule>>

\* The end of process: an event that was not reached is an error.
ReturnFromCall ==
    /\ at = "mix" /\ ~EventDue /\ block = FrameBlocks
    /\ at' = "idle" /\ queue' = <<>>
    /\ status' = IF queue = <<>> THEN "ok" ELSE "outside"
    /\ UNCHANGED <<offset, stepVars, gainVars, block, calls, historyVars>>

Next ==
    \/ StepWithoutUpdate \/ StepWithUpdate \/ ProcessDirectly \/ DeclareBed \/ Reset
    \/ ApplyEvent \/ MixBlock \/ ReturnFromCall

Spec == Init /\ [][Next]_vars

-----------------------------------------------------------------------------
\* Every variable stays in its range.
Event == [offset : Nat, ramp : Nat, gains : [Route -> Int]]
TypeOK ==
    /\ offset \in Offsets \cup {None}
    /\ coded \in [Objects -> Positions] /\ fixed \in BOOLEAN /\ controls \in Controls
    /\ current \in [Route -> Int] /\ target \in [Route -> Int] /\ step \in [Route -> Int]
    /\ remaining \in [Route -> Nat]
    /\ at \in {"idle", "mix"} /\ block \in 0 .. FrameBlocks /\ queue \in Seq(Event)
    /\ status \in {"ok", "refused", "outside"} /\ calls \in 0 .. MaxCalls
    /\ heard \in Seq([Route -> [from : Int, to : Int]])
    /\ schedule \in Seq([block : Nat, ramp : Nat, gains : [Route -> Int], late : Nat])

(***************************************************************************)
(* The gain of a route at a block boundary after the first i accepted      *)
(* events, as docs/math.en.md section 13 defines it: a straight line from  *)
(* what it was at the event's boundary to the event's gain.                *)
(***************************************************************************)
MeantGain(r) ==
    LET v[i \in 0 .. Len(schedule), s \in 0 .. Len(heard) + FrameBlocks] ==
            IF i = 0 THEN 0
            ELSE LET e == schedule[i]
                     before == v[i - 1, e.block]
                     change == e.gains[r] - before
                 IN IF e.ramp = 0 \/ AbsoluteOf(change) < Snap \/ s - e.block >= e.ramp
                    THEN e.gains[r]
                    ELSE before + (change * (s - e.block)) \div e.ramp
    IN v

\* The accepted events that are due before block b ends (blocks count from 0).
DueBy(b) == Len(SelectSeq(schedule, LAMBDA e : e.block <= b))

\* Every block is rendered with the gains that the events accepted so far mean
\* at its ends: none is lost, applied twice or at another block, by frames with
\* and without updates, refused calls, ramps that are interrupted or that
\* outlast their frame, and events at the very end of a call.  Between two
\* blocks, of one call or of two, a gain only jumps where an accepted event has
\* no ramp or asks for a change below the threshold.
GainsAreMeant ==
    /\ \A b \in 1 .. Len(heard) : \A r \in Route :
           LET gain == MeantGain(r) IN
           /\ heard[b][r].from = gain[DueBy(b - 1), b - 1]
           /\ heard[b][r].to = gain[DueBy(b - 1), b]
    /\ \A b \in 1 .. Len(heard) - 1 : \A r \in Route :
           LET jump == AbsoluteOf(heard[b + 1][r].from - heard[b][r].to) IN
           jump # 0 =>
               \E i \in DOMAIN schedule :
                   schedule[i].block = b /\ (schedule[i].ramp = 0 \/ jump < Snap)

\* process never meets "metadata alignment produced an event outside this
\* process call", and a call that returns has applied every event it was given.
EventsArrive ==
    /\ status # "outside"
    /\ at = "idle" /\ schedule # <<>> => target = Last(schedule).gains

=============================================================================
