------------------------------ MODULE AdmTracks ------------------------------
(***************************************************************************)
(* The object tracks of an ADM file (src/adm/adm_tracks.cpp), the other    *)
(* consumer of the OAMD updates: where a binaural task schedules           *)
(* transitions on a PositionTimeline as the frames arrive, an ADM task     *)
(* records an event for each object that an update moves and turns the     *)
(* events into blocks when the programme is over.  A task is one or the    *)
(* other; its updates, its carried OAMD state, its bed and its delay are   *)
(* those of PositionTimeline.                                              *)
(***************************************************************************)
EXTENDS PositionTimeline

CONSTANTS AdmUpdates   \* the updates of an ADM task, None among them

ASSUME AdmAssumption ==
    \A u \in AdmUpdates \ {None} :
        u.offset \in Nat /\ u.ramp \in Nat /\ u.moves \in [Object -> Int \cup {None}]

VARIABLES
    output,   \* what the task writes: a binaural or an ADM file
    events,   \* events_ of each object
    built     \* the result of build, or "unbuilt"

admVars == <<output, events, built>>
allVars == <<vars, admVars>>

AdmInit ==
    /\ Init
    /\ output \in {"binaural", "compact", "dense64"} /\ (output # "binaural" => chunk = Block)
    /\ events = [o \in Object |-> <<>>]
    /\ built = [status |-> "unbuilt"]

-----------------------------------------------------------------------------
\* Mutant: an object counts as fixed only if no event was recorded for it.
Fixed_Unrecorded(o) == bed /\ o \in Bed /\ events[o] = <<>>

\* fixed_: the object is a channel of the declared bed.
Fixed(o) == bed /\ o \in Bed

(***************************************************************************)
(* TrajectoryBuilder::submit_frame: an event for each object outside the   *)
(* bed that has none yet or is not where its last event put it.            *)
(***************************************************************************)
Recorded(sample, ramp, positions) ==
    [o \in Object |->
        IF Fixed(o) \/ (events[o] # <<>> /\ Last(events[o]).position = positions[o])
        THEN events[o]
        ELSE Append(events[o], [sample |-> sample, position |-> positions[o], ramp |-> ramp])]

SubmitAdm ==
    /\ output # "binaural" /\ built.status = "unbuilt" /\ submitted < MaxFrames
    /\ submitted' = submitted + 1 /\ input' = input + Frame
    /\ \E u \in AdmUpdates :
          IF u = None
          THEN UNCHANGED coded /\ events' = Recorded(input, 0, coded)
          ELSE coded' = Applied(u) /\ events' = Recorded(CodedEvent(u), u.ramp, Applied(u))
    /\ UNCHANGED <<configVars, bed, initialized, lastCoded, trackVars, queryVars, finished, status,
                   pass, changes, start, output, built>>

-----------------------------------------------------------------------------
(***************************************************************************)
(* A track under construction: its points so far, where the object is      *)
(* after its last event, and whether it still goes on.                     *)
(***************************************************************************)
Point(sample, position, interpolation) ==
    [sample |-> sample, position |-> position, interpolation |-> interpolation]

\* append_point: a point at the sample of the last one replaces it.
Appending(points, p) ==
    IF p.sample = Last(points).sample
    THEN [points EXCEPT ![Len(points)] = p]
    ELSE IF p.sample > Last(points).sample THEN Append(points, p) ELSE points

Begun(moves) ==
    [points |-> <<Point(0, moves[1].position, 0)>>, current |-> moves[1].position, status |-> "ok"]

Stopped(track, why) == [track EXCEPT !.status = why]

EventStart(e) == Align(e.sample + delay)

\* A new event before the ramp of this one is over.
RampInTheWay(moves, i, end) == i < Len(moves) /\ EventStart(moves[i + 1]) < end

\* Where a ramp is when the programme ends before it.
CutTarget(from, to, available, ramp) == Between(from, to, available, ramp)

\* expand_compact: a point for each event, which the ramp starts at.
CompactEvent(track, moves, i, total) ==
    LET e == moves[i]
        begin == EventStart(e)
        available == total - begin
    IN  IF track.status # "ok" THEN track
        ELSE IF begin >= total THEN Stopped(track, "over")
        ELSE IF begin < Last(track.points).sample
        THEN Stopped(track, "non_monotonic_compact_position_updates")
        ELSE IF RampInTheWay(moves, i, begin + e.ramp)
        THEN Stopped(track, "overlapping_compact_position_ramps")
        ELSE [track EXCEPT
                 !.current = e.position,
                 !.points = Appending(@,
                     IF e.ramp > available
                     THEN Point(begin, CutTarget(track.current, e.position, available, e.ramp), available)
                     ELSE Point(begin, e.position, e.ramp))]

\* Where a dense ramp is after k blocks: each block covers its share of what is
\* left, the last one all of it.
RampStep(from, to, ramp, k) ==
    LET at[j \in 0 .. k] ==
            IF j = 0 THEN from
            ELSE LET future == ramp - (j - 1) * Grid
                 IN  IF future <= Grid THEN to ELSE Between(at[j - 1], to, Grid, future)
    IN  at[k]

\* expand_dense64: a point where the object still is, then one a block.
DenseEvent(track, moves, i, total) ==
    LET e == moves[i]
        begin == EventStart(e)
        steps == (e.ramp + Grid - 1) \div Grid
        held == IF begin > Last(track.points).sample
                THEN Append(track.points, Point(begin, track.current, 0))
                ELSE track.points
        ramp == [k \in 1 .. steps |->
                    Point(begin + k * Grid, RampStep(track.current, e.position, e.ramp, k), Grid)]
    IN  IF track.status # "ok" THEN track
        ELSE IF begin >= total THEN Stopped(track, "over")
        ELSE IF begin < Last(track.points).sample
        THEN Stopped(track, "non_monotonic_position_updates")
        ELSE IF e.ramp > 0 /\ RampInTheWay(moves, i, begin + steps * Grid)
        THEN Stopped(track, "overlapping_position_ramps")
        ELSE [track EXCEPT
                 !.current = e.position,
                 !.points =
                     IF e.ramp = 0
                     THEN Appending(held, Point(begin, e.position, 0))
                     ELSE FoldLeft(Appending, held, SelectSeq(ramp, LAMBDA p : p.sample < total))]

\* points_to_blocks: a block from each point to the next one, or to the end.
Blocks(points, total) ==
    LET Until(i) == IF i < Len(points) THEN points[i + 1].sample ELSE total
        duration(i) == Until(i) - points[i].sample
    IN  [i \in 1 .. Len(points) |->
            [rtime |-> points[i].sample, position |-> points[i].position, duration |-> duration(i),
             interpolation |-> IF points[i].interpolation < duration(i)
                               THEN points[i].interpolation ELSE duration(i)]]

Expanded(moves, total) ==
    LET event(track, i) ==
            IF output = "compact" THEN CompactEvent(track, moves, i, total)
            ELSE DenseEvent(track, moves, i, total)
        track == FoldLeft(event, Begun(moves), [i \in 1 .. Len(moves) - 1 |-> i + 1])
    IN  [status |-> IF track.status = "over" THEN "ok" ELSE track.status,
         blocks |-> Blocks(track.points, total)]

\* A channel of the bed stays where its layout puts it, whatever was recorded for
\* it before it became one.
Static(total) ==
    [status |-> "ok",
     blocks |-> <<[rtime |-> 0, position |-> BedPosition, duration |-> total, interpolation |-> 0]>>]

\* TrajectoryBuilder::build, once the last frame is written: the first object
\* that fails fails the file.
BuildTracks ==
    /\ output # "binaural" /\ built.status = "unbuilt" /\ input > 0
    /\ LET of == [o \in Object |->
                     IF Fixed(o) THEN Static(input) ELSE Expanded(events[o], input)]
           failed == {o \in Object : of[o].status # "ok"}
       IN  built' =
               IF failed = {}
               THEN [status |-> "ok", tracks |-> [o \in Object |-> of[o].blocks]]
               ELSE [status |-> of[CHOOSE o \in failed : \A p \in failed : o <= p].status]
    /\ UNCHANGED <<vars, output, events>>

\* set_fixed_position, as the thread that reads the bitstream meets the first
\* layout of a bed.  It is ahead of the caller's thread, which may have recorded
\* any number of the frames before: the objects of the bed may have events.
DeclareAdmBed == output # "binaural" /\ built.status = "unbuilt" /\ DeclareBed /\ UNCHANGED admVars

AdmNext ==
    \/ output = "binaural" /\ Next /\ UNCHANGED admVars
    \/ SubmitAdm
    \/ DeclareAdmBed
    \/ BuildTracks

AdmSpec == AdmInit /\ [][AdmNext]_allVars

-----------------------------------------------------------------------------
(***************************************************************************)
(* What the events say of an object at a sample of the programme.  The     *)
(* last event that has started rules.  A compact block, like a transition  *)
(* of the timeline, ramps from the position the object had before the      *)
(* sample its event starts at, a dense one from where the event before put *)
(* it: they differ when a jump and a ramp start at the same sample.  There *)
(* a compact ramp that the programme's end cuts is out of step: the place  *)
(* it is cut at is interpolated from the jump it replaces.                 *)
(***************************************************************************)
StartedBy(moves, sample) == {1} \cup {i \in 2 .. Len(moves) : EventStart(moves[i]) <= sample}

RampFrom(moves, i) ==
    LET earlier == IF output = "dense64" THEN 1 .. i - 1
                   ELSE StartedBy(moves, EventStart(moves[i]) - 1)
    IN  moves[Latest(earlier)].position

MeantAt(moves, sample) ==
    LET i == Latest(StartedBy(moves, sample))
        elapsed == sample - EventStart(moves[i])
    IN  IF i = 1 \/ elapsed >= moves[i].ramp
        THEN moves[i].position
        ELSE Between(RampFrom(moves, i), moves[i].position, elapsed, moves[i].ramp)

CutAfterJump(moves, sample) ==
    LET i == Latest(StartedBy(moves, sample))
    IN  /\ output = "compact" /\ i > 2
        /\ EventStart(moves[i]) = EventStart(moves[i - 1])
        /\ EventStart(moves[i]) + moves[i].ramp > input

\* The block a sample is in, and where the blocks put the object at the sample:
\* a compact block ramps to its position from that of the block before, a dense
\* one stays at it.
BlockAt(blocks, sample) ==
    CHOOSE i \in DOMAIN blocks :
        blocks[i].rtime <= sample /\ sample < blocks[i].rtime + blocks[i].duration

PlayedAt(blocks, sample) ==
    LET i == BlockAt(blocks, sample)
        elapsed == sample - blocks[i].rtime
    IN  IF elapsed >= blocks[i].interpolation \/ output = "dense64"
        THEN blocks[i].position
        ELSE Between(blocks[i - 1].position, blocks[i].position, elapsed, blocks[i].interpolation)

\* The blocks of a track follow one another from the first sample of the
\* programme to its last, and no interpolation outlasts its block.
Covers(blocks, total) ==
    /\ blocks[1].rtime = 0 /\ blocks[1].interpolation = 0
    /\ Last(blocks).rtime + Last(blocks).duration = total
    /\ \A i \in DOMAIN blocks : blocks[i].duration > 0 /\ blocks[i].interpolation <= blocks[i].duration
    /\ \A i \in 1 .. Len(blocks) - 1 : blocks[i + 1].rtime = blocks[i].rtime + blocks[i].duration

\* The blocks a programme was built into cover it without gap or overlap and put
\* every object where its events mean it to be: at every sample, for the compact
\* tracks, also when the programme ends within a ramp (that of CutAfterJump
\* apart); at the start of every block of the grid, for the dense ones.  An object
\* of the bed is at its fixed place throughout, also when the bed was declared
\* after frames had been recorded for it; the events of the others lose nothing
\* by it.
TracksAreMeant ==
    built.status = "ok" =>
        \A o \in Object :
            LET blocks == built.tracks[o]
                samples == IF output = "dense64" THEN {t \in 0 .. input - 1 : t % Grid = 0}
                           ELSE 0 .. input - 1
            IN  /\ Covers(blocks, input)
                /\ \A t \in samples :
                      IF bed /\ o \in Bed THEN PlayedAt(blocks, t) = BedPosition
                      ELSE \/ PlayedAt(blocks, t) = MeantAt(events[o], t)
                           \/ CutAfterJump(events[o], t)

=============================================================================
