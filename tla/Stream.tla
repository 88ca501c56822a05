------------------------------- MODULE Stream -------------------------------
(***************************************************************************)
(* A push/pull stream (class Stream in src/stream/stream.cpp).  The caller *)
(* pushes E-AC-3 bytes and the core PCM of the same audio frames in pieces *)
(* of any size, or rebuilt objects, and pulls rendered samples.            *)
(*                                                                         *)
(* A call is a sequence of steps, one per iteration of its loops; at says  *)
(* where it is, and the stream is used by one thread, so nothing comes     *)
(* between the steps of a call.  Two units of E-AC-3 make a syncframe (one *)
(* holds its header), FrameUnits units of PCM make an audio frame, and a   *)
(* token stands for a unit of rendered samples.                            *)
(***************************************************************************)
EXTENDS Integers, FiniteSets, SequencesExt

CONSTANTS
    Setups,      \* the configurations considered
    FrameUnits,  \* JOC_FRAME_SAMPLES
    Cap          \* kMaxRenderAheadSamples

VARIABLE setup   \* the stream's configuration and what its caller may do

Programs == setup.programs    \* the inputs considered: sequences of syncframes
Inputs == setup.inputs        \* the kinds of input considered: "eac3", "objects16"
Output == setup.output        \* "objects16", "speaker", "sofa" or "rosella"
Chunk == setup.chunk          \* frames a runtime collects before it renders: chunk_frames
Latency == setup.latency      \* units of delay the runtime drops at the start
TailUnits == setup.tail       \* finish_capacity(tail_seconds)
MaxPush == setup.maxPush      \* bound: units in one push or pull
MaxFrames == setup.maxFrames  \* bound: audio frames of PCM pushed in one pass
LatePush == setup.latePush    \* whether the caller pushes on after a flush
MaxFlush == setup.maxFlush    \* bound: flushes in one pass
MaxPass == setup.maxPass      \* bound: passes, separated by reset

SyncUnits == 2

\* A syncframe: its substream, what its EMDF container carries, the bed its
\* OAMD declares (all fixed channels, or among objects), and what is wrong
\* with it: its header, its container, its OAMD payload, its frame's
\* cross-layer check or bed plan, or the rendering of its frame.  The number
\* of its audio frame is not in the stream; only the properties look at it.
Syncframe ==
    [key   : {"core", "dependent"},
     meta  : {"none", "joc", "oamd"},
     bed   : {"none", "only", "mixed"},
     fault : {"none", "header", "container", "oamd", "cross", "plan", "render"},
     frame : Nat]

\* The audio frames of an input as the file task numbers them: the next one
\* starts with the first substream that comes again.
Numbered(program) ==
    \A i \in DOMAIN program :
        program[i].frame =
            IF i = 1 THEN 1
            ELSE LET frame == program[i - 1].frame
                     repeats == \E j \in 1 .. i - 1 :
                                   program[j].frame = frame /\ program[j].key = program[i].key
                 IN  IF repeats THEN frame + 1 ELSE frame

ASSUME StreamAssumption ==
    /\ FrameUnits \in Nat \ {0} /\ Cap \in Nat \ {0}
    /\ \A s \in Setups :
          /\ s.inputs \subseteq {"eac3", "objects16"}
          /\ s.output \in {"objects16", "speaker", "sofa", "rosella"}
          /\ s.output = "objects16" => "objects16" \notin s.inputs
          /\ s.chunk \in Nat \ {0} /\ s.latency \in Nat /\ s.tail \in Nat
          /\ s.latency <= s.tail /\ s.latency < FrameUnits
          /\ s.output # "rosella" => s.chunk = 1
          /\ s.tail = 0 <=> s.output \in {"objects16", "speaker"}
          /\ s.latePush \in BOOLEAN
          /\ {s.maxPush, s.maxFrames, s.maxFlush, s.maxPass} \subseteq Nat
          /\ \A p \in s.programs : p \in Seq(Syncframe) /\ Numbered(p)

VARIABLES
    input, syncframes,                        \* the input, and the syncframes it feeds
    fed, taken, readerFailed,                 \* reader_
    pending, metadata, missing,               \* pending_frame_, metadata_
    pcmFed, pcmTaken, bedInput,               \* bed_pending_, objects_pending_
    bedChannels, planFailed,                  \* resolve_bed_plan
    bedReady, bedSet,                         \* bed_positions_ready_ and what it guards
    staged, line, finished,                   \* the binaural runtime
    fifo, output, samplesOut, ended,          \* rosella_pending_, output_, info_
    at, op, status,                           \* the call under way
    rendered, delivered, failures, flushes, pass   \* history

readerVars == <<fed, taken, readerFailed>>
groupVars == <<pending, metadata, missing>>
pcmVars == <<pcmFed, pcmTaken, bedInput>>
planVars == <<bedChannels, planFailed>>
bedVars == <<bedReady, bedSet>>
renderVars == <<staged, line, finished, fifo, output, samplesOut, ended>>
historyVars == <<rendered, delivered, failures, flushes, pass>>
vars == <<setup, input, syncframes, readerVars, groupVars, pcmVars, planVars, bedVars, renderVars,
          at, op, status, historyVars>>

\* FrameMetadata: the syncframes of an audio frame, and which of them its
\* JOC parameters and its OAMD update come from, 0 for none.
NoEntry == [streams |-> {}, joc |-> 0, update |-> 0]

Silence == <<0, 0>>
Garbage == <<-1, 0>>
FrameTokens(n) == [i \in 1 .. FrameUnits |-> <<n, i - 1>>]
SilentTokens(n) == [i \in 1 .. n |-> Silence]

Init ==
    /\ setup \in Setups
    /\ input \in Inputs
    /\ syncframes \in Programs
    /\ fed = 0 /\ taken = 0 /\ readerFailed = FALSE
    /\ pending = NoEntry /\ metadata = <<>> /\ missing = 0
    /\ pcmFed = 0 /\ pcmTaken = 0 /\ bedInput = 0
    /\ bedChannels = 0 /\ planFailed = FALSE
    /\ staged = <<>> /\ line = <<>> /\ finished = FALSE
    /\ fifo = <<>> /\ output = <<>> /\ samplesOut = 0 /\ ended = FALSE
    /\ rendered = <<>> /\ delivered = <<>> /\ failures = {} /\ flushes = 0
    /\ bedReady = FALSE /\ bedSet = FALSE
    /\ at = "idle" /\ op = "create" /\ status = "ok"
    /\ pass = 1

-----------------------------------------------------------------------------
\* Returning from a call.

Return(what) ==
    /\ at' = "idle"
    /\ status' = what
    /\ failures' = IF what = "ok" THEN failures ELSE failures \cup {what}
    /\ op' = op

\* flush marks the end of input; a caller may go on pushing all the same.
MayPush == at = "idle" /\ (flushes = 0 \/ LatePush)
Continue(where) ==
    /\ at' = where
    /\ UNCHANGED <<op, status, failures>>
Enter(what, where) ==
    /\ at' = where /\ op' = what
    /\ UNCHANGED <<status, failures>>

-----------------------------------------------------------------------------
\* Rendered samples that wait for the caller.

\* buffered_samples
Buffered == Len(output) + Len(fifo)

\* release_rosella_output
ReleaseFifo(limit, queue) ==
    LET count == IF limit < Len(queue) THEN limit ELSE Len(queue) IN
    /\ output' = output \o SubSeq(queue, 1, count)
    /\ fifo' = SubSeq(queue, count + 1, Len(queue))

\* Mutant: what does not fit is dropped.
Pull_DropsRest(capacity) ==
    /\ at = "idle"
    /\ LET released == IF capacity < Len(fifo) THEN capacity ELSE Len(fifo)
           out == output \o SubSeq(fifo, 1, released)
           count == IF capacity < Buffered THEN capacity ELSE Buffered
       IN /\ delivered' = delivered \o SubSeq(out, 1, count)
          /\ output' = <<>>
          /\ fifo' = SubSeq(fifo, released + 1, Len(fifo))
    /\ op' = "pull" /\ status' = "ok"
    /\ UNCHANGED <<input, syncframes, readerVars, groupVars, pcmVars, planVars, bedVars, staged, line,
                   finished, samplesOut, ended, at, rendered, failures, flushes, pass>>

\* pull copies what fits of the backlog from the front of output_; anything
\* it would copy from beyond the end is Garbage.
Pull(capacity) ==
    /\ at = "idle"
    /\ LET released == IF capacity < Len(fifo) THEN capacity ELSE Len(fifo)
           out == output \o SubSeq(fifo, 1, released)
           count == IF capacity < Buffered THEN capacity ELSE Buffered
       IN /\ delivered' = delivered \o
                 [i \in 1 .. count |-> IF i <= Len(out) THEN out[i] ELSE Garbage]
          /\ output' = SubSeq(out, count + 1, Len(out))
          /\ fifo' = SubSeq(fifo, released + 1, Len(fifo))
    /\ op' = "pull" /\ status' = "ok"
    /\ UNCHANGED <<input, syncframes, readerVars, groupVars, pcmVars, planVars, bedVars, staged, line,
                   finished, samplesOut, ended, at, rendered, failures, flushes, pass>>

-----------------------------------------------------------------------------
\* Assembling audio frames from syncframes.

\* Mutant: a frame without a declaration settles the matter as well.
ApplyBed_Latches(entry) ==
    IF bedReady \/ entry.joc = 0
    THEN UNCHANGED bedVars
    ELSE LET bed == IF entry.update = 0 THEN "none" ELSE syncframes[entry.update].bed
         IN bedReady' = TRUE /\ bedSet' = (bedSet \/ bed = "only")

\* apply_bed_positions: the first declaration settles the fixed positions.
ApplyBed(entry) ==
    LET bed == IF entry.update = 0 THEN "none" ELSE syncframes[entry.update].bed
    IN IF bedReady \/ bed = "none"
       THEN UNCHANGED bedVars
       ELSE bedReady' = TRUE /\ bedSet' = (bedSet \/ bed = "only")

\* check_cross_layer
PassesChecks(entry) == entry.joc # 0 => syncframes[entry.joc].fault # "cross"

\* flush_pending_frame closes the frame under assembly.  A frame without JOC
\* is queued as a silent one; a frame that fails its checks is dropped, after
\* its bed declaration has been applied.
ClosePending ==
    IF pending.streams = {}
    THEN UNCHANGED <<metadata, missing, bedVars>>
    ELSE /\ ApplyBed(pending)
         /\ IF PassesChecks(pending)
            THEN /\ metadata' = Append(metadata,
                        IF pending.joc = 0 THEN [pending EXCEPT !.update = 0] ELSE pending)
                 /\ missing' = IF pending.joc = 0 THEN missing + 1 ELSE missing
            ELSE UNCHANGED <<metadata, missing>>

\* The frame with one more syncframe, up to where its metadata is at fault.
\* A faulty OAMD payload leaves the JOC parameters in place.
Joined(entry, i) ==
    LET f == syncframes[i] IN
    [streams |-> entry.streams \cup {i},
     joc     |-> IF f.meta # "none" /\ f.fault # "container" THEN i ELSE entry.joc,
     update  |-> IF f.meta = "oamd" /\ f.fault \notin {"container", "oamd"}
                 THEN i ELSE entry.update]

\* FrameReader::next
Readable == taken < Len(syncframes) /\ fed > SyncUnits * taken
Malformed == readerFailed \/ (Readable /\ syncframes[taken + 1].fault = "header")
Complete == Readable /\ ~Malformed /\ fed >= SyncUnits * (taken + 1)

\* A repeated substream starts the next audio frame.
Repeats == \E j \in pending.streams : syncframes[j].key = syncframes[taken + 1].key

PushEac3(n) ==
    /\ input = "eac3"
    /\ MayPush
    /\ fed + n <= SyncUnits * Len(syncframes)
    /\ Enter("eac3", "read")
    /\ fed' = IF readerFailed THEN fed ELSE fed + n
    /\ UNCHANGED <<input, syncframes, taken, readerFailed, groupVars, pcmVars, planVars, bedVars,
                   renderVars, rendered, delivered, flushes, pass>>

ReaderFails ==
    /\ at = "read"
    /\ Malformed
    /\ readerFailed' = TRUE
    /\ Return("header")
    /\ UNCHANGED <<input, syncframes, fed, taken, groupVars, pcmVars, planVars, bedVars, renderVars,
                   rendered, delivered, flushes, pass>>

\* The syncframe closes a frame that fails its checks: both are lost.
FrameRejected ==
    /\ at = "read"
    /\ Complete /\ Repeats /\ ~PassesChecks(pending)
    /\ taken' = taken + 1
    /\ ClosePending
    /\ pending' = NoEntry
    /\ Return("cross")
    /\ UNCHANGED <<input, syncframes, fed, readerFailed, pcmVars, planVars, renderVars,
                   rendered, delivered, flushes, pass>>

\* The syncframe joins the frame under assembly, or starts the next one.
SyncframeJoins ==
    /\ at = "read"
    /\ Complete
    /\ Repeats => PassesChecks(pending)
    /\ taken' = taken + 1
    /\ IF Repeats THEN ClosePending ELSE UNCHANGED <<metadata, missing, bedVars>>
    /\ pending' = Joined(IF Repeats THEN NoEntry ELSE pending, taken + 1)
    /\ LET fault == syncframes[taken + 1].fault IN
       IF fault \in {"container", "oamd"} THEN Return(fault) ELSE Continue("read")
    /\ UNCHANGED <<input, syncframes, fed, readerFailed, pcmVars, planVars, renderVars,
                   rendered, delivered, flushes, pass>>

\* resolve_bed_plan, on the first queued frame that carries JOC.
ResolvePlan ==
    LET jocs == SelectSeq(metadata, LAMBDA e : e.joc # 0) IN
    IF bedChannels # 0 \/ jocs = <<>>
    THEN UNCHANGED planVars
    ELSE IF syncframes[jocs[1].joc].fault = "plan"
         THEN planFailed' = TRUE /\ UNCHANGED bedChannels
         ELSE bedChannels' = 6 /\ UNCHANGED planFailed

ReaderIsDry ==
    /\ at = "read"
    /\ ~Complete /\ ~Malformed
    /\ ResolvePlan
    /\ Continue("prepare")
    /\ UNCHANGED <<input, syncframes, readerVars, groupVars, pcmVars, bedVars, renderVars,
                   rendered, delivered, flushes, pass>>

-----------------------------------------------------------------------------
\* The core PCM, the rebuilt objects, and rendering what has both its parts.

PushBed(n, channels) ==
    /\ input = "eac3"
    /\ MayPush
    /\ pcmFed + n <= FrameUnits * MaxFrames
    /\ op' = "bed"
    /\ IF bedInput \notin {0, channels}
       THEN /\ at' = "idle" /\ status' = "argument" /\ failures' = failures \cup {"argument"}
            /\ UNCHANGED <<bedInput, pcmFed>>
       ELSE /\ bedInput' = channels
            /\ pcmFed' = pcmFed + n
            /\ at' = "prepare"
            /\ UNCHANGED <<status, failures>>
    /\ UNCHANGED <<input, syncframes, readerVars, groupVars, pcmTaken, planVars, bedVars, renderVars,
                   rendered, delivered, flushes, pass>>

\* push_objects16 queues whole frames and pads the last one.
PushObjects(n) ==
    LET frames == (n + FrameUnits - 1) \div FrameUnits IN
    /\ input = "objects16"
    /\ MayPush
    /\ pcmFed + FrameUnits * frames <= FrameUnits * MaxFrames
    /\ Enter("objects", "render")
    /\ pcmFed' = pcmFed + FrameUnits * frames
    /\ UNCHANGED <<input, syncframes, readerVars, groupVars, pcmTaken, bedInput, planVars, bedVars,
                   renderVars, rendered, delivered, flushes, pass>>

AfterRendering == IF op = "flush" THEN Continue("finish") ELSE Return("ok")

\* process_ready_frames, up to its loop.
Prepare ==
    /\ at = "prepare"
    /\ IF planFailed
       THEN Return("plan") /\ UNCHANGED planVars
       ELSE /\ ResolvePlan
            /\ IF bedChannels' = 0
               THEN IF op = "flush" /\ metadata # <<>> THEN Return("nojoc") ELSE AfterRendering
               ELSE IF bedInput \notin {0, bedChannels'} THEN Return("channels")
                    ELSE Continue("render")
    /\ UNCHANGED <<input, syncframes, readerVars, groupVars, pcmVars, bedVars, renderVars,
                   rendered, delivered, flushes, pass>>

FrameReady ==
    /\ pcmFed - FrameUnits * pcmTaken >= FrameUnits
    /\ input = "eac3" => metadata # <<>>

\* Mutants: the cap holds for a flush as well, or for nothing.
MayRender_AlwaysCapped == Buffered < Cap
MayRender_NeverCapped == TRUE

\* Only a flush renders beyond the cap.
MayRender == op = "flush" \/ Buffered < Cap

\* What a runtime emits of the units it processes: all but the newest Latency.
Emitted(units) == SubSeq(units, 1, Len(units) - Latency)
Retained(units) == SubSeq(units, Len(units) - Latency + 1, Len(units))

\* submit_frame, take_output, and the release of a frame's worth of samples.
\* Only Rosella collects several frames and has a FIFO.
Submit(units) ==
    IF Len(staged) + Len(units) < Chunk * FrameUnits
    THEN /\ staged' = staged \o units
         /\ ReleaseFifo(FrameUnits, fifo)
         /\ UNCHANGED <<line, samplesOut>>
    ELSE LET processed == line \o staged \o units
             out == Emitted(processed)
         IN /\ staged' = <<>>
            /\ line' = Retained(processed)
            /\ samplesOut' = samplesOut + Len(out)
            /\ IF Output = "rosella"
               THEN ReleaseFifo(FrameUnits, fifo \o out)
               ELSE output' = output \o out /\ UNCHANGED fifo

\* Mutant: the core PCM of a frame that is not rendered stays in the queue.
RenderFrame_KeepsPcm ==
    LET entry == Head(metadata) IN
    /\ at = "render"
    /\ input = "eac3" /\ FrameReady /\ MayRender
    /\ metadata' = SubSeq(metadata, 2, Len(metadata))
    /\ IF entry.joc # 0 /\ syncframes[entry.joc].fault = "render"
       THEN Return("render") /\ UNCHANGED <<pcmTaken, renderVars, rendered>>
       ELSE /\ pcmTaken' = pcmTaken + 1
            /\ rendered' = Append(rendered, [entry |-> entry, pcm |-> pcmTaken + 1, bed |-> bedSet])
            /\ Submit(FrameTokens(Len(rendered) + 1))
            /\ Continue("render")
            /\ UNCHANGED <<finished, ended>>
    /\ UNCHANGED <<input, syncframes, readerVars, pending, missing, pcmFed, bedInput, planVars, bedVars,
                   delivered, flushes, pass>>

\* One frame leaves both queues and is rendered, or fails and is lost.
RenderFrame ==
    LET entry == IF input = "eac3" THEN Head(metadata) ELSE NoEntry IN
    /\ at = "render"
    /\ FrameReady /\ MayRender
    /\ pcmTaken' = pcmTaken + 1
    /\ metadata' = IF input = "eac3" THEN SubSeq(metadata, 2, Len(metadata)) ELSE metadata
    /\ IF entry.joc # 0 /\ syncframes[entry.joc].fault = "render"
       THEN Return("render") /\ UNCHANGED <<renderVars, rendered>>
       ELSE IF finished
       THEN Return("finished") /\ UNCHANGED <<renderVars, rendered>>
       ELSE /\ rendered' = Append(rendered, [entry |-> entry, pcm |-> pcmTaken + 1,
                                             bed |-> bedSet /\ Output # "objects16"])
            /\ Submit(FrameTokens(Len(rendered) + 1))
            /\ Continue("render")
            /\ UNCHANGED <<finished, ended>>
    /\ UNCHANGED <<input, syncframes, readerVars, pending, missing, pcmFed, bedInput, planVars, bedVars,
                   delivered, flushes, pass>>

RenderStops ==
    /\ at = "render"
    /\ ~(FrameReady /\ MayRender)
    /\ AfterRendering
    /\ UNCHANGED <<input, syncframes, readerVars, groupVars, pcmVars, planVars, bedVars, renderVars,
                   rendered, delivered, flushes, pass>>

-----------------------------------------------------------------------------
\* The end of the input, and another pass.

\* flush starts by closing the frame under assembly.
Flush ==
    /\ at = "idle"
    /\ flushes < MaxFlush
    /\ flushes' = flushes + 1
    /\ ClosePending
    /\ pending' = NoEntry
    /\ op' = "flush"
    /\ IF pending.streams # {} /\ ~PassesChecks(pending)
       THEN /\ at' = "idle" /\ status' = "cross" /\ failures' = failures \cup {"cross"}
       ELSE /\ at' = IF input = "eac3" THEN "prepare" ELSE "render"
            /\ UNCHANGED <<status, failures>>
    /\ UNCHANGED <<input, syncframes, readerVars, pcmVars, planVars, renderVars,
                   rendered, delivered, pass>>

\* A runtime that has rendered nothing drops the whole first block it is
\* asked to finish, and finish stops there.
NothingToFinish == Output = "sofa" /\ Len(line) < Latency

\* finish of the runtime: what it still holds and the tail.  Rosella finishes
\* once, and its FIFO goes out first; the SOFA runtime can be finished again.
Finish ==
    /\ at = "finish"
    /\ LET processed == line \o staged \o SilentTokens(IF NothingToFinish THEN 1 ELSE TailUnits)
           out == IF finished \/ NothingToFinish \/ TailUnits = 0 THEN <<>> ELSE Emitted(processed)
       IN /\ output' = output \o fifo \o out
          /\ line' = IF finished \/ TailUnits = 0 THEN line
                     ELSE IF NothingToFinish THEN processed ELSE Retained(processed)
          /\ samplesOut' = samplesOut + Len(out)
    /\ fifo' = <<>>
    /\ staged' = <<>>
    /\ finished' = (Output = "rosella")
    /\ ended' = TRUE
    /\ Return("ok")
    /\ UNCHANGED <<input, syncframes, readerVars, groupVars, pcmVars, planVars, bedVars,
                   rendered, delivered, flushes, pass>>

\* reset clears everything but the bed flag and the fixed bed positions.  The
\* next pass may play another input.
Reset ==
    /\ at = "idle"
    /\ pass < MaxPass
    /\ fed' = 0 /\ taken' = 0 /\ readerFailed' = FALSE
    /\ pending' = NoEntry /\ metadata' = <<>> /\ missing' = 0
    /\ pcmFed' = 0 /\ pcmTaken' = 0 /\ bedInput' = 0
    /\ bedChannels' = 0 /\ planFailed' = FALSE
    /\ staged' = <<>> /\ line' = <<>> /\ finished' = FALSE
    /\ fifo' = <<>> /\ output' = <<>> /\ samplesOut' = 0 /\ ended' = FALSE
    /\ rendered' = <<>> /\ delivered' = <<>> /\ failures' = {} /\ flushes' = 0
    /\ syncframes' \in Programs
    /\ pass' = pass + 1
    /\ op' = "reset" /\ status' = "ok"
    /\ UNCHANGED <<input, at, bedVars>>

Call ==
    \/ \E n \in 0 .. MaxPush : PushEac3(n) \/ PushObjects(n)
    \/ \E n \in 0 .. MaxPush, channels \in {6, 8} : PushBed(n, channels)
    \/ \E n \in 1 .. MaxPush : Pull(n)
    \/ Flush
    \/ Reset

Step ==
    \/ ReaderFails \/ FrameRejected \/ SyncframeJoins \/ ReaderIsDry
    \/ Prepare \/ RenderFrame \/ RenderStops \/ Finish

Next == (Call \/ Step) /\ UNCHANGED setup

Spec == Init /\ [][Next]_vars

-----------------------------------------------------------------------------
\* The syncframes of the k-th audio frame.
Members(k) == {i \in DOMAIN syncframes : syncframes[i].frame = k}

\* A rendered frame has the core PCM of its own audio frame: all of the
\* frame's syncframes that were read and no others, whatever the sizes of the pushes and
\* pulls, the order of the two inputs, the cap, and the calls that failed.
\* Two exceptions: a call that failed because a frame was rejected by its
\* cross-layer check loses the frame's metadata, but not its PCM; and a caller
\* that flushes within a frame and pushes the rest of it later has split it.
PairsOwnMetadata ==
    input = "eac3" /\ "cross" \notin failures /\ (flushes = 0 \/ ~LatePush) =>
        \A r \in Range(rendered) : r.entry.streams = Members(r.pcm) \cap 1 .. taken

\* A rendered frame has its own OAMD update, and is silent only if none of its
\* syncframes carries JOC that could be read.
MetadataIsOwn ==
    \A r \in Range(rendered) :
        /\ {r.entry.joc, r.entry.update} \subseteq r.entry.streams \cup {0}
        /\ r.entry.joc = 0 =>
              \A i \in r.entry.streams :
                  syncframes[i].meta = "none" \/ syncframes[i].fault = "container"

\* Every rendered frame has the PCM and the metadata of one and the same audio
\* frame of the input.
FramesAreOwn == PairsOwnMetadata /\ MetadataIsOwn

Units == {<<n, u>> : n \in 1 .. Len(rendered), u \in 0 .. FrameUnits - 1}
Precedes(a, b) == a[1] < b[1] \/ (a[1] = b[1] /\ a[2] < b[2])

\* Every rendered unit is in exactly one place and in order: with the caller,
\* in the output, in the FIFO, in the runtime's delay line or in its chunk.
\* What info_ counts as produced was pulled or is in buffered_samples, so a
\* caller that pulls until nothing is buffered has it all; and within Rosella
\* the tail only sounds after the whole program.
UnitsConserved ==
    LET heard == delivered \o output \o fifo
        all == heard \o line \o staged
    IN
    /\ Range(all) \ {Silence} = Units
    /\ \A i, j \in DOMAIN all : i < j /\ Silence \notin {all[i], all[j]} => Precedes(all[i], all[j])
    /\ samplesOut = Len(delivered) + Buffered
    /\ Output = "rosella" =>
          \A i, j \in 1 .. Len(heard) : i < j /\ heard[i] = Silence => heard[j] = Silence

\* A caller that only pushes never makes the stream render further ahead than
\* the cap, up to the chunk that crosses it.
RenderAheadBounded == flushes = 0 => Len(output) + Len(fifo) < Cap + Chunk * FrameUnits

\* A flush that succeeds leaves nothing behind: every frame that has both
\* parts is rendered or was reported as failed, and every unit is in the output.
FlushDrains ==
    at = "idle" /\ op = "flush" /\ status = "ok" =>
        /\ ended
        /\ fifo = <<>> /\ staged = <<>>
        /\ Range(line) \subseteq {Silence}
        /\ input = "objects16" \/ bedChannels # 0 => ~FrameReady

\* In the first pass, from the frame that is the first to declare a bed, frames
\* are rendered with the fixed positions, if the bed has no objects beside it.
\* (The bed of one pass still holds in the next.)
BedOf(r) == IF r.entry.update = 0 THEN "none" ELSE syncframes[r.entry.update].bed
BedIsNeverLate ==
    Output # "objects16" /\ failures = {} /\ pass = 1 =>
        \A n \in 1 .. Len(rendered) :
            /\ BedOf(rendered[n]) = "only"
            /\ \A m \in 1 .. n - 1 : BedOf(rendered[m]) = "none"
            => \A m \in n .. Len(rendered) : rendered[m].bed

=============================================================================
