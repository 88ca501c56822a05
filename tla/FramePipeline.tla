---------------------------- MODULE FramePipeline ----------------------------
(***************************************************************************)
(* The overlapped frame loop of a file task (run in src/task/task.cpp).    *)
(* Three threads hand audio frames over through two FrameRings:            *)
(*                                                                         *)
(*   producer   reads the bitstream, rebuilds the objects of a frame       *)
(*   caller     renders it (the DSP), owns the outcome of the task         *)
(*   writer     writes it to the spool or to the ADM BWF                   *)
(*                                                                         *)
(* They also share the failure board, the stop flag, the write progress    *)
(* and the renderer's fixed bed positions.  What the input is like (which  *)
(* frames carry JOC metadata, where the bed is declared, which frame each  *)
(* stage would fail at) is the plan, chosen in the initial state.          *)
(*                                                                         *)
(* A step is what one thread does between two points where the others can  *)
(* see it: a critical section, or work on data it owns.                    *)
(***************************************************************************)
EXTENDS RingOps, Sequences

CONSTANTS
    N,           \* total_frames, counted by the metadata scan
    JocDepth,    \* kBitstreamRingDepth
    OutDepth,    \* kOutputRingDepth
    Interval,    \* cfg.progress_interval, 0 for no progress lines
    Adm,         \* the operation is ADM BWF: no DSP, objects go to the writer
    MayCancel,   \* whether the user may cancel the task
    Plans        \* the inputs considered

Frame == 0 .. N - 1
None == N + 1
Joc == 0
Dsp == 1
Write == 2
Rank == {Joc, Dsp, Write}

(***************************************************************************)
(* A plan.  meta[f]: whether frame f has a JOC container, and whether that *)
(* carries an OAMD payload.  bed: the frame whose OAMD first declares a    *)
(* bed layout with fixed channels.                                         *)
(* fails[r]: the frame at which stage r fails; only the bitstream can fail *)
(* after the last one.  inGroup: the bitstream stage fails while the       *)
(* frame's substreams are still being collected, and not while the         *)
(* collected frame is rebuilt.                                             *)
(***************************************************************************)
PlanType ==
    [meta    : [Frame -> {"none", "joc", "oamd"}],
     bed     : Frame \cup {None},
     fails   : {g \in [Rank -> 0 .. N \cup {None}] : g[Dsp] # N /\ g[Write] # N},
     inGroup : BOOLEAN]

ASSUME PipelineAssumption ==
    /\ N \in Nat /\ JocDepth \in Nat \ {0} /\ OutDepth \in Nat \ {0} /\ Interval \in Nat
    /\ Adm \in BOOLEAN /\ MayCancel \in BOOLEAN
    /\ Plans \subseteq PlanType

\* JocJob and OutputJob: the frame and the OAMD update (has_update, update,
\* outer_offset) it carries, None for no update.  A rendered frame remembers
\* whether it was rendered with the fixed bed positions.
JocJob == [frame : Frame \cup {None}, update : Frame \cup {None}]
OutputJob == [frame : Frame \cup {None}, update : Frame \cup {None}, bed : BOOLEAN]
EmptyJoc == [frame |-> None, update |-> None]
EmptyOut == [frame |-> None, update |-> None, bed |-> FALSE]

\* An entry of the failure board; the status a closed ring makes the producer
\* report (JOC_ERR_STATE) is told apart from a failure of the input.
Failure == [frame : 0 .. N, rank : Rank, cause : {"input", "ringClosed"}]
NoFailure == [frame |-> None, rank |-> Joc, cause |-> "input"]

VARIABLES
    plan,
    jocRing, outRing, stop, board, bedReady, cancelled,
    completed, finished,                  \* WriteProgress
    producerAt, produced, job, lastJob,   \* the producer thread and its locals
    callerAt, frame, pending, processed, progress, ending, outcome,
    writerAt, writing, written            \* the writer thread and the output

sharedVars == <<jocRing, outRing, stop, board, bedReady, completed, finished>>
producerVars == <<producerAt, produced, job, lastJob>>
callerVars == <<callerAt, frame, pending, processed, progress, ending, outcome>>
writerVars == <<writerAt, writing, written>>
vars == <<plan, cancelled, sharedVars, producerVars, callerVars, writerVars>>

Init ==
    /\ plan \in Plans
    /\ jocRing = NewRing(JocDepth, [i \in 0 .. JocDepth - 1 |-> EmptyJoc])
    /\ outRing = NewRing(OutDepth, [i \in 0 .. OutDepth - 1 |-> EmptyOut])
    /\ stop = FALSE
    /\ board = NoFailure
    /\ bedReady = FALSE
    /\ cancelled = FALSE
    /\ completed = 0 /\ finished = FALSE
    /\ producerAt = "collect" /\ produced = 0 /\ job = EmptyJoc /\ lastJob = FALSE
    /\ callerAt = "pop" /\ frame = EmptyJoc /\ pending = EmptyOut
    /\ processed = 0 /\ progress = 0 /\ ending = "none" /\ outcome = "running"
    /\ writerAt = "pop" /\ writing = EmptyOut /\ written = <<>>

-----------------------------------------------------------------------------
\* FailureBoard

Recorded == board.frame # None

\* The serial order of two failures: by frame, then by stage.
Precedes(f, g) == f.frame < g.frame \/ (f.frame = g.frame /\ f.rank < g.rank)

\* Mutant: the first failure recorded wins.
Record_FirstWins(f, r, why) ==
    board' = IF Recorded THEN board ELSE [frame |-> f, rank |-> r, cause |-> why]

\* record keeps the board's entry unless the new failure precedes it.
Record(f, r, why) ==
    LET failure == [frame |-> f, rank |-> r, cause |-> why] IN
    board' = IF Recorded /\ ~Precedes(failure, board) THEN board ELSE failure

FailedBefore(f) == Recorded /\ board.frame < f

-----------------------------------------------------------------------------
\* The producer thread

\* The stop flag is polled once per chunk read, so at any frame or not at all.
ProducerSeesStop ==
    /\ producerAt = "collect"
    /\ stop
    /\ producerAt' = "close"
    /\ UNCHANGED <<plan, cancelled, sharedVars, produced, job, lastJob, callerVars, writerVars>>

\* All frames are out and what follows is not read any further.
ProducerReachesEnd ==
    /\ producerAt = "collect"
    /\ produced = N
    /\ plan.fails[Joc] # N
    /\ producerAt' = "close"
    /\ UNCHANGED <<plan, cancelled, sharedVars, produced, job, lastJob, callerVars, writerVars>>

\* Mutant: a container without OAMD leaves the old update in place.
CollectFrame_NoReset ==
    /\ producerAt = "collect"
    /\ produced < N /\ plan.fails[Joc] # produced
    /\ job' = IF plan.meta[produced] = "oamd" THEN [job EXCEPT !.update = produced] ELSE job
    /\ bedReady' = (bedReady \/ plan.bed = produced)
    /\ producerAt' = "push"
    /\ UNCHANGED <<plan, cancelled, jocRing, outRing, stop, board, completed, finished,
                   produced, lastJob, callerVars, writerVars>>

\* The substreams of a frame are collected.  Only a JOC container resets
\* the job's update: without one the job keeps what the last swap left in it.
CollectFrame ==
    /\ producerAt = "collect"
    /\ produced < N /\ plan.fails[Joc] # produced
    /\ job' = CASE plan.meta[produced] = "none" -> job
                [] plan.meta[produced] = "joc"  -> [job EXCEPT !.update = None]
                [] plan.meta[produced] = "oamd" -> [job EXCEPT !.update = produced]
    /\ bedReady' = (bedReady \/ plan.bed = produced)
    /\ producerAt' = "push"
    /\ UNCHANGED <<plan, cancelled, jocRing, outRing, stop, board, completed, finished,
                   produced, lastJob, callerVars, writerVars>>

\* A syncframe is rejected while its frame is being collected.  The failure is
\* recorded, and the frame collected so far is still handed over; its update
\* is the old one, none or its own, by how far the OAMD payload was read, and
\* the bed it declares may have been read with it.
CollectFails ==
    /\ producerAt = "collect"
    /\ plan.fails[Joc] = produced /\ plan.inGroup
    /\ Record(produced, Joc, "input")
    /\ \E update \in {job.update, None, produced} :
          /\ update = produced => produced < N /\ plan.meta[produced] = "oamd"
          /\ job' = [job EXCEPT !.update = update]
          /\ bedReady' \in {bedReady, bedReady \/ (update = produced /\ plan.bed = produced)}
    /\ lastJob' = TRUE
    /\ producerAt' = IF produced < N THEN "push" ELSE "close"
    /\ UNCHANGED <<plan, cancelled, jocRing, outRing, stop, completed, finished,
                   produced, callerVars, writerVars>>

\* The collected frame fails its checks, its core PCM or its rebuild.
RebuildFails ==
    /\ producerAt = "collect"
    /\ plan.fails[Joc] = produced /\ ~plan.inGroup
    /\ Record(produced, Joc, "input")
    /\ producerAt' = "close"
    /\ UNCHANGED <<plan, cancelled, jocRing, outRing, stop, bedReady, completed, finished,
                   produced, job, lastJob, callerVars, writerVars>>

\* emit_group hands the rebuilt frame over and gets an old payload back.
ProducerPushes ==
    /\ producerAt = "push"
    /\ PushReady(JocDepth, jocRing)
    /\ PushAccepts(jocRing)
    /\ jocRing' = AfterPush(JocDepth, jocRing, [job EXCEPT !.frame = produced])
    /\ job' = PushLeaves(JocDepth, jocRing)
    /\ produced' = produced + 1
    /\ producerAt' = IF lastJob THEN "close" ELSE "collect"
    /\ UNCHANGED <<plan, cancelled, outRing, stop, board, bedReady, completed, finished,
                   lastJob, callerVars, writerVars>>

ProducerIsRefused ==
    /\ producerAt = "push"
    /\ PushReady(JocDepth, jocRing)
    /\ ~PushAccepts(jocRing)
    /\ Record(produced, Joc, "ringClosed")
    /\ producerAt' = "close"
    /\ UNCHANGED <<plan, cancelled, jocRing, outRing, stop, bedReady, completed, finished,
                   produced, job, lastJob, callerVars, writerVars>>

ProducerCloses ==
    /\ producerAt = "close"
    /\ jocRing' = AfterClose(jocRing)
    /\ producerAt' = "done"
    /\ UNCHANGED <<plan, cancelled, outRing, stop, board, bedReady, completed, finished,
                   produced, job, lastJob, callerVars, writerVars>>

Producer ==
    \/ ProducerSeesStop \/ ProducerReachesEnd \/ CollectFrame \/ CollectFails \/ RebuildFails
    \/ ProducerPushes \/ ProducerIsRefused \/ ProducerCloses

-----------------------------------------------------------------------------
\* The calling thread

CallerGoes(to, why) ==
    /\ callerAt' = to
    /\ ending' = why

CallerPops ==
    /\ callerAt = "pop"
    /\ PopReady(jocRing)
    /\ IF PopDelivers(jocRing)
       THEN /\ jocRing' = AfterPop(JocDepth, jocRing, frame)
            /\ frame' = PopTakes(jocRing)
            /\ CallerGoes("check", "none")
       ELSE /\ CallerGoes("shutdown", "drained")
            /\ UNCHANGED <<jocRing, frame>>
    /\ UNCHANGED <<plan, cancelled, outRing, stop, board, bedReady, completed, finished,
                   producerVars, pending, processed, progress, outcome, writerVars>>

\* failures.before(frame.index), then the cancellation flag.
CallerChecks ==
    /\ callerAt = "check"
    /\ IF FailedBefore(frame.frame) THEN CallerGoes("shutdown", "failed")
       ELSE IF cancelled THEN CallerGoes("shutdown", "cancelled")
       ELSE CallerGoes("render", "none")
    /\ UNCHANGED <<plan, cancelled, sharedVars, producerVars, frame, pending, processed,
                   progress, outcome, writerVars>>

\* The DSP of one frame, with the bed positions the renderer has by now.
CallerRenders ==
    /\ callerAt = "render"
    /\ Adm \/ plan.fails[Dsp] # frame.frame
    /\ pending' = [frame |-> frame.frame, update |-> frame.update, bed |-> ~Adm /\ bedReady]
    /\ CallerGoes("push", "none")
    /\ UNCHANGED <<plan, cancelled, sharedVars, producerVars, frame, processed, progress,
                   outcome, writerVars>>

RenderFails ==
    /\ callerAt = "render"
    /\ ~Adm /\ plan.fails[Dsp] = frame.frame
    /\ Record(frame.frame, Dsp, "input")
    /\ CallerGoes("shutdown", "failed")
    /\ UNCHANGED <<plan, cancelled, jocRing, outRing, stop, bedReady, completed, finished,
                   producerVars, frame, pending, processed, progress, outcome, writerVars>>

AtProgressLine(n) == Interval # 0 /\ n % Interval = 0

CallerPushes ==
    /\ callerAt = "push"
    /\ PushReady(OutDepth, outRing)
    /\ IF PushAccepts(outRing)
       THEN /\ outRing' = AfterPush(OutDepth, outRing, pending)
            /\ pending' = PushLeaves(OutDepth, outRing)
            /\ processed' = processed + 1
            /\ CallerGoes(IF AtProgressLine(processed + 1) THEN "progress" ELSE "pop", "none")
       ELSE /\ CallerGoes("shutdown", "failed")
            /\ UNCHANGED <<outRing, pending, processed>>
    /\ UNCHANGED <<plan, cancelled, jocRing, stop, board, bedReady, completed, finished,
                   producerVars, frame, progress, outcome, writerVars>>

\* Mutant: the progress line does not wait for the writer.
CallerReportsProgress_NoWait ==
    /\ callerAt = "progress"
    /\ IF FailedBefore(processed)
       THEN CallerGoes("shutdown", "failed") /\ UNCHANGED progress
       ELSE CallerGoes("pop", "none") /\ progress' = processed
    /\ UNCHANGED <<plan, cancelled, sharedVars, producerVars, frame, pending, processed,
                   outcome, writerVars>>

\* wait_for(processed - 1), then the progress line unless a failure precedes it.
CallerReportsProgress ==
    /\ callerAt = "progress"
    /\ finished \/ completed > processed - 1
    /\ IF FailedBefore(processed)
       THEN CallerGoes("shutdown", "failed") /\ UNCHANGED progress
       ELSE CallerGoes("pop", "none") /\ progress' = processed
    /\ UNCHANGED <<plan, cancelled, sharedVars, producerVars, frame, pending, processed,
                   outcome, writerVars>>

\* StageJoiner.shutdown: the stop flag and the bitstream ring first ...
CallerStopsProducer ==
    /\ callerAt = "shutdown"
    /\ stop' = TRUE
    /\ jocRing' = IF ending = "drained" THEN AfterClose(jocRing) ELSE AfterAbort(jocRing)
    /\ callerAt' = "shutdownOutput"
    /\ UNCHANGED <<plan, cancelled, outRing, board, bedReady, completed, finished,
                   producerVars, frame, pending, processed, progress, ending, outcome, writerVars>>

\* Mutant: the normal end drops what is queued for the writer.
CallerStopsWriter_Drops ==
    /\ callerAt = "shutdownOutput"
    /\ outRing' = AfterAbort(outRing)
    /\ callerAt' = "join"
    /\ UNCHANGED <<plan, cancelled, jocRing, stop, board, bedReady, completed, finished,
                   producerVars, frame, pending, processed, progress, ending, outcome, writerVars>>

\* ... then the output ring ...
CallerStopsWriter ==
    /\ callerAt = "shutdownOutput"
    /\ outRing' = IF ending = "drained" THEN AfterClose(outRing) ELSE AfterAbort(outRing)
    /\ callerAt' = "join"
    /\ UNCHANGED <<plan, cancelled, jocRing, stop, board, bedReady, completed, finished,
                   producerVars, frame, pending, processed, progress, ending, outcome, writerVars>>

\* Mutant: a drained ring counts as success whatever the board holds.
CallerJoins_DrainedIsOk ==
    /\ callerAt = "join"
    /\ producerAt = "done" /\ writerAt = "done"
    /\ outcome' = IF ending = "cancelled" THEN "cancelled"
                  ELSE IF ending = "failed" THEN "failed"
                  ELSE "ok"
    /\ callerAt' = "done"
    /\ UNCHANGED <<plan, cancelled, sharedVars, producerVars, frame, pending, processed,
                   progress, ending, writerVars>>

\* ... then both joins, and the outcome is decided from the board.
CallerJoins ==
    /\ callerAt = "join"
    /\ producerAt = "done" /\ writerAt = "done"
    /\ outcome' = IF ending = "cancelled" THEN "cancelled"
                  ELSE IF Recorded THEN "failed"
                  ELSE IF ending = "failed" THEN "internal"
                  ELSE "ok"
    /\ callerAt' = "done"
    /\ UNCHANGED <<plan, cancelled, sharedVars, producerVars, frame, pending, processed,
                   progress, ending, writerVars>>

Caller ==
    \/ CallerPops \/ CallerChecks \/ CallerRenders \/ RenderFails \/ CallerPushes
    \/ CallerReportsProgress \/ CallerStopsProducer \/ CallerStopsWriter \/ CallerJoins

-----------------------------------------------------------------------------
\* The writer thread

WriterPops ==
    /\ writerAt = "pop"
    /\ PopReady(outRing)
    /\ IF PopDelivers(outRing)
       THEN /\ outRing' = AfterPop(OutDepth, outRing, writing)
            /\ writing' = PopTakes(outRing)
            /\ writerAt' = "write"
       ELSE /\ writerAt' = "finish"
            /\ UNCHANGED <<outRing, writing>>
    /\ UNCHANGED <<plan, cancelled, jocRing, stop, board, bedReady, completed, finished,
                   producerVars, callerVars, written>>

WriterWrites ==
    /\ writerAt = "write"
    /\ plan.fails[Write] # writing.frame
    /\ written' = Append(written, writing)
    /\ writerAt' = "complete"
    /\ UNCHANGED <<plan, cancelled, sharedVars, producerVars, callerVars, writing>>

WriteFails ==
    /\ writerAt = "write"
    /\ plan.fails[Write] = writing.frame
    /\ Record(writing.frame, Write, "input")
    /\ writerAt' = "finish"
    /\ UNCHANGED <<plan, cancelled, jocRing, outRing, stop, bedReady, completed, finished,
                   producerVars, callerVars, writing, written>>

WriterCompletes ==
    /\ writerAt = "complete"
    /\ completed' = IF completed < writing.frame + 1 THEN writing.frame + 1 ELSE completed
    /\ writerAt' = "pop"
    /\ UNCHANGED <<plan, cancelled, jocRing, outRing, stop, board, bedReady, finished,
                   producerVars, callerVars, writing, written>>

\* Mutant: a writer that stops wakes nobody who waits for a frame.
WriterFinishes_Silently ==
    /\ writerAt = "finish"
    /\ writerAt' = "abort"
    /\ UNCHANGED <<plan, cancelled, sharedVars, producerVars, callerVars, writing, written>>

WriterFinishes ==
    /\ writerAt = "finish"
    /\ finished' = TRUE
    /\ writerAt' = "abort"
    /\ UNCHANGED <<plan, cancelled, jocRing, outRing, stop, board, bedReady, completed,
                   producerVars, callerVars, writing, written>>

WriterAborts ==
    /\ writerAt = "abort"
    /\ outRing' = AfterAbort(outRing)
    /\ writerAt' = "done"
    /\ UNCHANGED <<plan, cancelled, jocRing, stop, board, bedReady, completed, finished,
                   producerVars, callerVars, writing, written>>

Writer ==
    \/ WriterPops \/ WriterWrites \/ WriteFails \/ WriterCompletes
    \/ WriterFinishes \/ WriterAborts

-----------------------------------------------------------------------------
\* joc_task_cancel on another thread: the flag, and nothing else.
Cancel ==
    /\ MayCancel /\ ~cancelled
    /\ cancelled' = TRUE
    /\ UNCHANGED <<plan, sharedVars, producerVars, callerVars, writerVars>>

Next == Producer \/ Caller \/ Writer \/ Cancel

Spec == Init /\ [][Next]_vars

\* Each thread keeps running unless it waits; nobody is obliged to cancel.
FairSpec == Spec /\ WF_vars(Producer) /\ WF_vars(Caller) /\ WF_vars(Writer)

-----------------------------------------------------------------------------
\* The output holds frames 0, 1, 2, ... in this order, none twice and none
\* left out, whatever the interleaving of the three threads.
WrittenInOrder == \A i \in 1 .. Len(written) : written[i].frame = i - 1

\* The failures the input holds in store, and the one the serial loop, which
\* takes a frame through all three stages before the next, would meet first.
Planned ==
    {[frame |-> plan.fails[r], rank |-> r, cause |-> "input"] :
        r \in {q \in Rank : plan.fails[q] # None /\ ~(Adm /\ q = Dsp)}}
Serial == CHOOSE f \in Planned : \A g \in Planned \ {f} : Precedes(f, g)

\* What a task reports is true.  It succeeds only if every frame was written and
\* no stage failed, and fails with a failure of its input: never with the "ring
\* closed" status of the producer, which only follows another failure, and
\* never with the synthetic JOC_ERR_INTERNAL of the report.
ReportIsTrue ==
    /\ outcome = "ok" => Len(written) = N /\ Planned = {}
    /\ outcome = "failed" => board \in Planned
    /\ outcome # "internal"

\* The reported failure is the serial loop's, but for one case: a write
\* failure of a frame that was still queued when a later frame's DSP failed,
\* which stops the task and drops the queue.
SerialUnlessDropped ==
    outcome = "failed" =>
        \/ board = Serial
        \/ /\ board.frame = plan.fails[Dsp] /\ Serial.rank = Write
           /\ Serial.frame < board.frame
           /\ Len(written) <= Serial.frame

\* A progress line for n frames appears only after those frames are written,
\* and never when a failure among them is due.
ProgressIsWritten ==
    /\ progress <= Len(written)
    /\ progress > 0 /\ Planned # {} => Serial.frame >= progress

\* A frame without a JOC container carries the update that was left in the
\* buffer its job recycles, and a buffer is back after JocDepth + 2 frames: the
\* update is that of the last frame with a container among those of its buffer.
\* However far the stages are apart, every frame is rendered with this update
\* and, from the frame that declares the bed on, with the bed's positions.  The
\* frame the bitstream fails at is written as it is and promises neither.
Filled(meta, f) == {g \in 0 .. f : (f - g) % (JocDepth + 2) = 0 /\ meta[g] # "none"}
Carries(meta, f, update) ==
    IF Filled(meta, f) = {} THEN update = None
    ELSE \E g \in Filled(meta, f) :
            /\ \A h \in Filled(meta, f) : h <= g
            /\ update = IF meta[g] = "oamd" THEN g ELSE None
MetadataInTime ==
    \A i \in 1 .. Len(written) : plan.fails[Joc] # i - 1 =>
        /\ Carries(plan.meta, i - 1, written[i].update)
        /\ ~Adm /\ plan.bed <= i - 1 => written[i].bed

\* Every run returns: no failure, cancellation or progress wait leaves a
\* thread blocked in a ring that its peer has left.
Returns == <>(outcome # "running")

\* The pipeline is a render task as its caller sees it.
Task == INSTANCE RenderTask WITH
    out <- Len(written),
    verdict <- outcome,
    asked <- cancelled

RefinesTask == Task!TaskSpec

-----------------------------------------------------------------------------
(***************************************************************************)
(* What comments of the code and the README say of the frame loop, and     *)
(* what the code does not keep.                                            *)
(***************************************************************************)

\* task.cpp:832, "every stage sees the same input it saw before": the update a
\* frame carries is the one of its own bitstream, as in Stream.push_eac3.
UpdatesAreOwn == \A i \in 1 .. Len(written) : written[i].update \in {i - 1, None}

=============================================================================
