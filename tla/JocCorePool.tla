---------------------------- MODULE JocCorePool ----------------------------
(***************************************************************************)
(* The threads of the JOC core: the pool that set_threads starts, the      *)
(* two-phase barrier and the job counter that process_frame's jobs are     *)
(* shared out with, and how the pool is stopped.                           *)
(*                                                                         *)
(* The caller's thread is Main; a worker is a number.  std::barrier is     *)
(* reduced to program counters: the last thread to arrive moves every      *)
(* thread that waits one step on.  A job is taken in one step and done in  *)
(* a later one, so that jobs of different threads overlap.                 *)
(***************************************************************************)
EXTENDS JocCore

CONSTANTS
    Workers,     \* the worker threads that may exist: 1 .. EJOC_MAX_OBJECTS - 1
    MaxCalls     \* bound: calls of the caller

ASSUME PoolAssumption == Workers \subseteq Nat \ {0} /\ IsFiniteSet(Workers) /\ MaxCalls \in Nat

Main == 0
Thread == {Main} \cup Workers

VARIABLES
    core, output,        \* what the jobs work on, and output16
    call, frame,         \* the call under way, or how the last one ended; its arguments
    workers,             \* workers_
    expected,            \* the workers work_barrier_ is made for, besides Main
    pc, item,            \* where each thread is, the index of the job it has, or 0
    jobs, count,         \* job_objects_, job_count_
    kind, next,          \* job_kind_, next_job_
    stop, poolReady,     \* stop_, pool_ready_
    finished,            \* history: the jobs of this dispatch that were done
    calls,               \* history: how many calls were made
    memory, result       \* history: core and output as of the last return

Calls == INSTANCE JocCoreCalls

jobVars == <<item, jobs, count, kind, next, finished>>
flagVars == <<stop, poolReady>>
poolVars == <<workers, expected, pc, jobVars, flagVars>>
dataVars == <<core, output, memory, result>>
callVars == <<call, frame, calls>>
vars == <<poolVars, dataVars, callVars>>

NoFrame == [fault |-> "none"]

Init ==
    /\ memory = FreshCore /\ result = NoOutput
    /\ core = FreshCore /\ output = NoOutput
    /\ call = "none" /\ frame = NoFrame
    /\ workers = {} /\ expected = {}
    /\ pc = [t \in Thread |-> IF t = Main THEN "idle" ELSE "absent"]
    /\ item = [t \in Thread |-> 0]
    /\ jobs = <<>> /\ count = 0 /\ kind = "objects" /\ next = 0
    /\ stop = FALSE /\ poolReady = FALSE
    /\ finished = {} /\ calls = 0

Participants == {Main} \cup expected

Go(t, where) == pc' = [pc EXCEPT ![t] = where]

\* A call is over for the caller.
Return(what) ==
    /\ call' = what
    /\ Go(Main, "idle")
    /\ UNCHANGED <<frame, calls>>

-----------------------------------------------------------------------------
\* work_barrier_->arrive_and_wait, at the first and at the second barrier of
\* a round.

\* Where a thread goes on behind a barrier.
Behind(t) ==
    CASE pc[t] \in {"arrive1", "wait1"} -> "woken"
      [] pc[t] \in {"arrive2", "wait2"} -> IF t = Main THEN "done" ELSE "arrive1"

Arrive(t, here, wait) ==
    /\ pc[t] = here
    /\ IF \A u \in Participants \ {t} : pc[u] = wait
       THEN pc' = [u \in Thread |-> IF u \in Participants THEN Behind(u) ELSE pc[u]]
       ELSE Go(t, wait)

Cross(t) ==
    /\ Arrive(t, "arrive1", "wait1") \/ Arrive(t, "arrive2", "wait2")
    /\ UNCHANGED <<workers, expected, jobVars, flagVars, dataVars, callVars>>

-----------------------------------------------------------------------------
\* The jobs of a dispatch.

\* Mutant: the counter is read and stored, so that a thread's raise may be lost.
TakeJob_NotAtomic(t) ==
    /\ pc[t] = "take"
    /\ next' \in {next, next + 1}
    /\ IF next < count
       THEN item' = [item EXCEPT ![t] = next + 1] /\ Go(t, "job")
       ELSE UNCHANGED item /\ Go(t, "last")
    /\ UNCHANGED <<workers, expected, jobs, count, kind, finished, flagVars, dataVars, callVars>>

\* execute_job_loop: next_job_.fetch_add, and the jobs up to job_count_.
TakeJob(t) ==
    /\ pc[t] = "take"
    /\ next' = next + 1
    /\ IF next < count
       THEN item' = [item EXCEPT ![t] = next + 1] /\ Go(t, "job")
       ELSE UNCHANGED item /\ Go(t, "last")
    /\ UNCHANGED <<workers, expected, jobs, count, kind, finished, flagVars, dataVars, callVars>>

DoJob(t) ==
    /\ pc[t] = "job"
    /\ LET job == jobs[item[t]] IN
       IF kind = "analysis"
       THEN core' = AnalysisJob(core, frame, job) /\ UNCHANGED output
       ELSE /\ core' = ObjectJob(core, frame, job)
            /\ output' = [output EXCEPT !.objects =
                   [o \in DOMAIN @ \cup {job} |-> IF o = job THEN ObjectOut(core, frame, o) ELSE @[o]]]
    /\ finished' = finished \cup {item[t]}
    /\ item' = [item EXCEPT ![t] = 0]
    /\ Go(t, "take")
    /\ UNCHANGED <<workers, expected, jobs, count, kind, next, flagVars, memory, result, callVars>>

\* Behind the loop comes the second barrier, unless the caller works alone.
Alone(n) == workers = {} \/ n = 1
LeaveLoop(t) ==
    /\ pc[t] = "last"
    /\ Go(t, IF t = Main /\ Alone(count) THEN "done" ELSE "arrive2")
    /\ UNCHANGED <<workers, expected, jobVars, flagVars, dataVars, callVars>>

-----------------------------------------------------------------------------
\* worker_loop

\* Mutant: a worker does not wait until the pool is ready.
WorkerStarts_AtOnce(w) ==
    /\ pc[w] = "spin"
    /\ Go(w, IF stop THEN "exited" ELSE "arrive1")
    /\ UNCHANGED <<workers, expected, jobVars, flagVars, dataVars, callVars>>

WorkerStarts(w) ==
    /\ pc[w] = "spin" /\ poolReady
    /\ Go(w, IF stop THEN "exited" ELSE "arrive1")
    /\ UNCHANGED <<workers, expected, jobVars, flagVars, dataVars, callVars>>

WorkerWakes(w) ==
    /\ w # Main /\ pc[w] = "woken"
    /\ Go(w, IF stop THEN "exited" ELSE "take")
    /\ UNCHANGED <<workers, expected, jobVars, flagVars, dataVars, callVars>>

-----------------------------------------------------------------------------
\* The caller: process.

MayCall == pc[Main] = "idle" /\ calls < MaxCalls /\ call # "destroyed"

\* Mutant: the counter is not set back.
Dispatch_KeepsCounter(what, todo) ==
    /\ kind' = what /\ jobs' = Ascending(todo) /\ count' = Cardinality(todo)
    /\ UNCHANGED next /\ finished' = {}
    /\ Go(Main, IF Alone(count') THEN "take" ELSE "arrive1")
    /\ UNCHANGED <<workers, expected, item, flagVars>>

\* dispatch_jobs, with one job of a kind per member of todo.
Dispatch(what, todo) ==
    /\ kind' = what /\ jobs' = Ascending(todo) /\ count' = Cardinality(todo)
    /\ next' = 0 /\ finished' = {}
    /\ Go(Main, IF Alone(count') THEN "take" ELSE "arrive1")
    /\ UNCHANGED <<workers, expected, item, flagVars>>

\* A call the checks refuse returns before anything is touched.
StartProcess(f) ==
    /\ MayCall
    /\ calls' = calls + 1
    /\ IF f.fault # "none"
       THEN call' = "failed" /\ UNCHANGED <<frame, output, poolVars>>
       ELSE /\ call' = "process" /\ frame' = f
            /\ output' = NoOutput
            /\ Dispatch("analysis", 0 .. f.channels - 1)
    /\ UNCHANGED <<core, memory, result>>

\* Behind the first barrier the caller takes its share of the jobs.
MainWakes ==
    /\ pc[Main] = "woken" /\ call = "process"
    /\ Go(Main, "take")
    /\ UNCHANGED <<workers, expected, jobVars, flagVars, dataVars, callVars>>

\* The end of the call: what it did is there as a whole.
EndProcess(k, out) ==
    /\ core' = Counted(k, frame) /\ output' = out
    /\ memory' = core' /\ result' = out
    /\ Return("ok")
    /\ UNCHANGED <<workers, expected, jobVars, flagVars>>

\* Behind the analysis: surround_post, render_lfe, and the objects, if any.
AnalysisDone ==
    /\ pc[Main] = "done" /\ call = "process" /\ kind = "analysis"
    /\ LET k == [AfterAnalysis(core, frame) EXCEPT !.lfe = LfeAfter(core, frame)]
           out == [output EXCEPT !.lfe = LfeOut(core, frame)]
       IN IF frame.mask = {}
          THEN EndProcess(k, out)
          ELSE /\ core' = k /\ output' = out
               /\ Dispatch("objects", frame.mask)
               /\ UNCHANGED <<memory, result, callVars>>

ObjectsDone ==
    /\ pc[Main] = "done" /\ call = "process" /\ kind = "objects"
    /\ EndProcess(core, output)

\* reset, which leaves the pool and the caller's output alone.
ResetCore ==
    /\ MayCall
    /\ calls' = calls + 1
    /\ core' = FreshCore /\ memory' = FreshCore
    /\ call' = "ok"
    /\ UNCHANGED <<output, result, frame, poolVars>>

-----------------------------------------------------------------------------
\* The caller: set_threads and the destructor, which begin with stop_workers.

\* stop_workers, up to the barrier; without workers it only clears the flags.
StopWorkers(what) ==
    /\ MayCall
    /\ calls' = calls + 1
    /\ call' = what
    /\ IF workers = {}
       THEN stop' = FALSE /\ poolReady' = FALSE /\ Go(Main, "stopped")
       ELSE stop' = TRUE /\ UNCHANGED poolReady /\ Go(Main, "arrive1")
    /\ UNCHANGED <<workers, expected, jobVars, dataVars, frame>>

\* Every thread that was started is joined.
Joined == \A w \in workers : pc[w] = "exited"
Gone(where) == pc' = [t \in Thread |-> IF t = Main THEN where ELSE "absent"]

StopWaits ==
    /\ pc[Main] = "woken" /\ stop
    /\ Joined
    /\ workers' = {} /\ expected' = {}
    /\ stop' = FALSE /\ poolReady' = FALSE
    /\ Gone("stopped")
    /\ UNCHANGED <<jobVars, dataVars, callVars>>

Destroyed ==
    /\ pc[Main] = "stopped" /\ call = "destroy"
    /\ Return("destroyed")
    /\ UNCHANGED <<workers, expected, jobVars, flagVars, dataVars>>

\* set_threads, behind stop_workers, for the workers wanted.
SetThreads(wanted) ==
    /\ pc[Main] = "stopped" /\ call = "threads"
    /\ jobs' = <<>> /\ count' = 0 /\ next' = 0 /\ finished' = {}
    /\ expected' = wanted
    /\ IF wanted = {}
       THEN Return("ok")
       ELSE Go(Main, "starting") /\ UNCHANGED callVars
    /\ UNCHANGED <<workers, item, kind, flagVars, dataVars>>

StartWorker(w) ==
    /\ pc[Main] = "starting" /\ w \in expected \ workers
    /\ workers' = workers \cup {w}
    /\ pc' = [pc EXCEPT ![w] = "spin"]
    /\ UNCHANGED <<expected, jobVars, flagVars, dataVars, callVars>>

PoolStarted ==
    /\ pc[Main] = "starting" /\ workers = expected
    /\ poolReady' = TRUE
    /\ Go(Main, "arrive1")
    /\ UNCHANGED <<workers, expected, jobVars, stop, dataVars, callVars>>

\* The startup rendezvous is a round without jobs.
Rendezvous ==
    /\ pc[Main] = "woken" /\ call = "threads" /\ ~stop
    /\ Go(Main, "arrive2")
    /\ UNCHANGED <<workers, expected, jobVars, flagVars, dataVars, callVars>>

PoolReady ==
    /\ pc[Main] = "done" /\ call = "threads"
    /\ Return("ok")
    /\ UNCHANGED <<workers, expected, jobVars, flagVars, dataVars>>

\* A thread cannot be started: those that were are told to stop, released and
\* joined.
StartFails ==
    /\ pc[Main] = "starting" /\ workers # expected
    /\ stop' = TRUE
    /\ Go(Main, "failing")
    /\ UNCHANGED <<workers, expected, jobVars, poolReady, dataVars, callVars>>

ReleaseStarted ==
    /\ pc[Main] = "failing"
    /\ poolReady' = TRUE
    /\ Go(Main, "cleaning")
    /\ UNCHANGED <<workers, expected, jobVars, stop, dataVars, callVars>>

StartFailed ==
    /\ pc[Main] = "cleaning"
    /\ Joined
    /\ workers' = {} /\ expected' = {} /\ stop' = FALSE
    /\ Gone("idle")
    /\ call' = "failed"
    /\ UNCHANGED <<jobVars, poolReady, dataVars, frame, calls>>

-----------------------------------------------------------------------------
StartCall ==
    \/ \E f \in Frames : StartProcess(f)
    \/ \E what \in {"threads", "destroy"} : StopWorkers(what)
    \/ ResetCore

MainStep ==
    \/ MainWakes \/ AnalysisDone \/ ObjectsDone
    \/ StopWaits \/ Destroyed \/ PoolStarted \/ Rendezvous \/ PoolReady
    \/ \E wanted \in SUBSET Workers : SetThreads(wanted)
    \/ \E w \in Workers : StartWorker(w)
    \/ StartFails \/ ReleaseStarted \/ StartFailed

WorkerStep(w) == WorkerStarts(w) \/ WorkerWakes(w)
ThreadStep(t) == Cross(t) \/ TakeJob(t) \/ DoJob(t) \/ LeaveLoop(t)

Next ==
    \/ StartCall \/ MainStep
    \/ \E t \in Thread : ThreadStep(t)
    \/ \E w \in Workers : WorkerStep(w)

\* Every thread that can go on does: the scheduler is fair to the threads.
Fairness ==
    /\ WF_vars(MainStep)
    /\ \A t \in Thread : WF_vars(ThreadStep(t))
    /\ \A w \in Workers : WF_vars(WorkerStep(w))

Spec == Init /\ [][Next]_vars /\ Fairness

-----------------------------------------------------------------------------
Point == {"idle", "stopped", "starting", "failing", "cleaning", "absent", "spin", "exited",
          "arrive1", "wait1", "woken", "take", "job", "last", "arrive2", "wait2", "done"}

\* Every variable of the pool stays in its range.
TypeOK ==
    /\ workers \subseteq Workers /\ expected \subseteq Workers
    /\ pc \in [Thread -> Point] /\ item \in [Thread -> Nat]
    /\ count \in Nat /\ next \in Nat /\ finished \subseteq 1 .. count
    /\ kind \in {"analysis", "objects"}
    /\ stop \in BOOLEAN /\ poolReady \in BOOLEAN /\ calls \in Nat

\* The threads that have a job.
Busy == {t \in Thread : pc[t] = "job"}

\* A job of a dispatch is done once: no two threads have the same one or one
\* that was done, and when the caller goes on from the dispatch all were done
\* and no thread is still at work.
EachJobOnce ==
    /\ \A t, u \in Busy : t # u => item[t] # item[u]
    /\ \A t \in Busy : item[t] \notin finished
    /\ pc[Main] = "done" /\ call = "process" => Busy = {} /\ finished = 1 .. count

\* With any number of threads a call does what it does with one.
RefinesCalls == Calls!Spec

\* Every call returns: process, set_threads, also when a thread cannot be
\* started, and the destructor.
CallsReturn == pc[Main] # "idle" ~> pc[Main] = "idle"

\* What an object is mixed from are slots of one moment, as long as the program
\* keeps its channel count: all core channels are delayed alike, and each window
\* is a run of slots with connecting gains.
Connected(window) ==
    \A i \in 1 .. Len(window) - 1 :
        window[i] # Silent => window[i + 1][1] = window[i][1] + 1 /\ window[i + 1][2] = window[i][3]
MixedFromOneMoment ==
    Cardinality(memory.counts) = 1 =>
    \A o \in DOMAIN result.objects : \A t \in 1 .. Slots :
        LET line == result.objects[o][t]
            newest == line[Len(line)][1]
        IN /\ Cardinality(newest) = 1
           /\ \A window \in newest :
                 /\ Connected(window)
                 /\ window[Len(window)][1] = LET n == (memory.n - 1) * Slots + t - Delay IN IF n > 0 THEN n ELSE 0

=============================================================================
