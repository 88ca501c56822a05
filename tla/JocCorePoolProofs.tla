------------------------- MODULE JocCorePoolProofs -------------------------
(***************************************************************************)
(* Proofs about JocCorePool for every number of workers, every set of      *)
(* objects and every sequence of calls: the jobs of a dispatch are shared  *)
(* out soundly, a call does what it does with one thread, and an object is *)
(* mixed from slots of one moment.                                         *)
(***************************************************************************)
EXTENDS JocCorePool, FiniteSetTheorems, SequenceTheorems, NaturalsInduction, WellFoundedInduction, TLAPS

(***************************************************************************)
(* The inductive invariant.  The barrier keeps all threads of a round on   *)
(* the same side: while the caller is outside a round, or does the jobs    *)
(* alone, no worker is among the jobs.                                     *)
(***************************************************************************)
Outside == {"absent", "spin", "exited", "arrive1", "wait1"}
BetweenRounds == {"idle", "stopped", "starting", "failing", "cleaning",
                  "arrive1", "wait1", "done"}
WorkersOutside == \A w \in Workers : pc[w] \in Outside

\* Only a thread that was started exists, and the barrier counts it.
Membership ==
    /\ \A w \in Workers \ workers : pc[w] = "absent"
    /\ workers \subseteq expected
    /\ pc[Main] = "stopped" => workers = {}

\* Where the caller is between telling the workers to stop and joining them.
Stopping == {"arrive1", "wait1", "woken", "failing", "cleaning"}

WorkersStopping == \A w \in Workers : pc[w] \in Outside \cup {"woken"}

SameSide ==
    /\ pc[Main] \in BetweenRounds => WorkersOutside
    /\ pc[Main] \in {"take", "job", "last"} /\ Alone(count) => WorkersOutside
    /\ pc[Main] \in {"arrive1", "wait1", "woken"} /\ call = "process" => ~Alone(count)
    /\ pc[Main] \in {"idle", "stopped", "starting", "failing", "cleaning"} => call # "process"
    /\ stop => pc[Main] \in Stopping /\ call # "process" /\ WorkersStopping
    /\ Membership

\* A thread that is behind the job loop has found the counter at its end.
CounterAtEnd ==
    /\ \A t \in Thread : pc[t] \in {"last", "arrive2", "wait2"} => next >= count
    /\ pc[Main] = "done" => next >= count
    /\ call # "process" /\ ~stop /\ pc[Main] \notin {"stopped", "idle"} => count = 0

\* The jobs below the counter are done or are some thread's, each of one.
JobsShared ==
    /\ \A t \in Busy : item[t] \in 1 .. count /\ item[t] <= next /\ item[t] \notin finished
    /\ \A t, u \in Busy : t # u => item[t] # item[u]
    /\ \A i \in finished : i <= next
    /\ \A i \in 1 .. count : i <= next => i \in finished \/ \E t \in Busy : item[t] = i

PoolInv ==
    /\ TypeOK /\ SameSide /\ CounterAtEnd /\ JobsShared
    /\ call = "process" => frame \in Frames

LEMMA MainIsNoWorker == Main \notin Workers /\ Main \in Thread /\ Workers \subseteq Thread
  BY PoolAssumption DEF Main, Thread

LEMMA InitPoolInv == Init => PoolInv
  <1> SUFFICES ASSUME Init PROVE PoolInv
    OBVIOUS
  <1>1. TypeOK
    BY DEF Init, TypeOK, Point, Thread, Main
  <1>2. SameSide
    BY MainIsNoWorker DEF Init, SameSide, Membership, Stopping, WorkersStopping, WorkersOutside, Outside, Alone
  <1>3. CounterAtEnd /\ JobsShared
    BY MainIsNoWorker DEF Init, CounterAtEnd, JobsShared, Busy
  <1>4. QED BY <1>1, <1>2, <1>3 DEF PoolInv, Init

\* The jobs of a frame are finitely many.
LEMMA JobCounts ==
    ASSUME NEW f \in Frames
    PROVE  /\ Cardinality(0 .. f.channels - 1) \in Nat
           /\ Cardinality(f.mask) \in Nat
  <1>1. f.channels \in {5, 7} /\ f.mask \in SUBSET Objects /\ IsFiniteSet(Objects)
    BY JocCoreAssumption DEF Frame
  <1>2. IsFiniteSet(0 .. f.channels - 1)
    BY <1>1, FS_Interval
  <1>3. IsFiniteSet(f.mask)
    BY <1>1, FS_Subset
  <1>4. QED BY <1>2, <1>3, FS_CardinalityType

\* Nobody is among the jobs while the caller is between rounds.
LEMMA NobodyBusy ==
    ASSUME PoolInv, pc[Main] \in BetweenRounds
    PROVE  Busy = {}
  BY MainIsNoWorker DEF PoolInv, SameSide, Membership, Stopping, WorkersStopping, WorkersOutside, Outside,
              BetweenRounds, Busy, Thread

-----------------------------------------------------------------------------
\* Steps of any thread.

LEMMA CrossInv == ASSUME NEW t \in Thread, PoolInv, Cross(t) PROVE PoolInv'
  <1> USE MainIsNoWorker
  <1>1. CASE Arrive(t, "arrive1", "wait1")
    <2>1. TypeOK'
      BY <1>1 DEF Arrive, Cross, Go, Behind, PoolInv, TypeOK, Point, Participants, jobVars, flagVars, callVars
    <2>2. SameSide'
      BY <1>1 DEF Arrive, Cross, Go, Behind, PoolInv, TypeOK, SameSide, Membership, Stopping,
                  WorkersStopping, WorkersOutside, Outside, BetweenRounds, Alone, Participants, Thread,
                  jobVars, flagVars, callVars
    <2>3. CounterAtEnd'
      BY <1>1 DEF Arrive, Cross, Go, Behind, PoolInv, TypeOK, CounterAtEnd, Participants, Thread,
                  jobVars, flagVars, callVars
    <2>4. Busy' = Busy
      BY <1>1 DEF Arrive, Cross, Go, Behind, PoolInv, TypeOK, Busy, Participants, Thread
    <2>5. JobsShared'
      BY <2>4 DEF Cross, PoolInv, JobsShared, jobVars
    <2>6. QED BY <2>1, <2>2, <2>3, <2>5 DEF PoolInv, Cross, callVars
  <1>2. CASE Arrive(t, "arrive2", "wait2")
    <2>1. TypeOK'
      BY <1>2 DEF Arrive, Cross, Go, Behind, PoolInv, TypeOK, Point, Participants, jobVars, flagVars, callVars
    <2>2. SameSide'
      BY <1>2 DEF Arrive, Cross, Go, Behind, PoolInv, TypeOK, SameSide, Membership, Stopping,
                  WorkersStopping, WorkersOutside, Outside, BetweenRounds, Alone, Participants, Thread,
                  jobVars, flagVars, callVars
    <2>3. CounterAtEnd'
      BY <1>2 DEF Arrive, Cross, Go, Behind, PoolInv, TypeOK, CounterAtEnd, Participants, Thread,
                  jobVars, flagVars, callVars
    <2>4. Busy' = Busy
      BY <1>2 DEF Arrive, Cross, Go, Behind, PoolInv, TypeOK, Busy, Participants, Thread
    <2>5. JobsShared'
      BY <2>4 DEF Cross, PoolInv, JobsShared, jobVars
    <2>6. QED BY <2>1, <2>2, <2>3, <2>5 DEF PoolInv, Cross, callVars
  <1>3. QED BY <1>1, <1>2 DEF Cross

LEMMA TakeJobInv == ASSUME NEW t \in Thread, PoolInv, TakeJob(t) PROVE PoolInv'
  <1> USE MainIsNoWorker
  <1>1. TypeOK'
    BY DEF TakeJob, Go, PoolInv, TypeOK, Point, flagVars, callVars
  <1>2. SameSide'
    BY DEF TakeJob, Go, PoolInv, TypeOK, SameSide, Membership, Stopping, WorkersStopping, WorkersOutside,
           Outside, BetweenRounds, Alone, Thread, flagVars, callVars
  <1>3. CounterAtEnd'
    BY DEF TakeJob, Go, PoolInv, TypeOK, CounterAtEnd, Thread, flagVars, callVars
  <1>4. JobsShared'
    <2>1. CASE next < count
      <3>1. Busy' = Busy \cup {t} /\ t \notin Busy
        BY <2>1 DEF TakeJob, Go, PoolInv, TypeOK, Busy
      <3>2. /\ item' = [item EXCEPT ![t] = next + 1] /\ next' = next + 1
            /\ UNCHANGED <<count, finished>>
        BY <2>1 DEF TakeJob
      <3>3. next + 1 \in 1 .. count /\ next \in Nat /\ count \in Nat /\ item \in [Thread -> Nat]
            /\ finished \subseteq 1 .. count /\ Busy \subseteq Thread
        BY <2>1 DEF PoolInv, TypeOK, Busy
      <3>4. \A u \in Busy : item'[u] = item[u] /\ item[u] <= next
        BY <3>1, <3>2, <3>3 DEF PoolInv, JobsShared
      <3>5. item'[t] = next + 1 /\ next + 1 \notin finished
        BY <3>2, <3>3 DEF PoolInv, JobsShared
      <3>6. \A i \in 1 .. count : i <= next' => i \in finished' \/ \E u \in Busy' : item'[u] = i
        <4> SUFFICES ASSUME NEW i \in 1 .. count, i <= next'
                     PROVE  i \in finished \/ \E u \in Busy' : item'[u] = i
          BY <3>2
        <4>1. CASE i = next + 1
          BY <4>1, <3>1, <3>5
        <4>2. CASE i <= next
          BY <4>2, <3>1, <3>4 DEF PoolInv, JobsShared
        <4>3. QED BY <4>1, <4>2, <3>2, <3>3
      <3>7. \A u \in Busy' : item'[u] \in 1 .. count' /\ item'[u] <= next' /\ item'[u] \notin finished'
        BY <3>1, <3>2, <3>3, <3>4, <3>5 DEF PoolInv, JobsShared
      <3>8. \A u, v \in Busy' : u # v => item'[u] # item'[v]
        BY <3>1, <3>2, <3>3, <3>4, <3>5 DEF PoolInv, JobsShared
      <3>9. \A i \in finished' : i <= next'
        BY <3>2, <3>3 DEF PoolInv, JobsShared
      <3>10. QED BY <3>2, <3>6, <3>7, <3>8, <3>9 DEF JobsShared
    <2>2. CASE ~(next < count)
      <3>1. Busy' = Busy
        BY <2>2 DEF TakeJob, Go, PoolInv, TypeOK, Busy
      <3>2. QED BY <2>2, <3>1 DEF TakeJob, PoolInv, TypeOK, JobsShared
    <2>3. QED BY <2>1, <2>2
  <1>5. QED BY <1>1, <1>2, <1>3, <1>4 DEF PoolInv, TakeJob, callVars

LEMMA DoJobInv == ASSUME NEW t \in Thread, PoolInv, DoJob(t) PROVE PoolInv'
  <1> USE MainIsNoWorker
  <1>0. /\ pc[t] = "job" /\ pc' = [pc EXCEPT ![t] = "take"]
        /\ item' = [item EXCEPT ![t] = 0]
        /\ finished' = finished \cup {item[t]} /\ t \in Busy
        /\ UNCHANGED <<workers, expected, count, kind, next, stop, poolReady, call, frame, calls>>
    BY DEF DoJob, Go, flagVars, callVars, Busy
  <1>1. TypeOK'
    BY <1>0 DEF PoolInv, TypeOK, Point, JobsShared
  <1>2. SameSide'
    BY <1>0 DEF PoolInv, TypeOK, SameSide, Membership, Stopping, WorkersStopping, WorkersOutside, Outside,
                BetweenRounds, Alone, Thread
  <1>3. CounterAtEnd'
    BY <1>0 DEF PoolInv, TypeOK, CounterAtEnd, Thread
  <1>4. JobsShared'
    <2>1. Busy' = Busy \ {t}
      BY <1>0 DEF PoolInv, TypeOK, Busy
    <2>2. \A u \in Busy' : item'[u] = item[u]
      BY <1>0, <2>1 DEF PoolInv, TypeOK, Busy
    <2>3. \A i \in 1 .. count : i <= next => i \in finished' \/ \E u \in Busy' : item'[u] = i
      BY <1>0, <2>1, <2>2 DEF PoolInv, JobsShared
    <2>4. QED BY <1>0, <2>1, <2>2, <2>3 DEF PoolInv, JobsShared
  <1>5. QED BY <1>0, <1>1, <1>2, <1>3, <1>4 DEF PoolInv

LEMMA LeaveLoopInv == ASSUME NEW t \in Thread, PoolInv, LeaveLoop(t) PROVE PoolInv'
  <1> USE MainIsNoWorker
  <1>1. TypeOK'
    BY DEF LeaveLoop, Go, PoolInv, TypeOK, Point, jobVars, flagVars, callVars
  <1>2. SameSide'
    BY DEF LeaveLoop, Go, PoolInv, TypeOK, SameSide, Membership, Stopping, WorkersStopping, WorkersOutside,
           Outside, BetweenRounds, Alone, Thread, jobVars, flagVars, callVars
  <1>3. CounterAtEnd'
    BY DEF LeaveLoop, Go, PoolInv, TypeOK, CounterAtEnd, Thread, jobVars, flagVars, callVars
  <1>4. Busy' = Busy
    BY DEF LeaveLoop, Go, PoolInv, TypeOK, Busy
  <1>5. JobsShared'
    BY <1>4 DEF LeaveLoop, PoolInv, JobsShared, jobVars
  <1>6. QED BY <1>1, <1>2, <1>3, <1>5 DEF PoolInv, LeaveLoop, callVars

LEMMA WorkerStepInv == ASSUME NEW w \in Workers, PoolInv, WorkerStep(w) PROVE PoolInv'
  <1> USE MainIsNoWorker
  <1>0. /\ \/ pc[w] = "spin" /\ pc' = [pc EXCEPT ![w] = IF stop THEN "exited" ELSE "arrive1"]
           \/ pc[w] = "woken" /\ pc' = [pc EXCEPT ![w] = IF stop THEN "exited" ELSE "take"]
        /\ UNCHANGED <<workers, expected, item, count, kind, next, finished, stop, poolReady,
                       call, frame, calls>>
    BY DEF WorkerStep, WorkerStarts, WorkerWakes, Go, jobVars, flagVars, callVars
  <1>1. TypeOK'
    BY <1>0 DEF PoolInv, TypeOK, Point
  <1>2. SameSide'
    BY <1>0 DEF PoolInv, TypeOK, SameSide, Membership, Stopping, WorkersStopping, WorkersOutside, Outside,
                BetweenRounds, Alone, Thread
  <1>3. CounterAtEnd'
    BY <1>0 DEF PoolInv, TypeOK, CounterAtEnd, Thread
  <1>4. Busy' = Busy
    BY <1>0 DEF PoolInv, TypeOK, Busy
  <1>5. JobsShared'
    BY <1>0, <1>4 DEF PoolInv, JobsShared
  <1>6. QED BY <1>0, <1>1, <1>2, <1>3, <1>5 DEF PoolInv

-----------------------------------------------------------------------------
\* Steps of the caller.

\* Sharing out new jobs, from between two rounds.
LEMMA DispatchInv ==
    ASSUME PoolInv, NEW what \in {"analysis", "objects"}, NEW todo,
           Cardinality(todo) \in Nat, pc[Main] \in BetweenRounds, ~stop,
           Dispatch(what, todo), call' = "process", frame' \in Frames, calls' \in Nat
    PROVE  PoolInv'
  <1> USE MainIsNoWorker
  <1>0. /\ count' \in Nat /\ next' = 0 /\ finished' = {} /\ kind' = what
        /\ pc' = [pc EXCEPT ![Main] = IF Alone(count') THEN "take" ELSE "arrive1"]
        /\ UNCHANGED <<workers, expected, item, stop, poolReady>>
    BY DEF Dispatch, Go, flagVars
  <1>1. TypeOK'
    BY <1>0 DEF PoolInv, TypeOK, Point
  <1>2. SameSide'
    BY <1>0 DEF PoolInv, TypeOK, SameSide, Membership, Stopping, WorkersStopping, WorkersOutside, Outside,
                BetweenRounds, Alone, Thread
  <1>3. CounterAtEnd'
    BY <1>0 DEF PoolInv, TypeOK, SameSide, Membership, Stopping, WorkersStopping, WorkersOutside, Outside,
                CounterAtEnd, Thread
  <1>4. Busy' = {}
    BY <1>0, NobodyBusy DEF PoolInv, TypeOK, Busy
  <1>5. JobsShared'
    BY <1>0, <1>4 DEF JobsShared
  <1>6. QED BY <1>1, <1>2, <1>3, <1>5 DEF PoolInv

LEMMA StartProcessInv == ASSUME NEW f \in Frames, PoolInv, StartProcess(f) PROVE PoolInv'
  <1>1. CASE f.fault = "none"
    <2>1. /\ pc[Main] \in BetweenRounds /\ ~stop
          /\ call' = "process" /\ frame' \in Frames /\ calls' \in Nat
      BY <1>1 DEF StartProcess, MayCall, BetweenRounds, PoolInv, TypeOK, SameSide, Stopping
    <2>2. Dispatch("analysis", 0 .. f.channels - 1)
      BY <1>1 DEF StartProcess
    <2>3. QED BY <2>1, <2>2, JobCounts, DispatchInv
  <1>2. CASE f.fault # "none"
    <2>1. call' = "failed" /\ calls' \in Nat /\ pc[Main] = "idle" /\ UNCHANGED <<frame, poolVars>>
      BY <1>2 DEF StartProcess, MayCall, PoolInv, TypeOK
    <2> USE <2>1 DEF poolVars, jobVars, flagVars
    <2>2. TypeOK' /\ Busy' = Busy
      BY DEF PoolInv, TypeOK, Busy
    <2>3. SameSide' /\ CounterAtEnd'
      BY DEF PoolInv, SameSide, Membership, Stopping, WorkersStopping, WorkersOutside, Alone, CounterAtEnd
    <2>4. JobsShared'
      BY <2>2 DEF PoolInv, JobsShared
    <2>5. QED BY <2>2, <2>3, <2>4 DEF PoolInv
  <1>3. QED BY <1>1, <1>2

\* A step after which the caller is between rounds, every worker outside, and
\* no frame in progress; the jobs are as they were, or there are none.
LEMMA QuietInv ==
    ASSUME PoolInv, Busy = {}, TypeOK', WorkersOutside',
           pc'[Main] \in BetweenRounds \ {"done"}, call' # "process",
           Membership', stop' => pc'[Main] \in Stopping,
           count' = 0 \/ UNCHANGED <<count, next, finished>>,
           ~stop' => pc'[Main] \in {"stopped", "idle"} \/ count' = 0
    PROVE  PoolInv'
  <1> USE MainIsNoWorker
  <1>1. SameSide'
    BY DEF SameSide, BetweenRounds, WorkersOutside, WorkersStopping
  <1>2. CounterAtEnd'
    BY DEF CounterAtEnd, BetweenRounds, WorkersOutside, Outside, Thread
  <1>3. Busy' = {}
    BY DEF Busy, BetweenRounds, WorkersOutside, Outside, Thread
  <1>4. JobsShared'
    BY <1>3 DEF PoolInv, TypeOK, JobsShared
  <1>5. QED BY <1>1, <1>2, <1>4 DEF PoolInv

LEMMA EndProcessInv ==
    ASSUME PoolInv, pc[Main] = "done", NEW k, NEW out, EndProcess(k, out)
    PROVE  PoolInv'
  <1> USE MainIsNoWorker
  <1>1. /\ Busy = {} /\ pc' = [pc EXCEPT ![Main] = "idle"] /\ call' = "ok"
        /\ UNCHANGED <<workers, expected, item, count, kind, next, finished, stop, poolReady, calls>>
    BY NobodyBusy DEF EndProcess, Return, Go, jobVars, flagVars, BetweenRounds
  <1>2. TypeOK'
    BY <1>1 DEF PoolInv, TypeOK, Point
  <1>3. WorkersOutside' /\ pc'[Main] = "idle" /\ Membership' /\ (stop' => pc'[Main] \in Stopping)
    BY <1>1 DEF PoolInv, TypeOK, SameSide, Membership, Stopping, WorkersStopping, WorkersOutside, BetweenRounds
  <1>4. QED BY <1>1, <1>2, <1>3, QuietInv DEF BetweenRounds

LEMMA AnalysisDoneInv == PoolInv /\ AnalysisDone => PoolInv'
  <1> SUFFICES ASSUME PoolInv, AnalysisDone PROVE PoolInv'
    OBVIOUS
  <1>1. pc[Main] = "done" /\ call = "process" /\ frame \in Frames
    BY DEF AnalysisDone, PoolInv
  <1>2. CASE frame.mask = {}
    <2>1. PICK k, out : EndProcess(k, out)
      BY <1>2 DEF AnalysisDone
    <2>2. QED BY <1>1, <2>1, EndProcessInv
  <1>3. CASE frame.mask # {}
    <2>1. Dispatch("objects", frame.mask) /\ UNCHANGED <<call, frame, calls>>
      BY <1>3 DEF AnalysisDone, callVars
    <2>2. calls' \in Nat /\ ~stop
      BY <1>1, <2>1 DEF PoolInv, TypeOK, SameSide, Stopping
    <2>3. QED BY <1>1, <2>1, <2>2, JobCounts, DispatchInv DEF BetweenRounds
  <1>4. QED BY <1>2, <1>3

\* The steps of the caller that are quiet, one by one.
LEMMA QuietSteps ==
    ASSUME PoolInv,
           \/ ResetCore \/ (\E what \in {"threads", "destroy"} : StopWorkers(what))
           \/ StopWaits \/ Destroyed \/ (\E wanted \in SUBSET Workers : SetThreads(wanted))
           \/ (\E w \in Workers : StartWorker(w)) \/ PoolStarted \/ PoolReady
           \/ StartFails \/ ReleaseStarted \/ StartFailed
    PROVE  PoolInv'
  <1> USE MainIsNoWorker DEF jobVars, flagVars, callVars, Go, Gone, Return, BetweenRounds
  <1>0. pc[Main] \in BetweenRounds => Busy = {} /\ WorkersOutside
    BY NobodyBusy DEF PoolInv, SameSide
  <1>1. CASE ResetCore
    <2>1. /\ pc[Main] = "idle" /\ call' = "ok" /\ calls' \in Nat
          /\ UNCHANGED <<pc, workers, expected, item, count, kind, next, finished, stop, poolReady>>
      BY <1>1 DEF ResetCore, MayCall, poolVars, PoolInv, TypeOK
    <2>2. TypeOK' /\ WorkersOutside' /\ Membership' /\ (stop' => pc'[Main] \in Stopping)
      BY <2>1, <1>0 DEF PoolInv, TypeOK, SameSide, Membership, Stopping, WorkersStopping, WorkersOutside,
                  Outside
    <2>3. QED BY <1>0, <2>1, <2>2, QuietInv
  <1>2. ASSUME NEW what \in {"threads", "destroy"}, StopWorkers(what) PROVE PoolInv'
    <2>1. /\ pc[Main] = "idle" /\ call' = what /\ calls' \in Nat
          /\ \/ pc' = [pc EXCEPT ![Main] = "stopped"] /\ stop' = FALSE /\ poolReady' = FALSE /\ workers = {}
             \/ pc' = [pc EXCEPT ![Main] = "arrive1"] /\ stop' = TRUE /\ UNCHANGED poolReady
          /\ UNCHANGED <<workers, expected, item, count, kind, next, finished>>
      BY <1>2 DEF StopWorkers, MayCall, PoolInv, TypeOK
    <2>2. TypeOK'
      BY <2>1 DEF PoolInv, TypeOK, Point
    <2>3. WorkersOutside' /\ Membership' /\ (stop' => pc'[Main] \in Stopping)
      BY <2>1, <1>0 DEF PoolInv, TypeOK, SameSide, Membership, Stopping, WorkersStopping, WorkersOutside,
                  Outside
    <2>4. /\ pc'[Main] \in BetweenRounds \ {"done"} /\ call' # "process"
          /\ ~stop' => pc'[Main] \in {"stopped", "idle"}
      BY <2>1 DEF PoolInv, TypeOK
    <2>5. QED BY <1>0, <2>1, <2>2, <2>3, <2>4, QuietInv
  <1>3. CASE StopWaits
    <2>1. /\ pc[Main] = "woken" /\ pc' = [t \in Thread |-> IF t = Main THEN "stopped" ELSE "absent"]
          /\ workers' = {} /\ expected' = {} /\ stop' = FALSE /\ poolReady' = FALSE
          /\ UNCHANGED <<item, count, kind, next, finished, call, frame, calls>>
          /\ \A w \in workers : pc[w] = "exited"
      BY <1>3 DEF StopWaits, Joined
    <2>2. Busy = {}
      BY <2>1 DEF PoolInv, SameSide, Membership, Busy, Thread
    <2>3. TypeOK'
      BY <2>1 DEF PoolInv, TypeOK, Point
    <2>4. WorkersOutside' /\ Membership' /\ (stop' => pc'[Main] \in Stopping) /\ pc'[Main] = "stopped"
      BY <2>1 DEF WorkersOutside, Outside, Membership, Stopping
    <2>5. call # "process"
      BY <2>1, <1>3 DEF StopWaits, PoolInv, SameSide
    <2>6. QED BY <2>1, <2>2, <2>3, <2>4, <2>5, QuietInv
  <1>4. CASE Destroyed
    <2>1. /\ pc[Main] = "stopped" /\ pc' = [pc EXCEPT ![Main] = "idle"] /\ call' = "destroyed"
          /\ UNCHANGED <<workers, expected, item, count, kind, next, finished, stop, poolReady, calls>>
      BY <1>4 DEF Destroyed
    <2>2. TypeOK' /\ pc'[Main] = "idle"
      BY <2>1 DEF PoolInv, TypeOK, Point
    <2>3. WorkersOutside' /\ Membership' /\ (stop' => pc'[Main] \in Stopping)
      BY <2>1, <1>0 DEF PoolInv, TypeOK, SameSide, Membership, Stopping, WorkersStopping, WorkersOutside,
                  Outside
    <2>4. QED BY <1>0, <2>1, <2>2, <2>3, QuietInv
  <1>5. ASSUME NEW wanted \in SUBSET Workers, SetThreads(wanted) PROVE PoolInv'
    <2>1. /\ pc[Main] = "stopped" /\ call = "threads" /\ count' = 0 /\ next' = 0 /\ finished' = {}
          /\ \/ pc' = [pc EXCEPT ![Main] = "idle"] /\ call' = "ok"
             \/ pc' = [pc EXCEPT ![Main] = "starting"] /\ call' = call
          /\ expected' = wanted
          /\ UNCHANGED <<workers, item, kind, stop, poolReady, calls>>
      BY <1>5 DEF SetThreads
    <2>2. TypeOK'
      BY <2>1 DEF PoolInv, TypeOK, Point
    <2>3. WorkersOutside' /\ Membership' /\ (stop' => pc'[Main] \in Stopping)
      BY <2>1, <1>0 DEF PoolInv, TypeOK, SameSide, Membership, Stopping, WorkersStopping, WorkersOutside,
                  Outside
    <2>4. pc'[Main] \in BetweenRounds \ {"done"} /\ call' # "process"
      BY <2>1 DEF PoolInv, TypeOK
    <2>5. QED BY <1>0, <2>1, <2>2, <2>3, <2>4, QuietInv
  <1>6. ASSUME NEW w \in Workers, StartWorker(w) PROVE PoolInv'
    <2>1. /\ pc[Main] = "starting" /\ pc' = [pc EXCEPT ![w] = "spin"]
          /\ workers' = workers \cup {w} /\ w \in expected
          /\ UNCHANGED <<expected, item, count, kind, next, finished, stop, poolReady, call, frame, calls>>
      BY <1>6 DEF StartWorker
    <2>2. TypeOK'
      BY <2>1 DEF PoolInv, TypeOK, Point
    <2>3. WorkersOutside' /\ Membership' /\ (stop' => pc'[Main] \in Stopping)
      BY <2>1, <1>0 DEF PoolInv, TypeOK, SameSide, Membership, Stopping, WorkersStopping, WorkersOutside,
                  Outside
    <2>4. pc'[Main] = "starting" /\ call' # "process"
      BY <2>1 DEF PoolInv, TypeOK, SameSide, Membership, Stopping
    <2>5. ~stop' => count' = 0
      BY <2>1 DEF PoolInv, CounterAtEnd, SameSide
    <2>6. QED BY <1>0, <2>1, <2>2, <2>3, <2>4, <2>5, QuietInv
  <1>7. CASE PoolStarted
    <2>1. /\ pc[Main] = "starting" /\ pc' = [pc EXCEPT ![Main] = "arrive1"] /\ poolReady' = TRUE
          /\ UNCHANGED <<workers, expected, item, count, kind, next, finished, stop, call, frame, calls>>
      BY <1>7 DEF PoolStarted
    <2>2. TypeOK' /\ pc'[Main] = "arrive1"
      BY <2>1 DEF PoolInv, TypeOK, Point
    <2>3. WorkersOutside' /\ Membership' /\ (stop' => pc'[Main] \in Stopping)
      BY <2>1, <1>0 DEF PoolInv, TypeOK, SameSide, Membership, Stopping, WorkersStopping, WorkersOutside,
                  Outside
    <2>4. call' # "process" /\ (~stop' => count' = 0)
      BY <2>1 DEF PoolInv, SameSide, CounterAtEnd
    <2>5. QED BY <1>0, <2>1, <2>2, <2>3, <2>4, QuietInv
  <1>8. CASE PoolReady
    <2>1. /\ pc[Main] = "done" /\ pc' = [pc EXCEPT ![Main] = "idle"] /\ call' = "ok"
          /\ UNCHANGED <<workers, expected, item, count, kind, next, finished, stop, poolReady, calls>>
      BY <1>8 DEF PoolReady
    <2>2. TypeOK' /\ pc'[Main] = "idle"
      BY <2>1 DEF PoolInv, TypeOK, Point
    <2>3. WorkersOutside' /\ Membership' /\ (stop' => pc'[Main] \in Stopping)
      BY <2>1, <1>0 DEF PoolInv, TypeOK, SameSide, Membership, Stopping, WorkersStopping, WorkersOutside,
                  Outside
    <2>4. QED BY <1>0, <2>1, <2>2, <2>3, QuietInv
  <1>9. CASE StartFails \/ ReleaseStarted
    <2>1. /\ pc[Main] \in {"starting", "failing"} /\ stop' \in BOOLEAN /\ poolReady' \in BOOLEAN
          /\ \/ pc' = [pc EXCEPT ![Main] = "failing"] /\ stop' = TRUE
             \/ pc' = [pc EXCEPT ![Main] = "cleaning"] /\ stop' = stop
          /\ UNCHANGED <<workers, expected, item, count, kind, next, finished, call, frame, calls>>
      BY <1>9 DEF StartFails, ReleaseStarted, PoolInv, TypeOK
    <2>2. TypeOK' /\ pc'[Main] \in {"failing", "cleaning"}
      BY <2>1 DEF PoolInv, TypeOK, Point
    <2>3. WorkersOutside' /\ Membership' /\ (stop' => pc'[Main] \in Stopping)
      BY <2>1, <1>0 DEF PoolInv, TypeOK, SameSide, Membership, Stopping, WorkersStopping, WorkersOutside,
                  Outside
    <2>4. call' # "process" /\ (~stop' => count' = 0)
      BY <2>1 DEF PoolInv, SameSide, CounterAtEnd
    <2>5. QED BY <1>0, <2>1, <2>2, <2>3, <2>4, QuietInv
  <1>10. CASE StartFailed
    <2>1. /\ pc[Main] = "cleaning" /\ pc' = [t \in Thread |-> IF t = Main THEN "idle" ELSE "absent"]
          /\ workers' = {} /\ expected' = {} /\ stop' = FALSE /\ call' = "failed"
          /\ UNCHANGED <<item, count, kind, next, finished, poolReady, calls>>
      BY <1>10 DEF StartFailed
    <2>2. TypeOK'
      BY <2>1 DEF PoolInv, TypeOK, Point
    <2>3. WorkersOutside' /\ Membership' /\ (stop' => pc'[Main] \in Stopping) /\ pc'[Main] = "idle"
      BY <2>1 DEF WorkersOutside, Outside, Membership, Stopping
    <2>4. QED BY <1>0, <2>1, <2>2, <2>3, QuietInv
  <1>11. QED BY <1>1, <1>2, <1>3, <1>4, <1>5, <1>6, <1>7, <1>8, <1>9, <1>10

\* Entering the jobs of a frame, and the round without jobs.
LEMMA RoundSteps == PoolInv /\ (MainWakes \/ Rendezvous) => PoolInv'
  <1> SUFFICES ASSUME PoolInv, MainWakes \/ Rendezvous PROVE PoolInv'
    OBVIOUS
  <1> USE MainIsNoWorker
  <1>0. /\ pc[Main] = "woken"
        /\ \/ pc' = [pc EXCEPT ![Main] = "take"] /\ call = "process"
           \/ pc' = [pc EXCEPT ![Main] = "arrive2"] /\ call = "threads" /\ ~stop
        /\ UNCHANGED <<workers, expected, item, count, kind, next, finished, stop, poolReady,
                       call, frame, calls>>
    BY DEF MainWakes, Rendezvous, Go, jobVars, flagVars, callVars
  <1>1. TypeOK'
    BY <1>0 DEF PoolInv, TypeOK, Point
  <1>2. SameSide'
    BY <1>0 DEF PoolInv, TypeOK, SameSide, Membership, Stopping, WorkersStopping, WorkersOutside,
                BetweenRounds, Alone
  <1>3. CounterAtEnd'
    BY <1>0 DEF PoolInv, TypeOK, CounterAtEnd
  <1>4. Busy' = Busy
    BY <1>0 DEF PoolInv, TypeOK, Busy
  <1>5. JobsShared'
    BY <1>0, <1>4 DEF PoolInv, JobsShared
  <1>6. QED BY <1>0, <1>1, <1>2, <1>3, <1>5 DEF PoolInv

-----------------------------------------------------------------------------
LEMMA NextPoolInv == PoolInv /\ [Next]_vars => PoolInv'
  <1> SUFFICES ASSUME PoolInv, [Next]_vars PROVE PoolInv'
    OBVIOUS
  <1>1. CASE StartCall
    BY <1>1, StartProcessInv, QuietSteps DEF StartCall
  <1>2. CASE MainStep
    <2>1. CASE ObjectsDone
      BY <2>1, EndProcessInv DEF ObjectsDone
    <2>2. QED BY <1>2, <2>1, AnalysisDoneInv, QuietSteps, RoundSteps DEF MainStep
  <1>3. ASSUME NEW t \in Thread, ThreadStep(t) PROVE PoolInv'
    BY <1>3, CrossInv, TakeJobInv, DoJobInv, LeaveLoopInv DEF ThreadStep
  <1>4. ASSUME NEW w \in Workers, WorkerStep(w) PROVE PoolInv'
    BY <1>4, WorkerStepInv
  <1>5. CASE UNCHANGED vars
    <2>1. TypeOK' /\ SameSide' /\ CounterAtEnd' /\ Busy' = Busy
      BY <1>5 DEF PoolInv, TypeOK, SameSide, Membership, Stopping, WorkersStopping, WorkersOutside, Alone,
                  CounterAtEnd, Busy, vars, poolVars, jobVars, flagVars, callVars
    <2>2. JobsShared' /\ (call' = "process" => frame' \in Frames)
      BY <1>5, <2>1 DEF PoolInv, JobsShared, vars, poolVars, jobVars, callVars
    <2>3. QED BY <2>1, <2>2 DEF PoolInv
  <1>6. QED BY <1>1, <1>2, <1>3, <1>4, <1>5 DEF Next

\* Every variable of the pool stays in its range.
THEOREM TypeCorrect == Spec => []TypeOK
  <1>1. PoolInv => TypeOK
    BY DEF PoolInv
  <1>2. QED BY InitPoolInv, NextPoolInv, <1>1, PTL DEF Spec

\* Whatever the number of workers and of jobs, a job is done by one thread and
\* once, and a dispatch ends with all of them done.
THEOREM JobsAreDoneOnce == Spec => []EachJobOnce
  <1>1. ASSUME PoolInv PROVE EachJobOnce
    <2>1. ASSUME pc[Main] = "done" PROVE Busy = {} /\ finished = 1 .. count
      <3>1. Busy = {} /\ next >= count
        BY <1>1, <2>1, NobodyBusy DEF PoolInv, CounterAtEnd, BetweenRounds
      <3>2. finished \subseteq 1 .. count /\ next \in Nat /\ count \in Nat
        BY <1>1 DEF PoolInv, TypeOK
      <3>3. ASSUME NEW i \in 1 .. count PROVE i \in finished
        BY <1>1, <3>1, <3>2 DEF PoolInv, JobsShared
      <3>4. QED BY <3>1, <3>2, <3>3
    <2>2. QED BY <1>1, <2>1 DEF PoolInv, JobsShared, EachJobOnce
  <1>2. QED BY InitPoolInv, NextPoolInv, <1>1, PTL DEF Spec

-----------------------------------------------------------------------------
(***************************************************************************)
(* The jobs of a dispatch in any order.  A job reads what the call began   *)
(* with and writes what no other job reads or writes, so what was done is  *)
(* described by the set of the jobs done: AnalysedOf, ObjectsOf.           *)
(***************************************************************************)

\* A core has these fields, and the memories that jobs change one by one are
\* functions.
Record(k) ==
    k = [delay |-> k.delay, fifo |-> k.fifo, x |-> k.x, later |-> k.later, history |-> k.history,
         lfe |-> k.lfe, matrix |-> k.matrix, overlap |-> k.overlap,
         gain |-> k.gain, n |-> k.n, counts |-> k.counts]
Shaped(k) ==
    /\ Record(k)
    /\ k.delay = [l \in Lanes |-> k.delay[l]]
    /\ k.fifo = [c \in Channels |-> k.fifo[c]]
    /\ k.x = [c \in Channels |-> k.x[c]]
    /\ k.matrix = [o \in Objects |-> k.matrix[o]]
    /\ k.overlap = [o \in Objects |-> k.overlap[o]]

\* Two cores with the same fields are the same.
LEMMA SameCore ==
    ASSUME NEW a, NEW b, Record(a), Record(b),
           a.delay = b.delay, a.fifo = b.fifo, a.x = b.x, a.later = b.later, a.history = b.history,
           a.lfe = b.lfe, a.matrix = b.matrix, a.overlap = b.overlap, a.gain = b.gain, a.n = b.n,
           a.counts = b.counts
    PROVE  a = b
  BY Zenon DEF Record

\* The bands of a channel, as its analysis job leaves them.
Bands(k, f, c) == [t \in 1 .. Slots |-> AnalysisSlot(Fed(k, f, c), t)]

\* What the analysis jobs of the channels of S leave of a core m.
AnalysedOf(m, f, S) ==
    [delay |-> [l \in Lanes |-> IF \E c \in S \ Surround : Lane(c) = l
                                THEN Newest(m.delay[l] \o Ins(m, f), Delay) ELSE m.delay[l]],
     fifo |-> [c \in Channels |-> IF c \in S THEN Newest(Fed(m, f, c), Taps) ELSE m.fifo[c]],
     x |-> [c \in Channels |-> IF c \in S THEN Bands(m, f, c) ELSE m.x[c]],
     later |-> m.later, history |-> m.history, lfe |-> m.lfe, matrix |-> m.matrix, overlap |-> m.overlap,
     gain |-> m.gain, n |-> m.n, counts |-> m.counts]

\* Channels that are delayed before the filter have lanes of their own.
LEMMA LanesApart == \A c, d \in Channels \ Surround : Lane(c) \in Lanes /\ (Lane(c) = Lane(d) => c = d)
  BY DEF Channels, Surround, Lane, Lanes

LEMMA AnalysedShaped == ASSUME NEW m, Shaped(m), NEW f, NEW S PROVE Shaped(AnalysedOf(m, f, S))
  <1> DEFINE k == AnalysedOf(m, f, S)
  <1>1. Record(k)
    BY DEF AnalysedOf, Record
  <1>2. k.delay = [l \in Lanes |-> k.delay[l]] /\ k.fifo = [c \in Channels |-> k.fifo[c]]
        /\ k.x = [c \in Channels |-> k.x[c]]
    BY DEF AnalysedOf
  <1>3. k.matrix = m.matrix /\ k.overlap = m.overlap
    BY DEF AnalysedOf
  <1>4. QED
    BY <1>1, <1>2, <1>3, Zenon DEF Shaped

\* No job done: the core as it was.
LEMMA AnalysedNone == ASSUME NEW m, Shaped(m), NEW f PROVE AnalysedOf(m, f, {}) = m
  <1> DEFINE k == AnalysedOf(m, f, {})
  <1>1. k.delay = [l \in Lanes |-> m.delay[l]] /\ k.fifo = [c \in Channels |-> m.fifo[c]]
        /\ k.x = [c \in Channels |-> m.x[c]]
    BY DEF AnalysedOf
  <1>2. k.later = m.later /\ k.history = m.history /\ k.lfe = m.lfe /\ k.matrix = m.matrix
        /\ k.overlap = m.overlap /\ k.gain = m.gain /\ k.n = m.n /\ k.counts = m.counts /\ Record(k)
    BY DEF AnalysedOf, Record
  <1> HIDE DEF k
  <1>3. k.delay = m.delay /\ k.fifo = m.fifo /\ k.x = m.x /\ Record(m)
    BY <1>1, Zenon DEF Shaped
  <1>4. k = m
    BY <1>2, <1>3, SameCore
  <1>5. QED
    BY <1>4 DEF k

\* An analysis job adds its channel, whichever were done before it.
LEMMA AnalysedOne ==
    ASSUME NEW m, Shaped(m), NEW f, NEW S \in SUBSET Channels, NEW c \in Channels \ S
    PROVE  AnalysisJob(AnalysedOf(m, f, S), f, c) = AnalysedOf(m, f, S \cup {c})
  <1> DEFINE k == AnalysedOf(m, f, S)
             a == AnalysisJob(k, f, c)
             b == AnalysedOf(m, f, S \cup {c})
             line == Newest(m.delay[Lane(c)] \o Ins(m, f), Delay)
  <1>1. Ins(k, f) = Ins(m, f)
    BY DEF Ins, InSlot, AnalysedOf
  <1>2. Lane(c) \in Lanes /\ k.fifo[c] = m.fifo[c]
    BY DEF Lane, Lanes, Channels, AnalysedOf
  <1>3. c \notin Surround => k.delay[Lane(c)] = m.delay[Lane(c)]
    BY <1>2, LanesApart DEF AnalysedOf
  <1>4. Fed(k, f, c) = Fed(m, f, c)
    BY <1>1, <1>2, <1>3 DEF Fed, Line
  <1>5. a = [k EXCEPT
        !.delay = IF c \in Surround THEN k.delay ELSE [k.delay EXCEPT ![Lane(c)] = line],
        !.fifo = [k.fifo EXCEPT ![c] = Newest(Fed(m, f, c), Taps)],
        !.x = [k.x EXCEPT ![c] = Bands(m, f, c)]]
    BY <1>1, <1>2, <1>3, <1>4 DEF AnalysisJob, Line, Bands
  <1>6. Record(k)
    BY DEF AnalysedOf, Record
  <1> HIDE DEF k, a
  <1>7. /\ Record(a)
        /\ a.delay = IF c \in Surround THEN k.delay ELSE [k.delay EXCEPT ![Lane(c)] = line]
        /\ a.fifo = [k.fifo EXCEPT ![c] = Newest(Fed(m, f, c), Taps)]
        /\ a.x = [k.x EXCEPT ![c] = Bands(m, f, c)]
        /\ a.later = k.later /\ a.history = k.history /\ a.lfe = k.lfe
        /\ a.matrix = k.matrix /\ a.overlap = k.overlap
        /\ a.gain = k.gain /\ a.n = k.n /\ a.counts = k.counts
    BY <1>5, <1>6 DEF Record
  <1>8. a.fifo = b.fifo /\ a.x = b.x
    BY <1>7 DEF k, AnalysedOf
  <1>9. a.delay = b.delay
    <2>1. CASE c \in Surround
      BY <2>1, <1>7 DEF k, AnalysedOf
    <2>2. CASE c \notin Surround
      <3> DEFINE after(T, l) == IF \E d \in T \ Surround : Lane(d) = l
                                THEN Newest(m.delay[l] \o Ins(m, f), Delay) ELSE m.delay[l]
      <3>1. /\ k.delay = [l \in Lanes |-> after(S, l)] /\ k.delay = [l \in Lanes |-> k.delay[l]]
            /\ b.delay = [l \in Lanes |-> after(S \cup {c}, l)] /\ b.delay = [l \in Lanes |-> b.delay[l]]
        BY DEF k, AnalysedOf
      <3>2. after(S \cup {c}, Lane(c)) = line
        BY <2>2
      <3>3. ASSUME NEW l \in Lanes, l # Lane(c) PROVE after(S \cup {c}, l) = after(S, l)
        <4>1. (\E d \in (S \cup {c}) \ Surround : Lane(d) = l) <=> \E d \in S \ Surround : Lane(d) = l
          BY <3>3
        <4>2. QED
          BY <4>1
      <3>4. a.delay = [k.delay EXCEPT ![Lane(c)] = line]
        BY <2>2, <1>7
      <3> HIDE DEF after, line, b
      <3>5. \A l \in Lanes : a.delay[l] = b.delay[l]
        BY <1>2, <3>1, <3>2, <3>3, <3>4
      <3>6. a.delay = [l \in Lanes |-> a.delay[l]]
        BY <3>1, <3>4
      <3>7. QED
        BY <3>1, <3>5, <3>6
    <2>3. QED BY <2>1, <2>2
  <1>10. /\ Record(b)
        /\ a.later = b.later /\ a.history = b.history /\ a.lfe = b.lfe
        /\ a.matrix = b.matrix /\ a.overlap = b.overlap
        /\ a.gain = b.gain /\ a.n = b.n /\ a.counts = b.counts
    BY <1>7 DEF k, AnalysedOf, Record
  <1> HIDE DEF b
  <1>11. a = b
    BY <1>7, <1>8, <1>9, <1>10, SameCore
  <1>12. QED
    BY <1>11 DEF a, b, k

-----------------------------------------------------------------------------
(***************************************************************************)
(* The reference: the operators of Calls are those of the pool, and its    *)
(* job after job comes to the same closed form.                            *)
(***************************************************************************)

\* The operators of the reference are those of the pool.
LEMMA CallsAnalysisJob == ASSUME NEW k, NEW f, NEW c PROVE Calls!AnalysisJob(k, f, c) = AnalysisJob(k, f, c)
  BY DEF AnalysisJob, Calls!AnalysisJob, Line, Calls!Line, Ins, Calls!Ins, InSlot, Calls!InSlot, Lane,
         Calls!Lane, Surround, Calls!Surround, Newest, Calls!Newest, Fed, Calls!Fed, AnalysisSlot,
         Calls!AnalysisSlot, Unset, Calls!Unset

LEMMA CallsAfterAnalysis == ASSUME NEW k, NEW f PROVE Calls!AfterAnalysis(k, f) = AfterAnalysis(k, f)
  BY DEF AfterAnalysis, Calls!AfterAnalysis, SurroundPost, Calls!SurroundPost, SurroundChannel,
         Calls!SurroundChannel, SurroundGroup, Calls!SurroundGroup, Newest, Calls!Newest, Channels,
         Calls!Channels, Surround, Calls!Surround

LEMMA CallsObjectJob ==
    ASSUME NEW k, NEW f, NEW o
    PROVE  Calls!ObjectJob(k, f, o) = ObjectJob(k, f, o) /\ Calls!ObjectOut(k, f, o) = ObjectOut(k, f, o)
  BY DEF ObjectJob, Calls!ObjectJob, ObjectOut, Calls!ObjectOut, Synthesis, Calls!Synthesis, Mixed,
         Calls!Mixed, Coefficient, Calls!Coefficient, Blend, Calls!Blend, Newest, Calls!Newest

LEMMA CallsLfe ==
    ASSUME NEW k, NEW f
    PROVE  /\ Calls!LfeOut(k, f) = LfeOut(k, f) /\ Calls!LfeAfter(k, f) = LfeAfter(k, f)
           /\ Calls!Counted(k, f) = Counted(k, f)
  BY DEF LfeOut, Calls!LfeOut, LfeLine, Calls!LfeLine, LfeAfter, Calls!LfeAfter, Newest, Calls!Newest,
         Counted, Calls!Counted

LEMMA CallsFresh == Calls!FreshCore = FreshCore /\ Calls!NoOutput = NoOutput
  <1>1. /\ \A n : Calls!Zeros(n) = Zeros(n)
        /\ Calls!Lanes = Lanes /\ Calls!Channels = Channels /\ Calls!Surround = Surround
        /\ Calls!Unset = Unset
    BY DEF Zeros, Calls!Zeros, Silent, Calls!Silent, Unset, Calls!Unset, Lanes, Calls!Lanes, Channels,
           Calls!Channels, Surround, Calls!Surround
  <1>2. Calls!SilentWindow = SilentWindow
    BY <1>1 DEF SilentWindow, Calls!SilentWindow
  <1>3. \A n : Calls!SilentWindows(n) = SilentWindows(n)
    BY <1>2 DEF SilentWindows, Calls!SilentWindows
  <1>4. Calls!FreshCore = FreshCore
    BY <1>1, <1>3 DEF FreshCore, Calls!FreshCore
  <1>5. QED
    BY <1>4 DEF NoOutput, Calls!NoOutput

\* So is the order of the jobs.
LEMMA CallsAscending ==
    ASSUME NEW S
    PROVE  Calls!Cardinality(S) = Cardinality(S) /\ Calls!Ascending(S) = Ascending(S)
  <1>1. ASSUME NEW T PROVE Calls!Cardinality(T) = Cardinality(T)
    BY DEF Cardinality, Calls!Cardinality
  <1>2. ASSUME NEW i PROVE Calls!Nth(S, i) = Nth(S, i)
    BY <1>1 DEF Nth, Calls!Nth, Below, Calls!Below
  <1>3. QED
    BY <1>1, <1>2 DEF Ascending, Calls!Ascending

\* How many members are below one orders the members.
LEMMA BelowIsRank ==
    ASSUME NEW S \in SUBSET Nat, IsFiniteSet(S)
    PROVE  /\ Cardinality(S) \in Nat
           /\ \A n \in S : Below(n, S) \in Nat /\ Below(n, S) + 1 \in 1 .. Cardinality(S)
           /\ \A n, m \in S : n < m => Below(n, S) < Below(m, S)
           /\ \A n, m \in S : Below(n, S) = Below(m, S) => n = m
  <1> DEFINE B(n) == {m \in S : m < n}
  <1>1. Cardinality(S) \in Nat
    BY FS_CardinalityType
  <1>2. ASSUME NEW n \in S
        PROVE  IsFiniteSet(B(n)) /\ Cardinality(B(n)) \in Nat /\ Cardinality(B(n)) + 1 <= Cardinality(S)
    <2>1. B(n) \in SUBSET S /\ B(n) \cup {n} \in SUBSET S /\ n \notin B(n)
      OBVIOUS
    <2> HIDE DEF B
    <2>2. IsFiniteSet(B(n))
      BY <2>1, FS_Subset
    <2>3. Cardinality(B(n)) \in Nat
      BY <2>2, FS_CardinalityType
    <2>4. Cardinality(B(n) \cup {n}) = Cardinality(B(n)) + 1
      BY <2>1, <2>2, FS_AddElement
    <2>5. Cardinality(B(n) \cup {n}) <= Cardinality(S)
      BY <2>1, FS_Subset
    <2>6. QED
      BY <2>2, <2>3, <2>4, <2>5
  <1>3. ASSUME NEW n \in S, NEW m \in S, n < m PROVE Cardinality(B(n)) < Cardinality(B(m))
    <2>1. B(n) \cup {n} \in SUBSET B(m) /\ n \notin B(n)
      <3>1. n \in Nat /\ m \in Nat /\ (\A k \in S : k \in Nat)
        OBVIOUS
      <3>2. \A k \in S : k < n => k < m
        BY <1>3, <3>1
      <3>3. n \in B(m) /\ n \notin B(n)
        BY <1>3, <3>1
      <3>4. QED
        BY <3>2, <3>3
    <2>2. IsFiniteSet(B(n)) /\ IsFiniteSet(B(m)) /\ Cardinality(B(n)) \in Nat /\ Cardinality(B(m)) \in Nat
      BY <1>2
    <2> HIDE DEF B
    <2>3. Cardinality(B(n) \cup {n}) = Cardinality(B(n)) + 1
      BY <2>1, <2>2, FS_AddElement
    <2>4. Cardinality(B(n) \cup {n}) <= Cardinality(B(m))
      BY <2>1, <2>2, FS_Subset
    <2>5. QED
      BY <2>2, <2>3, <2>4
  <1>4. \A n : Below(n, S) = Cardinality(B(n))
    BY DEF Below
  <1> HIDE DEF B
  <1>5. \A n \in S : Below(n, S) \in Nat /\ Below(n, S) + 1 <= Cardinality(S)
    BY <1>2, <1>4
  <1>6. \A n, m \in S : n < m => Below(n, S) < Below(m, S)
    BY <1>3, <1>4
  <1>7. ASSUME NEW n \in S, NEW m \in S, Below(n, S) = Below(m, S) PROVE n = m
    <2>1. ~(n < m) /\ ~(m < n)
      BY <1>5, <1>6, <1>7
    <2>2. QED
      BY <2>1
  <1>8. \A n \in S : Below(n, S) \in Nat /\ Below(n, S) + 1 \in 1 .. Cardinality(S)
    BY <1>1, <1>5
  <1>9. QED
    BY <1>1, <1>6, <1>7, <1>8

\* Ascending lists every member once.
LEMMA AscendingLists ==
    ASSUME NEW S \in SUBSET Nat, IsFiniteSet(S)
    PROVE  /\ \A i \in 1 .. Cardinality(S) : Ascending(S)[i] \in S
           /\ \A i, j \in 1 .. Cardinality(S) : Ascending(S)[i] = Ascending(S)[j] => i = j
           /\ \A n \in S : \E i \in 1 .. Cardinality(S) : Ascending(S)[i] = n
  <1> DEFINE N == Cardinality(S)
             r == [n \in S |-> Below(n, S) + 1]
  <1>1. N \in Nat /\ IsFiniteSet(1 .. N) /\ Cardinality(1 .. N) = N
    BY BelowIsRank, FS_Interval
  <1>2. r \in Injection(S, 1 .. N)
    <2>1. r \in [S -> 1 .. N]
      BY BelowIsRank
    <2>2. ASSUME NEW a \in S, NEW b \in S, r[a] = r[b] PROVE a = b
      <3>1. Below(a, S) + 1 = Below(b, S) + 1 /\ Below(a, S) \in Nat /\ Below(b, S) \in Nat
        BY <2>2, BelowIsRank
      <3>2. Below(a, S) = Below(b, S)
        BY <3>1
      <3>3. QED
        BY <3>2, BelowIsRank
    <2>3. QED
      BY <2>1, <2>2 DEF Injection, IsInjective
  <1>3. r \in Surjection(S, 1 .. N)
    BY <1>1, <1>2, FS_Injection
  <1>4. ASSUME NEW i \in 1 .. N PROVE Nth(S, i) \in S /\ Below(Nth(S, i), S) = i - 1
    <2>1. PICK n \in S : r[n] = i
      BY <1>3 DEF Surjection
    <2>2. Below(n, S) + 1 = i /\ Below(n, S) \in Nat
      BY <2>1, BelowIsRank
    <2>3. Below(n, S) = i - 1
      BY <2>2
    <2>4. QED
      BY <2>3 DEF Nth
  <1>5. \A i \in 1 .. N : Ascending(S)[i] = Nth(S, i)
    BY DEF Ascending
  <1>6. ASSUME NEW i \in 1 .. N, NEW j \in 1 .. N, Ascending(S)[i] = Ascending(S)[j] PROVE i = j
    BY <1>4, <1>5, <1>6
  <1>7. ASSUME NEW n \in S PROVE \E i \in 1 .. N : Ascending(S)[i] = n
    <2>1. Below(n, S) + 1 \in 1 .. N /\ (Below(n, S) + 1) - 1 = Below(n, S)
      BY BelowIsRank
    <2>2. Below(Nth(S, Below(n, S) + 1), S) = Below(n, S) /\ Nth(S, Below(n, S) + 1) \in S
      BY <1>4, <2>1
    <2>3. Nth(S, Below(n, S) + 1) = n
      BY <2>2, BelowIsRank
    <2>4. QED
      BY <1>5, <2>1, <2>3
  <1>8. QED
    BY <1>4, <1>5, <1>6, <1>7

\* What the jobs of the objects of S leave of a core m that is ready for them.
ObjectsOf(m, f, S) ==
    [delay |-> m.delay, fifo |-> m.fifo, x |-> m.x, later |-> m.later, history |-> m.history, lfe |-> m.lfe,
     matrix |-> [o \in Objects |-> IF o \in S THEN Head(Coefficient(f, m.matrix[o], Slots - 1)) ELSE m.matrix[o]],
     overlap |-> [o \in Objects |-> IF o \in S THEN Newest(Synthesis(m, f, o), Taps) ELSE m.overlap[o]],
     gain |-> m.gain, n |-> m.n, counts |-> m.counts]

LEMMA ObjectsShaped == ASSUME NEW m, Shaped(m), NEW f, NEW S PROVE Shaped(ObjectsOf(m, f, S))
  <1> DEFINE k == ObjectsOf(m, f, S)
  <1>1. Record(k)
    BY DEF ObjectsOf, Record
  <1>2. k.matrix = [o \in Objects |-> k.matrix[o]] /\ k.overlap = [o \in Objects |-> k.overlap[o]]
    BY DEF ObjectsOf
  <1>3. k.delay = m.delay /\ k.fifo = m.fifo /\ k.x = m.x
    BY DEF ObjectsOf
  <1>4. QED
    BY <1>1, <1>2, <1>3, Zenon DEF Shaped

LEMMA ObjectsNone == ASSUME NEW m, Shaped(m), NEW f PROVE ObjectsOf(m, f, {}) = m
  <1> DEFINE k == ObjectsOf(m, f, {})
  <1>1. k.matrix = [o \in Objects |-> m.matrix[o]] /\ k.overlap = [o \in Objects |-> m.overlap[o]]
    BY DEF ObjectsOf
  <1>2. k.later = m.later /\ k.history = m.history /\ k.lfe = m.lfe /\ k.delay = m.delay
        /\ k.fifo = m.fifo /\ k.x = m.x /\ k.gain = m.gain /\ k.n = m.n /\ k.counts = m.counts /\ Record(k)
    BY DEF ObjectsOf, Record
  <1> HIDE DEF k
  <1>3. k.matrix = m.matrix /\ k.overlap = m.overlap /\ Record(m)
    BY <1>1, Zenon DEF Shaped
  <1>4. k = m
    BY <1>2, <1>3, SameCore
  <1>5. QED
    BY <1>4 DEF k

\* An object's job adds it, and writes what it would have written first.
LEMMA ObjectsOne ==
    ASSUME NEW m, Shaped(m), NEW f, NEW S \in SUBSET Objects, NEW o \in Objects \ S
    PROVE  /\ ObjectJob(ObjectsOf(m, f, S), f, o) = ObjectsOf(m, f, S \cup {o})
           /\ ObjectOut(ObjectsOf(m, f, S), f, o) = ObjectOut(m, f, o)
  <1> DEFINE k == ObjectsOf(m, f, S)
             a == ObjectJob(k, f, o)
             b == ObjectsOf(m, f, S \cup {o})
  <1>1. k.x = m.x /\ k.matrix[o] = m.matrix[o] /\ k.overlap[o] = m.overlap[o]
    BY DEF ObjectsOf
  <1>2. Synthesis(k, f, o) = Synthesis(m, f, o)
    BY <1>1 DEF Synthesis, Mixed
  <1>3. ObjectOut(k, f, o) = ObjectOut(m, f, o)
    BY <1>2 DEF ObjectOut
  <1>4. a = [k EXCEPT
        !.matrix = [k.matrix EXCEPT ![o] = Head(Coefficient(f, m.matrix[o], Slots - 1))],
        !.overlap = [k.overlap EXCEPT ![o] = Newest(Synthesis(m, f, o), Taps)]]
    BY <1>1, <1>2 DEF ObjectJob
  <1>5. Record(k)
    BY DEF ObjectsOf, Record
  <1> HIDE DEF k, a
  <1>6. /\ Record(a)
        /\ a.matrix = [k.matrix EXCEPT ![o] = Head(Coefficient(f, m.matrix[o], Slots - 1))]
        /\ a.overlap = [k.overlap EXCEPT ![o] = Newest(Synthesis(m, f, o), Taps)]
        /\ a.later = k.later /\ a.history = k.history /\ a.lfe = k.lfe
        /\ a.delay = k.delay /\ a.fifo = k.fifo /\ a.x = k.x
        /\ a.gain = k.gain /\ a.n = k.n /\ a.counts = k.counts
    BY <1>4, <1>5 DEF Record
  <1>7. a.matrix = b.matrix /\ a.overlap = b.overlap
    BY <1>6 DEF k, ObjectsOf
  <1>8. /\ Record(b)
        /\ a.later = b.later /\ a.history = b.history /\ a.lfe = b.lfe
        /\ a.delay = b.delay /\ a.fifo = b.fifo /\ a.x = b.x
        /\ a.gain = b.gain /\ a.n = b.n /\ a.counts = b.counts
    BY <1>6 DEF k, ObjectsOf, Record
  <1> HIDE DEF b
  <1>9. a = b
    BY <1>6, <1>7, <1>8, SameCore
  <1>10. QED
    BY <1>3, <1>9 DEF a, b, k

\* A nonempty set of numbers has a least element.
LEMMA Least == ASSUME NEW T \in SUBSET Nat, T # {}
               PROVE  \E m \in T : \A k \in T : ~(k < m)
  <1>1. PICK m \in T : \A k \in T : ~(<<k, m>> \in OpToRel(<, Nat))
    BY NatLessThanWellFounded, WFMin, Zenon
  <1>2. QED
    BY <1>1 DEF OpToRel

\* The reference does the analysis jobs one after the other: all are done.
LEMMA CallsAnalysisJobs ==
    ASSUME NEW m, Shaped(m), NEW f \in Frames
    PROVE  Calls!AnalysisJobs(m, f) = AnalysedOf(m, f, 0 .. f.channels - 1)
  <1> DEFINE N == f.channels
             Is(d) == d = [n \in 0 .. N |-> IF n = 0 THEN m ELSE Calls!AnalysisJob(d[n - 1], f, n - 1)]
             done == CHOOSE d : Is(d)
             W == [n \in 0 .. N |-> AnalysedOf(m, f, 0 .. n - 1)]
  <1>1. N \in {5, 7}
    BY JocCoreAssumption DEF Frame
  <1>2. Calls!AnalysisJobs(m, f) = done[N]
    BY Zenon DEF Calls!AnalysisJobs
  <1>3. W[0] = m
    <2>1. 0 .. 0 - 1 = {} /\ 0 \in 0 .. N
      BY <1>1
    <2>2. QED
      BY <2>1, AnalysedNone
  <1>4. ASSUME NEW n \in 0 .. N, n # 0 PROVE W[n] = Calls!AnalysisJob(W[n - 1], f, n - 1) /\ n - 1 \in 0 .. N
    <2> DEFINE S == 0 .. n - 1 - 1
               c == n - 1
    <2>1. c \in 0 .. N /\ c \in Channels \ S /\ S \in SUBSET Channels /\ S \cup {c} = 0 .. n - 1
      BY <1>1, <1>4 DEF Channels
    <2>2. W[c] = AnalysedOf(m, f, S)
      BY <2>1
    <2> HIDE DEF S, c
    <2>3. AnalysisJob(AnalysedOf(m, f, S), f, c) = AnalysedOf(m, f, 0 .. n - 1)
      BY <2>1, AnalysedOne
    <2>4. QED
      BY <2>1, <2>2, <2>3, CallsAnalysisJob DEF c
  <1>5. Is(W)
    BY <1>3, <1>4
  <1>6. Is(done)
    <2>1. \E d : Is(d)
      BY <1>5
    <2> HIDE DEF Is
    <2>2. QED
      BY <2>1, Zenon
  <1> HIDE DEF done, W
  <1>7. done[0] = m /\ \A n \in 0 .. N : n # 0 => done[n] = Calls!AnalysisJob(done[n - 1], f, n - 1)
    BY <1>1, <1>6
  <1>8. \A n \in 0 .. N : done[n] = W[n]
    <2> DEFINE T == {n \in 0 .. N : done[n] # W[n]}
    <2>1. SUFFICES ASSUME T # {} PROVE FALSE
      OBVIOUS
    <2>2. PICK n \in T : \A k \in T : ~(k < n)
      <3>1. T \in SUBSET Nat
        OBVIOUS
      <3> HIDE DEF T
      <3>2. QED
        BY <2>1, <3>1, Least
    <2>3. n # 0 /\ n \in 0 .. N
      BY <2>2, <1>3, <1>7
    <2>4. n - 1 \in 0 .. N /\ n - 1 < n
      BY <2>3, <1>1
    <2>5. done[n - 1] = W[n - 1]
      BY <2>2, <2>4
    <2>6. done[n] = W[n]
      BY <2>3, <2>5, <1>4, <1>7
    <2>7. QED
      BY <2>2, <2>6
  <1>9. done[N] = AnalysedOf(m, f, 0 .. N - 1)
    <2>1. N \in 0 .. N
      BY <1>1
    <2>2. W[N] = AnalysedOf(m, f, 0 .. N - 1)
      BY <2>1 DEF W
    <2>3. QED
      BY <1>8, <2>1, <2>2
  <1>10. QED
    BY <1>2, <1>9

\* So it is with the objects.
LEMMA CallsObjectJobs ==
    ASSUME NEW m, Shaped(m), NEW f \in Frames
    PROVE  Calls!ObjectJobs(m, f) = ObjectsOf(m, f, f.mask)
  <1> DEFINE N == Cardinality(f.mask)
             job == Ascending(f.mask)
             Is(d) == d = [n \in 0 .. N |-> IF n = 0 THEN m ELSE Calls!ObjectJob(d[n - 1], f, job[n])]
             done == CHOOSE d : Is(d)
             first(n) == {job[i] : i \in 1 .. n}
             W == [n \in 0 .. N |-> ObjectsOf(m, f, first(n))]
  <1>1. N \in Nat /\ f.mask \in SUBSET Objects /\ f.mask \in SUBSET Nat /\ IsFiniteSet(f.mask)
    <2>1. f.mask \in SUBSET Objects /\ IsFiniteSet(Objects) /\ Objects \in SUBSET Nat
      BY JocCoreAssumption DEF Frame
    <2>2. QED
      BY <2>1, FS_Subset, FS_CardinalityType
  <1>2. Calls!ObjectJobs(m, f) = done[N]
    <2>1. Calls!Cardinality(f.mask) = N /\ Calls!Ascending(f.mask) = job
      BY CallsAscending
    <2> HIDE DEF N, job
    <2>2. QED
      BY <2>1, Zenon DEF Calls!ObjectJobs
  <1>3. W[0] = m
    <2>1. first(0) = {} /\ 0 \in 0 .. N
      BY <1>1
    <2> HIDE DEF first
    <2>2. QED
      BY <2>1, ObjectsNone
  <1>4. ASSUME NEW n \in 0 .. N, n # 0 PROVE W[n] = Calls!ObjectJob(W[n - 1], f, job[n]) /\ n - 1 \in 0 .. N
    <2>1. n - 1 \in 0 .. N /\ n \in 1 .. N /\ \A i \in 1 .. n - 1 : i \in 1 .. N /\ i # n
      BY <1>1, <1>4
    <2>2. \A i \in 1 .. N : job[i] \in f.mask
      BY <1>1, AscendingLists
    <2>3. \A i, j \in 1 .. N : job[i] = job[j] => i = j
      BY <1>1, AscendingLists
    <2> HIDE DEF job
    <2>4. job[n] \in Objects \ first(n - 1) /\ first(n - 1) \in SUBSET Objects
      BY <1>1, <2>1, <2>2, <2>3
    <2>5. first(n) = first(n - 1) \cup {job[n]}
      <3>1. 1 .. n = (1 .. n - 1) \cup {n}
        BY <1>1, <1>4
      <3>2. QED
        BY <3>1
    <2> HIDE DEF first
    <2>6. ObjectJob(ObjectsOf(m, f, first(n - 1)), f, job[n]) = ObjectsOf(m, f, first(n))
      BY <2>4, <2>5, ObjectsOne
    <2>7. QED
      BY <2>1, <2>6, CallsObjectJob
  <1>5. Is(W)
    BY <1>3, <1>4
  <1>6. Is(done)
    <2>1. \E d : Is(d)
      BY <1>5
    <2> HIDE DEF Is
    <2>2. QED
      BY <2>1, Zenon
  <1> HIDE DEF done, W, job
  <1>7. done[0] = m /\ \A n \in 0 .. N : n # 0 => done[n] = Calls!ObjectJob(done[n - 1], f, job[n])
    BY <1>1, <1>6
  <1>8. \A n \in 0 .. N : done[n] = W[n]
    <2> DEFINE T == {n \in 0 .. N : done[n] # W[n]}
    <2>1. SUFFICES ASSUME T # {} PROVE FALSE
      OBVIOUS
    <2>2. PICK n \in T : \A k \in T : ~(k < n)
      <3>1. T \in SUBSET Nat
        BY <1>1
      <3> HIDE DEF T
      <3>2. QED
        BY <2>1, <3>1, Least
    <2>3. n # 0 /\ n \in 0 .. N
      BY <2>2, <1>3, <1>7
    <2>4. n - 1 \in 0 .. N /\ n - 1 < n
      BY <2>3, <1>1
    <2>5. done[n - 1] = W[n - 1]
      BY <2>2, <2>4
    <2>6. done[n] = W[n]
      BY <2>3, <2>5, <1>4, <1>7
    <2>7. QED
      BY <2>2, <2>6
  <1>9. first(N) = f.mask
    <2>1. \A i \in 1 .. N : job[i] \in f.mask
      BY <1>1, AscendingLists DEF job
    <2>2. \A o \in f.mask : \E i \in 1 .. N : job[i] = o
      BY <1>1, AscendingLists DEF job
    <2>3. QED
      BY <2>1, <2>2
  <1>10. done[N] = ObjectsOf(m, f, f.mask)
    BY <1>1, <1>8, <1>9 DEF W
  <1>11. QED
    BY <1>2, <1>10

-----------------------------------------------------------------------------
(***************************************************************************)
(* The refinement.  While a call is under way the core is the memory the   *)
(* call began with and what the jobs done so far made of it; at its end    *)
(* all are done, and the step is the step of the reference.                *)
(***************************************************************************)

\* A core after its analysis and before its objects.
Ready(m, f) == [AfterAnalysis(AnalysedOf(m, f, 0 .. f.channels - 1), f) EXCEPT !.lfe = LfeAfter(m, f)]

\* The jobs of the dispatch that were done.
DoneJobs == {jobs[i] : i \in finished}

\* The dispatch under way, partly done, on what the call began with.
InProgress ==
    /\ frame.fault = "none"
    /\ kind = "analysis" =>
          /\ jobs = Ascending(0 .. frame.channels - 1) /\ count = Cardinality(0 .. frame.channels - 1)
          /\ core = AnalysedOf(memory, frame, DoneJobs) /\ output = NoOutput
    /\ kind = "objects" =>
          /\ jobs = Ascending(frame.mask) /\ count = Cardinality(frame.mask)
          /\ core = ObjectsOf(Ready(memory, frame), frame, DoneJobs)
          /\ output = [lfe |-> LfeOut(memory, frame),
                       objects |-> [o \in DoneJobs |-> ObjectOut(Ready(memory, frame), frame, o)]]

\* The inductive invariant of the data: between calls the core is what the
\* reference remembers.
DataInv ==
    /\ Shaped(memory)
    /\ call # "process" => core = memory
    /\ call = "process" => InProgress

LEMMA FreshShaped == Shaped(FreshCore)
  <1>1. Record(FreshCore)
    BY DEF FreshCore, Record
  <1>2. QED
    BY <1>1 DEF FreshCore, Shaped

LEMMA CountedShaped == ASSUME NEW k, Shaped(k), NEW f PROVE Shaped(Counted(k, f))
  <1> DEFINE a == Counted(k, f)
             n == k.n + 1
             counts == k.counts \cup {f.channels}
  <1>1. Record(k)
    BY DEF Shaped
  <1>2. a = [k EXCEPT !.n = n, !.counts = counts]
    BY DEF Counted
  <1> HIDE DEF a, n, counts
  <1>3. Record(a) /\ a.delay = k.delay /\ a.fifo = k.fifo /\ a.x = k.x /\ a.matrix = k.matrix /\ a.overlap = k.overlap
    BY <1>1, <1>2 DEF Record
  <1>4. Shaped(a)
    BY <1>3, Zenon DEF Shaped
  <1>5. QED
    BY <1>4 DEF a

\* The core before surround_post, and the channels behind it.
Banded(m, f) == [AnalysedOf(m, f, 0 .. f.channels - 1) EXCEPT !.gain = f.gain]
Shifted(m, f, c) == SurroundChannel(Banded(m, f), c, f.phase)
BandsOf(m, f, c) == IF c \in Surround THEN Shifted(m, f, c).x ELSE Banded(m, f).x[c]

\* Taking the gain over changes nothing else.
LEMMA BandedIs ==
    ASSUME NEW m, Shaped(m), NEW f
    PROVE  LET k == AnalysedOf(m, f, 0 .. f.channels - 1)
               g == Banded(m, f)
           IN /\ Record(g) /\ g.gain = f.gain /\ g.n = m.n /\ g.counts = m.counts
              /\ g.delay = k.delay /\ g.fifo = k.fifo /\ g.x = k.x /\ g.later = m.later /\ g.history = m.history
              /\ g.matrix = m.matrix /\ g.overlap = m.overlap
  <1> DEFINE k == AnalysedOf(m, f, 0 .. f.channels - 1)
             g == Banded(m, f)
  <1>1. /\ Record(k) /\ k.later = m.later /\ k.history = m.history /\ k.matrix = m.matrix
        /\ k.overlap = m.overlap /\ k.n = m.n /\ k.counts = m.counts
    BY DEF AnalysedOf, Record
  <1>2. g = [k EXCEPT !.gain = f.gain]
    BY DEF Banded
  <1> HIDE DEF k, g
  <1>3. /\ Record(g) /\ g.gain = f.gain /\ g.n = m.n /\ g.counts = m.counts
        /\ g.delay = k.delay /\ g.fifo = k.fifo /\ g.x = k.x /\ g.later = m.later /\ g.history = m.history
        /\ g.matrix = m.matrix /\ g.overlap = m.overlap
    BY <1>1, <1>2 DEF Record
  <1>4. QED
    BY <1>3 DEF k, g

\* surround_post and the LFE change the surround channels and the LFE.
LEMMA ReadyIs ==
    ASSUME NEW m, Shaped(m), NEW f
    PROVE  LET g == Banded(m, f)
               r == Ready(m, f)
           IN /\ Shaped(r)
              /\ \A c \in Channels : r.x[c] = BandsOf(m, f, c)
              /\ \A c \in Surround : r.later[c] = Shifted(m, f, c).later /\ r.history[c] = Shifted(m, f, c).history
              /\ r.delay = g.delay /\ r.fifo = g.fifo /\ r.matrix = m.matrix /\ r.overlap = m.overlap
              /\ r.gain = f.gain /\ r.n = m.n /\ r.counts = m.counts
              /\ \A o : ObjectOut(r, f, o)
                        = ObjectOut(AfterAnalysis(AnalysedOf(m, f, 0 .. f.channels - 1), f), f, o)
  <1> DEFINE k == AnalysedOf(m, f, 0 .. f.channels - 1)
             g == Banded(m, f)
             post == [c \in Surround |-> SurroundChannel(g, c, f.phase)]
             x == [c \in Channels |-> IF c \in Surround THEN post[c].x ELSE g.x[c]]
             later == [c \in Surround |-> post[c].later]
             history == [c \in Surround |-> post[c].history]
             a == AfterAnalysis(k, f)
             r == Ready(m, f)
  <1>1. /\ Record(g) /\ g.gain = f.gain /\ g.n = m.n /\ g.counts = m.counts
        /\ g.delay = k.delay /\ g.fifo = k.fifo /\ g.later = m.later /\ g.history = m.history
        /\ g.matrix = m.matrix /\ g.overlap = m.overlap
    BY BandedIs
  <1>2. Shaped(k)
    BY AnalysedShaped
  <1>3. a = [g EXCEPT !.x = x, !.later = later, !.history = history]
    BY DEF AfterAnalysis, SurroundPost, Banded
  <1>4. /\ \A c \in Channels : x[c] = BandsOf(m, f, c)
        /\ \A c \in Surround : later[c] = Shifted(m, f, c).later /\ history[c] = Shifted(m, f, c).history
    <2>1. \A c \in Surround : post[c] = Shifted(m, f, c)
      BY DEF Shifted
    <2> HIDE DEF post
    <2>2. QED
      BY <2>1 DEF BandsOf
  <1>5. x = [c \in Channels |-> x[c]]
    OBVIOUS
  <1>6. r = [a EXCEPT !.lfe = LfeAfter(m, f)]
    BY DEF Ready
  <1> HIDE DEF k, g, post, x, later, history, a, r
  <1>7. /\ Record(a) /\ a.x = x /\ a.later = later /\ a.history = history
        /\ a.n = g.n /\ a.gain = g.gain /\ a.counts = g.counts
        /\ a.delay = g.delay /\ a.fifo = g.fifo /\ a.matrix = g.matrix /\ a.overlap = g.overlap
    BY <1>1, <1>3 DEF Record
  <1>8. /\ Record(r) /\ r.n = a.n /\ r.gain = a.gain /\ r.counts = a.counts
        /\ r.delay = a.delay /\ r.fifo = a.fifo /\ r.x = a.x /\ r.later = a.later /\ r.history = a.history
        /\ r.matrix = a.matrix /\ r.overlap = a.overlap
    BY <1>6, <1>7 DEF Record
  <1>9. r.x = x /\ r.delay = k.delay /\ r.fifo = k.fifo /\ r.matrix = m.matrix /\ r.overlap = m.overlap
    BY <1>1, <1>7, <1>8
  <1>10. Shaped(r)
    BY <1>2, <1>5, <1>8, <1>9, Zenon DEF Shaped
  <1>11. \A o : ObjectOut(r, f, o) = ObjectOut(a, f, o)
    BY <1>8 DEF ObjectOut, Synthesis, Mixed
  <1>12. /\ r.later = later /\ r.history = history /\ r.delay = g.delay /\ r.fifo = g.fifo
         /\ r.gain = f.gain /\ r.n = m.n /\ r.counts = m.counts
    BY <1>1, <1>7, <1>8
  <1>13. QED
    BY <1>4, <1>9, <1>10, <1>11, <1>12 DEF r, a, k, g

\* What the core remembers after a call.
After(m, f) == Counted(ObjectsOf(Ready(m, f), f, f.mask), f)

\* A call as the reference does it.
LEMMA CallsProcess ==
    ASSUME NEW m, Shaped(m), NEW f \in Frames
    PROVE  /\ Calls!Processed(m, f) = After(m, f)
           /\ Calls!Rendered(m, f) = [lfe |-> LfeOut(m, f),
                                      objects |-> [o \in f.mask |-> ObjectOut(Ready(m, f), f, o)]]
  <1> DEFINE a == AfterAnalysis(AnalysedOf(m, f, 0 .. f.channels - 1), f)
  <1>1. Calls!Analysed(m, f) = a
    BY CallsAnalysisJobs, CallsAfterAnalysis DEF Calls!Analysed
  <1>2. Ready(m, f) = [a EXCEPT !.lfe = LfeAfter(m, f)]
    BY DEF Ready
  <1> HIDE DEF a
  <1>3. Calls!Processed(m, f) = Calls!Counted(Calls!ObjectJobs([a EXCEPT !.lfe = Calls!LfeAfter(m, f)], f), f)
    BY <1>1 DEF Calls!Processed
  <1>4. Calls!Processed(m, f) = Counted(Calls!ObjectJobs(Ready(m, f), f), f)
    BY <1>2, <1>3, CallsLfe
  <1>5. Calls!ObjectJobs(Ready(m, f), f) = ObjectsOf(Ready(m, f), f, f.mask)
    BY ReadyIs, CallsObjectJobs
  <1>6. ASSUME NEW o PROVE Calls!ObjectOut(Calls!Analysed(m, f), f, o) = ObjectOut(Ready(m, f), f, o)
    BY <1>1, CallsObjectJob, ReadyIs DEF a
  <1>7. Calls!LfeOut(m, f) = LfeOut(m, f)
    BY CallsLfe
  <1>8. QED
    BY <1>4, <1>5, <1>6, <1>7, CallsLfe DEF Calls!Rendered, After

\* The caller's work between the two dispatches, on what the analysis jobs left.
LEMMA AnalysisLeaves ==
    ASSUME NEW m, Shaped(m), NEW f
    PROVE  LET k == AnalysedOf(m, f, 0 .. f.channels - 1)
           IN /\ [AfterAnalysis(k, f) EXCEPT !.lfe = LfeAfter(k, f)] = Ready(m, f)
              /\ LfeOut(k, f) = LfeOut(m, f)
  <1> DEFINE k == AnalysedOf(m, f, 0 .. f.channels - 1)
  <1>1. k.lfe = m.lfe /\ k.n = m.n
    BY DEF AnalysedOf
  <1>2. LfeAfter(k, f) = LfeAfter(m, f) /\ LfeOut(k, f) = LfeOut(m, f)
    BY <1>1 DEF LfeAfter, LfeOut, LfeLine
  <1>3. QED
    BY <1>2 DEF Ready

LEMMA InitDataInv == Init => DataInv
  BY FreshShaped DEF Init, DataInv

\* Steps that leave the data and the dispatch alone.
LEMMA AsideInv ==
    ASSUME DataInv, UNCHANGED <<core, output, memory>>,
           \/ call # "process" /\ call' # "process"
           \/ UNCHANGED <<call, frame, jobs, count, kind, finished>>
    PROVE  DataInv'
  <1>1. CASE call # "process" /\ call' # "process"
    BY <1>1 DEF DataInv
  <1>2. CASE UNCHANGED <<call, frame, jobs, count, kind, finished>>
    <2>1. DoneJobs' = DoneJobs
      BY <1>2 DEF DoneJobs
    <2>2. InProgress' = InProgress
      BY <1>2, <2>1 DEF InProgress
    <2>3. QED
      BY <1>2, <2>2 DEF DataInv
  <1>3. QED
    BY <1>1, <1>2

\* All the steps of the barrier and of the pool's life are such steps.
LEMMA AsideSteps ==
    ASSUME PoolInv, DataInv,
           \/ (\E t \in Thread : Cross(t) \/ TakeJob(t) \/ LeaveLoop(t)) \/ (\E w \in Workers : WorkerStep(w))
           \/ MainWakes \/ StopWaits \/ Destroyed \/ PoolStarted \/ Rendezvous \/ PoolReady
           \/ (\E wanted \in SUBSET Workers : SetThreads(wanted)) \/ (\E w \in Workers : StartWorker(w))
           \/ StartFails \/ ReleaseStarted \/ StartFailed
           \/ (\E what \in {"threads", "destroy"} : StopWorkers(what))
           \/ (\E f \in Frames : f.fault # "none" /\ StartProcess(f))
           \/ UNCHANGED vars
    PROVE  DataInv' /\ UNCHANGED <<memory, result>>
  <1> USE DEF dataVars, callVars, jobVars, poolVars
  <1>1. CASE \/ (\E t \in Thread : Cross(t) \/ TakeJob(t) \/ LeaveLoop(t)) \/ (\E w \in Workers : WorkerStep(w))
             \/ MainWakes \/ StopWaits \/ PoolStarted \/ Rendezvous
             \/ (\E w \in Workers : StartWorker(w)) \/ StartFails \/ ReleaseStarted \/ UNCHANGED vars
    <2>1. UNCHANGED <<core, output, memory, result, call, frame, jobs, count, kind, finished>>
      BY <1>1 DEF Cross, TakeJob, LeaveLoop, WorkerStep, WorkerStarts, WorkerWakes, MainWakes, StopWaits,
                  PoolStarted, Rendezvous, StartWorker, StartFails, ReleaseStarted, vars
    <2>2. QED
      BY <2>1, AsideInv
  <1>2. CASE \/ Destroyed \/ PoolReady \/ (\E wanted \in SUBSET Workers : SetThreads(wanted)) \/ StartFailed
             \/ (\E what \in {"threads", "destroy"} : StopWorkers(what))
             \/ (\E f \in Frames : f.fault # "none" /\ StartProcess(f))
    <2>1. UNCHANGED <<core, output, memory, result>>
      BY <1>2 DEF Destroyed, PoolReady, SetThreads, StartFailed, StopWorkers, StartProcess
    <2>2. call # "process" /\ call' # "process"
      BY <1>2 DEF Destroyed, PoolReady, SetThreads, StartFailed, StopWorkers, StartProcess, MayCall, Return,
                  PoolInv, SameSide
    <2>3. QED
      BY <2>1, <2>2, AsideInv
  <1>3. QED
    BY <1>1, <1>2

\* Only the jobs of a frame are ever at a thread.
LEMMA BusyInProcess ==
    ASSUME PoolInv, NEW t \in Thread, pc[t] = "job"
    PROVE  call = "process"
  <1>1. t \in Busy /\ item[t] \in 1 .. count /\ count \in Nat
    BY DEF Busy, PoolInv, JobsShared, TypeOK
  <1>2. pc[Main] \notin BetweenRounds
    BY <1>1, NobodyBusy
  <1>3. stop => t \notin Workers /\ t # Main
    BY DEF PoolInv, SameSide, WorkersStopping, Stopping, Outside
  <1>4. ~stop
    BY <1>3 DEF Thread
  <1>5. QED
    BY <1>1, <1>2, <1>4 DEF PoolInv, CounterAtEnd, BetweenRounds

\* Doing a job takes a partly done dispatch one job on.
LEMMA DoJobData ==
    ASSUME NEW t \in Thread, PoolInv, DataInv, DoJob(t)
    PROVE  DataInv' /\ UNCHANGED <<memory, result>>
  <1> DEFINE job == jobs[item[t]]
  <1>1. /\ call = "process" /\ frame \in Frames /\ InProgress /\ Shaped(memory)
        /\ kind \in {"analysis", "objects"}
    BY BusyInProcess DEF DoJob, PoolInv, TypeOK, DataInv
  <1>2. /\ finished' = finished \cup {item[t]}
        /\ UNCHANGED <<jobs, count, kind, memory, result, call, frame>>
    BY DEF DoJob, callVars
  <1>3. item[t] \in 1 .. count /\ item[t] \notin finished /\ finished \subseteq 1 .. count
    BY DEF DoJob, PoolInv, TypeOK, JobsShared, Busy
  <1>4. DoneJobs' = DoneJobs \cup {job}
    BY <1>2 DEF DoneJobs
  <1>5. CASE kind = "analysis"
    <2> DEFINE S == 0 .. frame.channels - 1
    <2>1. frame.channels \in {5, 7}
      BY <1>1, JocCoreAssumption DEF Frame
    <2>2. S \in SUBSET Nat /\ IsFiniteSet(S) /\ S \in SUBSET Channels
      <3>1. S \in SUBSET Nat /\ S \in SUBSET Channels /\ 0 \in Int /\ frame.channels - 1 \in Int
        BY <2>1 DEF Channels
      <3>2. IsFiniteSet(S)
        BY <3>1, FS_Interval
      <3>3. QED
        BY <3>1, <3>2
    <2>3. /\ jobs = Ascending(S) /\ count = Cardinality(S)
          /\ core = AnalysedOf(memory, frame, DoneJobs) /\ output = NoOutput
      BY <1>1, <1>5 DEF InProgress
    <2> HIDE DEF S
    <2>4. job \in S \ DoneJobs /\ DoneJobs \in SUBSET S
      <3>1. /\ \A i \in 1 .. count : jobs[i] \in S
            /\ \A i, j \in 1 .. count : jobs[i] = jobs[j] => i = j
        BY <2>2, <2>3, AscendingLists
      <3>2. QED
        BY <1>3, <3>1 DEF DoneJobs
    <2>5. core' = AnalysisJob(core, frame, job) /\ output' = output
      BY <1>5 DEF DoJob
    <2>6. core' = AnalysedOf(memory, frame, DoneJobs')
      <3>1. DoneJobs \in SUBSET Channels /\ job \in Channels \ DoneJobs
        BY <2>2, <2>4
      <3> HIDE DEF job
      <3>2. QED
        BY <1>1, <1>4, <2>3, <2>5, <3>1, AnalysedOne
    <2>7. InProgress'
      BY <1>1, <1>2, <1>5, <2>3, <2>5, <2>6 DEF InProgress, S
    <2>8. QED
      BY <1>1, <1>2, <2>7 DEF DataInv
  <1>6. CASE kind = "objects"
    <2> DEFINE S == frame.mask
               r == Ready(memory, frame)
    <2>1. S \in SUBSET Objects /\ Objects \in SUBSET Nat /\ IsFiniteSet(Objects)
      BY <1>1, JocCoreAssumption DEF Frame
    <2>2. S \in SUBSET Nat /\ IsFiniteSet(S)
      BY <2>1, FS_Subset
    <2>3. /\ jobs = Ascending(S) /\ count = Cardinality(S) /\ core = ObjectsOf(r, frame, DoneJobs)
          /\ output = [lfe |-> LfeOut(memory, frame), objects |-> [o \in DoneJobs |-> ObjectOut(r, frame, o)]]
      BY <1>1, <1>6 DEF InProgress
    <2> HIDE DEF S
    <2>4. job \in S \ DoneJobs /\ DoneJobs \in SUBSET S
      <3>1. /\ \A i \in 1 .. count : jobs[i] \in S
            /\ \A i, j \in 1 .. count : jobs[i] = jobs[j] => i = j
        BY <2>2, <2>3, AscendingLists
      <3>2. QED
        BY <1>3, <3>1 DEF DoneJobs
    <2>5. /\ core' = ObjectJob(core, frame, job)
          /\ output' = [output EXCEPT !.objects =
                 [o \in DOMAIN output.objects \cup {job} |->
                      IF o = job THEN ObjectOut(core, frame, o) ELSE output.objects[o]]]
      BY <1>6 DEF DoJob
    <2>6. Shaped(r)
      BY <1>1, ReadyIs
    <2> HIDE DEF r
    <2>7. /\ core' = ObjectsOf(r, frame, DoneJobs')
          /\ ObjectOut(core, frame, job) = ObjectOut(r, frame, job)
      <3>1. DoneJobs \in SUBSET Objects /\ job \in Objects \ DoneJobs
        BY <2>1, <2>4
      <3> HIDE DEF job
      <3>2. QED
        BY <1>4, <2>3, <2>5, <2>6, <3>1, ObjectsOne
    <2>8. output' = [lfe |-> LfeOut(memory, frame), objects |-> [o \in DoneJobs' |-> ObjectOut(r, frame, o)]]
      <3> HIDE DEF job
      <3>1. [o \in DOMAIN output.objects \cup {job} |->
                      IF o = job THEN ObjectOut(core, frame, o) ELSE output.objects[o]]
            = [o \in DoneJobs' |-> ObjectOut(r, frame, o)]
        BY <1>4, <2>3, <2>7
      <3>2. QED
        BY <2>3, <2>5, <3>1
    <2>9. InProgress'
      BY <1>1, <1>2, <1>6, <2>3, <2>7, <2>8 DEF InProgress, S, r
    <2>10. QED
      BY <1>1, <1>2, <2>9 DEF DataInv
  <1>7. QED
    BY <1>1, <1>5, <1>6

\* A dispatch begins with nothing done.
LEMMA StartProcessData ==
    ASSUME NEW f \in Frames, PoolInv, DataInv, StartProcess(f), f.fault = "none"
    PROVE  DataInv' /\ UNCHANGED <<memory, result>>
  <1>1. /\ call # "process" /\ call' = "process" /\ frame' = f /\ output' = NoOutput /\ kind' = "analysis"
        /\ jobs' = Ascending(0 .. f.channels - 1) /\ count' = Cardinality(0 .. f.channels - 1) /\ finished' = {}
        /\ UNCHANGED <<core, memory, result>>
    BY DEF StartProcess, MayCall, Dispatch, PoolInv, SameSide
  <1>2. core = memory /\ Shaped(memory)
    BY <1>1 DEF DataInv
  <1>3. DoneJobs' = {}
    BY <1>1 DEF DoneJobs
  <1>4. AnalysedOf(memory, f, {}) = memory
    BY <1>2, AnalysedNone
  <1>5. core' = AnalysedOf(memory', frame', DoneJobs')
    BY <1>1, <1>2, <1>3, <1>4
  <1>6. InProgress'
    BY <1>1, <1>5 DEF InProgress
  <1>7. QED
    BY <1>1, <1>2, <1>6 DEF DataInv

\* A dispatch is over when all its jobs are done.
LEMMA AllDone ==
    ASSUME PoolInv, DataInv, call = "process", pc[Main] = "done"
    PROVE  /\ InProgress /\ frame \in Frames /\ Shaped(memory)
           /\ kind = "analysis" => DoneJobs = 0 .. frame.channels - 1
           /\ kind = "objects" => DoneJobs = frame.mask
  <1>1. InProgress /\ frame \in Frames /\ Shaped(memory)
    BY DEF DataInv, PoolInv
  <1>2. finished = 1 .. count
    <2>1. next >= count /\ Busy = {}
      BY NobodyBusy DEF PoolInv, CounterAtEnd, BetweenRounds
    <2>2. finished \subseteq 1 .. count /\ next \in Nat /\ count \in Nat
      BY DEF PoolInv, TypeOK
    <2>3. ASSUME NEW i \in 1 .. count PROVE i \in finished
      BY <2>1, <2>2, <2>3 DEF PoolInv, JobsShared
    <2>4. QED
      BY <2>2, <2>3
  <1>3. ASSUME NEW S \in SUBSET Nat, IsFiniteSet(S), jobs = Ascending(S), count = Cardinality(S)
        PROVE  DoneJobs = S
    <2>1. /\ \A i \in 1 .. count : jobs[i] \in S
          /\ \A n \in S : \E i \in 1 .. count : jobs[i] = n
      BY <1>3, AscendingLists
    <2>2. QED
      BY <1>2, <2>1 DEF DoneJobs
  <1>4. frame.channels \in {5, 7} /\ frame.mask \in SUBSET Objects /\ Objects \in SUBSET Nat /\ IsFiniteSet(Objects)
    BY <1>1, JocCoreAssumption DEF Frame
  <1>5. kind = "analysis" => DoneJobs = 0 .. frame.channels - 1
    <2>1. 0 .. frame.channels - 1 \in SUBSET Nat /\ IsFiniteSet(0 .. frame.channels - 1)
      <3>1. 0 \in Int /\ frame.channels - 1 \in Int
        BY <1>4
      <3>2. QED
        BY <3>1, FS_Interval
    <2>2. QED
      BY <1>1, <1>3, <2>1 DEF InProgress
  <1>6. kind = "objects" => DoneJobs = frame.mask
    <2>1. frame.mask \in SUBSET Nat /\ IsFiniteSet(frame.mask)
      BY <1>4, FS_Subset
    <2>2. QED
      BY <1>1, <1>3, <2>1 DEF InProgress
  <1>7. QED
    BY <1>1, <1>5, <1>6

\* The end of a call is the step the reference makes.
LEMMA EndProcessData ==
    ASSUME DataInv, Shaped(memory), frame \in Frames, frame.fault = "none", NEW k, NEW out, EndProcess(k, out),
           k = ObjectsOf(Ready(memory, frame), frame, frame.mask),
           out = [lfe |-> LfeOut(memory, frame),
                  objects |-> [o \in frame.mask |-> ObjectOut(Ready(memory, frame), frame, o)]]
    PROVE  DataInv' /\ Calls!Process(frame)
  <1>1. /\ memory' = Counted(k, frame) /\ core' = memory' /\ result' = out /\ call' = "ok"
    BY DEF EndProcess, Return
  <1>2. Shaped(Ready(memory, frame))
    BY ReadyIs
  <1>3. Shaped(k)
    BY <1>2, ObjectsShaped
  <1>4. Shaped(memory')
    BY <1>1, <1>3, CountedShaped
  <1>5. Calls!Process(frame)
    BY <1>1, CallsProcess DEF Calls!Process, After
  <1>6. QED
    BY <1>1, <1>4, <1>5 DEF DataInv

\* The two steps that end a call.
LEMMA ObjectsDoneData == ASSUME PoolInv, DataInv, ObjectsDone PROVE DataInv' /\ Calls!Process(frame)
  <1>1. /\ InProgress /\ frame \in Frames /\ Shaped(memory) /\ kind = "objects" /\ DoneJobs = frame.mask
        /\ EndProcess(core, output)
    BY AllDone DEF ObjectsDone
  <1>2. QED
    BY <1>1, EndProcessData DEF InProgress

\* A call without objects ends behind the analysis.
LEMMA AnalysisDoneData ==
    ASSUME PoolInv, DataInv, AnalysisDone
    PROVE  DataInv' /\ (Calls!Process(frame) \/ UNCHANGED <<memory, result>>)
  <1> DEFINE k == [AfterAnalysis(core, frame) EXCEPT !.lfe = LfeAfter(core, frame)]
             out == [output EXCEPT !.lfe = LfeOut(core, frame)]
             r == Ready(memory, frame)
  <1>1. /\ InProgress /\ frame \in Frames /\ Shaped(memory) /\ kind = "analysis" /\ call = "process"
        /\ DoneJobs = 0 .. frame.channels - 1 /\ frame.fault = "none"
    BY AllDone DEF AnalysisDone, InProgress
  <1>2. core = AnalysedOf(memory, frame, 0 .. frame.channels - 1) /\ output = NoOutput
    BY <1>1 DEF InProgress
  <1>3. k = r /\ LfeOut(core, frame) = LfeOut(memory, frame)
    BY <1>1, <1>2, AnalysisLeaves
  <1>4. out = [lfe |-> LfeOut(memory, frame), objects |-> [o \in {} |-> ObjectOut(r, frame, o)]]
    BY <1>2, <1>3 DEF NoOutput
  <1>5. Shaped(r) /\ ObjectsOf(r, frame, {}) = r
    BY <1>1, ReadyIs, ObjectsNone
  <1>6. IF frame.mask = {} THEN EndProcess(k, out)
        ELSE core' = k /\ output' = out /\ Dispatch("objects", frame.mask) /\ UNCHANGED <<memory, result, callVars>>
    BY DEF AnalysisDone
  <1> HIDE DEF k, out, r
  <1>7. CASE frame.mask = {}
    <2>1. DataInv' /\ Calls!Process(frame)
      BY <1>1, <1>3, <1>4, <1>5, <1>6, <1>7, EndProcessData DEF r
    <2>2. QED
      BY <2>1
  <1>8. CASE frame.mask # {}
    <2>1. /\ core' = r /\ output' = out /\ kind' = "objects"
          /\ jobs' = Ascending(frame.mask) /\ count' = Cardinality(frame.mask) /\ finished' = {}
          /\ UNCHANGED <<memory, result, call, frame>>
      BY <1>3, <1>6, <1>8 DEF Dispatch, callVars
    <2>2. DoneJobs' = {}
      BY <2>1 DEF DoneJobs
    <2>3. InProgress'
      BY <1>1, <1>4, <1>5, <2>1, <2>2 DEF InProgress, r
    <2>4. QED
      BY <1>1, <2>1, <2>3 DEF DataInv
  <1>9. QED
    BY <1>7, <1>8

\* Every step of the pool is a step of the reference or none of its.
LEMMA NextDataInv ==
    ASSUME PoolInv, DataInv, [Next]_vars
    PROVE  DataInv' /\ [Calls!Next]_<<memory, result>>
  <1>1. ASSUME NEW f \in Frames, StartProcess(f) PROVE DataInv' /\ UNCHANGED <<memory, result>>
    BY <1>1, StartProcessData, AsideSteps
  <1>2. ASSUME ResetCore PROVE DataInv' /\ Calls!Reset
    <2>1. memory' = FreshCore /\ core' = FreshCore /\ call' = "ok" /\ UNCHANGED result
      BY <1>2 DEF ResetCore
    <2>2. QED
      BY <2>1, FreshShaped, CallsFresh DEF DataInv, Calls!Reset
  <1>3. ASSUME ObjectsDone \/ AnalysisDone
        PROVE  DataInv' /\ (Calls!Process(frame) \/ UNCHANGED <<memory, result>>) /\ frame \in Frames
    BY <1>3, ObjectsDoneData, AnalysisDoneData DEF ObjectsDone, AnalysisDone, PoolInv
  <1>4. ASSUME NEW t \in Thread, DoJob(t) PROVE DataInv' /\ UNCHANGED <<memory, result>>
    BY <1>4, DoJobData
  <1>5. ASSUME ~StartCall \/ \E what \in {"threads", "destroy"} : StopWorkers(what),
               \A t \in Thread : ~DoJob(t), ~(ObjectsDone \/ AnalysisDone)
        PROVE  DataInv' /\ UNCHANGED <<memory, result>>
    BY <1>5, AsideSteps DEF Next, StartCall, MainStep, ThreadStep
  <1>6. QED
    BY <1>1, <1>2, <1>3, <1>4, <1>5 DEF StartCall, Calls!Next

\* With any number of threads a call does what it does with one.
THEOREM CallsAreAtomic == Spec => RefinesCalls
  <1>1. Init => Calls!Init
    BY CallsFresh DEF Init, Calls!Init
  <1>2. QED
    BY InitPoolInv, NextPoolInv, InitDataInv, NextDataInv, <1>1, PTL DEF Spec, RefinesCalls, Calls!Spec

-----------------------------------------------------------------------------
(***************************************************************************)
(* What the objects are mixed from.  The core channels are fed with one    *)
(* endless signal, silence before the first frame; a memory, a delay line  *)
(* and a filtered frame are runs of it.                                    *)
(***************************************************************************)

\* The n elements of an endless sequence behind its a-th.
Run(W, a, n) == [i \in 1 .. n |-> W[a + i]]

\* A run is a sequence of its length.
LEMMA RunIsSeq ==
    ASSUME NEW W, NEW a \in Int, NEW n \in Nat
    PROVE  Run(W, a, n) \in Seq({W[i] : i \in Int}) /\ Len(Run(W, a, n)) = n
  <1> DEFINE T == {W[i] : i \in Int}
  <1>1. \A i \in 1 .. n : W[a + i] \in T
    OBVIOUS
  <1> HIDE DEF T
  <1>2. Run(W, a, n) \in [1 .. n -> T]
    BY <1>1 DEF Run
  <1>3. Run(W, a, n) \in Seq(T)
    BY <1>2, IsASeq DEF Run
  <1>4. Len(Run(W, a, n)) = n
    BY <1>2, <1>3, LenProperties
  <1>5. QED
    BY <1>3, <1>4 DEF T

\* Runs that follow each other make one, and a part of a run is a run.
LEMMA RunsJoin ==
    ASSUME NEW W, NEW a \in Int, NEW n \in Nat, NEW m \in Nat
    PROVE  Run(W, a, n) \o Run(W, a + n, m) = Run(W, a, n + m)
  <1> DEFINE T == {W[i] : i \in Int}
             s == Run(W, a, n)
             t == Run(W, a + n, m)
  <1>1. s \in Seq(T) /\ t \in Seq(T) /\ Len(s) = n /\ Len(t) = m
    BY RunIsSeq
  <1>2. /\ \A i \in 1 .. n : s[i] = W[a + i]
        /\ \A i \in 1 .. m : t[i] = W[a + n + i]
    BY DEF Run
  <1> HIDE DEF T, s, t
  <1>3. /\ s \o t \in Seq(T) /\ Len(s \o t) = n + m
        /\ \A i \in 1 .. n + m : (s \o t)[i] = IF i <= n THEN s[i] ELSE t[i - n]
    BY <1>1, ConcatProperties
  <1>4. s \o t = [i \in 1 .. n + m |-> (s \o t)[i]]
    BY <1>3, LenProperties
  <1>5. ASSUME NEW i \in 1 .. n + m PROVE (s \o t)[i] = W[a + i]
    <2>1. CASE i <= n
      BY <2>1, <1>2, <1>3
    <2>2. CASE ~(i <= n)
      <3>1. i - n \in 1 .. m /\ a + n + (i - n) = a + i
        BY <2>2
      <3>2. (s \o t)[i] = t[i - n]
        BY <2>2, <1>3
      <3>3. QED
        BY <3>1, <3>2, <1>2
    <2>3. QED
      BY <2>1, <2>2
  <1>6. s \o t = Run(W, a, n + m)
    BY <1>4, <1>5 DEF Run
  <1>7. QED
    BY <1>6 DEF s, t

LEMMA RunPart ==
    ASSUME NEW W, NEW a \in Int, NEW n \in Nat, NEW p \in 1 .. n + 1, NEW q \in p - 1 .. n
    PROVE  SubSeq(Run(W, a, n), p, q) = Run(W, a + p - 1, q - p + 1)
  <1> DEFINE T == {W[i] : i \in Int}
             s == Run(W, a, n)
  <1>1. s \in Seq(T) /\ Len(s) = n
    BY RunIsSeq
  <1>2. \A i \in 1 .. n : s[i] = W[a + i]
    BY DEF Run
  <1> HIDE DEF T, s
  <1>3. SubSeq(s, p, q) = [i \in 1 .. q - p + 1 |-> s[i + p - 1]]
    BY <1>1, SubSeqProperties
  <1>4. ASSUME NEW i \in 1 .. q - p + 1 PROVE s[i + p - 1] = W[a + p - 1 + i]
    <2>1. i + p - 1 \in 1 .. n /\ a + (i + p - 1) = a + p - 1 + i
      OBVIOUS
    <2>2. QED
      BY <2>1, <1>2
  <1>5. SubSeq(s, p, q) = Run(W, a + p - 1, q - p + 1)
    BY <1>3, <1>4 DEF Run
  <1>6. QED
    BY <1>5 DEF s

LEMMA RunNewest ==
    ASSUME NEW W, NEW a \in Int, NEW n \in Nat, NEW k \in 0 .. n
    PROVE  Newest(Run(W, a, n), k) = Run(W, a + n - k, k)
  <1> DEFINE p == n - k + 1
  <1>1. Len(Run(W, a, n)) = n
    BY RunIsSeq
  <1>2. p \in 1 .. n + 1 /\ n \in p - 1 .. n /\ a + p - 1 = a + n - k /\ n - p + 1 = k
    OBVIOUS
  <1>3. Newest(Run(W, a, n), k) = SubSeq(Run(W, a, n), p, n)
    BY <1>1 DEF Newest
  <1> HIDE DEF p
  <1>4. QED
    BY <1>2, <1>3, RunPart

\* A surround channel when P slots of the frame behind slot N were moved.
Moved(W, N, P) ==
    [x |-> [t \in 1 .. Slots |-> IF t <= P THEN W[N - Delay + t] ELSE W[N + t]],
     later |-> Run(W, N + P - Delay, Delay),
     history |-> Run(W, N + P - 2 * Delay, 2 * Delay)]

\* The sizes are positive numbers, a group is no longer than the delay.
LEMMA Sizes ==
    /\ Slots \in Nat \ {0} /\ Group \in Nat \ {0} /\ Delay \in Nat \ {0} /\ Taps \in Nat \ {0}
    /\ Group <= Delay
  BY JocCoreAssumption

\* A group moves that many slots.
LEMMA GroupMoves ==
    ASSUME NEW W, NEW N \in Nat, NEW P \in Nat, P + Group <= Slots, NEW phase \in BOOLEAN
    PROVE  SurroundGroup(Moved(W, N, P), P, phase) = Moved(W, N, P + Group)
  <1> DEFINE post == Moved(W, N, P)
             current == [s \in 1 .. Group |-> post.x[P + s]]
             filtered == post.history \o current
             delayed(s) == post.later[s] \cup (IF phase THEN filtered[s + Delay] ELSE {})
  <1> USE Sizes
  <1>1. /\ post.x = [t \in 1 .. Slots |-> IF t <= P THEN W[N - Delay + t] ELSE W[N + t]]
        /\ post.later = Run(W, N + P - Delay, Delay)
        /\ post.history = Run(W, N + P - 2 * Delay, 2 * Delay)
    BY DEF Moved
  <1>2. SurroundGroup(post, P, phase) =
            [x |-> [t \in 1 .. Slots |-> IF t \in P + 1 .. P + Group THEN delayed(t - P) ELSE post.x[t]],
             later |-> SubSeq(post.later, Group + 1, Delay) \o current,
             history |-> Newest(filtered, 2 * Delay)]
    BY Zenon DEF SurroundGroup
  <1> HIDE DEF post
  <1>3. current = Run(W, N + P, Group)
    <2>1. ASSUME NEW s \in 1 .. Group PROVE post.x[P + s] = W[N + P + s]
      <3>1. P + s \in 1 .. Slots /\ ~(P + s <= P) /\ N + (P + s) = N + P + s
        OBVIOUS
      <3>2. QED
        BY <1>1, <3>1
    <2>2. QED
      BY <2>1 DEF Run
  <1> HIDE DEF current
  <1>4. filtered = Run(W, N + P - 2 * Delay, 2 * Delay + Group)
    <2>1. N + P - 2 * Delay \in Int /\ 2 * Delay \in Nat /\ Group \in Nat /\ (N + P - 2 * Delay) + 2 * Delay = N + P
      OBVIOUS
    <2>2. Run(W, N + P - 2 * Delay, 2 * Delay) \o Run(W, (N + P - 2 * Delay) + 2 * Delay, Group)
          = Run(W, N + P - 2 * Delay, 2 * Delay + Group)
      BY <2>1, RunsJoin
    <2>3. QED
      BY <1>1, <1>3, <2>1, <2>2
  <1> HIDE DEF filtered
  <1>5. ASSUME NEW s \in 1 .. Group PROVE delayed(s) = W[N + P - Delay + s]
    <2>1. post.later[s] = W[N + P - Delay + s]
      BY <1>1 DEF Run
    <2>2. filtered[s + Delay] = W[N + P - Delay + s]
      <3>1. s + Delay \in 1 .. 2 * Delay + Group /\ (N + P - 2 * Delay) + (s + Delay) = N + P - Delay + s
        OBVIOUS
      <3>2. QED
        BY <1>4, <3>1 DEF Run
    <2>3. QED
      BY <2>1, <2>2
  <1> HIDE DEF delayed
  <1>6. [t \in 1 .. Slots |-> IF t \in P + 1 .. P + Group THEN delayed(t - P) ELSE post.x[t]]
        = [t \in 1 .. Slots |-> IF t <= P + Group THEN W[N - Delay + t] ELSE W[N + t]]
    <2>1. ASSUME NEW t \in 1 .. Slots
          PROVE  (IF t \in P + 1 .. P + Group THEN delayed(t - P) ELSE post.x[t])
                 = (IF t <= P + Group THEN W[N - Delay + t] ELSE W[N + t])
      <3>1. post.x[t] = IF t <= P THEN W[N - Delay + t] ELSE W[N + t]
        BY <1>1
      <3>2. CASE t \in P + 1 .. P + Group
        <4>1. t - P \in 1 .. Group /\ N + P - Delay + (t - P) = N - Delay + t /\ t <= P + Group
          BY <3>2
        <4>2. QED
          BY <1>5, <3>2, <4>1
      <3>3. CASE t <= P
        <4>1. t <= P + Group /\ t \notin P + 1 .. P + Group
          BY <3>3
        <4>2. QED
          BY <3>1, <3>3, <4>1
      <3>4. CASE P + Group < t
        <4>1. ~(t <= P + Group) /\ t \notin P + 1 .. P + Group /\ ~(t <= P)
          BY <3>4
        <4>2. QED
          BY <3>1, <4>1
      <3>5. QED
        BY <3>2, <3>3, <3>4
    <2>2. QED
      BY <2>1
  <1>7. SubSeq(post.later, Group + 1, Delay) \o current = Run(W, N + (P + Group) - Delay, Delay)
    <2> DEFINE a == N + P - Delay
               p == Group + 1
    <2>1. /\ a \in Int /\ Delay \in Nat /\ p \in 1 .. Delay + 1 /\ Delay \in p - 1 .. Delay
          /\ a + p - 1 = N + (P + Group) - Delay /\ Delay - p + 1 = Delay - Group
      OBVIOUS
    <2>2. SubSeq(post.later, Group + 1, Delay) = Run(W, N + (P + Group) - Delay, Delay - Group)
      <3>1. post.later = Run(W, a, Delay)
        BY <1>1
      <3> HIDE DEF a, p
      <3>2. SubSeq(Run(W, a, Delay), p, Delay) = Run(W, a + p - 1, Delay - p + 1)
        BY <2>1, RunPart
      <3>3. QED
        BY <2>1, <3>1, <3>2 DEF p
    <2>3. /\ N + (P + Group) - Delay \in Int /\ Delay - Group \in Nat /\ Group \in Nat
          /\ N + (P + Group) - Delay + (Delay - Group) = N + P /\ Delay - Group + Group = Delay
      OBVIOUS
    <2>4. Run(W, N + (P + Group) - Delay, Delay - Group) \o Run(W, N + (P + Group) - Delay + (Delay - Group), Group)
          = Run(W, N + (P + Group) - Delay, (Delay - Group) + Group)
      BY <2>3, RunsJoin
    <2>5. QED
      BY <1>3, <2>2, <2>3, <2>4
  <1>8. Newest(filtered, 2 * Delay) = Run(W, N + (P + Group) - 2 * Delay, 2 * Delay)
    <2>1. /\ N + P - 2 * Delay \in Int /\ 2 * Delay + Group \in Nat /\ 2 * Delay \in 0 .. 2 * Delay + Group
          /\ (N + P - 2 * Delay) + (2 * Delay + Group) - 2 * Delay = N + (P + Group) - 2 * Delay
      OBVIOUS
    <2>2. QED
      BY <1>4, <2>1, RunNewest
  <1>9. SurroundGroup(post, P, phase) = Moved(W, N, P + Group)
    BY <1>2, <1>6, <1>7, <1>8 DEF Moved
  <1>10. QED
    BY <1>9 DEF post

\* The groups make up the frame.
LEMMA Groups ==
    LET G == Slots \div Group
    IN /\ G \in Nat /\ G * Group = Slots
       /\ \A g \in 1 .. G : /\ (g - 1) * Group \in Nat
                            /\ (g - 1) * Group + Group = g * Group
                            /\ (g - 1) * Group + Group <= Slots
  <1> DEFINE G == Slots \div Group
  <1>1. Slots \in Nat /\ Group \in Nat \ {0} /\ Slots % Group = 0
    BY JocCoreAssumption
  <1>2. \A n \in Nat : n \div Group \in Int /\ n = Group * (n \div Group) + (n % Group)
    BY <1>1
  <1>3. G \in Int /\ Slots = Group * G + 0
    BY <1>1, <1>2
  <1> HIDE DEF G
  <1>4. G * Group = Slots
    BY <1>1, <1>3
  <1>5. G \in Nat
    <2>1. SUFFICES ASSUME G <= -1 PROVE FALSE
      BY <1>3
    <2>2. G * Group <= -1 * Group
      BY <1>1, <1>3, <2>1
    <2>3. QED
      BY <1>1, <1>4, <2>2
  <1>6. ASSUME NEW g \in 1 .. G
        PROVE  /\ (g - 1) * Group \in Nat /\ (g - 1) * Group + Group = g * Group
               /\ (g - 1) * Group + Group <= Slots
    <2>1. (g - 1) * Group \in Nat /\ (g - 1) * Group + Group = g * Group
      BY <1>1, <1>5
    <2>2. G - g \in Nat /\ G = g + (G - g)
      BY <1>5
    <2>3. G * Group = g * Group + (G - g) * Group /\ (G - g) * Group \in Nat /\ g * Group \in Nat
      BY <1>1, <2>2
    <2>4. QED
      BY <1>1, <1>4, <2>1, <2>3
  <1>7. QED
    BY <1>4, <1>5, <1>6 DEF G

\* surround_post delays a channel whose memories hold what is the newest of it.
LEMMA SurroundMoves ==
    ASSUME NEW k, NEW c, NEW phase \in BOOLEAN, NEW W, NEW N \in Nat,
           k.x[c] = Run(W, N, Slots), k.later[c] = Run(W, N - Delay, Delay),
           k.history[c] = Run(W, N - 2 * Delay, 2 * Delay)
    PROVE  LET post == SurroundChannel(k, c, phase)
           IN /\ post.x = Run(W, N - Delay, Slots)
              /\ post.later = Run(W, N + Slots - Delay, Delay)
              /\ post.history = Run(W, N + Slots - 2 * Delay, 2 * Delay)
  <1> DEFINE G == Slots \div Group
             start == [x |-> k.x[c], later |-> k.later[c], history |-> k.history[c]]
             Is(d) == d = [g \in 0 .. G |-> IF g = 0 THEN start
                                            ELSE SurroundGroup(d[g - 1], (g - 1) * Group, phase)]
             post == CHOOSE d : Is(d)
             V == [g \in 0 .. G |-> Moved(W, N, g * Group)]
  <1>1. SurroundChannel(k, c, phase) = post[G]
    BY Zenon DEF SurroundChannel
  <1>2. /\ G \in Nat /\ G * Group = Slots
        /\ \A g \in 1 .. G : /\ (g - 1) * Group \in Nat
                             /\ (g - 1) * Group + Group = g * Group
                             /\ (g - 1) * Group + Group <= Slots
    BY Groups
  <1> HIDE DEF G
  <1>3. V[0] = start
    <2>1. 0 * Group = 0 /\ N + 0 - Delay = N - Delay /\ N + 0 - 2 * Delay = N - 2 * Delay /\ 0 \in 0 .. G
      BY <1>2, Sizes
    <2>2. V[0] = Moved(W, N, 0)
      BY <2>1
    <2>3. [t \in 1 .. Slots |-> IF t <= 0 THEN W[N - Delay + t] ELSE W[N + t]] = Run(W, N, Slots)
      BY Sizes DEF Run
    <2> HIDE DEF V
    <2>4. QED
      BY <2>1, <2>2, <2>3 DEF Moved
  <1>4. ASSUME NEW g \in 0 .. G, g # 0
        PROVE  V[g] = SurroundGroup(V[g - 1], (g - 1) * Group, phase) /\ g - 1 \in 0 .. G
    <2> DEFINE P == (g - 1) * Group
    <2>1. g - 1 \in 0 .. G /\ g \in 1 .. G
      BY <1>2, <1>4
    <2>2. P \in Nat /\ P + Group = g * Group /\ P + Group <= Slots
      BY <1>2, <2>1
    <2>3. V[g - 1] = Moved(W, N, P) /\ V[g] = Moved(W, N, g * Group)
      BY <2>1
    <2> HIDE DEF P, V
    <2>4. SurroundGroup(Moved(W, N, P), P, phase) = Moved(W, N, P + Group)
      BY <2>2, GroupMoves
    <2>5. QED
      BY <2>1, <2>2, <2>3, <2>4 DEF P
  <1> HIDE DEF start
  <1>5. Is(V)
    BY <1>3, <1>4
  <1>6. Is(post)
    <2>1. \E d : Is(d)
      BY <1>5
    <2> HIDE DEF Is
    <2>2. QED
      BY <2>1, Zenon
  <1> HIDE DEF post, V
  <1>7. /\ post[0] = start
        /\ \A g \in 0 .. G : g # 0 => post[g] = SurroundGroup(post[g - 1], (g - 1) * Group, phase)
    BY <1>2, <1>6
  <1>8. \A g \in 0 .. G : post[g] = V[g]
    <2> DEFINE T == {g \in 0 .. G : post[g] # V[g]}
    <2>1. SUFFICES ASSUME T # {} PROVE FALSE
      OBVIOUS
    <2>2. PICK g \in T : \A h \in T : ~(h < g)
      <3>1. T \in SUBSET Nat
        BY <1>2
      <3> HIDE DEF T
      <3>2. QED
        BY <2>1, <3>1, Least
    <2>3. g # 0 /\ g \in 0 .. G
      BY <2>2, <1>3, <1>7
    <2>4. g - 1 \in 0 .. G /\ g - 1 < g
      BY <2>3, <1>2
    <2>5. post[g - 1] = V[g - 1]
      BY <2>2, <2>4
    <2>6. post[g] = V[g]
      BY <2>3, <2>5, <1>4, <1>7
    <2>7. QED
      BY <2>2, <2>6
  <1>9. post[G] = Moved(W, N, Slots)
    <2>1. G \in 0 .. G
      BY <1>2
    <2>2. V[G] = Moved(W, N, Slots)
      BY <1>2, <2>1 DEF V
    <2>3. QED
      BY <1>8, <2>1, <2>2
  <1>10. [t \in 1 .. Slots |-> IF t <= Slots THEN W[N - Delay + t] ELSE W[N + t]] = Run(W, N - Delay, Slots)
    BY Sizes DEF Run
  <1>11. QED
    BY <1>1, <1>9, <1>10 DEF Moved

\* The filtered slots of a signal: each is known by the window that ends at it.
Windows(S) == [e \in Int |-> {Run(S, e - Taps - 1, Taps + 1)}]

\* S is the signal that was fed up to now, silence before it.
Past(m, S) ==
    LET N == m.n * Slots
    IN /\ \A i \in Int : i <= 0 => S[i] = Silent
       /\ \A i \in 1 .. N : S[i][1] = i
       /\ \A i \in 1 .. N - 1 : S[i + 1][2] = S[i][3]
       /\ m.n > 0 => m.gain = S[N][3] /\ m.gain # Unset

\* The memories of the channels hold what is the newest of it for each.
Held(m, S, channels) ==
    LET N == m.n * Slots
    IN /\ \A c \in (0 .. channels - 1) \ Surround :
             m.delay[Lane(c)] = Run(S, N - Delay, Delay) /\ m.fifo[c] = Run(S, N - Delay - Taps, Taps)
       /\ \A c \in Surround :
             /\ m.fifo[c] = Run(S, N - Taps, Taps)
             /\ m.later[c] = Run(Windows(S), N - Delay, Delay)
             /\ m.history[c] = Run(Windows(S), N - 2 * Delay, 2 * Delay)

\* The overlap of an object is a memory of Taps mixed slots.
Overlaps(m) == \A o \in Objects : m.overlap[o] = [i \in 1 .. Taps |-> m.overlap[o][i]]

\* The inductive invariant: as long as the channel count is kept, the memories
\* fit together.
MomentInv ==
    /\ memory.n \in Nat /\ memory.counts \subseteq {5, 7}
    /\ Overlaps(memory)
    /\ \A channels \in {5, 7} :
          memory.counts \subseteq {channels} => \E S : Past(memory, S) /\ Held(memory, S, channels)

\* How many slots were fed after a number of frames.
LEMMA SlotsFed ==
    ASSUME NEW n \in Nat
    PROVE  n * Slots \in Nat /\ (n + 1) * Slots = n * Slots + Slots /\ (n > 0 => n * Slots >= 1)
  <1>1. Slots \in Nat /\ Slots >= 1
    BY Sizes
  <1>2. n * Slots \in Nat /\ (n + 1) * Slots = n * Slots + Slots
    BY <1>1
  <1>3. ASSUME n > 0 PROVE n * Slots >= 1
    <2>1. n - 1 \in Nat /\ n * Slots = (n - 1) * Slots + Slots /\ (n - 1) * Slots \in Nat
      BY <1>1, <1>3
    <2>2. QED
      BY <1>1, <2>1
  <1>4. QED
    BY <1>2, <1>3

\* A filter that runs over n slots computes the windows that end at them.
LEMMA WindowsOf ==
    ASSUME NEW S, NEW a \in Int, NEW n \in Nat
    PROVE  [t \in 1 .. n |-> AnalysisSlot(Run(S, a - Taps, Taps + n), t)] = Run(Windows(S), a, n)
  <1> USE Sizes
  <1>1. ASSUME NEW t \in 1 .. n
        PROVE  AnalysisSlot(Run(S, a - Taps, Taps + n), t) = Windows(S)[a + t]
    <2> DEFINE b == a - Taps
               q == t + Taps
               k == Taps + n
    <2>1. /\ b \in Int /\ k \in Nat /\ t \in 1 .. k + 1 /\ q \in t - 1 .. k
          /\ b + t - 1 = a + t - Taps - 1 /\ q - t + 1 = Taps + 1 /\ a + t \in Int
      OBVIOUS
    <2> HIDE DEF b, q, k
    <2>2. SubSeq(Run(S, b, k), t, q) = Run(S, b + t - 1, q - t + 1)
      BY <2>1, RunPart
    <2>3. Windows(S)[a + t] = {Run(S, a + t - Taps - 1, Taps + 1)}
      BY <2>1 DEF Windows
    <2>4. AnalysisSlot(Run(S, b, k), t) = {SubSeq(Run(S, b, k), t, q)}
      BY DEF AnalysisSlot, q
    <2>5. QED
      BY <2>1, <2>2, <2>3, <2>4 DEF b, k
  <1>2. QED
    BY <1>1 DEF Run

\* What was fed before does not change.
LEMMA RunsStay ==
    ASSUME NEW S, NEW R, NEW N \in Int, \A i \in Int : i <= N => R[i] = S[i],
           NEW a \in Int, NEW n \in Nat, a + n <= N
    PROVE  Run(S, a, n) = Run(R, a, n) /\ Run(Windows(S), a, n) = Run(Windows(R), a, n)
  <1> USE Sizes
  <1>1. ASSUME NEW b \in Int, NEW k \in Nat, b + k <= N PROVE Run(S, b, k) = Run(R, b, k)
    <2>1. \A i \in 1 .. k : b + i \in Int /\ b + i <= N
      BY <1>1
    <2>2. \A i \in 1 .. k : R[b + i] = S[b + i]
      BY <2>1
    <2>3. QED
      BY <2>2 DEF Run
  <1>2. ASSUME NEW i \in 1 .. n PROVE Windows(S)[a + i] = Windows(R)[a + i]
    <2>1. a + i \in Int /\ a + i - Taps - 1 \in Int /\ Taps + 1 \in Nat /\ (a + i - Taps - 1) + (Taps + 1) <= N
      BY <1>2
    <2>2. Run(S, a + i - Taps - 1, Taps + 1) = Run(R, a + i - Taps - 1, Taps + 1)
      BY <1>1, <2>1
    <2>3. QED
      BY <2>1, <2>2 DEF Windows
  <1>3. Run(Windows(S), a, n) = Run(Windows(R), a, n)
    BY <1>2 DEF Run
  <1>4. QED
    BY <1>1, <1>3

\* The signal with a frame more.
Fuller(m, f, S) ==
    [i \in Int |-> IF i \in m.n * Slots + 1 .. m.n * Slots + Slots THEN InSlot(m, f, i - m.n * Slots) ELSE S[i]]

\* It is what a frame feeds to the channels.
LEMMA FullerFeeds ==
    ASSUME NEW m, m.n \in Nat, NEW f, NEW S
    PROVE  /\ Ins(m, f) = Run(Fuller(m, f, S), m.n * Slots, Slots)
           /\ \A i \in Int : i <= m.n * Slots => Fuller(m, f, S)[i] = S[i]
  <1> DEFINE N == m.n * Slots
             R == Fuller(m, f, S)
  <1>1. N \in Nat /\ Slots \in Nat
    BY SlotsFed, Sizes
  <1>2. R = [i \in Int |-> IF i \in N + 1 .. N + Slots THEN InSlot(m, f, i - N) ELSE S[i]]
    BY DEF Fuller
  <1> HIDE DEF N, R
  <1>3. ASSUME NEW t \in 1 .. Slots PROVE R[N + t] = InSlot(m, f, t)
    <2>1. N + t \in Int /\ N + t \in N + 1 .. N + Slots /\ (N + t) - N = t
      BY <1>1
    <2>2. QED
      BY <1>2, <2>1
  <1>4. Ins(m, f) = Run(R, N, Slots)
    BY <1>3 DEF Ins, Run
  <1>5. ASSUME NEW i \in Int, i <= N PROVE R[i] = S[i]
    <2>1. i \notin N + 1 .. N + Slots
      BY <1>1, <1>5
    <2>2. QED
      BY <1>2, <2>1
  <1>6. QED
    BY <1>4, <1>5 DEF N, R

\* A frame goes on from the gain the one before it ended with.
LEMMA FullerPast ==
    ASSUME NEW m, m.n \in Nat, NEW f \in Frames, NEW S, Past(m, S),
           NEW m2, m2.n = m.n + 1, m2.gain = f.gain
    PROVE  Past(m2, Fuller(m, f, S))
  <1> DEFINE N == m.n * Slots
             R == Fuller(m, f, S)
  <1>1. N \in Nat /\ Slots \in Nat \ {0} /\ m2.n * Slots = N + Slots /\ (m.n > 0 => N >= 1) /\ (m.n = 0 => N = 0)
    <2>1. N \in Nat /\ (m.n + 1) * Slots = N + Slots /\ (m.n > 0 => N >= 1)
      BY SlotsFed
    <2>2. Slots \in Nat \ {0}
      BY Sizes
    <2>3. m.n = 0 => N = 0
      BY <2>2
    <2>4. QED
      BY <2>1, <2>2, <2>3
  <1>2. \A i \in Int : i <= N => R[i] = S[i]
    BY FullerFeeds
  <1>3. ASSUME NEW t \in 1 .. Slots PROVE R[N + t] = InSlot(m, f, t)
    <2>1. N + t \in Int /\ N + t \in N + 1 .. N + Slots /\ (N + t) - N = t
      BY <1>1
    <2>2. QED
      BY <2>1 DEF Fuller
  <1>4. /\ \A i \in Int : i <= 0 => S[i] = Silent
        /\ \A i \in 1 .. N : S[i][1] = i
        /\ \A i \in 1 .. N - 1 : S[i + 1][2] = S[i][3]
        /\ m.n > 0 => m.gain = S[N][3] /\ m.gain # Unset
    BY DEF Past
  <1>5. \A t \in 1 .. Slots :
           /\ InSlot(m, f, t)[1] = N + t /\ InSlot(m, f, t)[3] = f.gain
           /\ t # 1 => InSlot(m, f, t)[2] = f.gain
           /\ t = 1 => InSlot(m, f, t)[2] = IF m.gain = Unset THEN f.gain ELSE m.gain
    BY DEF InSlot
  <1>6. f.gain # Unset
    BY JocCoreAssumption DEF Frame, Unset
  <1> HIDE DEF N, R
  <1>7. \A i \in Int : i <= 0 => R[i] = Silent
    BY <1>1, <1>2, <1>4
  <1>8. ASSUME NEW i \in 1 .. N + Slots PROVE R[i][1] = i
    <2>1. CASE i <= N
      BY <2>1, <1>1, <1>2, <1>4
    <2>2. CASE ~(i <= N)
      <3>1. i - N \in 1 .. Slots /\ N + (i - N) = i
        BY <1>1, <2>2
      <3>2. QED
        BY <3>1, <1>3, <1>5
    <2>3. QED
      BY <2>1, <2>2
  <1>9. ASSUME NEW i \in 1 .. N + Slots - 1 PROVE R[i + 1][2] = R[i][3]
    <2>1. CASE i < N
      <3>1. i \in 1 .. N - 1 /\ i \in Int /\ i + 1 \in Int /\ i + 1 <= N /\ i <= N
        BY <1>1, <2>1
      <3>2. QED
        BY <3>1, <1>2, <1>4
    <2>2. CASE i = N
      <3>1. m.n > 0
        BY <1>1, <2>2
      <3>2. R[N] = S[N] /\ m.gain = S[N][3] /\ m.gain # Unset
        BY <1>1, <1>2, <1>4, <3>1
      <3>3. 1 \in 1 .. Slots
        BY <1>1
      <3>4. R[N + 1] = InSlot(m, f, 1) /\ InSlot(m, f, 1)[2] = m.gain
        BY <1>3, <1>5, <3>2, <3>3
      <3>5. QED
        BY <2>2, <3>2, <3>4
    <2>3. CASE N < i
      <3>1. /\ i - N \in 1 .. Slots /\ i - N + 1 \in 1 .. Slots /\ i - N + 1 # 1
            /\ N + (i - N) = i /\ N + (i - N + 1) = i + 1
        BY <1>1, <2>3
      <3>2. R[i] = InSlot(m, f, i - N) /\ R[i + 1] = InSlot(m, f, i - N + 1)
        BY <1>3, <3>1
      <3>3. QED
        BY <1>5, <3>1, <3>2
    <2>4. QED
      BY <1>1, <2>1, <2>2, <2>3
  <1>10. m2.gain = R[N + Slots][3] /\ m2.gain # Unset
    <2>1. Slots \in 1 .. Slots
      BY <1>1
    <2>2. QED
      BY <1>3, <1>5, <1>6, <2>1
  <1>11. QED
    BY <1>1, <1>7, <1>8, <1>9, <1>10 DEF Past, R

\* A channel that is delayed before the filter.
LEMMA DelayedChannel ==
    ASSUME NEW m, m.n \in Nat, NEW f, NEW S, NEW c \in Channels \ Surround,
           m.delay[Lane(c)] = Run(S, m.n * Slots - Delay, Delay),
           m.fifo[c] = Run(S, m.n * Slots - Delay - Taps, Taps)
    PROVE  LET N == m.n * Slots
               R == Fuller(m, f, S)
           IN /\ Newest(m.delay[Lane(c)] \o Ins(m, f), Delay) = Run(R, N + Slots - Delay, Delay)
              /\ Newest(Fed(m, f, c), Taps) = Run(R, N + Slots - Delay - Taps, Taps)
              /\ Bands(m, f, c) = Run(Windows(R), N - Delay, Slots)
  <1> DEFINE N == m.n * Slots
             R == Fuller(m, f, S)
  <1> USE Sizes
  <1>1. N \in Nat
    BY SlotsFed
  <1>2. Ins(m, f) = Run(R, N, Slots) /\ \A i \in Int : i <= N => R[i] = S[i]
    BY FullerFeeds
  <1>3. m.delay[Lane(c)] = Run(S, N - Delay, Delay) /\ m.fifo[c] = Run(S, N - Delay - Taps, Taps)
    OBVIOUS
  <1> HIDE DEF N, R
  <1>4. m.delay[Lane(c)] = Run(R, N - Delay, Delay)
    <2>1. N - Delay \in Int /\ (N - Delay) + Delay <= N /\ N \in Int /\ Delay \in Nat
      BY <1>1
    <2>2. QED
      BY <1>2, <1>3, <2>1, RunsStay
  <1>5. m.fifo[c] = Run(R, N - Delay - Taps, Taps)
    <2>1. N - Delay - Taps \in Int /\ (N - Delay - Taps) + Taps <= N /\ N \in Int /\ Taps \in Nat
      BY <1>1
    <2>2. QED
      BY <1>2, <1>3, <2>1, RunsStay
  <1>6. Line(m, f, c) = Run(R, N - Delay, Delay + Slots)
    <2>1. N - Delay \in Int /\ Delay \in Nat /\ Slots \in Nat /\ (N - Delay) + Delay = N
      BY <1>1
    <2>2. Run(R, N - Delay, Delay) \o Run(R, (N - Delay) + Delay, Slots) = Run(R, N - Delay, Delay + Slots)
      BY <2>1, RunsJoin
    <2>3. QED
      BY <1>2, <1>4, <2>1, <2>2 DEF Line
  <1>7. Newest(Line(m, f, c), Delay) = Run(R, N + Slots - Delay, Delay)
    <2>1. N - Delay \in Int /\ Delay + Slots \in Nat /\ Delay \in 0 .. Delay + Slots
          /\ (N - Delay) + (Delay + Slots) - Delay = N + Slots - Delay
      BY <1>1
    <2>2. QED
      BY <1>6, <2>1, RunNewest
  <1>8. SubSeq(Line(m, f, c), 1, Slots) = Run(R, N - Delay, Slots)
    <2> DEFINE a == N - Delay
               k == Delay + Slots
               p == 1
    <2>1. a \in Int /\ k \in Nat /\ p \in 1 .. k + 1 /\ Slots \in p - 1 .. k /\ a + p - 1 = a /\ Slots - p + 1 = Slots
      BY <1>1
    <2> HIDE DEF a, k, p
    <2>2. SubSeq(Run(R, a, k), p, Slots) = Run(R, a + p - 1, Slots - p + 1)
      BY <2>1, RunPart
    <2>3. QED
      BY <1>6, <2>1, <2>2 DEF a, k, p
  <1>9. Fed(m, f, c) = Run(R, N - Delay - Taps, Taps + Slots)
    <2>1. N - Delay - Taps \in Int /\ Taps \in Nat /\ Slots \in Nat /\ (N - Delay - Taps) + Taps = N - Delay
      BY <1>1
    <2>2. Run(R, N - Delay - Taps, Taps) \o Run(R, (N - Delay - Taps) + Taps, Slots)
          = Run(R, N - Delay - Taps, Taps + Slots)
      BY <2>1, RunsJoin
    <2>3. Fed(m, f, c) = m.fifo[c] \o SubSeq(Line(m, f, c), 1, Slots)
      BY DEF Fed
    <2>4. QED
      BY <1>5, <1>8, <2>1, <2>2, <2>3
  <1>10. Newest(Fed(m, f, c), Taps) = Run(R, N + Slots - Delay - Taps, Taps)
    <2>1. N - Delay - Taps \in Int /\ Taps + Slots \in Nat /\ Taps \in 0 .. Taps + Slots
          /\ (N - Delay - Taps) + (Taps + Slots) - Taps = N + Slots - Delay - Taps
      BY <1>1
    <2>2. QED
      BY <1>9, <2>1, RunNewest
  <1>11. Bands(m, f, c) = Run(Windows(R), N - Delay, Slots)
    <2>1. N - Delay \in Int /\ Slots \in Nat
      BY <1>1
    <2>2. QED
      BY <1>9, <2>1, WindowsOf DEF Bands
  <1>12. QED
    BY <1>7, <1>10, <1>11 DEF Line, N, R

\* A surround channel, up to surround_post.
LEMMA SurroundFed ==
    ASSUME NEW m, m.n \in Nat, NEW f, NEW S, NEW c \in Surround,
           m.fifo[c] = Run(S, m.n * Slots - Taps, Taps)
    PROVE  LET N == m.n * Slots
               R == Fuller(m, f, S)
           IN /\ Newest(Fed(m, f, c), Taps) = Run(R, N + Slots - Taps, Taps)
              /\ Bands(m, f, c) = Run(Windows(R), N, Slots)
  <1> DEFINE N == m.n * Slots
             R == Fuller(m, f, S)
  <1> USE Sizes
  <1>1. N \in Nat
    BY SlotsFed
  <1>2. Ins(m, f) = Run(R, N, Slots) /\ \A i \in Int : i <= N => R[i] = S[i]
    BY FullerFeeds
  <1>3. m.fifo[c] = Run(S, N - Taps, Taps)
    OBVIOUS
  <1> HIDE DEF N, R
  <1>4. m.fifo[c] = Run(R, N - Taps, Taps)
    <2>1. N - Taps \in Int /\ (N - Taps) + Taps <= N /\ N \in Int /\ Taps \in Nat
      BY <1>1
    <2>2. QED
      BY <1>2, <1>3, <2>1, RunsStay
  <1>5. Fed(m, f, c) = Run(R, N - Taps, Taps + Slots)
    <2>1. N - Taps \in Int /\ Taps \in Nat /\ Slots \in Nat /\ (N - Taps) + Taps = N
      BY <1>1
    <2>2. Run(R, N - Taps, Taps) \o Run(R, (N - Taps) + Taps, Slots) = Run(R, N - Taps, Taps + Slots)
      BY <2>1, RunsJoin
    <2>3. QED
      BY <1>2, <1>4, <2>1, <2>2 DEF Fed
  <1>6. Newest(Fed(m, f, c), Taps) = Run(R, N + Slots - Taps, Taps)
    <2>1. N - Taps \in Int /\ Taps + Slots \in Nat /\ Taps \in 0 .. Taps + Slots
          /\ (N - Taps) + (Taps + Slots) - Taps = N + Slots - Taps
      BY <1>1
    <2>2. QED
      BY <1>5, <2>1, RunNewest
  <1>7. Bands(m, f, c) = Run(Windows(R), N, Slots)
    <2>1. N \in Int /\ Slots \in Nat
      BY <1>1
    <2>2. QED
      BY <1>5, <2>1, WindowsOf DEF Bands
  <1>8. QED
    BY <1>6, <1>7 DEF N, R

\* A channel that is delayed before the filter, when the analysis is over.
LEMMA ReadyDelayed ==
    ASSUME NEW m, Shaped(m), m.n \in Nat, NEW f \in Frames, NEW S, Held(m, S, f.channels),
           NEW c \in (0 .. f.channels - 1) \ Surround
    PROVE  LET M == (m.n + 1) * Slots
               R == Fuller(m, f, S)
               r == Ready(m, f)
           IN /\ r.delay[Lane(c)] = Run(R, M - Delay, Delay)
              /\ r.fifo[c] = Run(R, M - Delay - Taps, Taps)
              /\ r.x[c] = Run(Windows(R), m.n * Slots - Delay, Slots)
  <1> DEFINE k == AnalysedOf(m, f, 0 .. f.channels - 1)
  <1>1. f.channels \in {5, 7}
    BY JocCoreAssumption DEF Frame
  <1>2. c \in Channels \ Surround /\ c \in 0 .. f.channels - 1 /\ Lane(c) \in Lanes
    BY <1>1, LanesApart DEF Channels
  <1>3. /\ m.delay[Lane(c)] = Run(S, m.n * Slots - Delay, Delay)
        /\ m.fifo[c] = Run(S, m.n * Slots - Delay - Taps, Taps)
    BY DEF Held
  <1>4. /\ k.delay[Lane(c)] = Newest(m.delay[Lane(c)] \o Ins(m, f), Delay)
        /\ k.fifo[c] = Newest(Fed(m, f, c), Taps) /\ k.x[c] = Bands(m, f, c)
    BY <1>2 DEF AnalysedOf
  <1>5. /\ Ready(m, f).delay = k.delay /\ Ready(m, f).fifo = k.fifo /\ Banded(m, f).x = k.x
        /\ \A d \in Channels : Ready(m, f).x[d] = BandsOf(m, f, d)
    BY ReadyIs, BandedIs
  <1> HIDE DEF k
  <1>6. Ready(m, f).x[c] = k.x[c]
    BY <1>2, <1>5 DEF BandsOf
  <1>7. /\ Newest(m.delay[Lane(c)] \o Ins(m, f), Delay) = Run(Fuller(m, f, S), m.n * Slots + Slots - Delay, Delay)
        /\ Newest(Fed(m, f, c), Taps) = Run(Fuller(m, f, S), m.n * Slots + Slots - Delay - Taps, Taps)
        /\ Bands(m, f, c) = Run(Windows(Fuller(m, f, S)), m.n * Slots - Delay, Slots)
    BY <1>2, <1>3, DelayedChannel
  <1> DEFINE M == (m.n + 1) * Slots
             N == m.n * Slots
  <1>8. N + Slots - Delay = M - Delay /\ N + Slots - Delay - Taps = M - Delay - Taps
    <2>1. N \in Nat /\ M = N + Slots
      BY SlotsFed
    <2> HIDE DEF M, N
    <2>2. QED
      BY <2>1, Sizes
  <1>9. /\ Ready(m, f).delay[Lane(c)] = Run(Fuller(m, f, S), N + Slots - Delay, Delay)
        /\ Ready(m, f).fifo[c] = Run(Fuller(m, f, S), N + Slots - Delay - Taps, Taps)
        /\ Ready(m, f).x[c] = Run(Windows(Fuller(m, f, S)), N - Delay, Slots)
    BY <1>4, <1>5, <1>6, <1>7
  <1> HIDE DEF M, N
  <1>10. /\ Ready(m, f).delay[Lane(c)] = Run(Fuller(m, f, S), M - Delay, Delay)
         /\ Ready(m, f).fifo[c] = Run(Fuller(m, f, S), M - Delay - Taps, Taps)
    BY <1>8, <1>9, Zenon
  <1>11. QED
    BY <1>9, <1>10 DEF M, N

\* A surround channel, when the analysis is over.
LEMMA ReadySurround ==
    ASSUME NEW m, Shaped(m), m.n \in Nat, NEW f \in Frames, NEW S, Held(m, S, f.channels), NEW c \in Surround
    PROVE  LET M == (m.n + 1) * Slots
               R == Fuller(m, f, S)
               r == Ready(m, f)
           IN /\ r.fifo[c] = Run(R, M - Taps, Taps)
              /\ r.later[c] = Run(Windows(R), M - Delay, Delay)
              /\ r.history[c] = Run(Windows(R), M - 2 * Delay, 2 * Delay)
              /\ r.x[c] = Run(Windows(R), m.n * Slots - Delay, Slots)
  <1> DEFINE k == AnalysedOf(m, f, 0 .. f.channels - 1)
             N == m.n * Slots
             R == Fuller(m, f, S)
             W == Windows(R)
             g == Banded(m, f)
             r == Ready(m, f)
  <1>1. f.channels \in {5, 7} /\ f.phase \in BOOLEAN
    BY JocCoreAssumption DEF Frame
  <1>2. c \in Channels /\ c \in 0 .. f.channels - 1
    BY <1>1 DEF Surround, Channels
  <1>3. /\ m.fifo[c] = Run(S, N - Taps, Taps)
        /\ m.later[c] = Run(Windows(S), N - Delay, Delay)
        /\ m.history[c] = Run(Windows(S), N - 2 * Delay, 2 * Delay)
    BY DEF Held
  <1>4. k.fifo[c] = Newest(Fed(m, f, c), Taps) /\ k.x[c] = Bands(m, f, c)
    BY <1>2 DEF AnalysedOf
  <1>5. Newest(Fed(m, f, c), Taps) = Run(R, N + Slots - Taps, Taps) /\ Bands(m, f, c) = Run(W, N, Slots)
    BY <1>3, SurroundFed
  <1>6. N \in Nat /\ \A i \in Int : i <= N => R[i] = S[i]
    BY SlotsFed, FullerFeeds
  <1>7. /\ r.fifo = g.fifo /\ \A d \in Channels : r.x[d] = BandsOf(m, f, d)
        /\ \A d \in Surround : r.later[d] = Shifted(m, f, d).later /\ r.history[d] = Shifted(m, f, d).history
    BY ReadyIs
  <1>8. g.fifo = k.fifo /\ g.x = k.x /\ g.later = m.later /\ g.history = m.history
    BY BandedIs
  <1>9. Shifted(m, f, c) = SurroundChannel(g, c, f.phase)
    BY DEF Shifted
  <1> HIDE DEF k, N, R, g, r
  <1>10. m.later[c] = Run(W, N - Delay, Delay) /\ m.history[c] = Run(W, N - 2 * Delay, 2 * Delay)
    <2>1. /\ N \in Int /\ N - Delay \in Int /\ N - 2 * Delay \in Int /\ Delay \in Nat /\ 2 * Delay \in Nat
          /\ N - Delay + Delay <= N /\ N - 2 * Delay + 2 * Delay <= N
      BY <1>6, Sizes
    <2>2. /\ Run(Windows(S), N - Delay, Delay) = Run(W, N - Delay, Delay)
          /\ Run(Windows(S), N - 2 * Delay, 2 * Delay) = Run(W, N - 2 * Delay, 2 * Delay)
      BY <1>6, <2>1, RunsStay
    <2>3. QED
      BY <1>3, <2>2
  <1> HIDE DEF W
  <1>11. /\ g.x[c] = Run(W, N, Slots) /\ g.later[c] = Run(W, N - Delay, Delay)
         /\ g.history[c] = Run(W, N - 2 * Delay, 2 * Delay)
    BY <1>4, <1>5, <1>8, <1>10
  <1>12. /\ Shifted(m, f, c).x = Run(W, N - Delay, Slots)
         /\ Shifted(m, f, c).later = Run(W, N + Slots - Delay, Delay)
         /\ Shifted(m, f, c).history = Run(W, N + Slots - 2 * Delay, 2 * Delay)
    BY <1>1, <1>6, <1>9, <1>11, SurroundMoves
  <1>13. /\ r.fifo[c] = k.fifo[c] /\ r.later[c] = Shifted(m, f, c).later /\ r.history[c] = Shifted(m, f, c).history
         /\ r.x[c] = Shifted(m, f, c).x
    BY <1>2, <1>7, <1>8 DEF BandsOf
  <1>14. /\ r.fifo[c] = Run(R, N + Slots - Taps, Taps)
         /\ r.later[c] = Run(W, N + Slots - Delay, Delay)
         /\ r.history[c] = Run(W, N + Slots - 2 * Delay, 2 * Delay)
         /\ r.x[c] = Run(W, N - Delay, Slots)
    BY <1>4, <1>5, <1>12, <1>13
  <1> DEFINE M == (m.n + 1) * Slots
  <1>15. /\ N + Slots - Taps = M - Taps /\ N + Slots - Delay = M - Delay
         /\ N + Slots - 2 * Delay = M - 2 * Delay
    <2>1. M = N + Slots
      BY SlotsFed DEF N
    <2> HIDE DEF M
    <2>2. QED
      BY <1>6, <2>1, Sizes
  <1> HIDE DEF M
  <1>16. /\ r.fifo[c] = Run(R, M - Taps, Taps)
         /\ r.later[c] = Run(W, M - Delay, Delay)
         /\ r.history[c] = Run(W, M - 2 * Delay, 2 * Delay)
    BY <1>14, <1>15, Zenon
  <1>17. QED
    BY <1>14, <1>16 DEF M, N, R, W, r

\* What the core remembers after a call, field by field.
LEMMA AfterIs ==
    ASSUME NEW m, Shaped(m), m.n \in Nat, NEW f
    PROVE  LET a == After(m, f)
               r == Ready(m, f)
           IN /\ a.delay = r.delay /\ a.fifo = r.fifo /\ a.later = r.later /\ a.history = r.history
              /\ \A o \in Objects : a.overlap[o] = IF o \in f.mask THEN Newest(Synthesis(r, f, o), Taps)
                                                   ELSE m.overlap[o]
              /\ a.gain = f.gain /\ a.n = m.n + 1 /\ a.counts = m.counts \cup {f.channels}
  <1> DEFINE a == After(m, f)
             r == Ready(m, f)
             b == ObjectsOf(r, f, f.mask)
             n == b.n + 1
             counts == b.counts \cup {f.channels}
             overlap == [o \in Objects |-> IF o \in f.mask THEN Newest(Synthesis(r, f, o), Taps) ELSE r.overlap[o]]
  <1>1. r.gain = f.gain /\ r.n = m.n /\ r.counts = m.counts /\ r.overlap = m.overlap
    BY ReadyIs
  <1>2. /\ Record(b) /\ b.delay = r.delay /\ b.fifo = r.fifo /\ b.later = r.later /\ b.history = r.history
        /\ b.overlap = overlap /\ b.gain = r.gain /\ b.n = r.n /\ b.counts = r.counts
    BY DEF ObjectsOf, Record
  <1>3. a = [b EXCEPT !.n = n, !.counts = counts]
    BY DEF After, Counted
  <1>4. n = m.n + 1 /\ counts = m.counts \cup {f.channels}
    BY <1>1, <1>2
  <1>5. \A o \in Objects : overlap[o] = IF o \in f.mask THEN Newest(Synthesis(r, f, o), Taps) ELSE m.overlap[o]
    BY <1>1
  <1> HIDE DEF a, b, r, n, counts, overlap
  <1>6. /\ a.delay = b.delay /\ a.fifo = b.fifo /\ a.later = b.later /\ a.history = b.history
        /\ a.overlap = b.overlap /\ a.gain = b.gain /\ a.n = n /\ a.counts = counts
    BY <1>2, <1>3 DEF Record
  <1>7. /\ a.delay = r.delay /\ a.fifo = r.fifo /\ a.later = r.later /\ a.history = r.history
        /\ a.overlap = overlap /\ a.gain = f.gain /\ a.n = m.n + 1 /\ a.counts = m.counts \cup {f.channels}
    BY <1>1, <1>2, <1>4, <1>6
  <1>8. QED
    BY <1>5, <1>7 DEF a, r

\* A call leaves the memories as it found them, a frame further on.
LEMMA AfterHeld ==
    ASSUME NEW m, Shaped(m), m.n \in Nat, NEW f \in Frames, NEW S, Past(m, S), Held(m, S, f.channels)
    PROVE  Past(After(m, f), Fuller(m, f, S)) /\ Held(After(m, f), Fuller(m, f, S), f.channels)
  <1> DEFINE M == (m.n + 1) * Slots
             R == Fuller(m, f, S)
             r == Ready(m, f)
             a == After(m, f)
  <1>1. /\ a.delay = r.delay /\ a.fifo = r.fifo /\ a.later = r.later /\ a.history = r.history
        /\ a.gain = f.gain /\ a.n = m.n + 1
    BY AfterIs
  <1>2. a.n * Slots = M
    BY <1>1
  <1>3. \A c \in (0 .. f.channels - 1) \ Surround :
           r.delay[Lane(c)] = Run(R, M - Delay, Delay) /\ r.fifo[c] = Run(R, M - Delay - Taps, Taps)
    BY ReadyDelayed
  <1>4. \A c \in Surround :
           /\ r.fifo[c] = Run(R, M - Taps, Taps)
           /\ r.later[c] = Run(Windows(R), M - Delay, Delay)
           /\ r.history[c] = Run(Windows(R), M - 2 * Delay, 2 * Delay)
    BY ReadySurround
  <1>5. Past(a, R)
    BY <1>1, FullerPast
  <1> HIDE DEF M, R, r, a
  <1>6. \A c \in (0 .. f.channels - 1) \ Surround :
           /\ a.delay[Lane(c)] = Run(R, a.n * Slots - Delay, Delay)
           /\ a.fifo[c] = Run(R, a.n * Slots - Delay - Taps, Taps)
    BY <1>1, <1>2, <1>3, Zenon
  <1>7. \A c \in Surround :
           /\ a.fifo[c] = Run(R, a.n * Slots - Taps, Taps)
           /\ a.later[c] = Run(Windows(R), a.n * Slots - Delay, Delay)
           /\ a.history[c] = Run(Windows(R), a.n * Slots - 2 * Delay, 2 * Delay)
    BY <1>1, <1>2, <1>4, Zenon
  <1>8. Held(a, R, f.channels)
    BY <1>6, <1>7, Zenon DEF Held
  <1>9. QED
    BY <1>5, <1>8 DEF a, R

\* What is written for a slot of an object ends with what was mixed for it, and
\* what stays in the overlap are Taps mixed slots again.
LEMMA OutEndsNew ==
    ASSUME NEW r, NEW f, NEW o, r.overlap[o] = [i \in 1 .. Taps |-> r.overlap[o][i]]
    PROVE  /\ \A t \in 1 .. Slots : LET line == ObjectOut(r, f, o)[t]
                                    IN Len(line) = Taps + 1 /\ line[Taps + 1] = Mixed(r, f, o)[t]
           /\ LET left == Newest(Synthesis(r, f, o), Taps) IN left = [i \in 1 .. Taps |-> left[i]]
  <1> DEFINE ov == r.overlap[o]
             mixed == Mixed(r, f, o)
             V == [i \in Int |-> IF i <= Taps THEN ov[i] ELSE mixed[i - Taps]]
  <1> USE Sizes
  <1>1. mixed = [t \in 1 .. Slots |-> mixed[t]]
    BY DEF Mixed
  <1>2. Synthesis(r, f, o) = ov \o mixed
    BY DEF Synthesis
  <1>3. ov = [i \in 1 .. Taps |-> ov[i]]
    OBVIOUS
  <1> HIDE DEF ov, mixed
  <1>4. /\ \A i \in 1 .. Taps : V[0 + i] = ov[i]
        /\ \A t \in 1 .. Slots : V[Taps + t] = mixed[t]
    <2>1. \A i \in 1 .. Taps : 0 + i \in Int /\ 0 + i = i /\ i <= Taps
      OBVIOUS
    <2>2. \A t \in 1 .. Slots : Taps + t \in Int /\ ~(Taps + t <= Taps) /\ (Taps + t) - Taps = t
      OBVIOUS
    <2>3. QED
      BY <2>1, <2>2
  <1> HIDE DEF V
  <1>5. ov = Run(V, 0, Taps) /\ mixed = Run(V, Taps, Slots)
    BY <1>1, <1>3, <1>4 DEF Run
  <1>6. Synthesis(r, f, o) = Run(V, 0, Taps + Slots)
    <2> DEFINE a == 0
    <2>1. a \in Int /\ Taps \in Nat /\ Slots \in Nat
      OBVIOUS
    <2>2. a = 0 /\ a + Taps = Taps
      OBVIOUS
    <2> HIDE DEF a
    <2>3. Run(V, a, Taps) \o Run(V, a + Taps, Slots) = Run(V, a, Taps + Slots)
      BY <2>1, RunsJoin
    <2>4. ov = Run(V, a, Taps) /\ mixed = Run(V, a + Taps, Slots)
      BY <1>5, <2>2, Zenon
    <2>5. Synthesis(r, f, o) = Run(V, a, Taps + Slots)
      BY <1>2, <2>3, <2>4, Zenon
    <2>6. QED
      BY <2>2, <2>5
  <1>7. ASSUME NEW t \in 1 .. Slots
        PROVE  Len(ObjectOut(r, f, o)[t]) = Taps + 1 /\ ObjectOut(r, f, o)[t][Taps + 1] = mixed[t]
    <2> DEFINE a == 0
               k == Taps + Slots
               q == t + Taps
    <2>1. a \in Int /\ k \in Nat /\ t \in 1 .. k + 1 /\ q \in t - 1 .. k
      OBVIOUS
    <2>2. a + t - 1 = t - 1 /\ q - t + 1 = Taps + 1
      OBVIOUS
    <2>3. ObjectOut(r, f, o)[t] = SubSeq(Run(V, a, k), t, q)
      BY <1>6 DEF ObjectOut
    <2> HIDE DEF a, k, q
    <2>4. SubSeq(Run(V, a, k), t, q) = Run(V, a + t - 1, q - t + 1)
      BY <2>1, RunPart
    <2>5. ObjectOut(r, f, o)[t] = Run(V, t - 1, Taps + 1)
      BY <2>2, <2>3, <2>4, Zenon
    <2>6. /\ t - 1 \in Int /\ Taps + 1 \in Nat /\ Taps + 1 \in 1 .. Taps + 1
          /\ (t - 1) + (Taps + 1) = Taps + t
      OBVIOUS
    <2>7. Len(Run(V, t - 1, Taps + 1)) = Taps + 1
      BY <2>6, RunIsSeq
    <2>8. Run(V, t - 1, Taps + 1)[Taps + 1] = V[(t - 1) + (Taps + 1)]
      BY <2>6 DEF Run
    <2>9. QED
      BY <1>4, <2>5, <2>6, <2>7, <2>8
  <1>8. Newest(Synthesis(r, f, o), Taps) = Run(V, Slots, Taps)
    <2>1. 0 \in Int /\ Taps + Slots \in Nat /\ Taps \in 0 .. Taps + Slots /\ 0 + (Taps + Slots) - Taps = Slots
      OBVIOUS
    <2>2. QED
      BY <1>6, <2>1, RunNewest
  <1>9. Run(V, Slots, Taps) = [i \in 1 .. Taps |-> Run(V, Slots, Taps)[i]]
    BY DEF Run
  <1>10. QED
    BY <1>7, <1>8, <1>9 DEF mixed

\* The windows of a signal are runs of slots with connecting gains.
LEMMA WindowsConnect ==
    ASSUME NEW m, m.n \in Nat, NEW R, Past(m, R), NEW e \in Int, e <= m.n * Slots
    PROVE  LET window == Run(R, e - Taps - 1, Taps + 1)
           IN /\ Connected(window)
              /\ window[Len(window)][1] = IF e > 0 THEN e ELSE 0
  <1> DEFINE N == m.n * Slots
             window == Run(R, e - Taps - 1, Taps + 1)
  <1> USE Sizes
  <1>1. N \in Nat
    BY SlotsFed
  <1>2. /\ \A i \in Int : i <= 0 => R[i] = Silent
        /\ \A i \in 1 .. N : R[i][1] = i
        /\ \A i \in 1 .. N - 1 : R[i + 1][2] = R[i][3]
    BY DEF Past
  <1>3. e <= N
    OBVIOUS
  <1>4. Len(window) = Taps + 1
    <2>1. e - Taps - 1 \in Int /\ Taps + 1 \in Nat
      OBVIOUS
    <2>2. QED
      BY <2>1, RunIsSeq
  <1>5. \A i \in 1 .. Taps + 1 : window[i] = R[(e - Taps - 1) + i]
    BY DEF Run
  <1> HIDE DEF N, window
  <1>6. ASSUME NEW i \in 1 .. Taps, window[i] # Silent
        PROVE  window[i + 1][1] = window[i][1] + 1 /\ window[i + 1][2] = window[i][3]
    <2> DEFINE j == (e - Taps - 1) + i
    <2>1. /\ i \in 1 .. Taps + 1 /\ i + 1 \in 1 .. Taps + 1
          /\ j \in Int /\ j + 1 = (e - Taps - 1) + (i + 1) /\ j + 1 <= e
      OBVIOUS
    <2>2. window[i] = R[j]
      BY <1>5, <2>1
    <2>3. window[i + 1] = R[j + 1]
      BY <1>5, <2>1
    <2> HIDE DEF j
    <2>4. ~(j <= 0)
      BY <1>2, <1>6, <2>1, <2>2
    <2>5. j \in 1 .. N /\ j + 1 \in 1 .. N /\ j \in 1 .. N - 1
      BY <1>1, <1>3, <2>1, <2>4
    <2>6. R[j][1] = j /\ R[j + 1][1] = j + 1 /\ R[j + 1][2] = R[j][3]
      BY <1>2, <2>5
    <2>7. QED
      BY <2>2, <2>3, <2>6
  <1>7. Connected(window)
    <2>1. Taps + 1 - 1 = Taps
      OBVIOUS
    <2>2. QED
      BY <1>4, <1>6, <2>1 DEF Connected
  <1>8. window[Taps + 1] = R[e]
    <2>1. Taps + 1 \in 1 .. Taps + 1 /\ (e - Taps - 1) + (Taps + 1) = e
      OBVIOUS
    <2>2. QED
      BY <1>5, <2>1
  <1>9. R[e][1] = IF e > 0 THEN e ELSE 0
    <2>1. CASE e > 0
      <3>1. e \in 1 .. N
        BY <1>1, <1>3, <2>1
      <3>2. QED
        BY <1>2, <2>1, <3>1
    <2>2. CASE ~(e > 0)
      <3>1. R[e] = Silent
        BY <1>2, <2>2
      <3>2. QED
        BY <2>2, <3>1 DEF Silent
    <2>3. QED
      BY <2>1, <2>2
  <1>10. QED
    BY <1>4, <1>7, <1>8, <1>9 DEF window

\* An object mixed from channels that all hold windows of the signal at the
\* same place is mixed from one window.
LEMMA OneWindow ==
    ASSUME NEW r, NEW f, NEW o, NEW W, NEW a \in Int, f.channels \in {5, 7},
           \A c \in 0 .. f.channels - 1 : r.x[c] = Run(W, a, Slots), NEW t \in 1 .. Slots
    PROVE  Mixed(r, f, o)[t][1] = W[a + t]
  <1>1. \A c \in 0 .. f.channels - 1 : r.x[c][t] = W[a + t]
    BY DEF Run
  <1>2. 0 \in 0 .. f.channels - 1
    OBVIOUS
  <1>3. UNION {r.x[c][t] : c \in 0 .. f.channels - 1} = W[a + t]
    BY <1>1, <1>2
  <1>4. QED
    BY <1>3 DEF Mixed

\* The property for what one call writes, from memories that fit together.
LEMMA CallMixes ==
    ASSUME NEW m, Shaped(m), m.n \in Nat, Overlaps(m), NEW f \in Frames, NEW S, Past(m, S), Held(m, S, f.channels),
           NEW o \in f.mask, NEW t \in 1 .. Slots
    PROVE  LET line == ObjectOut(Ready(m, f), f, o)[t]
               newest == line[Len(line)][1]
           IN /\ Cardinality(newest) = 1
              /\ \A window \in newest :
                    /\ Connected(window)
                    /\ window[Len(window)][1] = LET n == (After(m, f).n - 1) * Slots + t - Delay
                                                IN IF n > 0 THEN n ELSE 0
  <1> DEFINE r == Ready(m, f)
             R == Fuller(m, f, S)
             a == m.n * Slots - Delay
             line == ObjectOut(r, f, o)[t]
             newest == line[Len(line)][1]
             e == a + t
             n == (After(m, f).n - 1) * Slots + t - Delay
             A == After(m, f)
             window == Run(R, e - Taps - 1, Taps + 1)
  <1>1. f.channels \in {5, 7} /\ o \in Objects
    BY JocCoreAssumption DEF Frame
  <1>2. \A c \in 0 .. f.channels - 1 : r.x[c] = Run(Windows(R), a, Slots)
    <2>1. ASSUME NEW c \in (0 .. f.channels - 1) \ Surround PROVE r.x[c] = Run(Windows(R), a, Slots)
      BY ReadyDelayed
    <2>2. ASSUME NEW c \in Surround PROVE r.x[c] = Run(Windows(R), a, Slots)
      BY ReadySurround
    <2>3. QED
      BY <2>1, <2>2
  <1>3. Past(A, R)
    BY AfterHeld
  <1>4. A.n = m.n + 1
    BY AfterIs
  <1>5. /\ m.n * Slots \in Nat /\ A.n * Slots = m.n * Slots + Slots /\ (A.n - 1) * Slots = m.n * Slots
    <2>1. m.n * Slots \in Nat /\ (m.n + 1) * Slots = m.n * Slots + Slots
      BY SlotsFed
    <2>2. A.n - 1 = m.n
      BY <1>4
    <2> HIDE DEF A
    <2>3. QED
      BY <1>4, <2>1, <2>2
  <1>6. a \in Int /\ e \in Int /\ e <= A.n * Slots /\ n = e
    <2> DEFINE N == m.n * Slots
               M == A.n * Slots
               L == (A.n - 1) * Slots
    <2>1. N \in Nat /\ M = N + Slots /\ L = N /\ a = N - Delay /\ n = L + t - Delay
      BY <1>5
    <2> HIDE DEF N, M, L, a, n
    <2>2. a \in Int /\ e \in Int /\ e <= M /\ n = e
      BY <2>1, Sizes
    <2>3. QED
      BY <2>2 DEF M
  <1>7. r.overlap[o] = [i \in 1 .. Taps |-> r.overlap[o][i]]
    <2>1. r.overlap = m.overlap
      BY ReadyIs
    <2>2. m.overlap[o] = [i \in 1 .. Taps |-> m.overlap[o][i]]
      BY <1>1 DEF Overlaps
    <2> HIDE DEF r
    <2>3. QED
      BY <2>1, <2>2, Zenon
  <1> HIDE DEF r, R, a, n, A
  <1>8. Len(line) = Taps + 1 /\ line[Taps + 1] = Mixed(r, f, o)[t]
    BY <1>7, OutEndsNew
  <1>9. Mixed(r, f, o)[t][1] = Windows(R)[e]
    BY <1>1, <1>2, <1>6, OneWindow
  <1> HIDE DEF line
  <1>10. newest = {window}
    BY <1>6, <1>8, <1>9 DEF Windows
  <1>11. Connected(window) /\ window[Len(window)][1] = IF e > 0 THEN e ELSE 0
    <2>1. A.n \in Nat
      BY <1>4
    <2> HIDE DEF e, window
    <2>2. QED
      BY <1>3, <1>6, <2>1, WindowsConnect DEF window
  <1> HIDE DEF newest, window, e
  <1>12. Cardinality(newest) = 1
    BY <1>10, FS_Singleton
  <1>13. \A w \in newest : Connected(w) /\ w[Len(w)][1] = IF n > 0 THEN n ELSE 0
    BY <1>6, <1>10, <1>11
  <1>14. QED
    BY <1>12, <1>13 DEF newest, line, r, n, A

\* A core that was reset has heard nothing but silence.
LEMMA FreshMoment ==
    /\ FreshCore.n = 0 /\ FreshCore.counts = {} /\ Overlaps(FreshCore)
    /\ \A channels \in {5, 7} : \E S : Past(FreshCore, S) /\ Held(FreshCore, S, channels)
  <1> DEFINE S == [i \in Int |-> Silent]
             a == FreshCore
  <1> USE Sizes
  <1>1. a.n = 0 /\ a.counts = {} /\ Overlaps(a)
    BY DEF FreshCore, Overlaps
  <1>2. /\ \A l \in Lanes : a.delay[l] = Zeros(Delay)
        /\ \A c \in Channels : a.fifo[c] = Zeros(Taps)
        /\ \A c \in Surround : a.later[c] = SilentWindows(Delay) /\ a.history[c] = SilentWindows(2 * Delay)
    BY DEF FreshCore
  <1>3. ASSUME NEW b \in Int, NEW n \in Nat PROVE Run(S, b, n) = Zeros(n)
    BY DEF Run, Zeros
  <1>4. ASSUME NEW b \in Int, NEW n \in Nat PROVE Run(Windows(S), b, n) = SilentWindows(n)
    <2>1. ASSUME NEW i \in 1 .. n PROVE Windows(S)[b + i] = {SilentWindow}
      <3>1. b + i \in Int /\ b + i - Taps - 1 \in Int /\ Taps + 1 \in Nat
        OBVIOUS
      <3>2. Run(S, b + i - Taps - 1, Taps + 1) = SilentWindow
        BY <1>3, <3>1 DEF SilentWindow
      <3> HIDE DEF S
      <3>3. QED
        BY <3>1, <3>2 DEF Windows
    <2> HIDE DEF S
    <2>2. QED
      BY <2>1 DEF Run, SilentWindows
  <1>5. Past(a, S)
    BY <1>1 DEF Past
  <1>6. a.n * Slots = 0
    BY <1>1
  <1> HIDE DEF a, S
  <1>7. ASSUME NEW channels \in {5, 7} PROVE Held(a, S, channels)
    <2> DEFINE N == a.n * Slots
    <2>1. /\ N - Delay \in Int /\ N - Delay - Taps \in Int /\ N - Taps \in Int /\ N - 2 * Delay \in Int
          /\ Delay \in Nat /\ Taps \in Nat /\ 2 * Delay \in Nat
      BY <1>6
    <2> HIDE DEF N
    <2>2. \A c \in (0 .. channels - 1) \ Surround : Lane(c) \in Lanes /\ c \in Channels
      BY LanesApart DEF Channels
    <2>3. \A c \in Surround : c \in Channels
      BY DEF Surround, Channels
    <2>4. \A c \in (0 .. channels - 1) \ Surround :
             a.delay[Lane(c)] = Run(S, N - Delay, Delay) /\ a.fifo[c] = Run(S, N - Delay - Taps, Taps)
      BY <1>2, <1>3, <2>1, <2>2
    <2>5. \A c \in Surround :
             /\ a.fifo[c] = Run(S, N - Taps, Taps)
             /\ a.later[c] = Run(Windows(S), N - Delay, Delay)
             /\ a.history[c] = Run(Windows(S), N - 2 * Delay, 2 * Delay)
      BY <1>2, <1>3, <1>4, <2>1, <2>3
    <2>6. QED
      BY <2>4, <2>5, Zenon DEF Held, N
  <1>8. QED
    BY <1>1, <1>5, <1>7 DEF a

\* No frame, no channel count.
LEMMA FreshCounts == Cardinality(FreshCore.counts) = 0
  BY FreshMoment, FS_EmptySet

LEMMA InitMoment == Init => MomentInv /\ MixedFromOneMoment
  <1> SUFFICES ASSUME Init PROVE MomentInv /\ MixedFromOneMoment
    OBVIOUS
  <1>1. memory = FreshCore
    BY DEF Init
  <1>2. MomentInv
    BY <1>1, FreshMoment DEF MomentInv
  <1>3. Cardinality(memory.counts) # 1
    BY <1>1, FreshCounts
  <1>4. QED
    BY <1>2, <1>3 DEF MixedFromOneMoment

\* A call keeps it, and mixes from slots of one moment.
LEMMA ProcessMoment ==
    ASSUME Shaped(memory), MomentInv, NEW f \in Frames, Calls!Process(f)
    PROVE  MomentInv' /\ MixedFromOneMoment'
  <1>1. /\ memory' = After(memory, f)
        /\ result' = [lfe |-> LfeOut(memory, f), objects |-> [o \in f.mask |-> ObjectOut(Ready(memory, f), f, o)]]
    BY CallsProcess DEF Calls!Process
  <1>2. f.channels \in {5, 7} /\ f.mask \subseteq Objects
    BY JocCoreAssumption DEF Frame
  <1>3. memory.n \in Nat /\ memory.counts \subseteq {5, 7} /\ Overlaps(memory)
    BY DEF MomentInv
  <1>4. memory'.n = memory.n + 1 /\ memory'.counts = memory.counts \cup {f.channels}
    BY <1>1, <1>3, AfterIs
  <1>5. Overlaps(memory')
    <2>1. \A o \in Objects : After(memory, f).overlap[o]
                             = IF o \in f.mask THEN Newest(Synthesis(Ready(memory, f), f, o), Taps)
                               ELSE memory.overlap[o]
      BY <1>3, AfterIs
    <2>2. ASSUME NEW o \in Objects PROVE memory'.overlap[o] = [i \in 1 .. Taps |-> memory'.overlap[o][i]]
      <3> DEFINE r == Ready(memory, f)
                 left == Newest(Synthesis(r, f, o), Taps)
      <3>1. memory.overlap[o] = [i \in 1 .. Taps |-> memory.overlap[o][i]]
        BY <1>3 DEF Overlaps
      <3>2. r.overlap[o] = memory.overlap[o]
        BY ReadyIs
      <3> HIDE DEF r
      <3>3. r.overlap[o] = [i \in 1 .. Taps |-> r.overlap[o][i]]
        BY <3>1, <3>2, Zenon
      <3>4. left = [i \in 1 .. Taps |-> left[i]]
        BY <3>3, OutEndsNew
      <3>5. memory'.overlap[o] = left \/ memory'.overlap[o] = memory.overlap[o]
        BY <1>1, <2>1 DEF r
      <3> HIDE DEF left
      <3>6. QED
        BY <3>1, <3>4, <3>5, Zenon
    <2>3. QED
      BY <2>2 DEF Overlaps
  <1>6. memory'.counts \subseteq {f.channels} => \E S : Past(memory, S) /\ Held(memory, S, f.channels)
    <2>1. memory'.counts \subseteq {f.channels} => memory.counts \subseteq {f.channels}
      BY <1>4
    <2>2. QED
      BY <1>2, <2>1 DEF MomentInv
  <1>7. MomentInv'
    <2>1. ASSUME NEW channels \in {5, 7}, memory'.counts \subseteq {channels}
          PROVE  \E S : Past(memory', S) /\ Held(memory', S, channels)
      <3>1. channels = f.channels
        BY <1>4, <2>1
      <3>2. PICK S : Past(memory, S) /\ Held(memory, S, f.channels)
        BY <1>6, <2>1, <3>1
      <3>3. Past(memory', Fuller(memory, f, S)) /\ Held(memory', Fuller(memory, f, S), f.channels)
        BY <1>1, <1>3, <3>2, AfterHeld
      <3>4. QED
        BY <3>1, <3>3
    <2>2. memory'.n \in Nat /\ memory'.counts \subseteq {5, 7}
      BY <1>2, <1>3, <1>4
    <2>3. QED
      BY <1>5, <2>1, <2>2 DEF MomentInv
  <1>8. MixedFromOneMoment'
    <2>1. SUFFICES ASSUME Cardinality(memory'.counts) = 1,
                          NEW o \in DOMAIN result'.objects, NEW t \in 1 .. Slots
                   PROVE  LET line == result'.objects[o][t]
                              newest == line[Len(line)][1]
                          IN /\ Cardinality(newest) = 1
                             /\ \A window \in newest :
                                   /\ Connected(window)
                                   /\ window[Len(window)][1] = LET n == (memory'.n - 1) * Slots + t - Delay
                                                               IN IF n > 0 THEN n ELSE 0
      BY DEF MixedFromOneMoment
    <2>2. o \in f.mask /\ result'.objects[o] = ObjectOut(Ready(memory, f), f, o)
      BY <1>1
    <2>3. memory'.counts \subseteq {f.channels}
      <3>1. memory'.counts \subseteq {5, 7} /\ f.channels \in memory'.counts
        BY <1>2, <1>3, <1>4
      <3>2. IsFiniteSet(5 .. 7) /\ {5, 7} \subseteq 5 .. 7
        <4>1. 5 \in Int /\ 7 \in Int /\ {5, 7} \subseteq 5 .. 7
          OBVIOUS
        <4>2. IsFiniteSet(5 .. 7)
          BY <4>1, FS_Interval, Zenon
        <4>3. QED
          BY <4>1, <4>2
      <3>3. IsFiniteSet(memory'.counts)
        <4>1. memory'.counts \subseteq 5 .. 7
          BY <3>1, <3>2
        <4>2. QED
          BY <3>2, <4>1, FS_Subset, Zenon
      <3>4. \E x : memory'.counts = {x}
        BY <2>1, <3>3, FS_Singleton
      <3>5. QED
        BY <3>1, <3>4
    <2>4. PICK S : Past(memory, S) /\ Held(memory, S, f.channels)
      BY <1>6, <2>3
    <2>5. QED
      BY <1>1, <1>3, <2>2, <2>4, CallMixes
  <1>9. QED
    BY <1>7, <1>8

\* So does a reset, and nothing else the reference does changes it.
LEMMA NextMoment ==
    ASSUME Shaped(memory), MomentInv, MixedFromOneMoment, [Calls!Next]_<<memory, result>>
    PROVE  MomentInv' /\ MixedFromOneMoment'
  <1>1. CASE UNCHANGED <<memory, result>>
    BY <1>1 DEF MomentInv, MixedFromOneMoment
  <1>2. CASE Calls!Reset
    <2>1. memory' = FreshCore
      BY <1>2, CallsFresh DEF Calls!Reset
    <2>2. MomentInv'
      BY <2>1, FreshMoment DEF MomentInv
    <2>3. Cardinality(memory'.counts) # 1
      BY <2>1, FreshCounts
    <2>4. QED
      BY <2>2, <2>3 DEF MixedFromOneMoment
  <1>3. ASSUME NEW f \in Frames, Calls!Process(f) PROVE MomentInv' /\ MixedFromOneMoment'
    BY <1>3, ProcessMoment
  <1>4. ASSUME NEW f \in Frames, Calls!Refuse(f) PROVE UNCHANGED <<memory, result>>
    BY <1>4 DEF Calls!Refuse
  <1>5. QED
    BY <1>1, <1>2, <1>3, <1>4 DEF Calls!Next

\* What an object is mixed from are slots of one moment, whatever the threads do.
THEOREM ObjectsAreOfOneMoment == Spec => []MixedFromOneMoment
  <1>1. PoolInv /\ DataInv /\ MomentInv /\ MixedFromOneMoment /\ [Next]_vars
        => PoolInv' /\ DataInv' /\ MomentInv' /\ MixedFromOneMoment'
    BY NextPoolInv, NextDataInv, NextMoment DEF DataInv
  <1>2. QED
    BY InitPoolInv, InitDataInv, InitMoment, <1>1, PTL DEF Spec

=============================================================================
