------------------------ MODULE FramePipelineProofs ------------------------
(***************************************************************************)
(* Proofs about FramePipeline for every number of frames, both depths of   *)
(* the rings, every interval of progress lines and every input.            *)
(***************************************************************************)
EXTENDS FramePipeline, Integers, TLAPS

(***************************************************************************)
(* What push and pop do to the payloads of a ring of any size.             *)
(***************************************************************************)
\* Indices wrap around at most once, so % is a single subtraction.
LEMMA ModWrap ==
    ASSUME NEW d \in Nat \ {0}, NEW h \in 0 .. d - 1, NEW i \in 0 .. d
    PROVE  (h + i) % d = IF h + i < d THEN h + i ELSE h + i - d
  OBVIOUS

\* Adding the modulus changes no remainder.
LEMMA ModShift ==
    ASSUME NEW a \in Nat, NEW m \in Nat \ {0}
    PROVE  (a + m) % m = a % m
  <1>1. \A x \in Nat : /\ x \div m \in Int /\ x % m \in 0 .. m - 1
                       /\ x = m * (x \div m) + (x % m)
    OBVIOUS
  <1>2. ASSUME NEW p \in Int, NEW q \in Int, NEW r \in 0 .. m - 1, NEW s \in 0 .. m - 1,
               m * p + r = m * q + s + m
        PROVE  r = s
    <2> DEFINE k == p - q - 1
    <2>1. k \in Int /\ m * k = s - r
      BY <1>2
    <2> HIDE DEF k
    <2>2. k < 1
      BY <2>1, <1>2
    <2>3. k > 0 - 1
      BY <2>1, <1>2
    <2>4. QED
      BY <2>1, <2>2, <2>3
  <1>3. a + m \in Nat
    OBVIOUS
  <1> DEFINE p == (a + m) \div m
             r == (a + m) % m
             q == a \div m
             s == a % m
  <1>4. /\ p \in Int /\ q \in Int /\ r \in 0 .. m - 1 /\ s \in 0 .. m - 1
        /\ a + m = m * p + r /\ a = m * q + s
    BY <1>1, <1>3
  <1> HIDE DEF p, q, r, s
  <1>5. m * p + r = m * q + s + m
    BY <1>4
  <1>6. r = s
    BY <1>2, <1>4, <1>5
  <1>7. QED
    BY <1>6 DEF r, s

\* Different offsets from the head are different slots.
LEMMA AtInjective ==
    ASSUME NEW d \in Nat \ {0}, NEW h \in 0 .. d - 1,
           NEW i \in 0 .. d - 1, NEW j \in 0 .. d - 1, i # j
    PROVE  (h + i) % d # (h + j) % d
  <1>1. (h + i) % d = IF h + i < d THEN h + i ELSE h + i - d
    BY ModWrap, i \in 0 .. d
  <1>2. (h + j) % d = IF h + j < d THEN h + j ELSE h + j - d
    BY ModWrap, j \in 0 .. d
  <1> DEFINE a == (h + i) % d
             b == (h + j) % d
  <1>3. /\ a = IF h + i < d THEN h + i ELSE h + i - d
        /\ b = IF h + j < d THEN h + j ELSE h + j - d
    BY <1>1, <1>2
  <1> HIDE DEF a, b
  <1>4. a # b
    BY <1>3
  <1>5. QED BY <1>4 DEF a, b

\* Moving the head by one shifts the offsets by one.
LEMMA AtShift ==
    ASSUME NEW d \in Nat \ {0}, NEW h \in 0 .. d - 1, NEW i \in 0 .. d - 1, i + 1 < d
    PROVE  (((h + 1) % d) + i) % d = (h + (i + 1)) % d
  <1>1. (h + 1) % d = IF h + 1 < d THEN h + 1 ELSE h + 1 - d
    BY ModWrap, 1 \in 0 .. d
  <1>2. (h + (i + 1)) % d = IF h + (i + 1) < d THEN h + (i + 1) ELSE h + (i + 1) - d
    BY ModWrap, i + 1 \in 0 .. d
  <1>3. (h + 1) % d \in 0 .. d - 1
    BY <1>1
  <1> DEFINE k == (h + 1) % d
             m == (h + (i + 1)) % d
  <1>4. /\ k \in 0 .. d - 1
        /\ k = IF h + 1 < d THEN h + 1 ELSE h + 1 - d
        /\ m = IF h + (i + 1) < d THEN h + (i + 1) ELSE h + (i + 1) - d
    BY <1>1, <1>2, <1>3
  <1> HIDE DEF k, m
  <1>5. (k + i) % d = IF k + i < d THEN k + i ELSE k + i - d
    BY <1>4, ModWrap, i \in 0 .. d
  <1> DEFINE n == (k + i) % d
  <1>6. n = IF k + i < d THEN k + i ELSE k + i - d
    BY <1>5
  <1> HIDE DEF n
  <1>7. n = m
    BY <1>4, <1>6
  <1>8. QED BY <1>7 DEF k, m, n

\* Every slot index is one of the ring's.
LEMMA AtInRange ==
    ASSUME NEW d \in Nat \ {0}, NEW h \in 0 .. d - 1, NEW i \in 0 .. d
    PROVE  (h + i) % d \in 0 .. d - 1
  <1>1. (h + i) % d = IF h + i < d THEN h + i ELSE h + i - d
    BY ModWrap
  <1>2. QED BY <1>1

\* push appends its payload behind the queued ones, and writes one slot only.
LEMMA PushAppends ==
    ASSUME NEW d \in Nat \ {0}, NEW P, NEW r \in RingType(d, P), NEW x \in P, r.count < d
    PROVE  LET s == AfterPush(d, r, x) IN
           /\ s \in RingType(d, P)
           /\ s.count = r.count + 1 /\ s.head = r.head
           /\ s.closed = r.closed /\ s.aborted = r.aborted
           /\ At(d, r, r.count) \in 0 .. d - 1
           /\ s.slots = [r.slots EXCEPT ![At(d, r, r.count)] = x]
           /\ s.slots[At(d, s, r.count)] = x
           /\ \A i \in 0 .. r.count - 1 : s.slots[At(d, s, i)] = r.slots[At(d, r, i)]
  <1> DEFINE s == AfterPush(d, r, x)
             k == At(d, r, r.count)
  <1>1. /\ r.head \in 0 .. d - 1 /\ r.count \in 0 .. d
        /\ r.slots \in [0 .. d - 1 -> P]
    BY DEF RingType
  <1>2. k \in 0 .. d - 1
    BY <1>1, AtInRange DEF At
  <1>3. \A i \in 0 .. r.count - 1 : At(d, r, i) \in 0 .. d - 1 /\ At(d, r, i) # k
    <2> TAKE i \in 0 .. r.count - 1
    <2>1. i \in 0 .. d - 1 /\ i \in 0 .. d /\ r.count \in 0 .. d - 1 /\ i # r.count
      BY <1>1
    <2>2. QED BY <1>1, <2>1, AtInRange, AtInjective DEF At
  <1>4. /\ s.slots = [r.slots EXCEPT ![k] = x]
        /\ s.count = r.count + 1 /\ s.head = r.head
        /\ s.closed = r.closed /\ s.aborted = r.aborted
    BY DEF AfterPush, RingType
  <1>5. \A i : At(d, s, i) = At(d, r, i)
    BY <1>4 DEF At
  <1> HIDE DEF k
  <1>6. s \in RingType(d, P)
    <2>1. [r.slots EXCEPT ![k] = x] \in [0 .. d - 1 -> P]
      BY <1>1, <1>2
    <2>2. s = [slots |-> [r.slots EXCEPT ![k] = x], head |-> r.head, count |-> r.count + 1,
               closed |-> r.closed, aborted |-> r.aborted]
      BY DEF AfterPush, k
    <2> HIDE DEF s
    <2>3. QED BY <1>1, <2>1, <2>2 DEF RingType
  <1> HIDE DEF s
  <1>7. s.slots[At(d, s, r.count)] = x
    BY <1>1, <1>2, <1>4, <1>5 DEF k
  <1>8. \A i \in 0 .. r.count - 1 : s.slots[At(d, s, i)] = r.slots[At(d, r, i)]
    BY <1>1, <1>2, <1>3, <1>4, <1>5
  <1>9. QED BY <1>2, <1>4, <1>6, <1>7, <1>8 DEF s, k

\* pop removes the payload at the head and keeps the order of the others.
LEMMA PopRemovesHead ==
    ASSUME NEW d \in Nat \ {0}, NEW P, NEW r \in RingType(d, P), NEW x \in P, r.count # 0
    PROVE  LET s == AfterPop(d, r, x) IN
           /\ s \in RingType(d, P)
           /\ s.count = r.count - 1
           /\ s.closed = r.closed /\ s.aborted = r.aborted
           /\ r.head \in 0 .. d - 1 /\ r.head = At(d, r, 0)
           /\ s.slots = [r.slots EXCEPT ![r.head] = x]
           /\ \A i \in 0 .. s.count - 1 : s.slots[At(d, s, i)] = r.slots[At(d, r, i + 1)]
  <1> DEFINE s == AfterPop(d, r, x)
             h == (r.head + 1) % d
  <1>1. /\ r.head \in 0 .. d - 1 /\ r.count \in 1 .. d
        /\ r.slots \in [0 .. d - 1 -> P]
    BY DEF RingType
  <1>2. h \in 0 .. d - 1
    BY <1>1, AtInRange, 1 \in 0 .. d
  <1>3. r.head = At(d, r, 0)
    <2>1. (r.head + 0) % d = IF r.head + 0 < d THEN r.head + 0 ELSE r.head + 0 - d
      BY <1>1, ModWrap, 0 \in 0 .. d
    <2>2. QED BY <1>1, <2>1 DEF At
  <1>4. s = [slots |-> [r.slots EXCEPT ![r.head] = x], head |-> h, count |-> r.count - 1,
             closed |-> r.closed, aborted |-> r.aborted]
    BY DEF AfterPop
  <1>5. \A i \in 0 .. r.count - 2 :
           /\ At(d, s, i) = At(d, r, i + 1)
           /\ At(d, r, i + 1) \in 0 .. d - 1 /\ At(d, r, i + 1) # r.head
    <2> TAKE i \in 0 .. r.count - 2
    <2>1. /\ i \in 0 .. d - 1 /\ i + 1 < d /\ i + 1 \in 0 .. d - 1 /\ i + 1 \in 0 .. d
          /\ 0 \in 0 .. d - 1 /\ i + 1 # 0
      BY <1>1
    <2>2. s.head = h
      BY <1>4
    <2>3. At(d, s, i) = At(d, r, i + 1)
      BY <1>1, <2>1, <2>2, AtShift DEF At
    <2>4. At(d, r, i + 1) \in 0 .. d - 1 /\ At(d, r, i + 1) # At(d, r, 0)
      BY <1>1, <2>1, AtInRange, AtInjective DEF At
    <2>5. QED BY <1>3, <2>3, <2>4
  <1> HIDE DEF s, h
  <1>6. s \in RingType(d, P)
    <2>1. [r.slots EXCEPT ![r.head] = x] \in [0 .. d - 1 -> P]
      BY <1>1
    <2>2. r.count - 1 \in 0 .. d
      BY <1>1
    <2>3. QED BY <1>1, <1>2, <1>4, <2>1, <2>2 DEF RingType
  <1>7. \A i \in 0 .. s.count - 1 : s.slots[At(d, s, i)] = r.slots[At(d, r, i + 1)]
    <2> TAKE i \in 0 .. s.count - 1
    <2>1. i \in 0 .. r.count - 2
      BY <1>1, <1>4
    <2>2. QED BY <1>1, <1>4, <1>5, <2>1
  <1>8. /\ s.count = r.count - 1 /\ s.closed = r.closed /\ s.aborted = r.aborted
        /\ s.slots = [r.slots EXCEPT ![r.head] = x]
    BY <1>4
  <1>9. QED BY <1>1, <1>3, <1>6, <1>7, <1>8 DEF s

\* push leaves the other free slots alone.
LEMMA PushKeepsFree ==
    ASSUME NEW d \in Nat \ {0}, NEW P, NEW r \in RingType(d, P), NEW x \in P, r.count < d
    PROVE  LET s == AfterPush(d, r, x) IN
           \A i \in r.count + 1 .. d - 1 : s.slots[At(d, s, i)] = r.slots[At(d, r, i)]
  <1> DEFINE s == AfterPush(d, r, x)
             k == At(d, r, r.count)
  <1>1. /\ r.head \in 0 .. d - 1 /\ r.count \in 0 .. d - 1 /\ r.slots \in [0 .. d - 1 -> P]
    BY DEF RingType
  <1>2. s.slots = [r.slots EXCEPT ![k] = x] /\ s.head = r.head
    BY DEF AfterPush
  <1> HIDE DEF s
  <1>3. ASSUME NEW i \in r.count + 1 .. d - 1
        PROVE  s.slots[At(d, s, i)] = r.slots[At(d, r, i)]
    <2>1. i \in 0 .. d - 1 /\ i \in 0 .. d /\ i # r.count
      BY <1>1
    <2>2. At(d, s, i) = At(d, r, i)
      BY <1>2 DEF At
    <2>3. At(d, r, i) \in 0 .. d - 1 /\ At(d, r, i) # k
      BY <1>1, <2>1, AtInRange, AtInjective DEF At
    <2> HIDE DEF k
    <2>4. QED
      BY <1>1, <1>2, <2>2, <2>3
  <1>4. QED
    BY <1>3 DEF s

\* pop leaves the free slots alone and adds its payload behind them.
LEMMA PopKeepsFree ==
    ASSUME NEW d \in Nat \ {0}, NEW P, NEW r \in RingType(d, P), NEW x \in P, r.count # 0
    PROVE  LET s == AfterPop(d, r, x) IN
           /\ \A i \in r.count - 1 .. d - 2 : s.slots[At(d, s, i)] = r.slots[At(d, r, i + 1)]
           /\ s.slots[At(d, s, d - 1)] = x
  <1> DEFINE s == AfterPop(d, r, x)
             h == (r.head + 1) % d
  <1>1. /\ r.head \in 0 .. d - 1 /\ r.count \in 1 .. d /\ r.slots \in [0 .. d - 1 -> P]
    BY DEF RingType
  <1>2. s.slots = [r.slots EXCEPT ![r.head] = x] /\ s.head = h
    BY DEF AfterPop
  <1>3. r.head = At(d, r, 0)
    <2>1. (r.head + 0) % d = IF r.head + 0 < d THEN r.head + 0 ELSE r.head + 0 - d
      BY <1>1, ModWrap, 0 \in 0 .. d
    <2>2. QED
      BY <1>1, <2>1 DEF At
  <1> HIDE DEF s
  <1>4. ASSUME NEW i \in r.count - 1 .. d - 2
        PROVE  s.slots[At(d, s, i)] = r.slots[At(d, r, i + 1)]
    <2>1. /\ i \in 0 .. d - 1 /\ i + 1 < d /\ i + 1 \in 0 .. d - 1 /\ i + 1 \in 0 .. d
          /\ 0 \in 0 .. d - 1 /\ i + 1 # 0
      BY <1>1
    <2>2. At(d, s, i) = At(d, r, i + 1)
      BY <1>1, <1>2, <2>1, AtShift DEF At
    <2>3. At(d, r, i + 1) \in 0 .. d - 1 /\ At(d, r, i + 1) # At(d, r, 0)
      BY <1>1, <2>1, AtInRange, AtInjective DEF At
    <2>4. QED
      BY <1>1, <1>2, <1>3, <2>2, <2>3
  <1>5. s.slots[At(d, s, d - 1)] = x
    <2>1. (h + (d - 1)) % d = r.head
      <3>1. (r.head + 1) % d = IF r.head + 1 < d THEN r.head + 1 ELSE r.head + 1 - d
        BY <1>1, ModWrap, 1 \in 0 .. d
      <3>2. h \in 0 .. d - 1 /\ h = (IF r.head + 1 < d THEN r.head + 1 ELSE r.head + 1 - d)
        BY <1>1, <3>1
      <3> HIDE DEF h
      <3>3. (h + (d - 1)) % d = IF h + (d - 1) < d THEN h + (d - 1) ELSE h + (d - 1) - d
        BY <3>2, ModWrap, d - 1 \in 0 .. d
      <3>4. r.head \in 0 .. d - 1 /\ d \in Nat
        BY <1>1
      <3>5. (IF h + (d - 1) < d THEN h + (d - 1) ELSE h + (d - 1) - d) = r.head
        BY <3>2, <3>4
      <3>6. QED
        BY <3>3, <3>5
    <2>2. At(d, s, d - 1) = r.head
      BY <1>2, <2>1 DEF At
    <2>3. QED
      BY <1>1, <1>2, <2>2
  <1>6. QED
    BY <1>4, <1>5 DEF s

-----------------------------------------------------------------------------
(***************************************************************************)
(* The inductive invariant.                                                *)
(***************************************************************************)
Live == {"pop", "check", "render", "push", "progress"}
Ended == {"shutdown", "shutdownOutput", "join", "done"}

TypeOK ==
    /\ plan \in PlanType
    /\ jocRing \in RingType(JocDepth, JocJob) /\ outRing \in RingType(OutDepth, OutputJob)
    /\ board \in Failure \cup {NoFailure}
    /\ stop \in BOOLEAN /\ bedReady \in BOOLEAN /\ cancelled \in BOOLEAN /\ finished \in BOOLEAN
    /\ completed \in Nat
    /\ producerAt \in {"collect", "push", "close", "done"} /\ produced \in 0 .. N
    /\ job \in JocJob /\ lastJob \in BOOLEAN
    /\ callerAt \in Live \cup Ended /\ frame \in JocJob /\ pending \in OutputJob
    /\ processed \in Nat /\ progress \in Nat
    /\ ending \in {"none", "drained", "failed", "cancelled"}
    /\ outcome \in {"running", "ok", "failed", "cancelled"}
    /\ writerAt \in {"pop", "write", "complete", "finish", "abort", "done"}
    /\ writing \in OutputJob /\ written \in Seq(OutputJob)

\* The jobs the caller has taken from the producer, and the writer from the caller.
Taken == processed + (IF callerAt \in {"check", "render", "push"} THEN 1 ELSE 0)
Begun == Len(written) + (IF writerAt = "write" THEN 1 ELSE 0)

\* How the threads, the rings' flags and the reason of the end go together.
Threads ==
    /\ callerAt \in Live <=> ending = "none"
    /\ callerAt = "done" <=> outcome # "running"
    /\ callerAt = "done" => producerAt = "done" /\ writerAt = "done"
    /\ outcome = "failed" => ending # "cancelled"
    /\ producerAt = "push" => produced < N
    /\ lastJob => producerAt # "collect"
    /\ stop => callerAt \notin Live
    /\ callerAt \in Live => ~jocRing.aborted /\ (jocRing.closed <=> producerAt = "done")
    /\ outRing.closed => writerAt = "done" \/ callerAt \in {"join", "done"}
    /\ outRing.aborted => \/ writerAt = "done"
                          \/ callerAt \in {"join", "done"} /\ ending # "drained"
    /\ finished => writerAt \in {"abort", "done"}
    /\ ending = "drained" => producerAt = "done" /\ processed = produced
    /\ ending = "cancelled" => cancelled

\* The rings hold consecutive frames: the next one the stage behind expects comes
\* first, the last one of the stage before last.
JocQueue ==
    callerAt \in Live =>
        /\ Taken + jocRing.count = produced
        /\ \A i \in 0 .. jocRing.count - 1 :
              jocRing.slots[At(JocDepth, jocRing, i)].frame = Taken + i
OutQueue ==
    writerAt \in {"pop", "write", "complete"} =>
        /\ Begun + outRing.count = processed
        /\ \A i \in 0 .. outRing.count - 1 :
              outRing.slots[At(OutDepth, outRing, i)].frame = Begun + i

\* The frames in the hands of the stages, and what has been written.
Held ==
    /\ callerAt \in {"check", "render", "push"} => frame.frame = processed
    /\ callerAt = "push" => pending.frame = processed
    /\ writerAt = "write" => writing.frame = Len(written)
    /\ writerAt = "complete" => writing.frame + 1 = Len(written)
    /\ Begun <= processed /\ processed <= produced
    /\ completed <= Len(written)
    /\ WrittenInOrder

\* The failure the plan has for a stage; whether the board holds it or an earlier one.
Failing(r) == [frame |-> plan.fails[r], rank |-> r, cause |-> "input"]
Covered(r) == Recorded /\ ~Precedes(Failing(r), board)

\* A stage that has gone past the frame it fails at has recorded that.
Passed ==
    /\ \/ Covered(Joc)
       \/ /\ plan.fails[Joc] >= produced
          /\ producerAt = "push" => plan.fails[Joc] > produced
    /\ \/ Adm \/ Covered(Dsp)
       \/ /\ plan.fails[Dsp] >= processed
          /\ callerAt = "push" => plan.fails[Dsp] > processed
    /\ Covered(Write) \/ plan.fails[Write] >= Len(written)

\* What the board holds is a failure of the input, at a frame its stage has reached.
BoardIsTrue ==
    Recorded =>
        /\ board \in Planned \/ (ending = "cancelled" /\ board.rank = Joc)
        /\ board.frame <= produced
        /\ board.rank = Joc => /\ producerAt # "collect" /\ board.frame + 1 >= produced
                               /\ producerAt = "push" => lastJob /\ board.frame >= produced
        /\ board.rank = Write => board.frame < processed

\* Why a stage has ended.
Reasons ==
    /\ producerAt \in {"close", "done"} /\ ending \in {"none", "drained"} =>
          Covered(Joc) \/ (produced = N /\ plan.fails[Joc] = None)
    /\ lastJob => Covered(Joc)
    /\ writerAt \in {"finish", "abort", "done"} =>
          \/ Covered(Write) /\ board.frame < processed
          \/ callerAt \in {"join", "done"} /\ (ending = "drained" => Len(written) = processed)
    /\ ending = "failed" =>
          /\ Recorded /\ board.frame < produced
          /\ Adm \/ Covered(Dsp)
          /\ Covered(Write) \/ (~Adm /\ board.frame = plan.fails[Dsp])

\* A progress line has no failure of the input before it.
ProgressIsTrue == progress <= Len(written) /\ \A f \in Planned : f.frame >= progress

PipelineInv ==
    /\ TypeOK /\ Threads /\ JocQueue /\ OutQueue /\ Held
    /\ Passed /\ BoardIsTrue /\ Reasons /\ ProgressIsTrue /\ ReportIsTrue

-----------------------------------------------------------------------------
\* What the constants and a plan are.
LEMMA ConstantFacts ==
    /\ N \in Nat /\ None = N + 1 /\ JocDepth \in Nat \ {0} /\ OutDepth \in Nat \ {0}
    /\ Interval \in Nat /\ Adm \in BOOLEAN /\ Rank = {0, 1, 2}
    /\ Joc = 0 /\ Dsp = 1 /\ Write = 2
  BY PipelineAssumption DEF None, Rank, Joc, Dsp, Write

LEMMA PlanFacts ==
    ASSUME plan \in PlanType
    PROVE  /\ \A r \in Rank : plan.fails[r] \in Nat /\ plan.fails[r] <= N + 1
           /\ plan.fails[Dsp] # N /\ plan.fails[Write] # N
           /\ DOMAIN plan.fails = Rank
  BY ConstantFacts DEF PlanType

\* What a recorded failure looks like.
LEMMA BoardFacts ==
    ASSUME board \in Failure \cup {NoFailure}, Recorded
    PROVE  /\ board \in Failure /\ board.frame \in 0 .. N /\ board.frame \in Nat
           /\ board.rank \in Rank
  BY ConstantFacts DEF Recorded, NoFailure, Failure

\* record never forgets a failure for a later one.
LEMMA RecordProperties ==
    ASSUME plan \in PlanType, plan' = plan, board \in Failure \cup {NoFailure},
           NEW f \in 0 .. N, NEW r \in Rank, NEW why \in {"input", "ringClosed"},
           Record(f, r, why)
    PROVE  /\ Recorded' /\ board' \in Failure /\ board'.frame \in Nat /\ board'.frame <= f
           /\ \/ Recorded /\ board' = board /\ ~Precedes([frame |-> f, rank |-> r, cause |-> why], board)
              \/ board' = [frame |-> f, rank |-> r, cause |-> why]
           /\ Recorded => board'.frame <= board.frame
           /\ \A q \in Rank : Covered(q) => Covered(q)'
           /\ f = plan.fails[r] => Covered(r)'
  <1> DEFINE new == [frame |-> f, rank |-> r, cause |-> why]
  <1>1. /\ N \in Nat /\ None = N + 1 /\ Rank = {0, 1, 2}
        /\ new \in Failure /\ new.frame = f /\ new.rank = r
        /\ board' = IF Recorded /\ ~Precedes(new, board) THEN board ELSE new
    BY ConstantFacts DEF Record, Failure
  <1>2. \A q \in Rank : /\ Failing(q).frame = plan.fails[q] /\ Failing(q).rank = q
                        /\ plan.fails[q] \in Nat /\ Failing(q)' = Failing(q)
    BY PlanFacts DEF Failing
  <1> HIDE DEF new
  <1>3. CASE Recorded /\ ~Precedes(new, board)
    <2>1. board' = board /\ board \in Failure /\ board.frame \in 0 .. N /\ board.rank \in Rank
      BY <1>1, <1>3, BoardFacts
    <2>2. Recorded' /\ board.frame <= f
      BY <1>1, <1>3, <2>1 DEF Recorded, Precedes
    <2>3. \A q \in Rank : Covered(q) => Covered(q)'
      BY <1>2, <2>1, <2>2 DEF Covered, Precedes
    <2>4. f = plan.fails[r] => Covered(r)'
      BY <1>1, <1>2, <1>3, <2>1, <2>2 DEF Covered, Precedes
    <2>5. QED
      BY <1>1, <1>3, <2>1, <2>2, <2>3, <2>4 DEF new
  <1>4. CASE ~(Recorded /\ ~Precedes(new, board))
    <2>1. board' = new /\ Recorded'
      BY <1>1, <1>4 DEF Recorded
    <2>2. Recorded => /\ new.frame < board.frame \/ (new.frame = board.frame /\ new.rank < board.rank)
                      /\ board.frame \in 0 .. N /\ board.rank \in Rank
      BY <1>4, BoardFacts DEF Precedes
    <2>3. \A q \in Rank : Covered(q) => Covered(q)'
      BY <1>1, <1>2, <2>1, <2>2 DEF Covered, Precedes
    <2>4. f = plan.fails[r] => Covered(r)'
      BY <1>1, <1>2, <2>1 DEF Covered, Precedes
    <2>5. QED
      BY <1>1, <2>1, <2>2, <2>3, <2>4 DEF new
  <1>5. QED
    BY <1>3, <1>4

\* Membership in Planned.
LEMMA PlannedFacts ==
    ASSUME plan \in PlanType
    PROVE  /\ \A f \in Planned : \E r \in Rank : f = Failing(r) /\ plan.fails[r] # None /\ ~(Adm /\ r = Dsp)
           /\ \A r \in Rank : plan.fails[r] # None /\ ~(Adm /\ r = Dsp) => Failing(r) \in Planned
  BY DEF Planned, Failing

LEMMA InitInv == Init => PipelineInv
  <1> SUFFICES ASSUME Init PROVE PipelineInv
    OBVIOUS
  <1>1. plan \in PlanType
    BY PipelineAssumption DEF Init
  <1>2. /\ EmptyJoc \in JocJob /\ EmptyOut \in OutputJob
    BY DEF EmptyJoc, EmptyOut, JocJob, OutputJob
  <1>3. /\ jocRing \in RingType(JocDepth, JocJob) /\ outRing \in RingType(OutDepth, OutputJob)
        /\ jocRing.count = 0 /\ ~jocRing.closed /\ ~jocRing.aborted
        /\ outRing.count = 0 /\ ~outRing.closed /\ ~outRing.aborted
    BY <1>2, ConstantFacts DEF Init, NewRing, RingType
  <1>4. TypeOK
    <2>1. written \in Seq(OutputJob)
      BY DEF Init
    <2>2. /\ plan \in PlanType /\ board = NoFailure /\ stop = FALSE /\ bedReady = FALSE
          /\ cancelled = FALSE /\ finished = FALSE /\ completed = 0 /\ producerAt = "collect"
          /\ produced = 0 /\ job = EmptyJoc /\ lastJob = FALSE /\ callerAt = "pop"
          /\ frame = EmptyJoc /\ pending = EmptyOut /\ processed = 0 /\ progress = 0
          /\ ending = "none" /\ outcome = "running" /\ writerAt = "pop" /\ writing = EmptyOut
      BY <1>1 DEF Init
    <2>3. /\ stop \in BOOLEAN /\ bedReady \in BOOLEAN /\ cancelled \in BOOLEAN
          /\ finished \in BOOLEAN /\ lastJob \in BOOLEAN
      BY <2>2
    <2>4. /\ completed \in Nat /\ processed \in Nat /\ progress \in Nat /\ produced \in 0 .. N
      BY <2>2, ConstantFacts
    <2>5. board \in Failure \cup {NoFailure} /\ job \in JocJob /\ frame \in JocJob /\ pending \in OutputJob /\ writing \in OutputJob
      BY <1>2, <2>2
    <2>6. /\ callerAt \in Live \cup Ended /\ producerAt \in {"collect", "push", "close", "done"}
    /\ ending \in {"none", "drained", "failed", "cancelled"}
    /\ outcome \in {"running", "ok", "failed", "cancelled"}
    /\ writerAt \in {"pop", "write", "complete", "finish", "abort", "done"}
      BY <2>2 DEF Live, Ended
    <2>7. QED
      BY <1>1, <1>3, <2>1, <2>3, <2>4, <2>5, <2>6 DEF TypeOK
  <1>5. /\ Len(written) = 0 /\ ~Recorded /\ producerAt = "collect" /\ produced = 0
        /\ callerAt = "pop" /\ processed = 0 /\ completed = 0 /\ writerAt = "pop"
    BY DEF Init, Recorded, NoFailure
  <1>6. Threads /\ ReportIsTrue
    BY <1>3 DEF Init, Threads, Live, Ended, ReportIsTrue
  <1>7. JocQueue /\ OutQueue /\ Held
    BY <1>3, <1>5 DEF JocQueue, OutQueue, Held, Taken, Begun, WrittenInOrder, Live
  <1>8. Passed /\ BoardIsTrue /\ Reasons
    BY <1>1, <1>5, PlanFacts, ConstantFacts DEF Init, Passed, BoardIsTrue, Reasons
  <1>9. ProgressIsTrue
    <2>1. \A f \in Planned : f.frame >= 0
      BY <1>1, PlannedFacts, PlanFacts DEF Failing
    <2>2. QED
      BY <1>5, <2>1 DEF Init, ProgressIsTrue
  <1>10. QED
    BY <1>4, <1>6, <1>7, <1>8, <1>9 DEF PipelineInv

-----------------------------------------------------------------------------
(***************************************************************************)
(* The producer's steps.                                                   *)
(***************************************************************************)
LEMMA ProducerSeesStopKeeps == ASSUME PipelineInv, ProducerSeesStop PROVE PipelineInv'
  <1>1. /\ TypeOK /\ Threads /\ JocQueue /\ OutQueue /\ Held
        /\ Passed /\ BoardIsTrue /\ Reasons /\ ProgressIsTrue /\ ReportIsTrue
    BY DEF PipelineInv
  <1>2. /\ producerAt = "collect" /\ producerAt' = "close" /\ stop
        /\ UNCHANGED <<plan, cancelled, jocRing, outRing, stop, board, bedReady, completed,
                       finished, produced, job, lastJob, callerAt, frame, pending, processed,
                       progress, ending, outcome, writerAt, writing, written>>
    BY DEF ProducerSeesStop, sharedVars, callerVars, writerVars
  <1>3. TypeOK' /\ Threads'
    BY <1>1, <1>2 DEF TypeOK, Threads, Recorded, Live
  <1>4. JocQueue' /\ OutQueue' /\ Held'
    BY <1>1, <1>2 DEF JocQueue, OutQueue, Held, Taken, Begun, WrittenInOrder, Live
  <1>5. Passed' /\ BoardIsTrue'
    BY <1>1, <1>2 DEF Passed, BoardIsTrue, Covered, Failing, Recorded, Precedes, Planned
  <1>6. Reasons'
    BY <1>1, <1>2 DEF Threads, Live, Reasons, Covered, Failing, Recorded, Precedes
  <1>7. ProgressIsTrue' /\ ReportIsTrue'
    BY <1>1, <1>2 DEF ProgressIsTrue, ReportIsTrue, Planned
  <1>8. QED
    BY <1>3, <1>4, <1>5, <1>6, <1>7 DEF PipelineInv

LEMMA ProducerReachesEndKeeps == ASSUME PipelineInv, ProducerReachesEnd PROVE PipelineInv'
  <1>1. /\ TypeOK /\ Threads /\ JocQueue /\ OutQueue /\ Held
        /\ Passed /\ BoardIsTrue /\ Reasons /\ ProgressIsTrue /\ ReportIsTrue
    BY DEF PipelineInv
  <1>2. /\ producerAt = "collect" /\ producerAt' = "close" /\ produced = N /\ plan.fails[Joc] # N
        /\ UNCHANGED <<plan, cancelled, jocRing, outRing, stop, board, bedReady, completed,
                       finished, produced, job, lastJob, callerAt, frame, pending, processed,
                       progress, ending, outcome, writerAt, writing, written>>
    BY DEF ProducerReachesEnd, sharedVars, callerVars, writerVars
  <1>3. TypeOK' /\ Threads'
    BY <1>1, <1>2 DEF TypeOK, Threads, Recorded, Live
  <1>4. JocQueue' /\ OutQueue' /\ Held'
    BY <1>1, <1>2 DEF JocQueue, OutQueue, Held, Taken, Begun, WrittenInOrder, Live
  <1>5. Passed' /\ BoardIsTrue'
    BY <1>1, <1>2 DEF Passed, BoardIsTrue, Covered, Failing, Recorded, Precedes, Planned
  <1>6. Reasons'
    <2>1. plan.fails[Joc] \in Nat /\ plan.fails[Joc] <= N + 1
      BY <1>1, PlanFacts, ConstantFacts DEF TypeOK
    <2>2. Covered(Joc) \/ plan.fails[Joc] = None
      BY <1>1, <1>2, <2>1, ConstantFacts DEF Passed
    <2>3. Covered(Joc)' = Covered(Joc) /\ Covered(Dsp)' = Covered(Dsp) /\ Covered(Write)' = Covered(Write)
      BY <1>2 DEF Covered, Failing, Recorded, Precedes
    <2>4. QED
      BY <1>1, <1>2, <2>2, <2>3 DEF Reasons, Recorded
  <1>7. ProgressIsTrue' /\ ReportIsTrue'
    BY <1>1, <1>2 DEF ProgressIsTrue, ReportIsTrue, Planned
  <1>8. QED
    BY <1>3, <1>4, <1>5, <1>6, <1>7 DEF PipelineInv

LEMMA CollectFrameKeeps == ASSUME PipelineInv, CollectFrame PROVE PipelineInv'
  <1>1. /\ TypeOK /\ Threads /\ JocQueue /\ OutQueue /\ Held
        /\ Passed /\ BoardIsTrue /\ Reasons /\ ProgressIsTrue /\ ReportIsTrue
    BY DEF PipelineInv
  <1>2. /\ producerAt = "collect" /\ producerAt' = "push"
        /\ produced < N /\ plan.fails[Joc] # produced
        /\ bedReady' = (bedReady \/ plan.bed = produced)
        /\ UNCHANGED <<plan, cancelled, jocRing, outRing, stop, board, completed,
                       finished, produced, lastJob, callerAt, frame, pending, processed,
                       progress, ending, outcome, writerAt, writing, written>>
    BY DEF CollectFrame, callerVars, writerVars
  <1>3. job' \in JocJob
    <2>1. plan.meta[produced] \in {"none", "joc", "oamd"} /\ produced \in Frame /\ job \in JocJob
      BY <1>1, <1>2, ConstantFacts DEF TypeOK, PlanType, Frame
    <2>2. \A u \in Frame \cup {None} : [job EXCEPT !.update = u] \in JocJob
      BY <2>1 DEF JocJob
    <2>3. job' \in {job, [job EXCEPT !.update = None], [job EXCEPT !.update = produced]}
      BY <2>1 DEF CollectFrame
    <2>4. QED
      BY <2>1, <2>2, <2>3
  <1>4. TypeOK' /\ Threads'
    BY <1>1, <1>2, <1>3 DEF TypeOK, Threads, Recorded, Live
  <1>5. JocQueue' /\ OutQueue' /\ Held'
    BY <1>1, <1>2 DEF JocQueue, OutQueue, Held, Taken, Begun, WrittenInOrder, Live
  <1>6. /\ Covered(Joc)' = Covered(Joc) /\ Covered(Dsp)' = Covered(Dsp)
        /\ Covered(Write)' = Covered(Write) /\ Recorded' = Recorded
    BY <1>2 DEF Covered, Failing, Recorded, Precedes
  <1>7. Passed'
    <2>1. plan.fails[Joc] \in Nat
      BY <1>1, PlanFacts, ConstantFacts DEF TypeOK
    <2>2. QED
      BY <1>1, <1>2, <1>6, <2>1 DEF Passed, TypeOK
  <1>8. BoardIsTrue' /\ Reasons'
    BY <1>1, <1>2, <1>6 DEF BoardIsTrue, Reasons, Planned
  <1>9. ProgressIsTrue' /\ ReportIsTrue'
    BY <1>1, <1>2 DEF ProgressIsTrue, ReportIsTrue, Planned
  <1>10. QED
    BY <1>4, <1>5, <1>7, <1>8, <1>9 DEF PipelineInv

\* A failure the producer records covers its own stage, and changes nothing
\* that an earlier failure has stopped.
LEMMA ProducerRecords ==
    ASSUME PipelineInv, NEW why \in {"input", "ringClosed"}, Record(produced, Joc, why),
           UNCHANGED <<plan, produced, processed, callerAt, ending, writerAt, written>>,
           producerAt' \in {"push", "close"},
           \/ /\ why = "input" /\ producerAt = "collect" /\ plan.fails[Joc] = produced
              /\ producerAt' = "push" => lastJob'
           \/ /\ lastJob' = lastJob /\ why = "ringClosed" /\ producerAt = "push" /\ producerAt' = "close"
              /\ ending \in {"failed", "cancelled"}
    PROVE  Recorded' /\ board' \in Failure /\ Passed' /\ BoardIsTrue' /\ Reasons'
  <1>1. /\ TypeOK /\ Threads /\ Passed /\ BoardIsTrue /\ Reasons
    BY DEF PipelineInv
  <1>2. /\ plan \in PlanType /\ produced \in 0 .. N /\ Joc \in Rank
        /\ board \in Failure \cup {NoFailure} /\ plan' = plan
        /\ processed \in Nat
    BY <1>1, ConstantFacts DEF TypeOK
  <1> DEFINE new == [frame |-> produced, rank |-> Joc, cause |-> why]
  <1>3. /\ Recorded' /\ board' \in Failure /\ board'.frame \in Nat /\ board'.frame <= produced
        /\ \/ Recorded /\ board' = board
           \/ board' = new
        /\ Recorded => board'.frame <= board.frame
        /\ \A q \in Rank : Covered(q) => Covered(q)'
        /\ produced = plan.fails[Joc] => Covered(Joc)'
    BY <1>2, RecordProperties
  <1>4. new.frame = produced /\ new.rank = Joc /\ (why = "input" /\ plan.fails[Joc] = produced => new = Failing(Joc))
    BY DEF Failing
  <1> HIDE DEF new
  <1>5. /\ N \in Nat /\ None = N + 1 /\ Joc = 0 /\ Dsp = 1 /\ Write = 2 /\ Rank = {0, 1, 2}
        /\ \A r \in Rank : plan.fails[r] \in Nat
        /\ Recorded => board.frame \in Nat
    BY <1>2, ConstantFacts, PlanFacts, BoardFacts
  <1>6. Passed'
    BY <1>1, <1>2, <1>3, <1>5 DEF Passed
  <1>7. BoardIsTrue'
    <2>1. Planned' = Planned
      BY <1>2 DEF Planned
    <2>2. CASE Recorded /\ board' = board
      BY <1>1, <1>2, <1>3, <2>1, <2>2 DEF BoardIsTrue
    <2>3. CASE board' = new
      <3>1. new \in Planned \/ ending \in {"failed", "cancelled"}
        BY <1>2, <1>4, <1>5, PlannedFacts
      <3>2. ending = "failed" => board' = board /\ Recorded
        BY <1>1, <1>2, <1>3, <1>4, <1>5, <2>3 DEF Reasons
      <3>3. CASE ending = "failed"
        BY <1>1, <1>2, <1>3, <2>1, <3>2, <3>3 DEF BoardIsTrue
      <3>4. CASE ending # "failed"
        BY <1>2, <1>3, <1>4, <1>5, <2>1, <2>3, <3>1, <3>4 DEF BoardIsTrue
      <3>5. QED
        BY <3>3, <3>4
    <2>4. QED
      BY <1>3, <2>2, <2>3
  <1>8. Reasons'
    <2>1. ending = "failed" => board' = board
      BY <1>1, <1>2, <1>3, <1>4, <1>5 DEF Reasons
    <2>2. ending \in {"none", "drained"} => Covered(Joc)'
      BY <1>3
    <2>3. Covered(Write) /\ board.frame < processed => Covered(Write)' /\ board'.frame < processed
      BY <1>2, <1>3, <1>5 DEF Covered
    <2>4. QED
      BY <1>1, <1>2, <1>3, <1>5, <2>1, <2>2, <2>3 DEF Reasons
  <1>9. QED
    BY <1>3, <1>6, <1>7, <1>8

LEMMA CollectFailsKeeps == ASSUME PipelineInv, CollectFails PROVE PipelineInv'
  <1>1. /\ TypeOK /\ Threads /\ JocQueue /\ OutQueue /\ Held
        /\ Passed /\ BoardIsTrue /\ Reasons /\ ProgressIsTrue /\ ReportIsTrue
    BY DEF PipelineInv
  <1>2. /\ producerAt = "collect" /\ plan.fails[Joc] = produced /\ Record(produced, Joc, "input")
        /\ lastJob' = TRUE /\ producerAt' = (IF produced < N THEN "push" ELSE "close")
        /\ UNCHANGED <<plan, cancelled, jocRing, outRing, stop, completed,
                       finished, produced, callerAt, frame, pending, processed,
                       progress, ending, outcome, writerAt, writing, written>>
    BY DEF CollectFails, callerVars, writerVars
  <1>3. job' \in JocJob /\ bedReady' \in BOOLEAN
    <2>1. produced \in 0 .. N /\ job \in JocJob
      BY <1>1 DEF TypeOK
    <2>2. \A u \in Frame \cup {None} : [job EXCEPT !.update = u] \in JocJob
      BY <2>1 DEF JocJob
    <2>3. PICK update \in {job.update, None, produced} :
             /\ update = produced => produced < N
             /\ job' = [job EXCEPT !.update = update]
             /\ bedReady' \in {bedReady, bedReady \/ (update = produced /\ plan.bed = produced)}
      BY DEF CollectFails
    <2>4. update \in Frame \cup {None}
      BY <2>1, <2>3, ConstantFacts DEF JocJob, Frame
    <2>5. bedReady' \in BOOLEAN
      BY <1>1, <2>3 DEF TypeOK
    <2>6. QED
      BY <2>2, <2>3, <2>4, <2>5
  <1>4. Recorded' /\ board' \in Failure /\ Passed' /\ BoardIsTrue' /\ Reasons'
    BY <1>2, ProducerRecords
  <1>5. TypeOK' /\ Threads'
    BY <1>1, <1>2, <1>3, <1>4 DEF TypeOK, Threads, Live
  <1>6. JocQueue' /\ OutQueue' /\ Held'
    BY <1>1, <1>2 DEF JocQueue, OutQueue, Held, Taken, Begun, WrittenInOrder, Live
  <1>7. ProgressIsTrue' /\ ReportIsTrue'
    BY <1>1, <1>2 DEF ProgressIsTrue, ReportIsTrue, Planned, Threads
  <1>8. QED
    BY <1>4, <1>5, <1>6, <1>7 DEF PipelineInv

LEMMA RebuildFailsKeeps == ASSUME PipelineInv, RebuildFails PROVE PipelineInv'
  <1>1. /\ TypeOK /\ Threads /\ JocQueue /\ OutQueue /\ Held
        /\ Passed /\ BoardIsTrue /\ Reasons /\ ProgressIsTrue /\ ReportIsTrue
    BY DEF PipelineInv
  <1>2. /\ producerAt = "collect" /\ plan.fails[Joc] = produced /\ Record(produced, Joc, "input")
        /\ producerAt' = "close"
        /\ UNCHANGED <<plan, cancelled, jocRing, outRing, stop, bedReady, completed,
                       finished, produced, job, lastJob, callerAt, frame, pending, processed,
                       progress, ending, outcome, writerAt, writing, written>>
    BY DEF RebuildFails, callerVars, writerVars
  <1>3. Recorded' /\ board' \in Failure /\ Passed' /\ BoardIsTrue' /\ Reasons'
    BY <1>2, ProducerRecords
  <1>4. TypeOK' /\ Threads'
    BY <1>1, <1>2, <1>3 DEF TypeOK, Threads, Live
  <1>5. JocQueue' /\ OutQueue' /\ Held'
    BY <1>1, <1>2 DEF JocQueue, OutQueue, Held, Taken, Begun, WrittenInOrder, Live
  <1>6. ProgressIsTrue' /\ ReportIsTrue'
    BY <1>1, <1>2 DEF ProgressIsTrue, ReportIsTrue, Planned, Threads
  <1>7. QED
    BY <1>3, <1>4, <1>5, <1>6 DEF PipelineInv

LEMMA ProducerIsRefusedKeeps == ASSUME PipelineInv, ProducerIsRefused PROVE PipelineInv'
  <1>1. /\ TypeOK /\ Threads /\ JocQueue /\ OutQueue /\ Held
        /\ Passed /\ BoardIsTrue /\ Reasons /\ ProgressIsTrue /\ ReportIsTrue
    BY DEF PipelineInv
  <1>2. /\ producerAt = "push" /\ jocRing.closed /\ Record(produced, Joc, "ringClosed")
        /\ producerAt' = "close"
        /\ UNCHANGED <<plan, cancelled, jocRing, outRing, stop, bedReady, completed,
                       finished, produced, job, lastJob, callerAt, frame, pending, processed,
                       progress, ending, outcome, writerAt, writing, written>>
    BY DEF ProducerIsRefused, PushAccepts, callerVars, writerVars
  <1>3. ending \in {"failed", "cancelled"}
    BY <1>1, <1>2 DEF TypeOK, Threads
  <1>4. Recorded' /\ board' \in Failure /\ Passed' /\ BoardIsTrue' /\ Reasons'
    BY <1>2, <1>3, ProducerRecords
  <1>5. TypeOK' /\ Threads'
    BY <1>1, <1>2, <1>4 DEF TypeOK, Threads, Live
  <1>6. JocQueue' /\ OutQueue' /\ Held'
    BY <1>1, <1>2 DEF JocQueue, OutQueue, Held, Taken, Begun, WrittenInOrder, Live
  <1>7. ProgressIsTrue' /\ ReportIsTrue'
    BY <1>1, <1>2 DEF ProgressIsTrue, ReportIsTrue, Planned, Threads
  <1>8. QED
    BY <1>4, <1>5, <1>6, <1>7 DEF PipelineInv

LEMMA ProducerPushesKeeps == ASSUME PipelineInv, ProducerPushes PROVE PipelineInv'
  <1> DEFINE x == [job EXCEPT !.frame = produced]
  <1>1. /\ TypeOK /\ Threads /\ JocQueue /\ OutQueue /\ Held
        /\ Passed /\ BoardIsTrue /\ Reasons /\ ProgressIsTrue /\ ReportIsTrue
    BY DEF PipelineInv
  <1>2. /\ producerAt = "push" /\ PushReady(JocDepth, jocRing) /\ ~jocRing.closed
        /\ jocRing' = AfterPush(JocDepth, jocRing, x) /\ job' = PushLeaves(JocDepth, jocRing)
        /\ produced' = produced + 1
        /\ producerAt' = (IF lastJob THEN "close" ELSE "collect")
        /\ UNCHANGED <<plan, cancelled, outRing, stop, board, bedReady, completed,
                       finished, lastJob, callerAt, frame, pending, processed,
                       progress, ending, outcome, writerAt, writing, written>>
    BY DEF ProducerPushes, PushAccepts, callerVars, writerVars
  <1>3. /\ jocRing \in RingType(JocDepth, JocJob) /\ jocRing.count \in 0 .. JocDepth
        /\ produced \in Nat /\ produced < N /\ processed \in Nat
        /\ jocRing.slots \in [0 .. JocDepth - 1 -> JocJob]
        /\ N \in Nat /\ JocDepth \in Nat \ {0}
    <2>1. jocRing \in RingType(JocDepth, JocJob) /\ produced \in 0 .. N /\ processed \in Nat
      BY <1>1 DEF TypeOK
    <2>2. produced < N
      BY <1>1, <1>2 DEF Threads
    <2>3. N \in Nat /\ JocDepth \in Nat \ {0}
      BY ConstantFacts
    <2>4. QED
      BY <2>1, <2>2, <2>3 DEF RingType
  <1>4. jocRing.count < JocDepth
    BY <1>2 DEF PushReady
  <1>5. x \in JocJob /\ x.frame = produced
    <2>1. produced \in Frame /\ job \in [frame : Frame \cup {None}, update : Frame \cup {None}]
      BY <1>1, <1>3 DEF TypeOK, JocJob, Frame
    <2>2. QED
      BY <2>1 DEF JocJob
  <1> HIDE DEF x
  <1>6. /\ jocRing' \in RingType(JocDepth, JocJob)
        /\ jocRing'.count = jocRing.count + 1 /\ jocRing'.head = jocRing.head
        /\ jocRing'.closed = jocRing.closed /\ jocRing'.aborted = jocRing.aborted
        /\ At(JocDepth, jocRing, jocRing.count) \in 0 .. JocDepth - 1
        /\ jocRing'.slots = [jocRing.slots EXCEPT ![At(JocDepth, jocRing, jocRing.count)] = x]
        /\ jocRing'.slots[At(JocDepth, jocRing', jocRing.count)] = x
        /\ \A i \in 0 .. jocRing.count - 1 :
              jocRing'.slots[At(JocDepth, jocRing', i)] = jocRing.slots[At(JocDepth, jocRing, i)]
    <2>1. jocRing' = AfterPush(JocDepth, jocRing, x)
      BY <1>2
    <2>2. /\ JocDepth \in Nat \ {0} /\ jocRing \in RingType(JocDepth, JocJob) /\ x \in JocJob
          /\ jocRing.count < JocDepth
      BY <1>3, <1>4, <1>5
    <2>3. QED
      BY <2>1, <2>2, PushAppends
  <1>7. job' \in JocJob
    BY <1>2, <1>3, <1>6 DEF PushLeaves
  <1>8. TypeOK'
    BY <1>1, <1>2, <1>3, <1>6, <1>7 DEF TypeOK
  <1>9. Threads'
    BY <1>1, <1>2, <1>6 DEF Threads, Live
  <1>10. JocQueue'
    <2>1. SUFFICES ASSUME callerAt \in Live
                   PROVE  /\ Taken + jocRing'.count = produced'
                          /\ \A i \in 0 .. jocRing'.count - 1 :
                                jocRing'.slots[At(JocDepth, jocRing', i)].frame = Taken + i
      BY <1>2 DEF JocQueue, Taken
    <2>2. /\ Taken \in Nat /\ Taken + jocRing.count = produced
          /\ \A i \in 0 .. jocRing.count - 1 :
                jocRing.slots[At(JocDepth, jocRing, i)].frame = Taken + i
      BY <1>1, <1>3, <2>1 DEF JocQueue, Taken
    <2>3. ASSUME NEW i \in 0 .. jocRing'.count - 1
          PROVE  jocRing'.slots[At(JocDepth, jocRing', i)].frame = Taken + i
      <3>1. CASE i = jocRing.count
        BY <1>5, <1>6, <2>2, <3>1
      <3>2. CASE i # jocRing.count
        <4>1. i \in 0 .. jocRing.count - 1
          BY <1>3, <1>6, <3>2
        <4>2. QED
          BY <1>6, <2>2, <4>1
      <3>3. QED
        BY <3>1, <3>2
    <2>4. Taken + jocRing'.count = produced'
      <3>1. produced' = produced + 1 /\ jocRing'.count = jocRing.count + 1
        BY <1>2, <1>6
      <3>2. Taken \in Nat /\ jocRing.count \in Nat /\ Taken + jocRing.count = produced
        BY <1>3, <2>2
      <3>3. QED
        BY <3>1, <3>2
    <2>5. QED
      BY <2>3, <2>4
  <1>11. OutQueue' /\ Held'
    <2>1. OutQueue'
      BY <1>1, <1>2 DEF OutQueue, Begun
    <2>2. processed <= produced + 1
      BY <1>1, <1>3 DEF Held
    <2>3. Held'
      BY <1>1, <1>2, <2>2 DEF Held, Begun, WrittenInOrder
    <2>4. QED
      BY <2>1, <2>3
  <1>12. /\ Covered(Joc)' = Covered(Joc) /\ Covered(Dsp)' = Covered(Dsp)
         /\ Covered(Write)' = Covered(Write) /\ Recorded' = Recorded /\ Planned' = Planned
    BY <1>2 DEF Covered, Failing, Recorded, Precedes, Planned
  <1>13. plan.fails[Joc] \in Nat /\ (Recorded => board.frame \in Nat)
    BY <1>1, PlanFacts, BoardFacts, ConstantFacts DEF TypeOK
  <1>14. Passed'
    BY <1>1, <1>2, <1>3, <1>12, <1>13 DEF Passed
  <1>15. BoardIsTrue'
    BY <1>1, <1>2, <1>3, <1>12, <1>13 DEF BoardIsTrue
  <1>16. Reasons'
    BY <1>1, <1>2, <1>3, <1>12, <1>13 DEF Reasons
  <1>17. ProgressIsTrue' /\ ReportIsTrue'
    BY <1>1, <1>2, <1>12 DEF ProgressIsTrue, ReportIsTrue
  <1>18. QED
    BY <1>8, <1>9, <1>10, <1>11, <1>14, <1>15, <1>16, <1>17 DEF PipelineInv

\* Closing and aborting touch the flags of a ring only.
LEMMA CloseFacts ==
    ASSUME NEW d, NEW P, NEW r \in RingType(d, P)
    PROVE  /\ AfterClose(r) \in RingType(d, P)
           /\ AfterClose(r).slots = r.slots /\ AfterClose(r).count = r.count
           /\ AfterClose(r).closed = TRUE /\ AfterClose(r).aborted = r.aborted
           /\ \A i : At(d, AfterClose(r), i) = At(d, r, i)
  BY DEF RingType, AfterClose, At

LEMMA AbortFacts ==
    ASSUME NEW d, NEW P, NEW r \in RingType(d, P)
    PROVE  /\ AfterAbort(r) \in RingType(d, P)
           /\ AfterAbort(r).slots = r.slots /\ AfterAbort(r).count = r.count
           /\ AfterAbort(r).closed = TRUE /\ AfterAbort(r).aborted = TRUE
           /\ \A i : At(d, AfterAbort(r), i) = At(d, r, i)
  BY DEF RingType, AfterAbort, At

LEMMA ProducerClosesKeeps == ASSUME PipelineInv, ProducerCloses PROVE PipelineInv'
  <1>1. /\ TypeOK /\ Threads /\ JocQueue /\ OutQueue /\ Held
        /\ Passed /\ BoardIsTrue /\ Reasons /\ ProgressIsTrue /\ ReportIsTrue
    BY DEF PipelineInv
  <1>2. /\ producerAt = "close" /\ producerAt' = "done" /\ jocRing' = AfterClose(jocRing)
        /\ UNCHANGED <<plan, cancelled, outRing, stop, board, bedReady, completed,
                       finished, produced, job, lastJob, callerAt, frame, pending, processed,
                       progress, ending, outcome, writerAt, writing, written>>
    BY DEF ProducerCloses, callerVars, writerVars
  <1>3. /\ jocRing' \in RingType(JocDepth, JocJob) /\ jocRing'.count = jocRing.count
        /\ jocRing'.slots = jocRing.slots /\ jocRing'.closed /\ jocRing'.aborted = jocRing.aborted
        /\ \A i : At(JocDepth, jocRing', i) = At(JocDepth, jocRing, i)
    <2>1. jocRing \in RingType(JocDepth, JocJob) /\ jocRing' = AfterClose(jocRing)
      BY <1>1, <1>2 DEF TypeOK
    <2>2. QED
      BY <2>1, CloseFacts
  <1>4. TypeOK' /\ Threads'
    BY <1>1, <1>2, <1>3 DEF TypeOK, Threads, Live
  <1>5. JocQueue' /\ OutQueue' /\ Held'
    BY <1>1, <1>2, <1>3 DEF JocQueue, OutQueue, Held, Taken, Begun, WrittenInOrder, Live
  <1>6. /\ Covered(Joc)' = Covered(Joc) /\ Covered(Dsp)' = Covered(Dsp)
        /\ Covered(Write)' = Covered(Write) /\ Recorded' = Recorded /\ Planned' = Planned
    BY <1>2 DEF Covered, Failing, Recorded, Precedes, Planned
  <1>7. Passed' /\ BoardIsTrue' /\ Reasons'
    BY <1>1, <1>2, <1>6 DEF Passed, BoardIsTrue, Reasons
  <1>8. ProgressIsTrue' /\ ReportIsTrue'
    BY <1>1, <1>2, <1>6 DEF ProgressIsTrue, ReportIsTrue
  <1>9. QED
    BY <1>4, <1>5, <1>7, <1>8 DEF PipelineInv

-----------------------------------------------------------------------------
(***************************************************************************)
(* The caller's steps.                                                     *)
(***************************************************************************)
LEMMA SameBoard ==
    ASSUME UNCHANGED <<plan, board>>
    PROVE  /\ Covered(Joc)' = Covered(Joc) /\ Covered(Dsp)' = Covered(Dsp)
           /\ Covered(Write)' = Covered(Write) /\ Recorded' = Recorded /\ Planned' = Planned
  BY DEF Covered, Failing, Recorded, Precedes, Planned

\* The numbers of the state, in one place.
LEMMA StateFacts ==
    ASSUME TypeOK
    PROVE  /\ N \in Nat /\ None = N + 1 /\ Joc = 0 /\ Dsp = 1 /\ Write = 2 /\ Rank = {0, 1, 2}
           /\ plan \in PlanType
           /\ plan.fails[Joc] \in Nat /\ plan.fails[Dsp] \in Nat /\ plan.fails[Write] \in Nat
           /\ produced \in 0 .. N /\ produced \in Nat /\ processed \in Nat /\ completed \in Nat
           /\ Len(written) \in Nat
           /\ Recorded => board \in Failure /\ board.frame \in Nat /\ board.rank \in Rank
           /\ jocRing \in RingType(JocDepth, JocJob) /\ jocRing.count \in Nat
           /\ outRing \in RingType(OutDepth, OutputJob) /\ outRing.count \in Nat
           /\ jocRing.slots \in [0 .. JocDepth - 1 -> JocJob]
           /\ outRing.slots \in [0 .. OutDepth - 1 -> OutputJob]
  <1>1. \A r \in Rank : plan.fails[r] \in Nat
    BY PlanFacts DEF TypeOK
  <1>2. Recorded => board \in Failure /\ board.frame \in Nat /\ board.rank \in Rank
    BY BoardFacts DEF TypeOK
  <1>3. /\ jocRing.count \in 0 .. JocDepth /\ outRing.count \in 0 .. OutDepth
        /\ jocRing.slots \in [0 .. JocDepth - 1 -> JocJob]
        /\ outRing.slots \in [0 .. OutDepth - 1 -> OutputJob]
    BY DEF TypeOK, RingType
  <1>4. QED
    BY <1>1, <1>2, <1>3, ConstantFacts DEF TypeOK

LEMMA CallerPopsKeeps == ASSUME PipelineInv, CallerPops PROVE PipelineInv'
  <1>1. /\ TypeOK /\ Threads /\ JocQueue /\ OutQueue /\ Held
        /\ Passed /\ BoardIsTrue /\ Reasons /\ ProgressIsTrue /\ ReportIsTrue
    BY DEF PipelineInv
  <1>2. /\ callerAt = "pop" /\ PopReady(jocRing)
        /\ UNCHANGED <<plan, cancelled, outRing, stop, board, bedReady, completed, finished,
                       producerAt, produced, job, lastJob, pending, processed, progress, outcome,
                       writerAt, writing, written>>
    BY DEF CallerPops, producerVars, writerVars
  <1>3. ending = "none" /\ ~jocRing.aborted /\ (jocRing.closed <=> producerAt = "done")
    BY <1>1, <1>2 DEF Threads, Live
  <1>4. /\ N \in Nat /\ produced \in Nat /\ processed \in Nat
        /\ jocRing \in RingType(JocDepth, JocJob) /\ jocRing.count \in Nat
        /\ jocRing.slots \in [0 .. JocDepth - 1 -> JocJob] /\ frame \in JocJob
        /\ JocDepth \in Nat \ {0}
    BY <1>1, StateFacts, ConstantFacts DEF TypeOK
  <1>5. /\ Taken = processed /\ processed + jocRing.count = produced
        /\ \A i \in 0 .. jocRing.count - 1 :
              jocRing.slots[At(JocDepth, jocRing, i)].frame = processed + i
    BY <1>1, <1>2, <1>4 DEF JocQueue, Taken, Live
  <1>6. OutQueue' /\ Passed' /\ BoardIsTrue'
    BY <1>1, <1>2, <1>3, SameBoard DEF CallerPops, CallerGoes, OutQueue, Begun, Passed, BoardIsTrue
  <1>7. ProgressIsTrue' /\ ReportIsTrue'
    BY <1>1, <1>2, SameBoard DEF ProgressIsTrue, ReportIsTrue
  <1>8. CASE PopDelivers(jocRing)
    <2>1. /\ jocRing' = AfterPop(JocDepth, jocRing, frame) /\ frame' = jocRing.slots[jocRing.head]
          /\ callerAt' = "check" /\ ending' = "none" /\ jocRing.count # 0
      BY <1>8 DEF CallerPops, CallerGoes, PopDelivers, PopTakes
    <2>2. /\ jocRing' \in RingType(JocDepth, JocJob) /\ jocRing'.count = jocRing.count - 1
          /\ jocRing'.closed = jocRing.closed /\ jocRing'.aborted = jocRing.aborted
          /\ jocRing.head \in 0 .. JocDepth - 1 /\ jocRing.head = At(JocDepth, jocRing, 0)
          /\ jocRing'.slots = [jocRing.slots EXCEPT ![jocRing.head] = frame]
          /\ \A i \in 0 .. jocRing'.count - 1 :
                jocRing'.slots[At(JocDepth, jocRing', i)] = jocRing.slots[At(JocDepth, jocRing, i + 1)]
      BY <1>4, <2>1, PopRemovesHead
    <2>3. frame' \in JocJob /\ frame'.frame = processed
      <3>1. 0 \in 0 .. jocRing.count - 1 /\ processed + 0 = processed
        BY <1>4, <2>1
      <3>2. QED
        BY <1>4, <1>5, <2>1, <2>2, <3>1
    <2>4. TypeOK'
      BY <1>1, <1>2, <2>1, <2>2, <2>3 DEF TypeOK, Live
    <2>5. Threads'
      BY <1>1, <1>2, <1>3, <2>1, <2>2 DEF Threads, Live
    <2>6. JocQueue'
      <3>1. Taken' = processed + 1 /\ processed + 1 + jocRing'.count = produced
        <4>1. processed' = processed /\ callerAt' = "check"
          BY <1>2, <2>1
        <4>2. /\ processed \in Nat /\ jocRing.count \in Nat /\ jocRing.count # 0
              /\ processed + jocRing.count = produced /\ jocRing'.count = jocRing.count - 1
          BY <1>4, <1>5, <2>1, <2>2
        <4>3. QED
          BY <4>1, <4>2 DEF Taken
      <3>2. ASSUME NEW i \in 0 .. jocRing'.count - 1
            PROVE  jocRing'.slots[At(JocDepth, jocRing', i)].frame = processed + 1 + i
        <4>1. i + 1 \in 0 .. jocRing.count - 1 /\ processed + (i + 1) = processed + 1 + i
          BY <1>4, <2>2
        <4>2. QED
          BY <1>5, <2>2, <4>1
      <3>3. QED
        BY <1>2, <3>1, <3>2 DEF JocQueue
    <2>7. Held'
      BY <1>1, <1>2, <2>1, <2>3 DEF Held, Begun, WrittenInOrder
    <2>8. Reasons'
      BY <1>1, <1>2, <1>3, <2>1, SameBoard DEF Reasons
    <2>9. QED
      BY <1>6, <1>7, <2>4, <2>5, <2>6, <2>7, <2>8 DEF PipelineInv
  <1>9. CASE ~PopDelivers(jocRing)
    <2>1. /\ jocRing' = jocRing /\ frame' = frame /\ callerAt' = "shutdown" /\ ending' = "drained"
      BY <1>9 DEF CallerPops, CallerGoes
    <2>2. jocRing.count = 0 /\ jocRing.closed
      BY <1>2, <1>3, <1>9 DEF PopReady, PopDelivers
    <2>3. producerAt = "done" /\ processed = produced
      BY <1>3, <1>4, <1>5, <2>2
    <2>4. TypeOK'
      BY <1>1, <1>2, <2>1 DEF TypeOK, Ended
    <2>5. Threads'
      BY <1>1, <1>2, <1>3, <2>1, <2>3 DEF Threads, Live
    <2>6. JocQueue' /\ Held'
      BY <1>1, <1>2, <2>1 DEF JocQueue, Live, Held, Begun, WrittenInOrder
    <2>7. Reasons'
      BY <1>1, <1>2, <1>3, <2>1, SameBoard DEF Reasons
    <2>8. QED
      BY <1>6, <1>7, <2>4, <2>5, <2>6, <2>7 DEF PipelineInv
  <1>10. QED
    BY <1>8, <1>9

\* Before a task is cancelled the board holds a failure of the plan.
LEMMA BoardCases ==
    ASSUME TypeOK, BoardIsTrue, Recorded, ending # "cancelled"
    PROVE  \E r \in Rank : /\ board = Failing(r) /\ board.rank = r /\ board.frame = plan.fails[r]
                           /\ ~(Adm /\ r = Dsp) /\ Covered(r)
  <1>1. board \in Planned /\ plan \in PlanType
    BY DEF BoardIsTrue, TypeOK
  <1>2. PICK r \in Rank : board = Failing(r) /\ ~(Adm /\ r = Dsp)
    BY <1>1, PlannedFacts
  <1>3. board.rank = r /\ board.frame = plan.fails[r] /\ r \in Nat /\ plan.fails[r] \in Nat
    BY <1>1, <1>2, PlanFacts, ConstantFacts DEF Failing
  <1>4. Covered(r)
    BY <1>2, <1>3 DEF Covered, Precedes
  <1>5. QED
    BY <1>2, <1>3, <1>4

\* What a failure before a frame in the caller's hands says of the other stages.
LEMMA FailureBefore ==
    ASSUME PipelineInv, callerAt \in {"check", "render"}, Recorded, board.frame < processed
    PROVE  /\ board.frame < produced
           /\ Adm \/ Covered(Dsp)
           /\ Covered(Write) \/ (~Adm /\ board.frame = plan.fails[Dsp])
  <1>1. TypeOK /\ Threads /\ JocQueue /\ Passed /\ BoardIsTrue
    BY DEF PipelineInv
  <1>2. /\ N \in Nat /\ Joc = 0 /\ Dsp = 1 /\ Write = 2 /\ Rank = {0, 1, 2}
        /\ produced \in Nat /\ processed \in Nat /\ board.frame \in Nat /\ board.rank \in Rank
        /\ plan.fails[Dsp] \in Nat /\ jocRing.count \in Nat
    BY <1>1, StateFacts
  <1>3. ending = "none" /\ processed + 1 + jocRing.count = produced
    BY <1>1, <1>2 DEF Threads, JocQueue, Taken, Live
  <1>4. board.rank # Joc
    BY <1>1, <1>2, <1>3 DEF BoardIsTrue
  <1>5. Adm \/ Covered(Dsp)
    <2>1. SUFFICES ASSUME ~Adm, plan.fails[Dsp] >= processed PROVE Covered(Dsp)
      BY <1>1 DEF Passed
    <2>2. QED
      BY <1>2, <2>1 DEF Covered, Failing, Precedes
  <1>6. PICK r \in Rank : /\ board.rank = r /\ board.frame = plan.fails[r]
                         /\ ~(Adm /\ r = Dsp) /\ Covered(r)
    BY <1>1, <1>3, BoardCases
  <1>7. r = Dsp \/ r = Write
    BY <1>2, <1>4, <1>6
  <1>8. QED
    BY <1>2, <1>3, <1>5, <1>6, <1>7

LEMMA CallerChecksKeeps == ASSUME PipelineInv, CallerChecks PROVE PipelineInv'
  <1>1. /\ TypeOK /\ Threads /\ JocQueue /\ OutQueue /\ Held
        /\ Passed /\ BoardIsTrue /\ Reasons /\ ProgressIsTrue /\ ReportIsTrue
    BY DEF PipelineInv
  <1>2. /\ callerAt = "check"
        /\ UNCHANGED <<plan, cancelled, jocRing, outRing, stop, board, bedReady, completed,
                       finished, producerAt, produced, job, lastJob, frame, pending, processed,
                       progress, outcome, writerAt, writing, written>>
        /\ \/ FailedBefore(frame.frame) /\ callerAt' = "shutdown" /\ ending' = "failed"
           \/ cancelled /\ callerAt' = "shutdown" /\ ending' = "cancelled"
           \/ callerAt' = "render" /\ ending' = "none"
    BY DEF CallerChecks, CallerGoes, sharedVars, producerVars, writerVars
  <1>3. ending = "none" /\ frame.frame = processed
    BY <1>1, <1>2 DEF Threads, Live, Held
  <1>4. TypeOK' /\ Threads'
    BY <1>1, <1>2, <1>3 DEF TypeOK, Threads, Live, Ended
  <1>5. JocQueue' /\ OutQueue' /\ Held'
    BY <1>1, <1>2 DEF JocQueue, OutQueue, Held, Taken, Begun, WrittenInOrder, Live
  <1>6. Passed' /\ BoardIsTrue'
    BY <1>1, <1>2, <1>3, SameBoard DEF Passed, BoardIsTrue
  <1>7. Reasons'
    <2>1. CASE FailedBefore(frame.frame) /\ callerAt' = "shutdown" /\ ending' = "failed"
      <3>1. Recorded /\ board.frame < processed
        BY <1>3, <2>1 DEF FailedBefore
      <3>2. /\ board.frame < produced
            /\ Adm \/ Covered(Dsp)
            /\ Covered(Write) \/ (~Adm /\ board.frame = plan.fails[Dsp])
        BY <1>2, <3>1, FailureBefore
      <3>3. QED
        BY <1>1, <1>2, <2>1, <3>1, <3>2, SameBoard DEF Reasons
    <2>2. CASE ending' # "failed"
      BY <1>1, <1>2, <1>3, <2>2, SameBoard DEF Reasons
    <2>3. QED
      BY <1>2, <2>1, <2>2
  <1>8. ProgressIsTrue' /\ ReportIsTrue'
    BY <1>1, <1>2, SameBoard DEF ProgressIsTrue, ReportIsTrue
  <1>9. QED
    BY <1>4, <1>5, <1>6, <1>7, <1>8 DEF PipelineInv

LEMMA CallerRendersKeeps == ASSUME PipelineInv, CallerRenders PROVE PipelineInv'
  <1>1. /\ TypeOK /\ Threads /\ JocQueue /\ OutQueue /\ Held
        /\ Passed /\ BoardIsTrue /\ Reasons /\ ProgressIsTrue /\ ReportIsTrue
    BY DEF PipelineInv
  <1>2. /\ callerAt = "render" /\ callerAt' = "push" /\ ending' = "none"
        /\ Adm \/ plan.fails[Dsp] # frame.frame
        /\ pending' = [frame |-> frame.frame, update |-> frame.update, bed |-> ~Adm /\ bedReady]
        /\ UNCHANGED <<plan, cancelled, jocRing, outRing, stop, board, bedReady, completed,
                       finished, producerAt, produced, job, lastJob, frame, processed,
                       progress, outcome, writerAt, writing, written>>
    BY DEF CallerRenders, CallerGoes, sharedVars, producerVars, writerVars
  <1>3. ending = "none" /\ frame.frame = processed
    BY <1>1, <1>2 DEF Threads, Live, Held
  <1>4. pending' \in OutputJob /\ pending'.frame = processed
    BY <1>1, <1>2, <1>3, ConstantFacts DEF TypeOK, JocJob, OutputJob
  <1>5. TypeOK' /\ Threads'
    BY <1>1, <1>2, <1>3, <1>4 DEF TypeOK, Threads, Live, Ended
  <1>6. JocQueue' /\ OutQueue' /\ Held'
    BY <1>1, <1>2, <1>3, <1>4 DEF JocQueue, OutQueue, Held, Taken, Begun, WrittenInOrder, Live
  <1>7. Passed'
    BY <1>1, <1>2, <1>3, StateFacts, SameBoard DEF Passed
  <1>8. BoardIsTrue' /\ Reasons'
    BY <1>1, <1>2, <1>3, SameBoard DEF BoardIsTrue, Reasons
  <1>9. ProgressIsTrue' /\ ReportIsTrue'
    BY <1>1, <1>2, SameBoard DEF ProgressIsTrue, ReportIsTrue
  <1>10. QED
    BY <1>5, <1>6, <1>7, <1>8, <1>9 DEF PipelineInv

LEMMA RenderFailsKeeps == ASSUME PipelineInv, RenderFails PROVE PipelineInv'
  <1> DEFINE new == [frame |-> processed, rank |-> Dsp, cause |-> "input"]
  <1>1. /\ TypeOK /\ Threads /\ JocQueue /\ OutQueue /\ Held
        /\ Passed /\ BoardIsTrue /\ Reasons /\ ProgressIsTrue /\ ReportIsTrue
    BY DEF PipelineInv
  <1>2. /\ callerAt = "render" /\ callerAt' = "shutdown" /\ ending' = "failed"
        /\ ~Adm /\ plan.fails[Dsp] = frame.frame /\ Record(frame.frame, Dsp, "input")
        /\ UNCHANGED <<plan, cancelled, jocRing, outRing, stop, bedReady, completed,
                       finished, producerAt, produced, job, lastJob, frame, pending, processed,
                       progress, outcome, writerAt, writing, written>>
    BY DEF RenderFails, CallerGoes, producerVars, writerVars
  <1>3. /\ N \in Nat /\ None = N + 1 /\ Joc = 0 /\ Dsp = 1 /\ Write = 2 /\ Rank = {0, 1, 2}
        /\ produced \in 0 .. N /\ processed \in Nat /\ jocRing.count \in Nat
        /\ \A r \in Rank : plan.fails[r] \in Nat
        /\ Recorded => board.frame \in Nat
        /\ plan \in PlanType
    BY <1>1, StateFacts
  <1>4. ending = "none" /\ outcome = "running" /\ frame.frame = processed /\ plan.fails[Dsp] = processed
    BY <1>1, <1>2 DEF Threads, Live, Held
  <1>5. processed < produced /\ processed \in 0 .. N
    <2>1. processed + 1 + jocRing.count = produced
      BY <1>1, <1>2, <1>3 DEF JocQueue, Taken, Live
    <2>2. QED
      BY <1>3, <2>1
  <1>6. /\ Recorded' /\ board' \in Failure /\ board'.frame \in Nat /\ board'.frame <= processed
        /\ \/ Recorded /\ board' = board /\ ~Precedes(new, board)
           \/ board' = new
        /\ Recorded => board'.frame <= board.frame
        /\ \A q \in Rank : Covered(q) => Covered(q)'
        /\ processed = plan.fails[Dsp] => Covered(Dsp)'
    <2>1. Record(processed, Dsp, "input") /\ Dsp \in Rank /\ board \in Failure \cup {NoFailure}
      BY <1>1, <1>2, <1>3, <1>4 DEF TypeOK
    <2>2. QED
      BY <1>2, <1>3, <1>5, <2>1, RecordProperties
  <1>7. new = Failing(Dsp) /\ new.frame = processed /\ new.rank = Dsp
    BY <1>4 DEF Failing
  <1> HIDE DEF new
  <1>8. TypeOK' /\ Threads'
    BY <1>1, <1>2, <1>4, <1>6 DEF TypeOK, Threads, Live, Ended
  <1>9. JocQueue' /\ OutQueue' /\ Held'
    BY <1>1, <1>2 DEF JocQueue, OutQueue, Held, Begun, WrittenInOrder, Live
  <1>10. Planned' = Planned
    BY <1>2 DEF Planned
  <1>11. Passed'
    BY <1>1, <1>2, <1>3, <1>4, <1>6 DEF Passed
  <1>12. BoardIsTrue'
    <2>1. CASE Recorded /\ board' = board
      BY <1>1, <1>2, <1>4, <1>10, <2>1 DEF BoardIsTrue
    <2>2. CASE board' = new
      <3>1. new \in Planned
        BY <1>2, <1>3, <1>4, <1>5, <1>7, PlannedFacts
      <3>2. QED
        BY <1>2, <1>3, <1>5, <1>7, <1>10, <2>2, <3>1 DEF BoardIsTrue
    <2>3. QED
      BY <1>6, <2>1, <2>2
  <1>13. Reasons'
    <2>1. Covered(Write)' \/ board'.frame = plan.fails[Dsp]
      <3>1. CASE board' = new
        BY <1>4, <1>7, <3>1
      <3>2. CASE Recorded /\ board' = board /\ ~Precedes(new, board)
        <4>1. board.frame = processed \/ board.frame < processed
          BY <1>3, <1>7, <3>2 DEF Precedes
        <4>2. board.frame < processed => Covered(Write) \/ board.frame = plan.fails[Dsp]
          BY <1>2, <3>2, FailureBefore
        <4>3. QED
          BY <1>3, <1>4, <1>6, <3>2, <4>1, <4>2
      <3>3. QED
        BY <1>6, <3>1, <3>2
    <2>2. lastJob => Covered(Joc)'
      BY <1>1, <1>3, <1>6 DEF Reasons
    <2>3. writerAt \in {"finish", "abort", "done"} => Covered(Write)' /\ board'.frame < processed
      <3>1. SUFFICES ASSUME writerAt \in {"finish", "abort", "done"}
                     PROVE  Covered(Write)' /\ board'.frame < processed
        OBVIOUS
      <3>2. Covered(Write) /\ board.frame < processed /\ Recorded
        BY <1>1, <1>2, <3>1 DEF Reasons, Covered
      <3>3. QED
        BY <1>3, <1>6, <3>2
    <2>4. Recorded' /\ board'.frame < produced /\ Covered(Dsp)'
      BY <1>3, <1>4, <1>5, <1>6
    <2>5. QED
      BY <1>2, <2>1, <2>2, <2>3, <2>4 DEF Reasons
  <1>14. ProgressIsTrue' /\ ReportIsTrue'
    BY <1>1, <1>2, <1>4, <1>10 DEF ProgressIsTrue, ReportIsTrue
  <1>15. QED
    BY <1>8, <1>9, <1>11, <1>12, <1>13, <1>14 DEF PipelineInv

\* A failure before a frame that was handed over covers the DSP's.
LEMMA DspCovered ==
    ASSUME TypeOK, Passed, Recorded, board.frame < processed
    PROVE  Adm \/ Covered(Dsp)
  <1>1. /\ processed \in Nat /\ board.frame \in Nat /\ plan.fails[Dsp] \in Nat
    BY StateFacts
  <1>2. SUFFICES ASSUME ~Adm, plan.fails[Dsp] >= processed PROVE Covered(Dsp)
    BY DEF Passed
  <1>3. QED
    BY <1>1, <1>2 DEF Covered, Failing, Precedes

LEMMA CallerPushesKeeps == ASSUME PipelineInv, CallerPushes PROVE PipelineInv'
  <1>1. /\ TypeOK /\ Threads /\ JocQueue /\ OutQueue /\ Held
        /\ Passed /\ BoardIsTrue /\ Reasons /\ ProgressIsTrue /\ ReportIsTrue
    BY DEF PipelineInv
  <1>2. /\ callerAt = "push" /\ PushReady(OutDepth, outRing)
        /\ UNCHANGED <<plan, cancelled, jocRing, stop, board, bedReady, completed, finished,
                       producerAt, produced, job, lastJob, frame, progress, outcome,
                       writerAt, writing, written>>
    BY DEF CallerPushes, producerVars, writerVars
  <1>3. /\ N \in Nat /\ produced \in Nat /\ processed \in Nat /\ completed \in Nat
        /\ jocRing.count \in Nat /\ Len(written) \in Nat /\ plan.fails[Dsp] \in Nat
        /\ Recorded => board.frame \in Nat
        /\ outRing \in RingType(OutDepth, OutputJob) /\ outRing.count \in Nat
        /\ outRing.slots \in [0 .. OutDepth - 1 -> OutputJob] /\ pending \in OutputJob
        /\ OutDepth \in Nat \ {0}
    BY <1>1, StateFacts, ConstantFacts DEF TypeOK
  <1>4. ending = "none" /\ outcome = "running" /\ pending.frame = processed
    BY <1>1, <1>2 DEF Threads, Live, Held
  <1>5. Taken = processed + 1 /\ processed + 1 + jocRing.count = produced /\ processed < produced
    <2>1. Taken = processed + 1 /\ Taken + jocRing.count = produced
      BY <1>1, <1>2 DEF JocQueue, Taken, Live
    <2>2. QED
      BY <1>3, <2>1
  <1>6. ProgressIsTrue' /\ ReportIsTrue'
    BY <1>1, <1>2, SameBoard DEF ProgressIsTrue, ReportIsTrue
  <1>7. CASE PushAccepts(outRing)
    <2>1. /\ ~outRing.closed /\ outRing' = AfterPush(OutDepth, outRing, pending)
          /\ pending' = PushLeaves(OutDepth, outRing)
          /\ processed' = processed + 1 /\ callerAt' \in {"progress", "pop"} /\ ending' = "none"
      BY <1>7 DEF CallerPushes, CallerGoes, PushAccepts
    <2>2. outRing.count < OutDepth
      BY <1>2, <2>1 DEF PushReady
    <2>3. /\ outRing' \in RingType(OutDepth, OutputJob)
          /\ outRing'.count = outRing.count + 1 /\ outRing'.head = outRing.head
          /\ outRing'.closed = outRing.closed /\ outRing'.aborted = outRing.aborted
          /\ At(OutDepth, outRing, outRing.count) \in 0 .. OutDepth - 1
          /\ outRing'.slots = [outRing.slots EXCEPT ![At(OutDepth, outRing, outRing.count)] = pending]
          /\ outRing'.slots[At(OutDepth, outRing', outRing.count)] = pending
          /\ \A i \in 0 .. outRing.count - 1 :
                outRing'.slots[At(OutDepth, outRing', i)] = outRing.slots[At(OutDepth, outRing, i)]
      <3>1. outRing' = AfterPush(OutDepth, outRing, pending)
        BY <2>1
      <3>2. /\ OutDepth \in Nat \ {0} /\ outRing \in RingType(OutDepth, OutputJob)
            /\ pending \in OutputJob /\ outRing.count < OutDepth
        BY <1>3, <2>2
      <3>3. QED
        BY <3>1, <3>2, PushAppends
    <2>4. pending' \in OutputJob
      BY <1>3, <2>1, <2>3 DEF PushLeaves
    <2>5. TypeOK'
      BY <1>1, <1>2, <1>3, <2>1, <2>3, <2>4 DEF TypeOK, Live
    <2>6. Threads'
      BY <1>1, <1>2, <1>4, <2>1, <2>3 DEF Threads, Live
    <2>7. JocQueue'
      <3>1. Taken' = Taken
        BY <1>5, <2>1 DEF Taken
      <3>2. QED
        BY <1>1, <1>2, <3>1 DEF JocQueue, Live
    <2>8. OutQueue'
      <3>1. SUFFICES ASSUME writerAt \in {"pop", "write", "complete"}
                     PROVE  /\ Begun + outRing'.count = processed'
                            /\ \A i \in 0 .. outRing'.count - 1 :
                                  outRing'.slots[At(OutDepth, outRing', i)].frame = Begun + i
        BY <1>2 DEF OutQueue, Begun
      <3>2. /\ Begun \in Nat /\ Begun + outRing.count = processed
            /\ \A i \in 0 .. outRing.count - 1 :
                  outRing.slots[At(OutDepth, outRing, i)].frame = Begun + i
        BY <1>1, <1>3, <3>1 DEF OutQueue, Begun
      <3>3. ASSUME NEW i \in 0 .. outRing'.count - 1
            PROVE  outRing'.slots[At(OutDepth, outRing', i)].frame = Begun + i
        <4>1. CASE i = outRing.count
          BY <1>4, <2>3, <3>2, <4>1
        <4>2. CASE i # outRing.count
          <5>1. i \in 0 .. outRing.count - 1
            BY <1>3, <2>3, <4>2
          <5>2. QED
            BY <2>3, <3>2, <5>1
        <4>3. QED
          BY <4>1, <4>2
      <3>4. Begun + outRing'.count = processed'
        BY <1>3, <2>1, <2>3, <3>2
      <3>5. QED
        BY <3>3, <3>4
    <2>9. Held'
      <3>1. Begun \in Nat /\ Begun' = Begun /\ processed + 1 <= produced
        BY <1>2, <1>3, <1>5 DEF Begun
      <3>2. QED
        BY <1>1, <1>2, <1>3, <2>1, <3>1 DEF Held, WrittenInOrder
    <2>10. Passed' /\ BoardIsTrue'
      BY <1>1, <1>2, <1>3, <1>4, <2>1, SameBoard DEF Passed, BoardIsTrue
    <2>11. Reasons'
      <3>1. writerAt \in {"finish", "abort", "done"} => Covered(Write) /\ board.frame < processed + 1
        BY <1>1, <1>2, <1>3 DEF Reasons, Covered
      <3>2. QED
        BY <1>1, <1>2, <1>4, <2>1, <3>1, SameBoard DEF Reasons
    <2>12. QED
      BY <1>6, <2>5, <2>6, <2>7, <2>8, <2>9, <2>10, <2>11 DEF PipelineInv
  <1>8. CASE ~PushAccepts(outRing)
    <2>1. /\ outRing' = outRing /\ pending' = pending /\ processed' = processed
          /\ callerAt' = "shutdown" /\ ending' = "failed" /\ outRing.closed
      BY <1>8 DEF CallerPushes, CallerGoes, PushAccepts
    <2>2. writerAt = "done"
      BY <1>1, <1>2, <2>1 DEF Threads
    <2>3. Covered(Write) /\ board.frame < processed /\ Recorded
      BY <1>1, <1>2, <2>2 DEF Reasons, Covered
    <2>4. board.frame < produced /\ (Adm \/ Covered(Dsp))
      BY <1>1, <1>3, <1>5, <2>3, DspCovered
    <2>5. TypeOK' /\ Threads'
      BY <1>1, <1>2, <1>4, <2>1 DEF TypeOK, Threads, Live, Ended
    <2>6. JocQueue' /\ OutQueue' /\ Held'
      BY <1>1, <1>2, <2>1 DEF JocQueue, OutQueue, Held, Begun, WrittenInOrder, Live
    <2>7. Passed' /\ BoardIsTrue'
      BY <1>1, <1>2, <1>4, <2>1, SameBoard DEF Passed, BoardIsTrue
    <2>8. Reasons'
      BY <1>1, <1>2, <2>1, <2>3, <2>4, SameBoard DEF Reasons
    <2>9. QED
      BY <1>6, <2>5, <2>6, <2>7, <2>8 DEF PipelineInv
  <1>9. QED
    BY <1>7, <1>8

LEMMA CallerReportsProgressKeeps == ASSUME PipelineInv, CallerReportsProgress PROVE PipelineInv'
  <1>1. /\ TypeOK /\ Threads /\ JocQueue /\ OutQueue /\ Held
        /\ Passed /\ BoardIsTrue /\ Reasons /\ ProgressIsTrue /\ ReportIsTrue
    BY DEF PipelineInv
  <1>2. UNCHANGED <<plan, cancelled, jocRing, outRing, stop, board, bedReady, completed,
                    finished, producerAt, produced, job, lastJob, frame, pending, processed,
                    outcome, writerAt, writing, written>>
    BY DEF CallerReportsProgress, sharedVars, producerVars, writerVars
  <1>3. callerAt = "progress"
    BY DEF CallerReportsProgress
  <1>4. /\ N \in Nat /\ Joc = 0 /\ Dsp = 1 /\ Write = 2 /\ Rank = {0, 1, 2}
        /\ produced \in Nat /\ processed \in Nat /\ completed \in Nat /\ Len(written) \in Nat
        /\ jocRing.count \in Nat /\ \A r \in Rank : plan.fails[r] \in Nat
        /\ Recorded => board.frame \in Nat
        /\ plan \in PlanType
    BY <1>1, StateFacts
  <1>5. ending = "none" /\ outcome = "running" /\ processed <= produced
        /\ completed <= Len(written)
    BY <1>1, <1>3 DEF Threads, Live, Held
  \* The writer has written the frames, or has failed before them.
  <1>6. processed <= Len(written) \/ (Covered(Write) /\ board.frame < processed)
    <2>1. CASE finished
      BY <1>1, <1>3, <2>1 DEF Threads, Reasons
    <2>2. CASE completed > processed - 1
      BY <1>4, <1>5, <2>2
    <2>3. QED
      BY <2>1, <2>2 DEF CallerReportsProgress
  <1>7. OutQueue' /\ Held' /\ Passed' /\ BoardIsTrue'
    <2>1. OutQueue' /\ Held'
      BY <1>1, <1>2, <1>3 DEF CallerReportsProgress, CallerGoes, OutQueue, Held, Begun, WrittenInOrder
    <2>2. Passed' /\ BoardIsTrue'
      BY <1>1, <1>2, <1>3, <1>5, SameBoard DEF CallerReportsProgress, CallerGoes, Passed, BoardIsTrue
    <2>3. QED
      BY <2>1, <2>2
  <1>8. ReportIsTrue'
    BY <1>1, <1>2, SameBoard DEF ReportIsTrue
  <1>9. CASE FailedBefore(processed)
    <2>1. callerAt' = "shutdown" /\ ending' = "failed" /\ progress' = progress
      BY <1>9 DEF CallerReportsProgress, CallerGoes
    <2>2. Recorded /\ board.frame < processed /\ board.frame < produced
      BY <1>4, <1>5, <1>9 DEF FailedBefore
    <2>3. Adm \/ Covered(Dsp)
      BY <1>1, <2>2, DspCovered
    <2>4. Covered(Write)
      <3>1. SUFFICES ASSUME processed <= Len(written), plan.fails[Write] >= Len(written)
                     PROVE  Covered(Write)
        BY <1>1, <1>6 DEF Passed
      <3>2. QED
        BY <1>4, <2>2, <3>1 DEF Covered, Failing, Precedes
    <2>5. TypeOK' /\ Threads'
      BY <1>1, <1>2, <1>3, <1>5, <2>1 DEF TypeOK, Threads, Live, Ended
    <2>6. JocQueue'
      BY <2>1 DEF JocQueue, Live
    <2>7. Reasons'
      BY <1>1, <1>2, <1>3, <2>1, <2>2, <2>3, <2>4, SameBoard DEF Reasons
    <2>8. ProgressIsTrue'
      BY <1>1, <1>2, <2>1, SameBoard DEF ProgressIsTrue
    <2>9. QED
      BY <1>7, <1>8, <2>5, <2>6, <2>7, <2>8 DEF PipelineInv
  <1>10. CASE ~FailedBefore(processed)
    <2>1. callerAt' = "pop" /\ ending' = "none" /\ progress' = processed
      BY <1>10 DEF CallerReportsProgress, CallerGoes
    <2>2. Recorded => board.frame >= processed
      BY <1>4, <1>10 DEF FailedBefore
    <2>3. processed <= Len(written)
      BY <1>4, <1>6, <2>2 DEF Covered
    <2>4. \A r \in Rank : ~(Adm /\ r = Dsp) => plan.fails[r] >= processed
      <3>1. \A r \in Rank : Covered(r) => plan.fails[r] >= processed
        BY <1>4, <2>2 DEF Covered, Failing, Precedes
      <3>2. Covered(Joc) \/ plan.fails[Joc] >= processed
        BY <1>1, <1>4, <1>5 DEF Passed
      <3>3. Adm \/ Covered(Dsp) \/ plan.fails[Dsp] >= processed
        BY <1>1 DEF Passed
      <3>4. Covered(Write) \/ plan.fails[Write] >= processed
        BY <1>1, <1>4, <2>3 DEF Passed
      <3>5. QED
        BY <1>4, <3>1, <3>2, <3>3, <3>4
    <2>5. \A f \in Planned : f.frame >= processed
      BY <1>4, <2>4, PlannedFacts DEF Failing
    <2>6. TypeOK' /\ Threads'
      BY <1>1, <1>2, <1>3, <1>4, <1>5, <2>1 DEF TypeOK, Threads, Live
    <2>7. JocQueue'
      BY <1>1, <1>2, <1>3, <2>1 DEF JocQueue, Taken, Live
    <2>8. Reasons'
      BY <1>1, <1>2, <1>3, <1>5, <2>1, SameBoard DEF Reasons
    <2>9. ProgressIsTrue'
      BY <1>2, <2>1, <2>3, <2>5, SameBoard DEF ProgressIsTrue
    <2>10. QED
      BY <1>7, <1>8, <2>6, <2>7, <2>8, <2>9 DEF PipelineInv
  <1>11. QED
    BY <1>9, <1>10

LEMMA CallerStopsProducerKeeps == ASSUME PipelineInv, CallerStopsProducer PROVE PipelineInv'
  <1>1. /\ TypeOK /\ Threads /\ JocQueue /\ OutQueue /\ Held
        /\ Passed /\ BoardIsTrue /\ Reasons /\ ProgressIsTrue /\ ReportIsTrue
    BY DEF PipelineInv
  <1>2. /\ callerAt = "shutdown" /\ callerAt' = "shutdownOutput" /\ stop' = TRUE
        /\ jocRing' = AfterClose(jocRing) \/ jocRing' = AfterAbort(jocRing)
        /\ UNCHANGED <<plan, cancelled, outRing, board, bedReady, completed, finished,
                       producerAt, produced, job, lastJob, frame, pending, processed, progress,
                       ending, outcome, writerAt, writing, written>>
    BY DEF CallerStopsProducer, producerVars, writerVars
  <1>3. jocRing' \in RingType(JocDepth, JocJob)
    <2>1. jocRing \in RingType(JocDepth, JocJob)
      BY <1>1 DEF TypeOK
    <2>2. jocRing' = AfterClose(jocRing) \/ jocRing' = AfterAbort(jocRing)
      BY DEF CallerStopsProducer
    <2>3. AfterClose(jocRing) \in RingType(JocDepth, JocJob)
      BY <2>1, CloseFacts
    <2>4. AfterAbort(jocRing) \in RingType(JocDepth, JocJob)
      BY <2>1, AbortFacts
    <2>5. QED
      BY <2>2, <2>3, <2>4
  <1>4. TypeOK' /\ Threads'
    BY <1>1, <1>2, <1>3 DEF TypeOK, Threads, Live, Ended
  <1>5. JocQueue' /\ OutQueue' /\ Held'
    BY <1>1, <1>2 DEF JocQueue, OutQueue, Held, Begun, WrittenInOrder, Live
  <1>6. Passed' /\ BoardIsTrue' /\ Reasons'
    BY <1>1, <1>2, SameBoard DEF Passed, BoardIsTrue, Reasons
  <1>7. ProgressIsTrue' /\ ReportIsTrue'
    BY <1>1, <1>2, SameBoard DEF ProgressIsTrue, ReportIsTrue
  <1>8. QED
    BY <1>4, <1>5, <1>6, <1>7 DEF PipelineInv

LEMMA CallerStopsWriterKeeps == ASSUME PipelineInv, CallerStopsWriter PROVE PipelineInv'
  <1>1. /\ TypeOK /\ Threads /\ JocQueue /\ OutQueue /\ Held
        /\ Passed /\ BoardIsTrue /\ Reasons /\ ProgressIsTrue /\ ReportIsTrue
    BY DEF PipelineInv
  <1>2. /\ callerAt = "shutdownOutput" /\ callerAt' = "join"
        /\ outRing' = (IF ending = "drained" THEN AfterClose(outRing) ELSE AfterAbort(outRing))
        /\ UNCHANGED <<plan, cancelled, jocRing, stop, board, bedReady, completed, finished,
                       producerAt, produced, job, lastJob, frame, pending, processed, progress,
                       ending, outcome, writerAt, writing, written>>
    BY DEF CallerStopsWriter, producerVars, writerVars
  <1>3. /\ outRing' \in RingType(OutDepth, OutputJob) /\ outRing'.count = outRing.count
        /\ outRing'.slots = outRing.slots
        /\ ending = "drained" => outRing'.aborted = outRing.aborted
        /\ \A i : At(OutDepth, outRing', i) = At(OutDepth, outRing, i)
    <2>1. outRing \in RingType(OutDepth, OutputJob)
      BY <1>1 DEF TypeOK
    <2>2. CASE ending = "drained"
      <3>1. outRing' = AfterClose(outRing)
        BY <1>2, <2>2
      <3>2. QED
        BY <2>1, <3>1, CloseFacts
    <2>3. CASE ending # "drained"
      <3>1. outRing' = AfterAbort(outRing)
        BY <1>2, <2>3
      <3>2. QED
        BY <2>1, <2>3, <3>1, AbortFacts
    <2>4. QED
      BY <2>2, <2>3
  <1>4. TypeOK' /\ Threads'
    BY <1>1, <1>2, <1>3 DEF TypeOK, Threads, Live, Ended
  <1>5. JocQueue' /\ OutQueue' /\ Held'
    BY <1>1, <1>2, <1>3 DEF JocQueue, OutQueue, Held, Begun, WrittenInOrder, Live
  <1>6. Passed' /\ BoardIsTrue' /\ Reasons'
    BY <1>1, <1>2, SameBoard DEF Passed, BoardIsTrue, Reasons
  <1>7. ProgressIsTrue' /\ ReportIsTrue'
    BY <1>1, <1>2, SameBoard DEF ProgressIsTrue, ReportIsTrue
  <1>8. QED
    BY <1>4, <1>5, <1>6, <1>7 DEF PipelineInv

LEMMA CallerJoinsKeeps == ASSUME PipelineInv, CallerJoins PROVE PipelineInv'
  <1>1. /\ TypeOK /\ Threads /\ JocQueue /\ OutQueue /\ Held
        /\ Passed /\ BoardIsTrue /\ Reasons /\ ProgressIsTrue /\ ReportIsTrue
    BY DEF PipelineInv
  <1>2. /\ callerAt = "join" /\ callerAt' = "done" /\ producerAt = "done" /\ writerAt = "done"
        /\ UNCHANGED <<plan, cancelled, jocRing, outRing, stop, board, bedReady, completed,
                       finished, producerAt, produced, job, lastJob, frame, pending, processed,
                       progress, ending, writerAt, writing, written>>
    BY DEF CallerJoins, sharedVars, producerVars, writerVars
  <1>3. ending \in {"drained", "failed", "cancelled"}
    BY <1>1, <1>2 DEF TypeOK, Threads, Live
  <1>4. \/ outcome' = "cancelled"
        \/ outcome' = "failed" /\ Recorded /\ ending # "cancelled"
        \/ outcome' = "ok" /\ ~Recorded /\ ending = "drained"
    BY <1>1, <1>3 DEF CallerJoins, Reasons
  <1>5. outcome' = "ok" => Len(written) = N /\ Planned = {}
    <2>1. SUFFICES ASSUME ~Recorded, ending = "drained" PROVE Len(written) = N /\ Planned = {}
      BY <1>4
    <2>2. ~Covered(Joc) /\ ~Covered(Dsp) /\ ~Covered(Write)
      BY <2>1 DEF Covered
    <2>3. produced = N /\ plan.fails[Joc] = None /\ processed = N /\ Len(written) = N
      BY <1>1, <1>2, <2>1, <2>2 DEF Reasons, Threads
    <2>4. /\ Adm \/ plan.fails[Dsp] >= N
          /\ plan.fails[Write] >= N
      BY <1>1, <2>2, <2>3 DEF Passed
    <2>5. /\ N \in Nat /\ None = N + 1 /\ Rank = {Joc, Dsp, Write} /\ plan \in PlanType
          /\ plan.fails[Dsp] \in Nat /\ plan.fails[Dsp] <= N + 1 /\ plan.fails[Dsp] # N
          /\ plan.fails[Write] \in Nat /\ plan.fails[Write] <= N + 1 /\ plan.fails[Write] # N
      BY <1>1, ConstantFacts, PlanFacts DEF TypeOK, Rank
    <2>6. plan.fails[Write] = None /\ (Adm \/ plan.fails[Dsp] = None)
      BY <2>4, <2>5
    <2>7. Planned = {}
      BY <2>3, <2>5, <2>6, PlannedFacts
    <2>8. QED
      BY <2>3, <2>7
  <1>6. ReportIsTrue'
    <2>1. Planned' = Planned /\ written' = written /\ board' = board
      BY <1>2, SameBoard
    <2>2. outcome' = "failed" => board \in Planned
      BY <1>1, <1>4 DEF BoardIsTrue
    <2>3. QED
      BY <1>4, <1>5, <2>1, <2>2 DEF ReportIsTrue
  <1>7. TypeOK' /\ Threads'
    BY <1>1, <1>2, <1>4 DEF TypeOK, Threads, Live, Ended
  <1>8. JocQueue' /\ OutQueue' /\ Held'
    BY <1>1, <1>2 DEF JocQueue, OutQueue, Held, Begun, WrittenInOrder, Live
  <1>9. Passed' /\ BoardIsTrue' /\ Reasons'
    BY <1>1, <1>2, SameBoard DEF Passed, BoardIsTrue, Reasons
  <1>10. ProgressIsTrue'
    BY <1>1, <1>2, SameBoard DEF ProgressIsTrue
  <1>11. QED
    BY <1>6, <1>7, <1>8, <1>9, <1>10 DEF PipelineInv

-----------------------------------------------------------------------------
(***************************************************************************)
(* The writer's steps, and the user's.                                     *)
(***************************************************************************)
LEMMA WriterPopsKeeps == ASSUME PipelineInv, WriterPops PROVE PipelineInv'
  <1>1. /\ TypeOK /\ Threads /\ JocQueue /\ OutQueue /\ Held
        /\ Passed /\ BoardIsTrue /\ Reasons /\ ProgressIsTrue /\ ReportIsTrue
    BY DEF PipelineInv
  <1>2. /\ writerAt = "pop" /\ PopReady(outRing)
        /\ UNCHANGED <<plan, cancelled, jocRing, stop, board, bedReady, completed, finished,
                       producerAt, produced, job, lastJob, callerAt, frame, pending, processed,
                       progress, ending, outcome, written>>
    BY DEF WriterPops, producerVars, callerVars
  <1>3. /\ processed \in Nat /\ produced \in Nat /\ completed \in Nat /\ Len(written) \in Nat
        /\ outRing \in RingType(OutDepth, OutputJob) /\ outRing.count \in Nat
        /\ outRing.slots \in [0 .. OutDepth - 1 -> OutputJob] /\ writing \in OutputJob
        /\ OutDepth \in Nat \ {0}
    BY <1>1, StateFacts, ConstantFacts DEF TypeOK
  <1>4. ~finished /\ callerAt # "done"
    BY <1>1, <1>2 DEF Threads
  <1>5. /\ Begun = Len(written) /\ Len(written) + outRing.count = processed
        /\ \A i \in 0 .. outRing.count - 1 :
              outRing.slots[At(OutDepth, outRing, i)].frame = Len(written) + i
    BY <1>1, <1>2, <1>3 DEF OutQueue, Begun
  <1>6. JocQueue' /\ Passed' /\ BoardIsTrue'
    BY <1>1, <1>2, SameBoard DEF JocQueue, Taken, Passed, BoardIsTrue
  <1>7. ProgressIsTrue' /\ ReportIsTrue'
    BY <1>1, <1>2, SameBoard DEF ProgressIsTrue, ReportIsTrue
  <1>8. CASE PopDelivers(outRing)
    <2>1. /\ outRing' = AfterPop(OutDepth, outRing, writing) /\ writing' = outRing.slots[outRing.head]
          /\ writerAt' = "write" /\ outRing.count # 0
      BY <1>8 DEF WriterPops, PopDelivers, PopTakes
    <2>2. /\ outRing' \in RingType(OutDepth, OutputJob) /\ outRing'.count = outRing.count - 1
          /\ outRing'.closed = outRing.closed /\ outRing'.aborted = outRing.aborted
          /\ outRing.head \in 0 .. OutDepth - 1 /\ outRing.head = At(OutDepth, outRing, 0)
          /\ outRing'.slots = [outRing.slots EXCEPT ![outRing.head] = writing]
          /\ \A i \in 0 .. outRing'.count - 1 :
                outRing'.slots[At(OutDepth, outRing', i)] = outRing.slots[At(OutDepth, outRing, i + 1)]
      <3>1. outRing' = AfterPop(OutDepth, outRing, writing)
        BY <2>1
      <3>2. /\ OutDepth \in Nat \ {0} /\ outRing \in RingType(OutDepth, OutputJob)
            /\ writing \in OutputJob /\ outRing.count # 0
        BY <1>3, <2>1
      <3>3. QED
        BY <3>1, <3>2, PopRemovesHead
    <2>3. writing' \in OutputJob /\ writing'.frame = Len(written)
      <3>1. 0 \in 0 .. outRing.count - 1 /\ Len(written) + 0 = Len(written)
        BY <1>3, <2>1
      <3>2. QED
        BY <1>3, <1>5, <2>1, <2>2, <3>1
    <2>4. TypeOK'
      BY <1>1, <1>2, <2>1, <2>2, <2>3 DEF TypeOK
    <2>5. Threads'
      BY <1>1, <1>2, <1>4, <2>1, <2>2 DEF Threads
    <2>6. Begun' = Len(written) + 1 /\ Len(written) + 1 + outRing'.count = processed
      <3>1. written' = written /\ writerAt' = "write"
        BY <1>2, <2>1
      <3>2. /\ Len(written) \in Nat /\ outRing.count \in Nat /\ outRing.count # 0
            /\ Len(written) + outRing.count = processed /\ outRing'.count = outRing.count - 1
        BY <1>3, <1>5, <2>1, <2>2
      <3>3. QED
        BY <3>1, <3>2 DEF Begun
    <2>7. OutQueue'
      <3>1. ASSUME NEW i \in 0 .. outRing'.count - 1
            PROVE  outRing'.slots[At(OutDepth, outRing', i)].frame = Len(written) + 1 + i
        <4>1. i + 1 \in 0 .. outRing.count - 1 /\ Len(written) + (i + 1) = Len(written) + 1 + i
          BY <1>3, <2>2
        <4>2. QED
          BY <1>5, <2>2, <4>1
      <3>2. QED
        BY <1>2, <2>6, <3>1 DEF OutQueue
    <2>8. Held'
      <3>1. Begun' <= processed
        <4>1. outRing'.count \in Nat
          BY <1>3, <2>1, <2>2
        <4>2. QED
          BY <1>3, <2>6, <4>1
      <3>2. QED
        BY <1>1, <1>2, <2>1, <2>3, <3>1 DEF Held, WrittenInOrder
    <2>9. Reasons'
      BY <1>1, <1>2, <2>1, SameBoard DEF Reasons
    <2>10. QED
      BY <1>6, <1>7, <2>4, <2>5, <2>7, <2>8, <2>9 DEF PipelineInv
  <1>9. CASE ~PopDelivers(outRing)
    <2>1. outRing' = outRing /\ writing' = writing /\ writerAt' = "finish"
      BY <1>9 DEF WriterPops
    <2>2. callerAt = "join" /\ (ending = "drained" => Len(written) = processed)
      <3>1. (outRing.count = 0 /\ outRing.closed) \/ outRing.aborted
        BY <1>2, <1>9 DEF PopReady, PopDelivers
      <3>2. CASE outRing.count = 0 /\ outRing.closed
        <4>1. callerAt = "join"
          BY <1>1, <1>2, <1>4, <3>2 DEF Threads
        <4>2. QED
          BY <1>3, <1>5, <3>2, <4>1
      <3>3. CASE outRing.aborted
        BY <1>1, <1>2, <1>4, <3>3 DEF Threads
      <3>4. QED
        BY <3>1, <3>2, <3>3
    <2>3. TypeOK' /\ Threads'
      BY <1>1, <1>2, <1>4, <2>1 DEF TypeOK, Threads
    <2>4. OutQueue' /\ Held'
      BY <1>1, <1>2, <2>1 DEF OutQueue, Held, Begun, WrittenInOrder
    <2>5. Reasons'
      BY <1>1, <1>2, <2>1, <2>2, SameBoard DEF Reasons
    <2>6. QED
      BY <1>6, <1>7, <2>3, <2>4, <2>5 DEF PipelineInv
  <1>10. QED
    BY <1>8, <1>9

LEMMA WriterWritesKeeps == ASSUME PipelineInv, WriterWrites PROVE PipelineInv'
  <1>1. /\ TypeOK /\ Threads /\ JocQueue /\ OutQueue /\ Held
        /\ Passed /\ BoardIsTrue /\ Reasons /\ ProgressIsTrue /\ ReportIsTrue
    BY DEF PipelineInv
  <1>2. /\ writerAt = "write" /\ writerAt' = "complete" /\ plan.fails[Write] # writing.frame
        /\ written' = Append(written, writing)
        /\ UNCHANGED <<plan, cancelled, jocRing, outRing, stop, board, bedReady, completed,
                       finished, producerAt, produced, job, lastJob, callerAt, frame, pending,
                       processed, progress, ending, outcome, writing>>
    BY DEF WriterWrites, sharedVars, producerVars, callerVars
  <1>3. /\ processed \in Nat /\ completed \in Nat /\ Len(written) \in Nat
        /\ plan.fails[Write] \in Nat /\ written \in Seq(OutputJob) /\ writing \in OutputJob
        /\ progress \in Nat
    BY <1>1, StateFacts DEF TypeOK
  <1>4. /\ written' \in Seq(OutputJob) /\ Len(written') = Len(written) + 1
        /\ \A i \in 1 .. Len(written) : written'[i] = written[i]
        /\ written'[Len(written) + 1] = writing
    BY <1>2, <1>3
  <1>5. writing.frame = Len(written)
    BY <1>1, <1>2 DEF Held
  <1>6. outcome = "running"
    BY <1>1, <1>2 DEF Threads
  <1>7. TypeOK' /\ Threads' /\ JocQueue'
    BY <1>1, <1>2, <1>4 DEF TypeOK, Threads, JocQueue, Taken
  <1>8. Begun' = Begun /\ Begun = Len(written) + 1
    BY <1>2, <1>3, <1>4 DEF Begun
  <1>9. OutQueue'
    BY <1>1, <1>2, <1>8 DEF OutQueue
  <1>10. Held'
    <2>1. WrittenInOrder'
      <3>1. ASSUME NEW i \in 1 .. Len(written) + 1 PROVE written'[i].frame = i - 1
        <4>1. CASE i = Len(written) + 1
          BY <1>3, <1>4, <1>5, <4>1
        <4>2. CASE i # Len(written) + 1
          <5>1. i \in 1 .. Len(written)
            BY <1>3, <4>2
          <5>2. QED
            BY <1>1, <1>4, <5>1 DEF Held, WrittenInOrder
        <4>3. QED
          BY <4>1, <4>2
      <3>2. QED
        BY <1>4, <3>1 DEF WrittenInOrder
    <2>2. completed <= Len(written) + 1
      BY <1>1, <1>3 DEF Held
    <2>3. QED
      BY <1>1, <1>2, <1>4, <1>5, <1>8, <2>1, <2>2 DEF Held
  <1>11. Passed'
    <2>1. Covered(Write) \/ plan.fails[Write] >= Len(written')
      BY <1>1, <1>2, <1>3, <1>4, <1>5 DEF Passed
    <2>2. QED
      BY <1>1, <1>2, <2>1, SameBoard DEF Passed
  <1>12. BoardIsTrue' /\ Reasons'
    BY <1>1, <1>2, SameBoard DEF BoardIsTrue, Reasons
  <1>13. ProgressIsTrue' /\ ReportIsTrue'
    BY <1>1, <1>2, <1>3, <1>4, <1>6, SameBoard DEF ProgressIsTrue, ReportIsTrue
  <1>14. QED
    BY <1>7, <1>9, <1>10, <1>11, <1>12, <1>13 DEF PipelineInv

LEMMA WriteFailsKeeps == ASSUME PipelineInv, WriteFails PROVE PipelineInv'
  <1> DEFINE new == [frame |-> Len(written), rank |-> Write, cause |-> "input"]
  <1>1. /\ TypeOK /\ Threads /\ JocQueue /\ OutQueue /\ Held
        /\ Passed /\ BoardIsTrue /\ Reasons /\ ProgressIsTrue /\ ReportIsTrue
    BY DEF PipelineInv
  <1>2. /\ writerAt = "write" /\ writerAt' = "finish"
        /\ plan.fails[Write] = writing.frame /\ Record(writing.frame, Write, "input")
        /\ UNCHANGED <<plan, cancelled, jocRing, outRing, stop, bedReady, completed,
                       finished, producerAt, produced, job, lastJob, callerAt, frame, pending,
                       processed, progress, ending, outcome, writing, written>>
    BY DEF WriteFails, producerVars, callerVars
  <1>3. /\ N \in Nat /\ None = N + 1 /\ Joc = 0 /\ Dsp = 1 /\ Write = 2 /\ Rank = {0, 1, 2}
        /\ produced \in 0 .. N /\ processed \in Nat /\ Len(written) \in Nat
        /\ \A r \in Rank : plan.fails[r] \in Nat
        /\ Recorded => board.frame \in Nat
        /\ plan \in PlanType
    BY <1>1, StateFacts
  <1>4. /\ writing.frame = Len(written) /\ plan.fails[Write] = Len(written)
        /\ outcome = "running" /\ callerAt # "done" /\ ~finished
    BY <1>1, <1>2 DEF Threads, Held
  <1>5. Len(written) < processed /\ processed <= produced /\ Len(written) \in 0 .. N
    <2>1. Len(written) + 1 <= processed /\ processed <= produced
      BY <1>1, <1>2 DEF Held, Begun
    <2>2. QED
      BY <1>3, <2>1
  <1>6. /\ Recorded' /\ board' \in Failure /\ board'.frame \in Nat /\ board'.frame <= Len(written)
        /\ \/ Recorded /\ board' = board /\ ~Precedes(new, board)
           \/ board' = new
        /\ Recorded => board'.frame <= board.frame
        /\ \A q \in Rank : Covered(q) => Covered(q)'
        /\ Len(written) = plan.fails[Write] => Covered(Write)'
    <2>1. Record(Len(written), Write, "input") /\ Write \in Rank /\ board \in Failure \cup {NoFailure}
      BY <1>1, <1>2, <1>3, <1>4 DEF TypeOK
    <2>2. QED
      BY <1>2, <1>3, <1>5, <2>1, RecordProperties
  <1>7. new = Failing(Write) /\ new.frame = Len(written) /\ new.rank = Write
    BY <1>4 DEF Failing
  <1> HIDE DEF new
  <1>8. TypeOK' /\ Threads'
    BY <1>1, <1>2, <1>4, <1>6 DEF TypeOK, Threads
  <1>9. JocQueue' /\ OutQueue'
    BY <1>1, <1>2 DEF JocQueue, Taken, OutQueue
  <1>10. Held'
    BY <1>1, <1>2, <1>3, <1>5 DEF Held, Begun, WrittenInOrder
  <1>11. Planned' = Planned
    BY <1>2 DEF Planned
  <1>12. Passed'
    BY <1>1, <1>2, <1>3, <1>4, <1>6 DEF Passed
  <1>13. BoardIsTrue'
    <2>1. CASE Recorded /\ board' = board
      BY <1>1, <1>2, <1>11, <2>1 DEF BoardIsTrue
    <2>2. CASE board' = new
      <3>1. new \in Planned
        BY <1>3, <1>4, <1>5, <1>7, PlannedFacts
      <3>2. QED
        BY <1>2, <1>3, <1>5, <1>7, <1>11, <2>2, <3>1 DEF BoardIsTrue
    <2>3. QED
      BY <1>6, <2>1, <2>2
  <1>14. Reasons'
    <2>1. Covered(Write)' /\ board'.frame < processed /\ board'.frame < produced /\ Recorded'
      BY <1>3, <1>4, <1>5, <1>6
    <2>2. lastJob => Covered(Joc)'
      BY <1>1, <1>3, <1>6 DEF Reasons
    <2>3. producerAt \in {"close", "done"} /\ ending \in {"none", "drained"} =>
             Covered(Joc)' \/ (produced = N /\ plan.fails[Joc] = None)
      BY <1>1, <1>3, <1>6 DEF Reasons
    <2>4. ending = "failed" => Adm \/ Covered(Dsp)'
      BY <1>1, <1>3, <1>6 DEF Reasons
    <2>5. QED
      BY <1>2, <2>1, <2>2, <2>3, <2>4 DEF Reasons
  <1>15. ProgressIsTrue' /\ ReportIsTrue'
    BY <1>1, <1>2, <1>4, <1>11 DEF ProgressIsTrue, ReportIsTrue
  <1>16. QED
    BY <1>8, <1>9, <1>10, <1>12, <1>13, <1>14, <1>15 DEF PipelineInv

LEMMA WriterCompletesKeeps == ASSUME PipelineInv, WriterCompletes PROVE PipelineInv'
  <1>1. /\ TypeOK /\ Threads /\ JocQueue /\ OutQueue /\ Held
        /\ Passed /\ BoardIsTrue /\ Reasons /\ ProgressIsTrue /\ ReportIsTrue
    BY DEF PipelineInv
  <1>2. /\ writerAt = "complete" /\ writerAt' = "pop"
        /\ completed' \in {writing.frame + 1, completed}
        /\ UNCHANGED <<plan, cancelled, jocRing, outRing, stop, board, bedReady, finished,
                       producerAt, produced, job, lastJob, callerAt, frame, pending,
                       processed, progress, ending, outcome, writing, written>>
    BY DEF WriterCompletes, producerVars, callerVars
  <1>3. writing.frame + 1 = Len(written) /\ completed <= Len(written) /\ ~finished /\ callerAt # "done"
    BY <1>1, <1>2 DEF Held, Threads
  <1>4. completed' \in Nat /\ completed' <= Len(written)
    BY <1>1, <1>2, <1>3, StateFacts
  <1>5. TypeOK' /\ Threads'
    BY <1>1, <1>2, <1>3, <1>4 DEF TypeOK, Threads
  <1>6. JocQueue' /\ OutQueue' /\ Held'
    BY <1>1, <1>2, <1>3, <1>4 DEF JocQueue, Taken, OutQueue, Held, Begun, WrittenInOrder
  <1>7. Passed' /\ BoardIsTrue' /\ Reasons'
    BY <1>1, <1>2, SameBoard DEF Passed, BoardIsTrue, Reasons
  <1>8. ProgressIsTrue' /\ ReportIsTrue'
    BY <1>1, <1>2, SameBoard DEF ProgressIsTrue, ReportIsTrue
  <1>9. QED
    BY <1>5, <1>6, <1>7, <1>8 DEF PipelineInv

LEMMA WriterFinishesKeeps == ASSUME PipelineInv, WriterFinishes PROVE PipelineInv'
  <1>1. /\ TypeOK /\ Threads /\ JocQueue /\ OutQueue /\ Held
        /\ Passed /\ BoardIsTrue /\ Reasons /\ ProgressIsTrue /\ ReportIsTrue
    BY DEF PipelineInv
  <1>2. /\ writerAt = "finish" /\ writerAt' = "abort" /\ finished' = TRUE
        /\ UNCHANGED <<plan, cancelled, jocRing, outRing, stop, board, bedReady, completed,
                       producerAt, produced, job, lastJob, callerAt, frame, pending,
                       processed, progress, ending, outcome, writing, written>>
    BY DEF WriterFinishes, producerVars, callerVars
  <1>3. TypeOK' /\ Threads'
    BY <1>1, <1>2 DEF TypeOK, Threads
  <1>4. JocQueue' /\ OutQueue' /\ Held'
    BY <1>1, <1>2 DEF JocQueue, Taken, OutQueue, Held, Begun, WrittenInOrder
  <1>5. Passed' /\ BoardIsTrue' /\ Reasons'
    BY <1>1, <1>2, SameBoard DEF Passed, BoardIsTrue, Reasons
  <1>6. ProgressIsTrue' /\ ReportIsTrue'
    BY <1>1, <1>2, SameBoard DEF ProgressIsTrue, ReportIsTrue
  <1>7. QED
    BY <1>3, <1>4, <1>5, <1>6 DEF PipelineInv

LEMMA WriterAbortsKeeps == ASSUME PipelineInv, WriterAborts PROVE PipelineInv'
  <1>1. /\ TypeOK /\ Threads /\ JocQueue /\ OutQueue /\ Held
        /\ Passed /\ BoardIsTrue /\ Reasons /\ ProgressIsTrue /\ ReportIsTrue
    BY DEF PipelineInv
  <1>2. /\ writerAt = "abort" /\ writerAt' = "done" /\ outRing' = AfterAbort(outRing)
        /\ UNCHANGED <<plan, cancelled, jocRing, stop, board, bedReady, completed, finished,
                       producerAt, produced, job, lastJob, callerAt, frame, pending,
                       processed, progress, ending, outcome, writing, written>>
    BY DEF WriterAborts, producerVars, callerVars
  <1>3. outRing' \in RingType(OutDepth, OutputJob)
    BY <1>1, <1>2, AbortFacts DEF TypeOK
  <1>4. TypeOK' /\ Threads'
    BY <1>1, <1>2, <1>3 DEF TypeOK, Threads
  <1>5. JocQueue' /\ OutQueue' /\ Held'
    BY <1>1, <1>2 DEF JocQueue, Taken, OutQueue, Held, Begun, WrittenInOrder
  <1>6. Passed' /\ BoardIsTrue' /\ Reasons'
    BY <1>1, <1>2, SameBoard DEF Passed, BoardIsTrue, Reasons
  <1>7. ProgressIsTrue' /\ ReportIsTrue'
    BY <1>1, <1>2, SameBoard DEF ProgressIsTrue, ReportIsTrue
  <1>8. QED
    BY <1>4, <1>5, <1>6, <1>7 DEF PipelineInv

\* A cancellation, or no step at all.
LEMMA CancelKeeps ==
    ASSUME PipelineInv, Cancel \/ UNCHANGED vars
    PROVE  PipelineInv'
  <1>1. /\ TypeOK /\ Threads /\ JocQueue /\ OutQueue /\ Held
        /\ Passed /\ BoardIsTrue /\ Reasons /\ ProgressIsTrue /\ ReportIsTrue
    BY DEF PipelineInv
  <1>2. /\ cancelled' \in BOOLEAN /\ (cancelled => cancelled')
        /\ UNCHANGED <<plan, jocRing, outRing, stop, board, bedReady, completed, finished,
                       producerAt, produced, job, lastJob, callerAt, frame, pending, processed,
                       progress, ending, outcome, writerAt, writing, written>>
    BY <1>1 DEF Cancel, vars, sharedVars, producerVars, callerVars, writerVars, TypeOK
  <1>3. TypeOK' /\ Threads'
    BY <1>1, <1>2 DEF TypeOK, Threads
  <1>4. JocQueue' /\ OutQueue' /\ Held'
    BY <1>1, <1>2 DEF JocQueue, Taken, OutQueue, Held, Begun, WrittenInOrder
  <1>5. Passed' /\ BoardIsTrue' /\ Reasons'
    BY <1>1, <1>2, SameBoard DEF Passed, BoardIsTrue, Reasons
  <1>6. ProgressIsTrue' /\ ReportIsTrue'
    BY <1>1, <1>2, SameBoard DEF ProgressIsTrue, ReportIsTrue
  <1>7. QED
    BY <1>3, <1>4, <1>5, <1>6 DEF PipelineInv

LEMMA NextKeeps == PipelineInv /\ [Next]_vars => PipelineInv'
  <1> SUFFICES ASSUME PipelineInv, [Next]_vars PROVE PipelineInv'
    OBVIOUS
  <1>1. CASE Producer
    BY <1>1, ProducerSeesStopKeeps, ProducerReachesEndKeeps, CollectFrameKeeps, CollectFailsKeeps,
       RebuildFailsKeeps, ProducerPushesKeeps, ProducerIsRefusedKeeps, ProducerClosesKeeps
       DEF Producer
  <1>2. CASE Caller
    BY <1>2, CallerPopsKeeps, CallerChecksKeeps, CallerRendersKeeps, RenderFailsKeeps,
       CallerPushesKeeps, CallerReportsProgressKeeps, CallerStopsProducerKeeps,
       CallerStopsWriterKeeps, CallerJoinsKeeps DEF Caller
  <1>3. CASE Writer
    BY <1>3, WriterPopsKeeps, WriterWritesKeeps, WriteFailsKeeps, WriterCompletesKeeps,
       WriterFinishesKeeps, WriterAbortsKeeps DEF Writer
  <1>4. CASE Cancel \/ UNCHANGED vars
    BY <1>4, CancelKeeps
  <1>5. QED
    BY <1>1, <1>2, <1>3, <1>4 DEF Next

-----------------------------------------------------------------------------
(***************************************************************************)
(* The theorems.                                                           *)
(***************************************************************************)

\* The frame loop keeps its invariant: the threads, the rings, the board and the
\* output agree as they should, whatever the order of their steps.
THEOREM PipelineInvHolds == Spec => []PipelineInv
  BY InitInv, NextKeeps, PTL DEF Spec

\* The output holds frames 0, 1, 2, ... in this order, whatever the depths of the
\* two rings and however far the three threads are apart.
THEOREM OutputInOrder == Spec => []WrittenInOrder
  <1>1. PipelineInv => WrittenInOrder
    BY DEF PipelineInv, Held
  <1>2. QED
    BY <1>1, PipelineInvHolds, PTL

\* A success means that every frame was written and no stage failed; a failure is
\* one of the input, and the synthetic internal error is never reported.
THEOREM ReportsAreTrue == Spec => []ReportIsTrue
  <1>1. PipelineInv => ReportIsTrue
    BY DEF PipelineInv
  <1>2. QED
    BY <1>1, PipelineInvHolds, PTL

\* The serial loop's failure is well defined: the planned failures, at most one of
\* each stage, have a first one.
LEMMA SerialFacts ==
    ASSUME plan \in PlanType, Planned # {}
    PROVE  Serial \in Planned /\ \A g \in Planned \ {Serial} : Precedes(Serial, g)
  <1> DEFINE In(r) == plan.fails[r] # None /\ ~(Adm /\ r = Dsp)
             First(m) == In(m) /\ \A r \in Rank \ {m} :
                            In(r) => \/ plan.fails[m] < plan.fails[r]
                                     \/ plan.fails[m] = plan.fails[r] /\ m < r
  <1>1. /\ N \in Nat /\ Joc = 0 /\ Dsp = 1 /\ Write = 2 /\ Rank = {0, 1, 2}
        /\ plan.fails[0] \in Nat /\ plan.fails[1] \in Nat /\ plan.fails[2] \in Nat
    BY ConstantFacts, PlanFacts
  <1>2. In(0) \/ In(1) \/ In(2)
    BY <1>1, PlannedFacts
  <1> DEFINE a == plan.fails[0]
             b == plan.fails[1]
             c == plan.fails[2]
  <1>3. \E m \in Rank : First(m)
    <2> HIDE DEF In
    <2>1. CASE In(0) /\ (In(1) => a <= b) /\ (In(2) => a <= c)
      <3>1. First(0)
        BY <1>1, <2>1
      <3>2. QED
        BY <1>1, <3>1
    <2>2. CASE In(1) /\ (In(0) => b < a) /\ (In(2) => b <= c)
      <3>1. First(1)
        BY <1>1, <2>2
      <3>2. QED
        BY <1>1, <3>1
    <2>3. CASE In(2) /\ (In(0) => c < a) /\ (In(1) => c < b)
      <3>1. First(2)
        BY <1>1, <2>3
      <3>2. QED
        BY <1>1, <3>1
    <2>4. QED
      BY <1>1, <1>2, <2>1, <2>2, <2>3
  <1>4. PICK m \in Rank : First(m)
    BY <1>3
  <1>5. Failing(m) \in Planned
    BY <1>4, PlannedFacts
  <1>6. \A g \in Planned \ {Failing(m)} : Precedes(Failing(m), g)
    <2>1. ASSUME NEW g \in Planned \ {Failing(m)} PROVE Precedes(Failing(m), g)
      <3>1. PICK r \in Rank : g = Failing(r) /\ In(r)
        BY PlannedFacts
      <3>2. r # m
        BY <2>1, <3>1
      <3>3. plan.fails[m] < plan.fails[r] \/ (plan.fails[m] = plan.fails[r] /\ m < r)
        BY <1>4, <3>1, <3>2
      <3>4. QED
        BY <3>1, <3>3 DEF Failing, Precedes
    <2>2. QED
      BY <2>1
  <1>7. QED
    BY <1>5, <1>6 DEF Serial

\* A progress line for n frames appears only after those frames are written, and
\* never when a stage fails at one of them.
THEOREM ProgressIsReal == Spec => []ProgressIsWritten
  <1>1. PipelineInv => ProgressIsWritten
    <2>1. SUFFICES ASSUME PipelineInv PROVE ProgressIsWritten
      OBVIOUS
    <2>2. plan \in PlanType /\ ProgressIsTrue
      BY <2>1 DEF PipelineInv, TypeOK
    <2>3. QED
      BY <2>2, SerialFacts DEF ProgressIsTrue, ProgressIsWritten
  <1>2. QED
    BY <1>1, PipelineInvHolds, PTL

\* The reported failure is the one the serial loop meets first, but for a write
\* failure of a frame that a later DSP failure dropped from the queue.
THEOREM FailureIsSerial == Spec => []SerialUnlessDropped
  <1>1. PipelineInv => SerialUnlessDropped
    <2> SUFFICES ASSUME PipelineInv, outcome = "failed"
                 PROVE  \/ board = Serial
                        \/ /\ board.frame = plan.fails[Dsp] /\ Serial.rank = Write
                           /\ Serial.frame < board.frame
                           /\ Len(written) <= Serial.frame
      BY DEF SerialUnlessDropped
    <2>1. /\ TypeOK /\ Threads /\ Held /\ Passed /\ BoardIsTrue /\ Reasons
          /\ board \in Planned
      BY DEF PipelineInv, ReportIsTrue
    <2>2. /\ N \in Nat /\ None = N + 1 /\ Joc = 0 /\ Dsp = 1 /\ Write = 2 /\ Rank = {0, 1, 2}
          /\ produced \in 0 .. N /\ processed \in Nat /\ Len(written) \in Nat
          /\ \A r \in Rank : plan.fails[r] \in Nat
          /\ plan \in PlanType
      BY <2>1, StateFacts
    <2>3. PICK q \in Rank : board = Failing(q) /\ plan.fails[q] # None
      BY <2>2, <2>1, PlannedFacts
    <2>4. /\ Recorded /\ board.frame \in Nat /\ board.rank \in Rank
          /\ board.frame <= produced /\ (board.rank = Write => board.frame < processed)
      <3>1. Recorded
        BY <2>3 DEF Recorded, Failing
      <3>2. QED
        BY <2>1, <2>2, <2>3, <3>1 DEF BoardIsTrue, Failing
    <2>5. /\ callerAt = "done" /\ producerAt = "done" /\ writerAt = "done"
          /\ ending = "drained" \/ ending = "failed"
      BY <2>1 DEF Threads, TypeOK, Live
    <2>6. \A r \in Rank : Covered(r) => ~Precedes(Failing(r), board)
      BY DEF Covered
    <2>7. \A r \in Rank : /\ Failing(r).frame = plan.fails[r] /\ Failing(r).rank = r
      BY DEF Failing
    <2>8. plan.fails[Joc] = None \/ ~Precedes(Failing(Joc), board)
      <3>1. CASE ending = "drained"
        BY <2>1, <2>2, <2>5, <2>6, <3>1 DEF Reasons
      <3>2. CASE ending = "failed"
        <4>1. board.frame < produced
          BY <2>1, <3>2 DEF Reasons
        <4>2. Covered(Joc) \/ plan.fails[Joc] >= produced
          BY <2>1 DEF Passed
        <4>3. QED
          BY <2>2, <2>4, <2>6, <2>7, <4>1, <4>2 DEF Precedes
      <3>3. QED
        BY <2>5, <3>1, <3>2
    <2>9. Adm \/ ~Precedes(Failing(Dsp), board)
      <3>1. CASE ending = "drained"
        <4>1. processed = produced
          BY <2>1, <3>1 DEF Threads
        <4>2. Adm \/ Covered(Dsp) \/ plan.fails[Dsp] >= processed
          BY <2>1 DEF Passed
        <4>3. QED
          BY <2>2, <2>4, <2>6, <2>7, <4>1, <4>2 DEF Precedes
      <3>2. CASE ending = "failed"
        BY <2>1, <2>2, <2>6, <3>2 DEF Reasons
      <3>3. QED
        BY <2>5, <3>1, <3>2
    <2>10. \/ ~Precedes(Failing(Write), board)
           \/ ~Adm /\ board.frame = plan.fails[Dsp]
      <3>1. CASE ending = "drained"
        <4>1. processed = produced /\ (Covered(Write) \/ Len(written) = processed)
          BY <2>1, <2>5, <3>1 DEF Threads, Reasons
        <4>2. Covered(Write) \/ plan.fails[Write] >= Len(written)
          BY <2>1 DEF Passed
        <4>3. Covered(Write) \/ plan.fails[Write] >= board.frame
          BY <2>2, <2>4, <4>1, <4>2
        <4>4. QED
          BY <2>2, <2>4, <2>6, <2>7, <4>3 DEF Precedes
      <3>2. CASE ending = "failed"
        BY <2>1, <2>2, <2>6, <3>2 DEF Reasons
      <3>3. QED
        BY <2>5, <3>1, <3>2
    <2>11. Serial \in Planned /\ \A g \in Planned \ {Serial} : Precedes(Serial, g)
      BY <2>1, <2>2, SerialFacts
    <2>12. PICK z \in Rank : Serial = Failing(z) /\ plan.fails[z] # None /\ ~(Adm /\ z = Dsp)
      BY <2>2, <2>11, PlannedFacts
    <2>13. CASE ~Precedes(Failing(Write), board)
      <3>1. ~Precedes(Serial, board)
        BY <2>2, <2>8, <2>9, <2>12, <2>13
      <3>2. QED
        BY <2>1, <2>11, <3>1
    <2>14. CASE Precedes(Failing(Write), board)
      <3>1. ~Adm /\ board.frame = plan.fails[Dsp] /\ plan.fails[Write] < board.frame
        BY <2>2, <2>4, <2>7, <2>10, <2>14 DEF Precedes
      <3>2. Failing(Write) \in Planned
        BY <2>2, <2>4, <3>1, PlannedFacts
      <3>3. Len(written) <= plan.fails[Write]
        <4>1. ~Covered(Write)
          BY <2>2, <2>6, <2>14
        <4>2. QED
          BY <2>1, <2>2, <4>1 DEF Passed
      <3>4. Serial = Failing(Write)
        <4>1. SUFFICES ASSUME Serial # Failing(Write) PROVE FALSE
          OBVIOUS
        <4>2. Precedes(Failing(z), Failing(Write))
          BY <2>11, <2>12, <3>2, <4>1
        <4>3. Precedes(Failing(z), board)
          BY <2>2, <2>4, <2>7, <2>14, <4>2 DEF Precedes
        <4>4. z # Write
          BY <2>12, <4>1
        <4>5. QED
          BY <2>2, <2>8, <2>9, <2>12, <4>3, <4>4
      <3>5. QED
        BY <2>2, <2>7, <3>1, <3>3, <3>4
    <2>15. QED
      BY <2>13, <2>14
  <1>2. QED
    BY <1>1, PipelineInvHolds, PTL

\* The input holds a failure exactly if one is planned.
LEMMA FaultyFacts ==
    ASSUME plan \in PlanType
    PROVE  Task!Faulty <=> Planned # {}
  <1>1. /\ N \in Nat /\ None = N + 1 /\ Dsp = 1 /\ DOMAIN plan.fails = Rank
        /\ \A r \in Rank : plan.fails[r] \in Nat /\ plan.fails[r] <= N + 1
    BY ConstantFacts, PlanFacts
  <1>2. Task!Faulty <=> \E r \in Rank : plan.fails[r] # None /\ ~(Adm /\ r = Dsp)
    BY <1>1 DEF Task!Faulty
  <1>3. QED
    BY <1>2, PlannedFacts

\* The three threads together are a render task as its caller sees it: frames
\* reach the output one by one and the one verdict is true of the input.
THEOREM PipelineIsATask == Spec => RefinesTask
  <1>1. Init => Task!TaskInit
    BY DEF Init, Task!TaskInit
  <1>2. ASSUME PipelineInv, PipelineInv', [Next]_vars
        PROVE  [Task!TaskNext]_(Task!taskVars)
    <2>1. /\ TypeOK /\ Threads /\ Held /\ ReportIsTrue /\ ReportIsTrue'
      BY <1>2 DEF PipelineInv
    <2>2. CASE WriterWrites
      <3>1. /\ writerAt = "write" /\ written' = Append(written, writing)
            /\ UNCHANGED <<plan, outcome, cancelled>>
        BY <2>2 DEF WriterWrites, callerVars
      <3>2. outcome = "running"
        BY <2>1, <3>1 DEF Threads
      <3>3. written \in Seq(OutputJob) /\ writing \in OutputJob
        BY <2>1 DEF TypeOK
      <3>4. Len(written') = Len(written) + 1
        BY <3>1, <3>3
      <3>5. Len(written) < N
        <4>1. Len(written) + 1 <= processed /\ processed <= produced
          BY <2>1, <3>1 DEF Held, Begun
        <4>2. N \in Nat /\ produced \in 0 .. N /\ processed \in Nat /\ Len(written) \in Nat
          BY <2>1, StateFacts
        <4>3. QED
          BY <4>1, <4>2
      <3>6. QED
        BY <3>1, <3>2, <3>4, <3>5 DEF Task!TaskNext, Task!WriteNext
    <2>3. CASE Cancel
      <3>1. ~cancelled /\ cancelled' = TRUE /\ UNCHANGED <<plan, written, outcome>>
        BY <2>3 DEF Cancel, callerVars, writerVars
      <3>2. QED
        BY <3>1 DEF Task!TaskNext, Task!Ask
    <2>4. CASE CallerJoins
      <3>1. /\ callerAt = "join" /\ UNCHANGED <<plan, written, cancelled, board>>
            /\ outcome' \in {"ok", "failed", "cancelled", "internal"}
            /\ outcome' = "cancelled" => ending = "cancelled"
        BY <2>4 DEF CallerJoins, writerVars, sharedVars
      <3>2. outcome = "running" /\ (outcome' = "cancelled" => cancelled)
        BY <2>1, <3>1 DEF Threads
      <3>3. plan \in PlanType /\ Planned' = Planned
        BY <2>1, <3>1 DEF TypeOK, Planned
      <3>4. /\ outcome' = "ok" => Len(written) = N /\ ~Task!Faulty
            /\ outcome' = "failed" => Task!Faulty
            /\ outcome' # "internal"
        BY <2>1, <3>1, <3>3, FaultyFacts DEF ReportIsTrue
      <3>5. Task!End
        BY <3>1, <3>2, <3>4 DEF Task!End
      <3>6. QED
        BY <3>5 DEF Task!TaskNext
    <2>5. CASE UNCHANGED <<plan, written, outcome, cancelled>>
      BY <2>5 DEF Task!taskVars
    <2>6. Producer => UNCHANGED <<plan, written, outcome, cancelled>>
      BY DEF Producer, ProducerSeesStop, ProducerReachesEnd, CollectFrame, CollectFails,
         RebuildFails, ProducerPushes, ProducerIsRefused, ProducerCloses, callerVars, writerVars
    <2>7. Caller => CallerJoins \/ UNCHANGED <<plan, written, outcome, cancelled>>
      BY DEF Caller, CallerPops, CallerChecks, CallerRenders, RenderFails, CallerPushes,
         CallerReportsProgress, CallerStopsProducer, CallerStopsWriter, writerVars
    <2>8. Writer => WriterWrites \/ UNCHANGED <<plan, written, outcome, cancelled>>
      BY DEF Writer, WriterPops, WriteFails, WriterCompletes, WriterFinishes, WriterAborts,
         callerVars
    <2>9. UNCHANGED vars => UNCHANGED <<plan, written, outcome, cancelled>>
      BY DEF vars, callerVars, writerVars
    <2>10. QED
      BY <1>2, <2>2, <2>3, <2>4, <2>5, <2>6, <2>7, <2>8, <2>9 DEF Next
  <1>3. QED
    BY <1>1, <1>2, PipelineInvHolds, PTL DEF Spec, RefinesTask, Task!TaskSpec

-----------------------------------------------------------------------------
(***************************************************************************)
(* The updates and the bed.  The rings swap payloads, so a buffer goes     *)
(* round: with the depth D of the bitstream ring, the job of the producer, *)
(* the free slots, the frame of the caller and the queued slots hold the   *)
(* updates of D + 2 consecutive frames, and the job the producer collects  *)
(* into is that of the frame D + 2 before.                                 *)
(***************************************************************************)

\* An update and a bed as the frame f promises them.
UpdateIs(p, f, update) == p.fails[Joc] # f => Carries(p.meta, f, update)
BedIs(p, f, bed) == p.fails[Joc] # f /\ ~Adm /\ p.bed <= f => bed

\* The producer collects no frame after the one the bitstream fails at.
FailsLast ==
    /\ produced <= plan.fails[Joc] + 1
    /\ producerAt = "collect" => produced <= plan.fails[Joc]
    /\ producerAt = "push" => produced <= plan.fails[Joc] /\ (lastJob <=> produced = plan.fails[Joc])

\* The bed is known once the frame that declares it has been collected.
BedKnown ==
    /\ plan.bed < produced /\ plan.bed # plan.fails[Joc] => bedReady
    /\ producerAt = "push" /\ plan.bed = produced /\ plan.bed # plan.fails[Joc] => bedReady

\* Each buffer on its way round holds the update of the frame it last carried.
Buffers ==
    callerAt \in Live =>
        /\ \A i \in 0 .. jocRing.count - 1 :
              UpdateIs(plan, Taken + i, jocRing.slots[At(JocDepth, jocRing, i)].update)
        /\ \A i \in jocRing.count .. JocDepth - 1 :
              UpdateIs(plan, Taken + i - (JocDepth + 1), jocRing.slots[At(JocDepth, jocRing, i)].update)
        /\ UpdateIs(plan, Taken - 1, frame.update)
        /\ producerAt = "collect" => UpdateIs(plan, produced - (JocDepth + 2), job.update)
        /\ producerAt = "push" => UpdateIs(plan, produced, job.update)

\* So does every rendered frame on its way to the output.
Rendered ==
    /\ callerAt = "push" => UpdateIs(plan, processed, pending.update) /\ BedIs(plan, processed, pending.bed)
    /\ writerAt \in {"pop", "write", "complete"} =>
          \A i \in 0 .. outRing.count - 1 :
              /\ UpdateIs(plan, Begun + i, outRing.slots[At(OutDepth, outRing, i)].update)
              /\ BedIs(plan, Begun + i, outRing.slots[At(OutDepth, outRing, i)].bed)
    /\ writerAt = "write" => UpdateIs(plan, Len(written), writing.update) /\ BedIs(plan, Len(written), writing.bed)
    /\ MetadataInTime

MetadataInv == FailsLast /\ BedKnown /\ Buffers /\ Rendered

-----------------------------------------------------------------------------
\* What a frame carries: its own update if it has a container, else what the
\* frame JocDepth + 2 before carries, none for the first ones.
LEMMA CarriesOwn ==
    ASSUME NEW meta, NEW f \in Nat, meta[f] # "none"
    PROVE  Carries(meta, f, IF meta[f] = "oamd" THEN f ELSE None)
  <1>1. (f - f) % (JocDepth + 2) = 0
    <2>1. f - f = 0 /\ JocDepth + 2 \in Nat \ {0}
      BY ConstantFacts
    <2>2. QED
      BY <2>1
  <1>2. f \in Filled(meta, f)
    BY <1>1 DEF Filled
  <1>3. \A h \in Filled(meta, f) : h <= f
    BY DEF Filled
  <1>4. QED
    BY <1>2, <1>3 DEF Carries

\* Before the first frame every buffer is fresh.
LEMMA CarriesFresh ==
    ASSUME NEW meta, NEW f \in Int, f < 0
    PROVE  Carries(meta, f, None)
  <1>1. Filled(meta, f) = {}
    BY DEF Filled
  <1>2. QED
    BY <1>1 DEF Carries

LEMMA CarriesOld ==
    ASSUME NEW meta, NEW f \in Nat, meta[f] = "none", NEW update,
           Carries(meta, f - (JocDepth + 2), update)
    PROVE  Carries(meta, f, update)
  <1> DEFINE m == JocDepth + 2
  <1>1. m \in Nat \ {0}
    BY ConstantFacts
  <1> HIDE DEF m
  <1>2. ASSUME NEW g \in 0 .. f, (f - g) % m = 0, meta[g] # "none"
        PROVE  g \in 0 .. f - m /\ (f - m - g) % m = 0
    <2>1. g # f /\ f - g \in Nat \ {0}
      BY <1>2
    <2>2. f - g >= m
      <3>1. SUFFICES ASSUME f - g < m PROVE FALSE
        BY <1>1, <2>1
      <3> DEFINE a == f - g
      <3>2. a \in Nat /\ a < m /\ a # 0
        BY <2>1, <3>1
      <3> HIDE DEF a
      <3>3. a % m # 0
        BY <1>1, <3>2
      <3>4. QED
        BY <1>2, <3>3 DEF a
    <2> DEFINE b == f - m - g
    <2>3. b \in Nat /\ b + m = f - g
      BY <1>1, <2>1, <2>2
    <2>4. (b + m) % m = b % m
      BY <1>1, <2>3, ModShift
    <2>5. b % m = 0
      BY <1>2, <2>3, <2>4
    <2>6. QED
      BY <1>1, <2>2, <2>5
  <1>3. ASSUME NEW g \in 0 .. f - m, (f - m - g) % m = 0
        PROVE  g \in 0 .. f /\ (f - g) % m = 0
    <2> DEFINE b == f - m - g
    <2>1. b \in Nat /\ b + m = f - g /\ b % m = 0
      BY <1>1, <1>3
    <2> HIDE DEF b
    <2>2. (b + m) % m = b % m
      BY <1>1, <2>1, ModShift
    <2>3. QED
      BY <1>1, <2>1, <2>2
  <1>4. Filled(meta, f) = Filled(meta, f - m)
    <2>1. Filled(meta, f) = {g \in 0 .. f : (f - g) % m = 0 /\ meta[g] # "none"}
      BY DEF Filled, m
    <2>2. Filled(meta, f - m) = {g \in 0 .. f - m : (f - m - g) % m = 0 /\ meta[g] # "none"}
      BY DEF Filled, m
    <2>3. \A g : g \in Filled(meta, f) <=> g \in Filled(meta, f - m)
      BY <1>2, <1>3, <2>1, <2>2
    <2>4. QED
      BY <2>3
  <1>5. Carries(meta, f - m, update)
    BY DEF m
  <1>6. QED
    BY <1>4, <1>5 DEF Carries

-----------------------------------------------------------------------------
\* The types the steps need, in one place.
LEMMA MetadataFacts ==
    ASSUME TypeOK
    PROVE  /\ N \in Nat /\ JocDepth \in Nat \ {0} /\ OutDepth \in Nat \ {0} /\ Adm \in BOOLEAN
           /\ plan.fails[Joc] \in Nat /\ plan.bed \in Nat
           /\ produced \in Nat /\ processed \in Nat /\ Taken \in Nat /\ Begun \in Nat
           /\ Len(written) \in Nat
           /\ jocRing \in RingType(JocDepth, JocJob) /\ jocRing.count \in 0 .. JocDepth
           /\ outRing \in RingType(OutDepth, OutputJob) /\ outRing.count \in 0 .. OutDepth
  <1>1. plan.bed \in Frame \cup {None}
    BY DEF TypeOK, PlanType
  <1>2. plan.bed \in Nat
    BY <1>1, ConstantFacts DEF Frame
  <1>3. Taken \in Nat /\ Begun \in Nat
    BY StateFacts DEF TypeOK, Taken, Begun
  <1>4. jocRing.count \in 0 .. JocDepth /\ outRing.count \in 0 .. OutDepth
    BY DEF TypeOK, RingType
  <1>5. QED
    BY <1>2, <1>3, <1>4, StateFacts, ConstantFacts DEF TypeOK

LEMMA InitMetadata == Init => MetadataInv
  <1> SUFFICES ASSUME Init PROVE MetadataInv
    OBVIOUS
  <1>1. TypeOK
    BY InitInv DEF PipelineInv
  <1>2. /\ plan.fails[Joc] \in Nat /\ JocDepth \in Nat \ {0} /\ plan.bed \in Nat
    BY <1>1, MetadataFacts
  <1>3. /\ produced = 0 /\ processed = 0 /\ Taken = 0 /\ producerAt = "collect" /\ callerAt = "pop"
        /\ writerAt = "pop" /\ outRing.count = 0 /\ jocRing.count = 0 /\ Len(written) = 0
        /\ jocRing.slots = [i \in 0 .. JocDepth - 1 |-> EmptyJoc] /\ jocRing.head = 0
        /\ frame.update = None /\ job.update = None
    BY DEF Init, Taken, NewRing, EmptyJoc
  <1>4. FailsLast /\ BedKnown
    BY <1>2, <1>3 DEF FailsLast, BedKnown
  <1>5. \A f \in Int : f < 0 => UpdateIs(plan, f, None)
    BY CarriesFresh DEF UpdateIs
  <1>6. ASSUME NEW i \in jocRing.count .. JocDepth - 1
        PROVE  UpdateIs(plan, Taken + i - (JocDepth + 1), jocRing.slots[At(JocDepth, jocRing, i)].update)
    <2>1. i \in 0 .. JocDepth - 1 /\ i \in 0 .. JocDepth
      BY <1>2, <1>3
    <2>2. At(JocDepth, jocRing, i) \in 0 .. JocDepth - 1
      BY <1>2, <1>3, <2>1, AtInRange DEF At
    <2>3. jocRing.slots[At(JocDepth, jocRing, i)].update = None
      BY <1>3, <2>2 DEF EmptyJoc
    <2>4. Taken + i - (JocDepth + 1) \in Int /\ Taken + i - (JocDepth + 1) < 0
      BY <1>2, <1>3, <2>1
    <2>5. QED
      BY <1>5, <2>3, <2>4
  <1>7. UpdateIs(plan, Taken - 1, frame.update) /\ UpdateIs(plan, produced - (JocDepth + 2), job.update)
    BY <1>2, <1>3, <1>5
  <1>8. Buffers
    <2>1. 0 .. jocRing.count - 1 = {}
      BY <1>3
    <2>2. QED
      BY <1>3, <1>6, <1>7, <2>1 DEF Buffers
  <1>9. Rendered
    BY <1>3 DEF Rendered, MetadataInTime
  <1>10. QED
    BY <1>4, <1>8, <1>9 DEF MetadataInv

\* A step that moves no payload and enters none of the places that promise one.
Quiet ==
    /\ UNCHANGED <<plan, produced, lastJob, bedReady, frame, job, pending, writing, written>>
    /\ UNCHANGED <<jocRing.slots, jocRing.head, jocRing.count>>
    /\ UNCHANGED <<outRing.slots, outRing.head, outRing.count>>
    /\ producerAt' \in {"collect", "push"} => producerAt' = producerAt
    /\ callerAt' \in Live => callerAt \in Live /\ Taken' = Taken
    /\ callerAt' = "push" => callerAt = "push" /\ processed' = processed
    /\ writerAt' \in {"pop", "write", "complete"} =>
          writerAt \in {"pop", "write", "complete"} /\ Begun' = Begun
    /\ writerAt' = "write" => writerAt = "write"

LEMMA QuietKeeps ==
    ASSUME MetadataInv, Quiet
    PROVE  MetadataInv'
  <1>1. FailsLast /\ BedKnown /\ Buffers /\ Rendered
    BY DEF MetadataInv
  <1>2. FailsLast' /\ BedKnown'
    BY <1>1 DEF Quiet, FailsLast, BedKnown
  <1>3. /\ \A i : At(JocDepth, jocRing', i) = At(JocDepth, jocRing, i)
        /\ \A i : At(OutDepth, outRing', i) = At(OutDepth, outRing, i)
    BY DEF Quiet, At
  <1>4. Buffers'
    <2>1. SUFFICES ASSUME callerAt' \in Live
                   PROVE  /\ \A i \in 0 .. jocRing'.count - 1 :
                                UpdateIs(plan', Taken' + i, jocRing'.slots[At(JocDepth, jocRing', i)].update)
                          /\ \A i \in jocRing'.count .. JocDepth - 1 :
                                UpdateIs(plan', Taken' + i - (JocDepth + 1),
                                         jocRing'.slots[At(JocDepth, jocRing', i)].update)
                          /\ UpdateIs(plan', Taken' - 1, frame'.update)
                          /\ producerAt' = "collect" => UpdateIs(plan', produced' - (JocDepth + 2), job'.update)
                          /\ producerAt' = "push" => UpdateIs(plan', produced', job'.update)
      BY DEF Buffers
    <2>2. /\ callerAt \in Live /\ Taken' = Taken /\ plan' = plan /\ jocRing'.count = jocRing.count
          /\ jocRing'.slots = jocRing.slots /\ frame' = frame /\ produced' = produced /\ job' = job
          /\ producerAt' \in {"collect", "push"} => producerAt' = producerAt
      BY <2>1 DEF Quiet
    <2>3. QED
      BY <1>1, <1>3, <2>2 DEF Buffers
  <1>5. Rendered'
    <2>1. /\ plan' = plan /\ pending' = pending /\ writing' = writing /\ written' = written
          /\ outRing'.slots = outRing.slots /\ outRing'.count = outRing.count
          /\ callerAt' = "push" => callerAt = "push" /\ processed' = processed
          /\ writerAt' \in {"pop", "write", "complete"} =>
                writerAt \in {"pop", "write", "complete"} /\ Begun' = Begun
          /\ writerAt' = "write" => writerAt = "write"
      BY DEF Quiet
    <2>2. MetadataInTime'
      BY <1>1, <2>1 DEF Rendered, MetadataInTime
    <2>3. QED
      BY <1>1, <1>3, <2>1, <2>2 DEF Rendered
  <1>6. QED
    BY <1>2, <1>4, <1>5 DEF MetadataInv

\* Most steps are quiet.
LEMMA ProducerQuiet ==
    ASSUME PipelineInv, MetadataInv,
           \/ ProducerSeesStop \/ ProducerReachesEnd \/ RebuildFails
           \/ ProducerIsRefused \/ ProducerCloses
    PROVE  MetadataInv'
  <1>1. jocRing \in RingType(JocDepth, JocJob) /\ outRing \in RingType(OutDepth, OutputJob)
    BY DEF PipelineInv, TypeOK
  <1>2. /\ producerAt' \in {"close", "done"}
        /\ jocRing' = jocRing \/ jocRing' = AfterClose(jocRing)
        /\ UNCHANGED <<plan, cancelled, outRing, bedReady, produced, job, lastJob, callerAt, frame,
                       pending, processed, writerAt, writing, written>>
    BY DEF ProducerSeesStop, ProducerReachesEnd, RebuildFails, ProducerIsRefused, ProducerCloses,
       sharedVars, callerVars, writerVars
  <1>3. UNCHANGED <<jocRing.slots, jocRing.head, jocRing.count>>
    BY <1>1, <1>2 DEF AfterClose, RingType
  <1>4. Quiet
    BY <1>2, <1>3 DEF Quiet, Taken, Begun
  <1>5. QED
    BY <1>4, QuietKeeps

LEMMA CallerQuiet ==
    ASSUME PipelineInv, MetadataInv,
           \/ CallerChecks \/ RenderFails \/ CallerReportsProgress
           \/ CallerStopsProducer \/ CallerStopsWriter \/ CallerJoins
    PROVE  MetadataInv'
  <1>1. jocRing \in RingType(JocDepth, JocJob) /\ outRing \in RingType(OutDepth, OutputJob)
    BY DEF PipelineInv, TypeOK
  <1>2. /\ \/ callerAt = "check" /\ callerAt' = "render"
           \/ callerAt = "progress" /\ callerAt' = "pop"
           \/ callerAt' \in Ended
        /\ jocRing' = jocRing \/ jocRing' = AfterClose(jocRing) \/ jocRing' = AfterAbort(jocRing)
        /\ outRing' = outRing \/ outRing' = AfterClose(outRing) \/ outRing' = AfterAbort(outRing)
        /\ UNCHANGED <<plan, cancelled, bedReady, producerAt, produced, job, lastJob, frame,
                       pending, processed, writerAt, writing, written>>
    BY DEF CallerChecks, RenderFails, CallerReportsProgress, CallerStopsProducer, CallerStopsWriter,
       CallerJoins, CallerGoes, Ended, sharedVars, producerVars, writerVars
  <1>3. UNCHANGED <<jocRing.slots, jocRing.head, jocRing.count>>
    BY <1>1, <1>2 DEF AfterClose, AfterAbort, RingType
  <1>4. UNCHANGED <<outRing.slots, outRing.head, outRing.count>>
    BY <1>1, <1>2 DEF AfterClose, AfterAbort, RingType
  <1>5. Quiet
    BY <1>2, <1>3, <1>4 DEF Quiet, Taken, Begun, Live, Ended
  <1>6. QED
    BY <1>5, QuietKeeps

LEMMA WriterQuiet ==
    ASSUME PipelineInv, MetadataInv,
           WriteFails \/ WriterCompletes \/ WriterFinishes \/ WriterAborts
    PROVE  MetadataInv'
  <1>1. outRing \in RingType(OutDepth, OutputJob)
    BY DEF PipelineInv, TypeOK
  <1>2. /\ \/ writerAt = "complete" /\ writerAt' = "pop"
           \/ writerAt' \in {"finish", "abort", "done"}
        /\ outRing' = outRing \/ outRing' = AfterAbort(outRing)
        /\ UNCHANGED <<plan, cancelled, jocRing, bedReady, producerAt, produced, job, lastJob, callerAt,
                       frame, pending, processed, writing, written>>
    BY DEF WriteFails, WriterCompletes, WriterFinishes, WriterAborts, sharedVars, producerVars, callerVars
  <1>3. UNCHANGED <<outRing.slots, outRing.head, outRing.count>>
    BY <1>1, <1>2 DEF AfterAbort, RingType
  <1>4. Quiet
    BY <1>2, <1>3 DEF Quiet, Taken, Begun
  <1>5. QED
    BY <1>4, QuietKeeps

LEMMA CancelQuiet ==
    ASSUME PipelineInv, MetadataInv, Cancel \/ UNCHANGED vars
    PROVE  MetadataInv'
  <1>1. Quiet
    BY DEF Quiet, Cancel, vars, sharedVars, producerVars, callerVars, writerVars, Taken, Begun
  <1>2. QED
    BY <1>1, QuietKeeps

\* What a step that leaves them alone keeps.
LEMMA ProducerFactsKept ==
    ASSUME FailsLast, BedKnown,
           UNCHANGED <<plan, producerAt, produced, lastJob, bedReady>>
    PROVE  FailsLast' /\ BedKnown'
  BY DEF FailsLast, BedKnown

LEMMA RenderedKept ==
    ASSUME Rendered,
           UNCHANGED <<plan, callerAt, processed, pending, outRing, writerAt, writing, written>>
    PROVE  Rendered'
  BY DEF Rendered, MetadataInTime, Begun

LEMMA BuffersKept ==
    ASSUME Buffers,
           UNCHANGED <<plan, jocRing, producerAt, produced, job, frame, Taken>>,
           callerAt' \in Live => callerAt \in Live
    PROVE  Buffers'
  BY DEF Buffers

LEMMA CollectFrameMetadata == ASSUME PipelineInv, MetadataInv, CollectFrame PROVE MetadataInv'
  <1>1. TypeOK /\ FailsLast /\ BedKnown /\ Buffers /\ Rendered /\ Threads /\ Reasons
    BY DEF PipelineInv, MetadataInv
  <1>2. /\ producerAt = "collect" /\ producerAt' = "push"
        /\ produced < N /\ plan.fails[Joc] # produced
        /\ job' = CASE plan.meta[produced] = "none" -> job
                    [] plan.meta[produced] = "joc"  -> [job EXCEPT !.update = None]
                    [] plan.meta[produced] = "oamd" -> [job EXCEPT !.update = produced]
        /\ bedReady' = (bedReady \/ plan.bed = produced)
        /\ UNCHANGED <<plan, jocRing, outRing, produced, lastJob, callerAt, frame, pending,
                       processed, writerAt, writing, written>>
    BY DEF CollectFrame, callerVars, writerVars
  <1>3. /\ produced \in Frame /\ produced \in Nat /\ produced < plan.fails[Joc]
        /\ plan.fails[Joc] \in Nat /\ plan.bed \in Nat /\ JocDepth \in Nat \ {0}
        /\ job \in JocJob /\ plan.meta[produced] \in {"none", "joc", "oamd"} /\ ~lastJob
    <2>1. /\ produced \in Nat /\ plan.fails[Joc] \in Nat /\ plan.bed \in Nat /\ JocDepth \in Nat \ {0}
          /\ job \in JocJob /\ N \in Nat /\ plan.meta \in [Frame -> {"none", "joc", "oamd"}]
      BY <1>1, MetadataFacts DEF TypeOK, PlanType
    <2>2. produced < plan.fails[Joc]
      BY <1>1, <1>2, <2>1 DEF FailsLast
    <2>3. produced \in Frame
      BY <1>2, <2>1 DEF Frame
    <2>4. ~lastJob
      BY <1>1, <1>2 DEF Threads
    <2>5. QED
      BY <2>1, <2>2, <2>3, <2>4
  <1>4. FailsLast' /\ BedKnown'
    <2>1. FailsLast'
      BY <1>1, <1>2, <1>3 DEF FailsLast
    <2>2. BedKnown'
      BY <1>1, <1>2, <1>3 DEF BedKnown
    <2>3. QED
      BY <2>1, <2>2
  <1>5. callerAt \in Live => UpdateIs(plan, produced, job'.update)
    <2>1. SUFFICES ASSUME callerAt \in Live PROVE Carries(plan.meta, produced, job'.update)
      BY DEF UpdateIs
    <2>2. CASE plan.meta[produced] = "none"
      <3>1. job' = job /\ UpdateIs(plan, produced - (JocDepth + 2), job.update)
        BY <1>1, <1>2, <2>1, <2>2 DEF Buffers
      <3>2. plan.fails[Joc] # produced - (JocDepth + 2)
        BY <1>3
      <3>3. Carries(plan.meta, produced - (JocDepth + 2), job.update)
        BY <3>1, <3>2 DEF UpdateIs
      <3>4. QED
        BY <1>3, <2>2, <3>1, <3>3, CarriesOld
    <2>3. CASE plan.meta[produced] = "joc"
      <3>1. job'.update = None
        BY <1>2, <1>3, <2>3 DEF JocJob
      <3>2. QED
        BY <1>3, <2>3, <3>1, CarriesOwn
    <2>4. CASE plan.meta[produced] = "oamd"
      <3>1. job'.update = produced
        BY <1>2, <1>3, <2>4 DEF JocJob
      <3>2. QED
        BY <1>3, <2>4, <3>1, CarriesOwn
    <2>5. QED
      BY <1>3, <2>2, <2>3, <2>4
  <1>6. Buffers'
    BY <1>1, <1>2, <1>5 DEF Buffers, Taken
  <1>7. Rendered'
    BY <1>1, <1>2, RenderedKept
  <1>8. QED
    BY <1>4, <1>6, <1>7 DEF MetadataInv

LEMMA CollectFailsMetadata == ASSUME PipelineInv, MetadataInv, CollectFails PROVE MetadataInv'
  <1>1. TypeOK /\ FailsLast /\ BedKnown /\ Buffers /\ Rendered
    BY DEF PipelineInv, MetadataInv
  <1>2. /\ producerAt = "collect" /\ producerAt' \in {"push", "close"}
        /\ plan.fails[Joc] = produced /\ lastJob' = TRUE /\ (bedReady => bedReady')
        /\ UNCHANGED <<plan, jocRing, outRing, produced, callerAt, frame, pending,
                       processed, writerAt, writing, written>>
    BY DEF CollectFails, callerVars, writerVars
  <1>3. produced \in Nat /\ plan.fails[Joc] \in Nat /\ plan.bed \in Nat
    BY <1>1, MetadataFacts
  <1>4. FailsLast' /\ BedKnown'
    <2>1. FailsLast'
      BY <1>1, <1>2, <1>3 DEF FailsLast
    <2>2. BedKnown'
      BY <1>1, <1>2, <1>3 DEF BedKnown
    <2>3. QED
      BY <2>1, <2>2
  <1>5. UpdateIs(plan, produced, job'.update)
    BY <1>2 DEF UpdateIs
  <1>6. Buffers'
    BY <1>1, <1>2, <1>5 DEF Buffers, Taken
  <1>7. Rendered'
    BY <1>1, <1>2, RenderedKept
  <1>8. QED
    BY <1>4, <1>6, <1>7 DEF MetadataInv

LEMMA ProducerPushesMetadata == ASSUME PipelineInv, MetadataInv, ProducerPushes PROVE MetadataInv'
  <1> DEFINE x == [job EXCEPT !.frame = produced]
  <1>1. TypeOK /\ FailsLast /\ BedKnown /\ Buffers /\ Rendered /\ JocQueue /\ Threads
    BY DEF PipelineInv, MetadataInv
  <1>2. /\ producerAt = "push" /\ PushReady(JocDepth, jocRing) /\ ~jocRing.closed
        /\ jocRing' = AfterPush(JocDepth, jocRing, x) /\ job' = PushLeaves(JocDepth, jocRing)
        /\ produced' = produced + 1
        /\ producerAt' = (IF lastJob THEN "close" ELSE "collect")
        /\ UNCHANGED <<plan, outRing, bedReady, lastJob, callerAt, frame, pending, processed,
                       writerAt, writing, written>>
    BY DEF ProducerPushes, PushAccepts, callerVars, writerVars
  <1>3. /\ jocRing \in RingType(JocDepth, JocJob) /\ jocRing.count \in Nat /\ jocRing.count < JocDepth
        /\ produced \in Nat /\ Taken \in Nat /\ JocDepth \in Nat \ {0}
        /\ plan.fails[Joc] \in Nat /\ plan.bed \in Nat
        /\ x \in JocJob /\ x.update = job.update
    <2>1. /\ jocRing \in RingType(JocDepth, JocJob) /\ jocRing.count \in Nat /\ produced \in Nat
          /\ Taken \in Nat /\ JocDepth \in Nat \ {0} /\ plan.fails[Joc] \in Nat /\ plan.bed \in Nat
          /\ N \in Nat
      BY <1>1, MetadataFacts
    <2>2. jocRing.count < JocDepth
      BY <1>2 DEF PushReady
    <2>3. produced \in Frame /\ job \in [frame : Frame \cup {None}, update : Frame \cup {None}]
      BY <1>1, <1>2, <2>1 DEF TypeOK, Threads, JocJob, Frame
    <2>4. x \in JocJob /\ x.update = job.update
      BY <2>3 DEF JocJob
    <2>5. QED
      BY <2>1, <2>2, <2>4
  <1> HIDE DEF x
  <1>4. /\ jocRing' \in RingType(JocDepth, JocJob)
        /\ jocRing'.count = jocRing.count + 1 /\ jocRing'.head = jocRing.head
        /\ jocRing'.closed = jocRing.closed /\ jocRing'.aborted = jocRing.aborted
        /\ At(JocDepth, jocRing, jocRing.count) \in 0 .. JocDepth - 1
        /\ jocRing'.slots = [jocRing.slots EXCEPT ![At(JocDepth, jocRing, jocRing.count)] = x]
        /\ jocRing'.slots[At(JocDepth, jocRing', jocRing.count)] = x
        /\ \A i \in 0 .. jocRing.count - 1 :
              jocRing'.slots[At(JocDepth, jocRing', i)] = jocRing.slots[At(JocDepth, jocRing, i)]
    <2>1. jocRing' = AfterPush(JocDepth, jocRing, x)
      BY <1>2
    <2>2. QED
      BY <1>3, <2>1, PushAppends
  <1>5. \A i \in jocRing.count + 1 .. JocDepth - 1 :
           jocRing'.slots[At(JocDepth, jocRing', i)] = jocRing.slots[At(JocDepth, jocRing, i)]
    <2>1. jocRing' = AfterPush(JocDepth, jocRing, x)
      BY <1>2
    <2>2. QED
      BY <1>3, <2>1, PushKeepsFree
  <1>6. FailsLast' /\ BedKnown'
    <2>1. FailsLast'
      BY <1>1, <1>2, <1>3 DEF FailsLast
    <2>2. plan.bed < produced' => plan.bed < produced \/ plan.bed = produced
      BY <1>2, <1>3
    <2>3. BedKnown'
      BY <1>1, <1>2, <2>2 DEF BedKnown
    <2>4. QED
      BY <2>1, <2>3
  <1>7. Rendered'
    BY <1>1, <1>2, RenderedKept
  <1>8. Buffers'
    <2>1. SUFFICES ASSUME callerAt \in Live
                   PROVE  /\ \A i \in 0 .. jocRing'.count - 1 :
                                UpdateIs(plan, Taken + i, jocRing'.slots[At(JocDepth, jocRing', i)].update)
                          /\ \A i \in jocRing'.count .. JocDepth - 1 :
                                UpdateIs(plan, Taken + i - (JocDepth + 1),
                                         jocRing'.slots[At(JocDepth, jocRing', i)].update)
                          /\ UpdateIs(plan, Taken - 1, frame.update)
                          /\ UpdateIs(plan, produced' - (JocDepth + 2), job'.update)
      BY <1>2 DEF Buffers, Taken
    <2>2. /\ \A i \in 0 .. jocRing.count - 1 :
                UpdateIs(plan, Taken + i, jocRing.slots[At(JocDepth, jocRing, i)].update)
          /\ \A i \in jocRing.count .. JocDepth - 1 :
                UpdateIs(plan, Taken + i - (JocDepth + 1), jocRing.slots[At(JocDepth, jocRing, i)].update)
          /\ UpdateIs(plan, Taken - 1, frame.update)
          /\ UpdateIs(plan, produced, job.update)
      BY <1>1, <1>2, <2>1 DEF Buffers
    <2>3. Taken + jocRing.count = produced
      BY <1>1, <2>1 DEF JocQueue
    <2>4. ASSUME NEW i \in 0 .. jocRing'.count - 1
          PROVE  UpdateIs(plan, Taken + i, jocRing'.slots[At(JocDepth, jocRing', i)].update)
      <3>1. CASE i = jocRing.count
        <4>1. jocRing'.slots[At(JocDepth, jocRing', i)].update = job.update
          BY <1>3, <1>4, <3>1
        <4>2. Taken + i = produced
          BY <2>3, <3>1
        <4>3. QED
          BY <2>2, <4>1, <4>2
      <3>2. CASE i # jocRing.count
        <4>1. i \in 0 .. jocRing.count - 1
          BY <1>3, <1>4, <3>2
        <4>2. jocRing'.slots[At(JocDepth, jocRing', i)] = jocRing.slots[At(JocDepth, jocRing, i)]
          BY <1>4, <4>1
        <4>3. QED
          BY <2>2, <4>1, <4>2
      <3>3. QED
        BY <3>1, <3>2
    <2>5. ASSUME NEW i \in jocRing'.count .. JocDepth - 1
          PROVE  UpdateIs(plan, Taken + i - (JocDepth + 1), jocRing'.slots[At(JocDepth, jocRing', i)].update)
      <3>1. i \in jocRing.count + 1 .. JocDepth - 1 /\ i \in jocRing.count .. JocDepth - 1
        BY <1>3, <1>4
      <3>2. jocRing'.slots[At(JocDepth, jocRing', i)] = jocRing.slots[At(JocDepth, jocRing, i)]
        BY <1>5, <3>1
      <3>3. QED
        BY <2>2, <3>1, <3>2
    <2>6. UpdateIs(plan, produced' - (JocDepth + 2), job'.update)
      <3>1. jocRing.count \in jocRing.count .. JocDepth - 1
        BY <1>3
      <3>2. UpdateIs(plan, Taken + jocRing.count - (JocDepth + 1), job'.update)
        BY <1>2, <2>2, <3>1 DEF PushLeaves
      <3>3. Taken + jocRing.count - (JocDepth + 1) = produced' - (JocDepth + 2)
        BY <1>2, <1>3, <2>3
      <3>4. QED
        BY <3>2, <3>3
    <2>7. QED
      BY <2>2, <2>4, <2>5, <2>6
  <1>9. QED
    BY <1>6, <1>7, <1>8 DEF MetadataInv

LEMMA CallerPopsMetadata == ASSUME PipelineInv, MetadataInv, CallerPops PROVE MetadataInv'
  <1>1. TypeOK /\ FailsLast /\ BedKnown /\ Buffers /\ Rendered
    BY DEF PipelineInv, MetadataInv
  <1>2. /\ callerAt = "pop"
        /\ UNCHANGED <<plan, outRing, bedReady, producerAt, produced, job, lastJob, pending,
                       processed, writerAt, writing, written>>
    BY DEF CallerPops, producerVars, writerVars
  <1>3. /\ jocRing \in RingType(JocDepth, JocJob) /\ jocRing.count \in 0 .. JocDepth
        /\ processed \in Nat /\ JocDepth \in Nat \ {0} /\ frame \in JocJob
    BY <1>1, MetadataFacts DEF TypeOK
  <1>4. FailsLast' /\ BedKnown'
    BY <1>1, <1>2, ProducerFactsKept
  <1>5. callerAt' # "push" => Rendered'
    BY <1>1, <1>2 DEF Rendered, MetadataInTime, Begun
  <1>6. CASE PopDelivers(jocRing)
    <2>1. /\ jocRing' = AfterPop(JocDepth, jocRing, frame) /\ frame' = jocRing.slots[jocRing.head]
          /\ callerAt' = "check" /\ jocRing.count # 0
      BY <1>6 DEF CallerPops, CallerGoes, PopDelivers, PopTakes
    <2>2. /\ jocRing' \in RingType(JocDepth, JocJob) /\ jocRing'.count = jocRing.count - 1
          /\ jocRing'.closed = jocRing.closed /\ jocRing'.aborted = jocRing.aborted
          /\ jocRing.head \in 0 .. JocDepth - 1 /\ jocRing.head = At(JocDepth, jocRing, 0)
          /\ jocRing'.slots = [jocRing.slots EXCEPT ![jocRing.head] = frame]
          /\ \A i \in 0 .. jocRing'.count - 1 :
                jocRing'.slots[At(JocDepth, jocRing', i)] = jocRing.slots[At(JocDepth, jocRing, i + 1)]
      BY <1>3, <2>1, PopRemovesHead
    <2>3. /\ \A i \in jocRing.count - 1 .. JocDepth - 2 :
                jocRing'.slots[At(JocDepth, jocRing', i)] = jocRing.slots[At(JocDepth, jocRing, i + 1)]
          /\ jocRing'.slots[At(JocDepth, jocRing', JocDepth - 1)] = frame
      <3>1. jocRing' = AfterPop(JocDepth, jocRing, frame) /\ jocRing.count # 0
        BY <2>1
      <3>2. QED
        BY <1>3, <3>1, PopKeepsFree
    <2>4. Taken = processed /\ Taken' = processed + 1
      BY <1>2, <1>3, <2>1 DEF Taken
    <2>5. /\ \A i \in 0 .. jocRing.count - 1 :
                UpdateIs(plan, processed + i, jocRing.slots[At(JocDepth, jocRing, i)].update)
          /\ \A i \in jocRing.count .. JocDepth - 1 :
                UpdateIs(plan, processed + i - (JocDepth + 1), jocRing.slots[At(JocDepth, jocRing, i)].update)
          /\ UpdateIs(plan, processed - 1, frame.update)
          /\ producerAt = "collect" => UpdateIs(plan, produced - (JocDepth + 2), job.update)
          /\ producerAt = "push" => UpdateIs(plan, produced, job.update)
      BY <1>1, <1>2, <2>4 DEF Buffers, Live
    <2>6. ASSUME NEW i \in 0 .. jocRing'.count - 1
          PROVE  UpdateIs(plan, Taken' + i, jocRing'.slots[At(JocDepth, jocRing', i)].update)
      <3>1. i + 1 \in 0 .. jocRing.count - 1 /\ Taken' + i = processed + (i + 1)
        BY <1>3, <2>2, <2>4
      <3>2. jocRing'.slots[At(JocDepth, jocRing', i)] = jocRing.slots[At(JocDepth, jocRing, i + 1)]
        BY <2>2
      <3>3. QED
        BY <2>5, <3>1, <3>2
    <2>7. ASSUME NEW i \in jocRing'.count .. JocDepth - 1
          PROVE  UpdateIs(plan, Taken' + i - (JocDepth + 1), jocRing'.slots[At(JocDepth, jocRing', i)].update)
      <3>1. CASE i = JocDepth - 1
        <4>1. Taken' + i - (JocDepth + 1) = processed - 1
          BY <1>3, <2>4, <3>1
        <4>2. jocRing'.slots[At(JocDepth, jocRing', i)] = frame
          BY <2>3, <3>1
        <4>3. QED
          BY <2>5, <4>1, <4>2
      <3>2. CASE i # JocDepth - 1
        <4>1. /\ i \in jocRing.count - 1 .. JocDepth - 2 /\ i + 1 \in jocRing.count .. JocDepth - 1
              /\ Taken' + i - (JocDepth + 1) = processed + (i + 1) - (JocDepth + 1)
          BY <1>3, <2>2, <2>4, <3>2
        <4>2. jocRing'.slots[At(JocDepth, jocRing', i)] = jocRing.slots[At(JocDepth, jocRing, i + 1)]
          BY <2>3, <4>1
        <4>3. QED
          BY <2>5, <4>1, <4>2
      <3>3. QED
        BY <3>1, <3>2
    <2>8. UpdateIs(plan, Taken' - 1, frame'.update)
      <3>1. 0 \in 0 .. jocRing.count - 1 /\ Taken' - 1 = processed + 0
        BY <1>3, <2>1, <2>4
      <3>2. frame' = jocRing.slots[At(JocDepth, jocRing, 0)]
        BY <2>1, <2>2
      <3>3. QED
        BY <2>5, <3>1, <3>2
    <2>9. Buffers'
      BY <1>2, <2>5, <2>6, <2>7, <2>8 DEF Buffers
    <2>10. QED
      BY <1>4, <1>5, <2>1, <2>9 DEF MetadataInv
  <1>7. CASE ~PopDelivers(jocRing)
    <2>1. callerAt' = "shutdown"
      BY <1>7 DEF CallerPops, CallerGoes
    <2>2. Buffers'
      BY <2>1 DEF Buffers, Live
    <2>3. QED
      BY <1>4, <1>5, <2>1, <2>2 DEF MetadataInv
  <1>8. QED
    BY <1>6, <1>7

\* A frame is rendered after it was collected, so after the bed before it was.
LEMMA CallerRendersMetadata == ASSUME PipelineInv, MetadataInv, CallerRenders PROVE MetadataInv'
  <1>1. TypeOK /\ FailsLast /\ BedKnown /\ Buffers /\ Rendered /\ Held /\ JocQueue
    BY DEF PipelineInv, MetadataInv
  <1>2. /\ callerAt = "render" /\ callerAt' = "push"
        /\ pending' = [frame |-> frame.frame, update |-> frame.update, bed |-> ~Adm /\ bedReady]
        /\ UNCHANGED <<plan, jocRing, outRing, bedReady, producerAt, produced, job, lastJob, frame,
                       processed, writerAt, writing, written>>
    BY DEF CallerRenders, CallerGoes, sharedVars, producerVars, writerVars
  <1>3. /\ jocRing.count \in Nat /\ produced \in Nat /\ processed \in Nat
        /\ plan.fails[Joc] \in Nat /\ plan.bed \in Nat
        /\ Taken = processed + 1 /\ Taken' = processed + 1
    BY <1>1, <1>2, MetadataFacts DEF Taken
  <1>4. FailsLast' /\ BedKnown'
    BY <1>1, <1>2, ProducerFactsKept
  <1>5. Buffers'
    BY <1>1, <1>2, <1>3 DEF Buffers, Live
  <1>6. UpdateIs(plan, processed, pending'.update)
    <2>1. UpdateIs(plan, Taken - 1, frame.update) /\ Taken - 1 = processed
      BY <1>1, <1>2, <1>3 DEF Buffers, Live
    <2>2. QED
      BY <1>2, <2>1
  <1>7. BedIs(plan, processed, pending'.bed)
    <2>1. SUFFICES ASSUME plan.fails[Joc] # processed, ~Adm, plan.bed <= processed
                   PROVE  bedReady
      BY <1>2 DEF BedIs
    <2>2. processed + 1 <= produced
      BY <1>1, <1>2, <1>3 DEF JocQueue, Live
    <2>3. produced <= plan.fails[Joc] + 1
      BY <1>1 DEF FailsLast
    <2>4. plan.bed < produced /\ plan.bed # plan.fails[Joc]
      BY <1>3, <2>1, <2>2, <2>3
    <2>5. QED
      BY <1>1, <2>4 DEF BedKnown
  <1>8. Rendered'
    BY <1>1, <1>2, <1>6, <1>7 DEF Rendered, MetadataInTime, Begun
  <1>9. QED
    BY <1>4, <1>5, <1>8 DEF MetadataInv

LEMMA CallerPushesMetadata == ASSUME PipelineInv, MetadataInv, CallerPushes PROVE MetadataInv'
  <1>1. TypeOK /\ FailsLast /\ BedKnown /\ Buffers /\ Rendered /\ OutQueue
    BY DEF PipelineInv, MetadataInv
  <1>2. /\ callerAt = "push" /\ PushReady(OutDepth, outRing)
        /\ UNCHANGED <<plan, jocRing, bedReady, producerAt, produced, job, lastJob, frame,
                       writerAt, writing, written>>
    BY DEF CallerPushes, producerVars, writerVars
  <1>3. /\ outRing \in RingType(OutDepth, OutputJob) /\ outRing.count \in Nat
        /\ processed \in Nat /\ Begun \in Nat /\ OutDepth \in Nat \ {0} /\ pending \in OutputJob
    BY <1>1, MetadataFacts DEF TypeOK
  <1>4. FailsLast' /\ BedKnown'
    BY <1>1, <1>2, ProducerFactsKept
  <1>5. CASE PushAccepts(outRing)
    <2>1. /\ outRing' = AfterPush(OutDepth, outRing, pending) /\ processed' = processed + 1
          /\ callerAt' \in {"progress", "pop"} /\ outRing.count < OutDepth
      BY <1>2, <1>5 DEF CallerPushes, CallerGoes, PushAccepts, PushReady
    <2>2. /\ outRing' \in RingType(OutDepth, OutputJob)
          /\ outRing'.count = outRing.count + 1 /\ outRing'.head = outRing.head
          /\ outRing'.closed = outRing.closed /\ outRing'.aborted = outRing.aborted
          /\ At(OutDepth, outRing, outRing.count) \in 0 .. OutDepth - 1
          /\ outRing'.slots = [outRing.slots EXCEPT ![At(OutDepth, outRing, outRing.count)] = pending]
          /\ outRing'.slots[At(OutDepth, outRing', outRing.count)] = pending
          /\ \A i \in 0 .. outRing.count - 1 :
                outRing'.slots[At(OutDepth, outRing', i)] = outRing.slots[At(OutDepth, outRing, i)]
      BY <1>3, <2>1, PushAppends
    <2>3. Taken' = Taken /\ callerAt \in Live /\ Begun' = Begun
      BY <1>2, <1>3, <2>1 DEF Taken, Begun, Live
    <2>4. Buffers'
      BY <1>1, <1>2, <2>3, BuffersKept
    <2>5. ASSUME writerAt \in {"pop", "write", "complete"}, NEW i \in 0 .. outRing'.count - 1
          PROVE  /\ UpdateIs(plan, Begun + i, outRing'.slots[At(OutDepth, outRing', i)].update)
                 /\ BedIs(plan, Begun + i, outRing'.slots[At(OutDepth, outRing', i)].bed)
      <3>1. CASE i = outRing.count
        <4>1. outRing'.slots[At(OutDepth, outRing', i)] = pending
          BY <2>2, <3>1
        <4>2. Begun + i = processed
          BY <1>1, <2>5, <3>1 DEF OutQueue
        <4>3. UpdateIs(plan, processed, pending.update) /\ BedIs(plan, processed, pending.bed)
          BY <1>1, <1>2 DEF Rendered
        <4>4. QED
          BY <4>1, <4>2, <4>3
      <3>2. CASE i # outRing.count
        <4>1. i \in 0 .. outRing.count - 1
          BY <1>3, <2>2, <3>2
        <4>2. outRing'.slots[At(OutDepth, outRing', i)] = outRing.slots[At(OutDepth, outRing, i)]
          BY <2>2, <4>1
        <4>3. QED
          BY <1>1, <2>5, <4>1, <4>2 DEF Rendered
      <3>3. QED
        BY <3>1, <3>2
    <2>6. MetadataInTime'
      BY <1>1, <1>2 DEF Rendered, MetadataInTime
    <2>7. Rendered'
      BY <1>1, <1>2, <2>1, <2>3, <2>5, <2>6 DEF Rendered
    <2>8. QED
      BY <1>4, <2>4, <2>7 DEF MetadataInv
  <1>6. CASE ~PushAccepts(outRing)
    <2>1. callerAt' = "shutdown" /\ outRing' = outRing
      BY <1>6 DEF CallerPushes, CallerGoes
    <2>2. Buffers'
      BY <2>1 DEF Buffers, Live
    <2>3. Rendered'
      BY <1>1, <1>2, <2>1 DEF Rendered, MetadataInTime, Begun
    <2>4. QED
      BY <1>4, <2>2, <2>3 DEF MetadataInv
  <1>7. QED
    BY <1>5, <1>6

LEMMA WriterPopsMetadata == ASSUME PipelineInv, MetadataInv, WriterPops PROVE MetadataInv'
  <1>1. TypeOK /\ FailsLast /\ BedKnown /\ Buffers /\ Rendered
    BY DEF PipelineInv, MetadataInv
  <1>2. /\ writerAt = "pop"
        /\ UNCHANGED <<plan, jocRing, bedReady, producerAt, produced, job, lastJob, callerAt, frame,
                       pending, processed, written>>
    BY DEF WriterPops, producerVars, callerVars
  <1>3. /\ outRing \in RingType(OutDepth, OutputJob) /\ outRing.count \in Nat
        /\ OutDepth \in Nat \ {0} /\ writing \in OutputJob /\ Len(written) \in Nat
    BY <1>1, MetadataFacts DEF TypeOK
  <1>4. FailsLast' /\ BedKnown'
    BY <1>1, <1>2, ProducerFactsKept
  <1>5. Buffers'
    BY <1>1, <1>2, BuffersKept DEF Taken
  <1>6. MetadataInTime'
    BY <1>1, <1>2 DEF Rendered, MetadataInTime
  <1>7. CASE PopDelivers(outRing)
    <2>1. /\ outRing' = AfterPop(OutDepth, outRing, writing) /\ writing' = outRing.slots[outRing.head]
          /\ writerAt' = "write" /\ outRing.count # 0
      BY <1>7 DEF WriterPops, PopDelivers, PopTakes
    <2>2. /\ outRing' \in RingType(OutDepth, OutputJob) /\ outRing'.count = outRing.count - 1
          /\ outRing'.closed = outRing.closed /\ outRing'.aborted = outRing.aborted
          /\ outRing.head \in 0 .. OutDepth - 1 /\ outRing.head = At(OutDepth, outRing, 0)
          /\ outRing'.slots = [outRing.slots EXCEPT ![outRing.head] = writing]
          /\ \A i \in 0 .. outRing'.count - 1 :
                outRing'.slots[At(OutDepth, outRing', i)] = outRing.slots[At(OutDepth, outRing, i + 1)]
      BY <1>3, <2>1, PopRemovesHead
    <2>3. Begun = Len(written) /\ Begun' = Len(written) + 1
      BY <1>2, <1>3, <2>1 DEF Begun
    <2>4. \A i \in 0 .. outRing.count - 1 :
             /\ UpdateIs(plan, Len(written) + i, outRing.slots[At(OutDepth, outRing, i)].update)
             /\ BedIs(plan, Len(written) + i, outRing.slots[At(OutDepth, outRing, i)].bed)
      BY <1>1, <1>2, <2>3 DEF Rendered
    <2>5. ASSUME NEW i \in 0 .. outRing'.count - 1
          PROVE  /\ UpdateIs(plan, Begun' + i, outRing'.slots[At(OutDepth, outRing', i)].update)
                 /\ BedIs(plan, Begun' + i, outRing'.slots[At(OutDepth, outRing', i)].bed)
      <3>1. i + 1 \in 0 .. outRing.count - 1 /\ Begun' + i = Len(written) + (i + 1)
        BY <1>3, <2>2, <2>3
      <3>2. outRing'.slots[At(OutDepth, outRing', i)] = outRing.slots[At(OutDepth, outRing, i + 1)]
        BY <2>2
      <3>3. QED
        BY <2>4, <3>1, <3>2
    <2>6. UpdateIs(plan, Len(written), writing'.update) /\ BedIs(plan, Len(written), writing'.bed)
      <3>1. 0 \in 0 .. outRing.count - 1 /\ Len(written) + 0 = Len(written)
        BY <1>3, <2>1
      <3>2. writing' = outRing.slots[At(OutDepth, outRing, 0)]
        BY <2>1, <2>2
      <3>3. QED
        BY <2>4, <3>1, <3>2
    <2>7. Rendered'
      BY <1>1, <1>2, <1>6, <2>5, <2>6 DEF Rendered
    <2>8. QED
      BY <1>4, <1>5, <2>7 DEF MetadataInv
  <1>8. CASE ~PopDelivers(outRing)
    <2>1. writerAt' = "finish"
      BY <1>8 DEF WriterPops
    <2>2. Rendered'
      BY <1>1, <1>2, <1>6, <2>1 DEF Rendered
    <2>3. QED
      BY <1>4, <1>5, <2>2 DEF MetadataInv
  <1>9. QED
    BY <1>7, <1>8

LEMMA WriterWritesMetadata == ASSUME PipelineInv, MetadataInv, WriterWrites PROVE MetadataInv'
  <1>1. TypeOK /\ FailsLast /\ BedKnown /\ Buffers /\ Rendered
    BY DEF PipelineInv, MetadataInv
  <1>2. /\ writerAt = "write" /\ writerAt' = "complete" /\ written' = Append(written, writing)
        /\ UNCHANGED <<plan, jocRing, outRing, bedReady, producerAt, produced, job, lastJob, callerAt,
                       frame, pending, processed, writing>>
    BY DEF WriterWrites, sharedVars, producerVars, callerVars
  <1>3. written \in Seq(OutputJob) /\ writing \in OutputJob /\ Len(written) \in Nat
    BY <1>1 DEF TypeOK
  <1>4. FailsLast' /\ BedKnown'
    BY <1>1, <1>2, ProducerFactsKept
  <1>5. Buffers'
    BY <1>1, <1>2, BuffersKept DEF Taken
  <1>6. /\ Len(written') = Len(written) + 1 /\ written'[Len(written) + 1] = writing
        /\ \A i \in 1 .. Len(written) : written'[i] = written[i]
    BY <1>2, <1>3
  <1>7. Begun' = Begun
    BY <1>2, <1>3, <1>6 DEF Begun
  <1>8. UpdateIs(plan, Len(written), writing.update) /\ BedIs(plan, Len(written), writing.bed)
    BY <1>1, <1>2 DEF Rendered
  <1>9. MetadataInTime'
    <2>1. SUFFICES ASSUME NEW i \in 1 .. Len(written'), plan.fails[Joc] # i - 1
                   PROVE  /\ Carries(plan.meta, i - 1, written'[i].update)
                          /\ ~Adm /\ plan.bed <= i - 1 => written'[i].bed
      BY <1>2 DEF MetadataInTime
    <2>2. CASE i = Len(written) + 1
      <3>1. i - 1 = Len(written) /\ written'[i] = writing
        BY <1>3, <1>6, <2>2
      <3>2. QED
        BY <1>8, <2>1, <3>1 DEF UpdateIs, BedIs
    <2>3. CASE i # Len(written) + 1
      <3>1. i \in 1 .. Len(written)
        BY <1>3, <1>6, <2>3
      <3>2. written'[i] = written[i]
        BY <1>6, <3>1
      <3>3. QED
        BY <1>1, <2>1, <3>1, <3>2 DEF Rendered, MetadataInTime
    <2>4. QED
      BY <2>2, <2>3
  <1>10. Rendered'
    BY <1>1, <1>2, <1>7, <1>9 DEF Rendered
  <1>11. QED
    BY <1>4, <1>5, <1>10 DEF MetadataInv

\* Every frame is written with the update its buffer gives it and, from the frame
\* that declares the bed on, with the bed, whatever the depths of the rings, the
\* pattern of metadata, the failures and the interleaving of the three threads.
THEOREM MetadataIsInTime == Spec => []MetadataInTime
  <1>1. ASSUME PipelineInv, MetadataInv, [Next]_vars PROVE MetadataInv'
    <2>1. CASE Producer
      BY <1>1, <2>1, ProducerQuiet, CollectFrameMetadata, CollectFailsMetadata, ProducerPushesMetadata
         DEF Producer
    <2>2. CASE Caller
      BY <1>1, <2>2, CallerQuiet, CallerPopsMetadata, CallerRendersMetadata, CallerPushesMetadata
         DEF Caller
    <2>3. CASE Writer
      BY <1>1, <2>3, WriterQuiet, WriterPopsMetadata, WriterWritesMetadata DEF Writer
    <2>4. CASE Cancel \/ UNCHANGED vars
      BY <1>1, <2>4, CancelQuiet
    <2>5. QED
      BY <1>1, <2>1, <2>2, <2>3, <2>4 DEF Next
  <1>2. MetadataInv => MetadataInTime
    BY DEF MetadataInv, Rendered
  <1>3. QED
    BY <1>1, <1>2, InitMetadata, PipelineInvHolds, PTL DEF Spec

=============================================================================
