--------------------------- MODULE FrameRingProofs ---------------------------
(***************************************************************************)
(* Proofs about FrameRing for every capacity and every number of items.    *)
(***************************************************************************)
EXTENDS FrameRing, Integers, TLAPS

(***************************************************************************)
(* What push and pop do to the queued payloads of a ring of any size.      *)
(***************************************************************************)
\* Indices wrap around at most once, so % is a single subtraction.
LEMMA ModWrap ==
    ASSUME NEW d \in Nat \ {0}, NEW h \in 0 .. d - 1, NEW i \in 0 .. d
    PROVE  (h + i) % d = IF h + i < d THEN h + i ELSE h + i - d
  OBVIOUS

\* Different offsets from the head are different slots.
LEMMA AtInjective ==
    ASSUME NEW d \in Nat \ {0}, NEW h \in 0 .. d - 1,
           NEW i \in 0 .. d - 1, NEW j \in 0 .. d - 1, i # j
    PROVE  (h + i) % d # (h + j) % d
  <1>1. (h + i) % d = IF h + i < d THEN h + i ELSE h + i - d
    BY ModWrap, i \in 0 .. d
  <1>2. (h + j) % d = IF h + j < d THEN h + j ELSE h + j - d
    BY ModWrap, j \in 0 .. d
  <1> DEFINE a == (h + i) % d
             b == (h + j) % d
  <1>3. /\ a = IF h + i < d THEN h + i ELSE h + i - d
        /\ b = IF h + j < d THEN h + j ELSE h + j - d
    BY <1>1, <1>2
  <1> HIDE DEF a, b
  <1>4. a # b
    BY <1>3
  <1>5. QED BY <1>4 DEF a, b

\* Moving the head by one shifts the offsets by one.
LEMMA AtShift ==
    ASSUME NEW d \in Nat \ {0}, NEW h \in 0 .. d - 1, NEW i \in 0 .. d - 1, i + 1 < d
    PROVE  (((h + 1) % d) + i) % d = (h + (i + 1)) % d
  <1>1. (h + 1) % d = IF h + 1 < d THEN h + 1 ELSE h + 1 - d
    BY ModWrap, 1 \in 0 .. d
  <1>2. (h + (i + 1)) % d = IF h + (i + 1) < d THEN h + (i + 1) ELSE h + (i + 1) - d
    BY ModWrap, i + 1 \in 0 .. d
  <1>3. (h + 1) % d \in 0 .. d - 1
    BY <1>1
  <1> DEFINE k == (h + 1) % d
             m == (h + (i + 1)) % d
  <1>4. /\ k \in 0 .. d - 1
        /\ k = IF h + 1 < d THEN h + 1 ELSE h + 1 - d
        /\ m = IF h + (i + 1) < d THEN h + (i + 1) ELSE h + (i + 1) - d
    BY <1>1, <1>2, <1>3
  <1> HIDE DEF k, m
  <1>5. (k + i) % d = IF k + i < d THEN k + i ELSE k + i - d
    BY <1>4, ModWrap, i \in 0 .. d
  <1> DEFINE n == (k + i) % d
  <1>6. n = IF k + i < d THEN k + i ELSE k + i - d
    BY <1>5
  <1> HIDE DEF n
  <1>7. n = m
    BY <1>4, <1>6
  <1>8. QED BY <1>7 DEF k, m, n

\* Every slot index is one of the ring's.
LEMMA AtInRange ==
    ASSUME NEW d \in Nat \ {0}, NEW h \in 0 .. d - 1, NEW i \in 0 .. d
    PROVE  (h + i) % d \in 0 .. d - 1
  <1>1. (h + i) % d = IF h + i < d THEN h + i ELSE h + i - d
    BY ModWrap
  <1>2. QED BY <1>1

\* push appends its payload behind the queued ones, and writes one slot only.
LEMMA PushAppends ==
    ASSUME NEW d \in Nat \ {0}, NEW P, NEW r \in RingType(d, P), NEW x \in P, r.count < d
    PROVE  LET s == AfterPush(d, r, x) IN
           /\ s \in RingType(d, P)
           /\ s.count = r.count + 1 /\ s.head = r.head
           /\ s.closed = r.closed /\ s.aborted = r.aborted
           /\ At(d, r, r.count) \in 0 .. d - 1
           /\ s.slots = [r.slots EXCEPT ![At(d, r, r.count)] = x]
           /\ s.slots[At(d, s, r.count)] = x
           /\ \A i \in 0 .. r.count - 1 : s.slots[At(d, s, i)] = r.slots[At(d, r, i)]
  <1> DEFINE s == AfterPush(d, r, x)
             k == At(d, r, r.count)
  <1>1. /\ r.head \in 0 .. d - 1 /\ r.count \in 0 .. d
        /\ r.slots \in [0 .. d - 1 -> P]
    BY DEF RingType
  <1>2. k \in 0 .. d - 1
    BY <1>1, AtInRange DEF At
  <1>3. \A i \in 0 .. r.count - 1 : At(d, r, i) \in 0 .. d - 1 /\ At(d, r, i) # k
    <2> TAKE i \in 0 .. r.count - 1
    <2>1. i \in 0 .. d - 1 /\ i \in 0 .. d /\ r.count \in 0 .. d - 1 /\ i # r.count
      BY <1>1
    <2>2. QED BY <1>1, <2>1, AtInRange, AtInjective DEF At
  <1>4. /\ s.slots = [r.slots EXCEPT ![k] = x]
        /\ s.count = r.count + 1 /\ s.head = r.head
        /\ s.closed = r.closed /\ s.aborted = r.aborted
    BY DEF AfterPush, RingType
  <1>5. \A i : At(d, s, i) = At(d, r, i)
    BY <1>4 DEF At
  <1> HIDE DEF k
  <1>6. s \in RingType(d, P)
    <2>1. [r.slots EXCEPT ![k] = x] \in [0 .. d - 1 -> P]
      BY <1>1, <1>2
    <2>2. s = [slots |-> [r.slots EXCEPT ![k] = x], head |-> r.head, count |-> r.count + 1,
               closed |-> r.closed, aborted |-> r.aborted]
      BY DEF AfterPush, k
    <2> HIDE DEF s
    <2>3. QED BY <1>1, <2>1, <2>2 DEF RingType
  <1> HIDE DEF s
  <1>7. s.slots[At(d, s, r.count)] = x
    BY <1>1, <1>2, <1>4, <1>5 DEF k
  <1>8. \A i \in 0 .. r.count - 1 : s.slots[At(d, s, i)] = r.slots[At(d, r, i)]
    BY <1>1, <1>2, <1>3, <1>4, <1>5
  <1>9. QED BY <1>2, <1>4, <1>6, <1>7, <1>8 DEF s, k

\* pop removes the payload at the head and keeps the order of the others.
LEMMA PopRemovesHead ==
    ASSUME NEW d \in Nat \ {0}, NEW P, NEW r \in RingType(d, P), NEW x \in P, r.count # 0
    PROVE  LET s == AfterPop(d, r, x) IN
           /\ s \in RingType(d, P)
           /\ s.count = r.count - 1
           /\ s.closed = r.closed /\ s.aborted = r.aborted
           /\ r.head \in 0 .. d - 1 /\ r.head = At(d, r, 0)
           /\ s.slots = [r.slots EXCEPT ![r.head] = x]
           /\ \A i \in 0 .. s.count - 1 : s.slots[At(d, s, i)] = r.slots[At(d, r, i + 1)]
  <1> DEFINE s == AfterPop(d, r, x)
             h == (r.head + 1) % d
  <1>1. /\ r.head \in 0 .. d - 1 /\ r.count \in 1 .. d
        /\ r.slots \in [0 .. d - 1 -> P]
    BY DEF RingType
  <1>2. h \in 0 .. d - 1
    BY <1>1, AtInRange, 1 \in 0 .. d
  <1>3. r.head = At(d, r, 0)
    <2>1. (r.head + 0) % d = IF r.head + 0 < d THEN r.head + 0 ELSE r.head + 0 - d
      BY <1>1, ModWrap, 0 \in 0 .. d
    <2>2. QED BY <1>1, <2>1 DEF At
  <1>4. s = [slots |-> [r.slots EXCEPT ![r.head] = x], head |-> h, count |-> r.count - 1,
             closed |-> r.closed, aborted |-> r.aborted]
    BY DEF AfterPop
  <1>5. \A i \in 0 .. r.count - 2 :
           /\ At(d, s, i) = At(d, r, i + 1)
           /\ At(d, r, i + 1) \in 0 .. d - 1 /\ At(d, r, i + 1) # r.head
    <2> TAKE i \in 0 .. r.count - 2
    <2>1. /\ i \in 0 .. d - 1 /\ i + 1 < d /\ i + 1 \in 0 .. d - 1 /\ i + 1 \in 0 .. d
          /\ 0 \in 0 .. d - 1 /\ i + 1 # 0
      BY <1>1
    <2>2. s.head = h
      BY <1>4
    <2>3. At(d, s, i) = At(d, r, i + 1)
      BY <1>1, <2>1, <2>2, AtShift DEF At
    <2>4. At(d, r, i + 1) \in 0 .. d - 1 /\ At(d, r, i + 1) # At(d, r, 0)
      BY <1>1, <2>1, AtInRange, AtInjective DEF At
    <2>5. QED BY <1>3, <2>3, <2>4
  <1> HIDE DEF s, h
  <1>6. s \in RingType(d, P)
    <2>1. [r.slots EXCEPT ![r.head] = x] \in [0 .. d - 1 -> P]
      BY <1>1
    <2>2. r.count - 1 \in 0 .. d
      BY <1>1
    <2>3. QED BY <1>1, <1>2, <1>4, <2>1, <2>2 DEF RingType
  <1>7. \A i \in 0 .. s.count - 1 : s.slots[At(d, s, i)] = r.slots[At(d, r, i + 1)]
    <2> TAKE i \in 0 .. s.count - 1
    <2>1. i \in 0 .. r.count - 2
      BY <1>1, <1>4
    <2>2. QED BY <1>1, <1>4, <1>5, <2>1
  <1>8. /\ s.count = r.count - 1 /\ s.closed = r.closed /\ s.aborted = r.aborted
        /\ s.slots = [r.slots EXCEPT ![r.head] = x]
    BY <1>4
  <1>9. QED BY <1>1, <1>3, <1>6, <1>7, <1>8 DEF s

-----------------------------------------------------------------------------
\* A constructed ring has at least one slot, whatever capacity is asked for.
LEMMA AtLeastOneSlot == D \in Nat \ {0}
  BY FrameRingAssumption DEF D, SlotCount

-----------------------------------------------------------------------------
(***************************************************************************)
(* The inductive invariant: the checked invariants, and what the two sides *)
(* hold outside the ring while a call is in progress.                      *)
(***************************************************************************)
HeldOK ==
    /\ pc[Producer] = "push" => held[Producer].item = accepted + 1 /\ accepted < MaxItems
    /\ pc[Producer] \in {"idle", "push", "refused", "gone"}
    /\ pc[Consumer] \in {"idle", "pop", "refused", "gone"}
    /\ delivered # 0 => held[Consumer].item = delivered

RingInv == TypeOK /\ NoLostWakeup /\ QueueIsFifo /\ BuffersConserved /\ HeldOK

LEMMA InitRingInv == Init => RingInv
  <1> SUFFICES ASSUME Init PROVE RingInv
    OBVIOUS
  <1> USE AtLeastOneSlot, FrameRingAssumption
  <1>1. TypeOK
    BY DEF Init, TypeOK, NewRing, RingType, Payload, Buffer, Thread, Producer, Consumer
  <1>2. NoLostWakeup
    BY DEF Init, NoLostWakeup
  <1>3. QueueIsFifo
    BY DEF Init, QueueIsFifo, NewRing
  <1>4. BuffersConserved
    BY DEF Init, BuffersConserved, NewRing, Thread, Producer, Consumer
  <1>5. HeldOK
    BY DEF Init, HeldOK, Thread, Producer, Consumer
  <1>6. QED BY <1>1, <1>2, <1>3, <1>4, <1>5 DEF RingInv

\* What the constants and the invariant say of the values, in one place.
LEMMA RingFacts ==
    ASSUME RingInv
    PROVE  /\ D \in Nat \ {0}
           /\ ring \in RingType(D, Payload)
           /\ ring.head \in 0 .. D - 1 /\ ring.count \in 0 .. D
           /\ ring.closed \in BOOLEAN /\ ring.aborted \in BOOLEAN
           /\ ring.slots \in [0 .. D - 1 -> Payload]
           /\ held \in [Thread -> Payload]
           /\ waiting \in [{"item", "space"} -> SUBSET Thread]
           /\ pc \in [Thread -> {"idle", "push", "pop", "refused", "gone"}]
           /\ accepted \in Nat /\ delivered \in Nat
           /\ MaxItems \in Nat
           /\ accepted <= MaxItems
           /\ accepted = delivered + ring.count
  BY AtLeastOneSlot, FrameRingAssumption DEF RingInv, TypeOK, RingType, QueueIsFifo

\* A push that stores.
LEMMA PushStoresRingInv == RingInv /\ PushStores => RingInv'
  <1> SUFFICES ASSUME RingInv, PushStores PROVE RingInv'
    OBVIOUS
  <1> DEFINE x == held[Producer]
             k == At(D, ring, ring.count)
  <1>1. /\ D \in Nat \ {0} /\ x \in Payload /\ ring.count < D
        /\ ring \in RingType(D, Payload) /\ ring.count \in 0 .. D
        /\ ring.slots \in [0 .. D - 1 -> Payload]
        /\ pc[Producer] = "push" /\ ring' = AfterPush(D, ring, x)
        /\ x.item = accepted + 1 /\ accepted < MaxItems
        /\ ~ring.closed
    BY RingFacts DEF PushStores, PushReady, PushAccepts, RingInv, HeldOK, Thread
  <1>2. /\ ring' \in RingType(D, Payload)
        /\ ring'.count = ring.count + 1 /\ ring'.head = ring.head
        /\ ring'.closed = ring.closed
        /\ k \in 0 .. D - 1
        /\ ring'.slots = [ring.slots EXCEPT ![k] = x]
        /\ ring'.slots[At(D, ring', ring.count)] = x
        /\ \A i \in 0 .. ring.count - 1 :
              ring'.slots[At(D, ring', i)] = ring.slots[At(D, ring, i)]
    BY <1>1, PushAppends
  <1> HIDE DEF k
  <1>3. /\ held' = [held EXCEPT ![Producer] = ring.slots[k]]
        /\ accepted' = accepted + 1 /\ delivered' = delivered
        /\ pc' = [pc EXCEPT ![Producer] = "idle"]
        /\ \/ waiting["item"] = {} /\ waiting' = waiting
           \/ \E t \in waiting["item"] :
                waiting' = [waiting EXCEPT !["item"] = @ \ {t}]
    BY DEF PushStores, PushLeaves, Return, NotifyOne, k
  <1>4. TypeOK'
    <2>1. held' \in [Thread -> Payload]
      BY <1>1, <1>2, <1>3, RingFacts DEF Thread
    <2>2. waiting' \in [{"item", "space"} -> SUBSET Thread]
      BY <1>3, RingFacts
    <2>3. pc' \in [Thread -> {"idle", "push", "pop", "refused", "gone"}]
      BY <1>3, RingFacts DEF Thread
    <2>4. accepted' \in 0 .. MaxItems /\ delivered' \in 0 .. MaxItems
      BY <1>1, <1>3, RingFacts DEF RingInv, TypeOK
    <2>5. QED BY <1>2, <2>1, <2>2, <2>3, <2>4 DEF TypeOK
  <1>5. NoLostWakeup'
    <2>1. waiting["item"] \subseteq {Consumer}
      BY DEF RingInv, NoLostWakeup
    <2>2. waiting'["item"] = {}
      BY <1>3, <2>1, RingFacts
    <2>3. waiting'["space"] = waiting["space"]
      BY <1>3, RingFacts
    <2>4. waiting["space"] = {}
      BY <1>1 DEF RingInv, NoLostWakeup, PushReady
    <2>5. QED BY <2>2, <2>3, <2>4 DEF NoLostWakeup
  <1>6. QueueIsFifo'
    <2>1. accepted' = delivered' + ring'.count
      BY <1>2, <1>3, RingFacts
    <2>2. ASSUME NEW i \in 0 .. ring'.count - 1
          PROVE  ring'.slots[At(D, ring', i)].item = delivered' + i + 1
      <3>1. CASE i = ring.count
        BY <1>1, <1>2, <1>3, <3>1, RingFacts
      <3>2. CASE i # ring.count
        <4>1. i \in 0 .. ring.count - 1
          BY <1>1, <1>2, <3>2
        <4>2. ring.slots[At(D, ring, i)].item = delivered + i + 1
          BY <4>1 DEF RingInv, QueueIsFifo
        <4>3. QED BY <1>2, <1>3, <4>1, <4>2
      <3>3. QED BY <3>1, <3>2
    <2>3. QED BY <2>1, <2>2 DEF QueueIsFifo
  <1>7. BuffersConserved'
    <2>1. \A i \in 0 .. D - 1 : ring'.slots[i] = IF i = k THEN x ELSE ring.slots[i]
      BY <1>1, <1>2
    <2>2. held'[Producer] = ring.slots[k] /\ held'[Consumer] = held[Consumer]
      BY <1>3, RingFacts DEF Thread, Producer, Consumer
    <2>3. BuffersConserved
      BY DEF RingInv
    <2>4. QED BY <1>2, <2>1, <2>2, <2>3 DEF BuffersConserved, Thread
  <1>8. HeldOK'
    <2>1. pc'[Producer] = "idle" /\ pc'[Consumer] = pc[Consumer]
      BY <1>3, RingFacts DEF Thread, Producer, Consumer
    <2>2. held'[Consumer] = held[Consumer]
      BY <1>3, RingFacts DEF Thread, Producer, Consumer
    <2>3. QED BY <1>3, <2>1, <2>2 DEF RingInv, HeldOK
  <1>9. QED BY <1>4, <1>5, <1>6, <1>7, <1>8 DEF RingInv

\* A pop that delivers.
LEMMA PopTakesHeadRingInv == RingInv /\ PopTakesHead => RingInv'
  <1> SUFFICES ASSUME RingInv, PopTakesHead PROVE RingInv'
    OBVIOUS
  <1> DEFINE x == held[Consumer]
             h == ring.head
  <1>1. /\ D \in Nat \ {0} /\ x \in Payload /\ ring.count # 0
        /\ ring \in RingType(D, Payload) /\ ring.count \in 0 .. D
        /\ ring.slots \in [0 .. D - 1 -> Payload]
        /\ pc[Consumer] = "pop" /\ ring' = AfterPop(D, ring, x)
    BY RingFacts DEF PopTakesHead, PopDelivers, Thread
  <1>2. /\ ring' \in RingType(D, Payload)
        /\ ring'.count = ring.count - 1
        /\ ring'.closed = ring.closed
        /\ h \in 0 .. D - 1 /\ h = At(D, ring, 0)
        /\ ring'.slots = [ring.slots EXCEPT ![h] = x]
        /\ \A i \in 0 .. ring'.count - 1 :
              ring'.slots[At(D, ring', i)] = ring.slots[At(D, ring, i + 1)]
    BY <1>1, PopRemovesHead
  <1> HIDE DEF h
  <1>3. /\ held' = [held EXCEPT ![Consumer] = ring.slots[h]]
        /\ accepted' = accepted /\ delivered' = delivered + 1
        /\ pc' = [pc EXCEPT ![Consumer] = "idle"]
        /\ \/ waiting["space"] = {} /\ waiting' = waiting
           \/ \E t \in waiting["space"] :
                waiting' = [waiting EXCEPT !["space"] = @ \ {t}]
    BY DEF PopTakesHead, PopTakes, Return, NotifyOne, h
  <1>4. ring.slots[h].item = delivered + 1
    <2>1. 0 \in 0 .. ring.count - 1
      BY <1>1
    <2>2. ring.slots[At(D, ring, 0)].item = delivered + 0 + 1
      BY <2>1 DEF RingInv, QueueIsFifo
    <2>3. QED BY <1>2, <2>2, RingFacts
  <1>5. TypeOK'
    <2>1. held' \in [Thread -> Payload]
      BY <1>1, <1>2, <1>3, RingFacts DEF Thread
    <2>2. waiting' \in [{"item", "space"} -> SUBSET Thread]
      BY <1>3, RingFacts
    <2>3. pc' \in [Thread -> {"idle", "push", "pop", "refused", "gone"}]
      BY <1>3, RingFacts DEF Thread
    <2>4. accepted' \in 0 .. MaxItems /\ delivered' \in 0 .. MaxItems
      BY <1>1, <1>3, RingFacts DEF RingInv, TypeOK
    <2>5. QED BY <1>2, <2>1, <2>2, <2>3, <2>4 DEF TypeOK
  <1>6. NoLostWakeup'
    <2>1. waiting["space"] \subseteq {Producer}
      BY DEF RingInv, NoLostWakeup
    <2>2. waiting'["space"] = {}
      BY <1>3, <2>1, RingFacts
    <2>3. waiting'["item"] = waiting["item"]
      BY <1>3, RingFacts
    <2>4. waiting["item"] = {}
      BY <1>1 DEF RingInv, NoLostWakeup, PopReady
    <2>5. QED BY <2>2, <2>3, <2>4 DEF NoLostWakeup
  <1>7. QueueIsFifo'
    <2>0. /\ accepted = delivered + ring.count
          /\ accepted \in Nat /\ delivered \in Nat /\ ring.count \in Nat
      BY RingFacts
    <2>1. accepted' = delivered' + ring'.count
      <3>1. /\ accepted' = accepted /\ delivered' = delivered + 1
            /\ ring'.count = ring.count - 1
        BY <1>2, <1>3
      <3>2. QED BY <2>0, <3>1
    <2>2. ASSUME NEW i \in 0 .. ring'.count - 1
          PROVE  ring'.slots[At(D, ring', i)].item = delivered' + i + 1
      <3>1. i + 1 \in 0 .. ring.count - 1 /\ i \in Nat
        BY <1>1, <1>2
      <3>2. ring.slots[At(D, ring, i + 1)].item = delivered + (i + 1) + 1
        BY <3>1 DEF RingInv, QueueIsFifo
      <3>3. ring'.slots[At(D, ring', i)] = ring.slots[At(D, ring, i + 1)]
        BY <1>2
      <3>4. delivered' = delivered + 1
        BY <1>3
      <3>5. QED BY <2>0, <3>1, <3>2, <3>3, <3>4
    <2>3. QED BY <2>1, <2>2 DEF QueueIsFifo
  <1>8. BuffersConserved'
    <2>1. \A i \in 0 .. D - 1 : ring'.slots[i] = IF i = h THEN x ELSE ring.slots[i]
      BY <1>1, <1>2
    <2>2. held'[Consumer] = ring.slots[h] /\ held'[Producer] = held[Producer]
      BY <1>3, RingFacts DEF Thread, Producer, Consumer
    <2>3. BuffersConserved
      BY DEF RingInv
    <2>4. QED BY <1>2, <2>1, <2>2, <2>3 DEF BuffersConserved, Thread
  <1>9. HeldOK'
    <2>1. pc'[Consumer] = "idle" /\ pc'[Producer] = pc[Producer]
      BY <1>3, RingFacts DEF Thread, Producer, Consumer
    <2>2. held'[Consumer] = ring.slots[h] /\ held'[Producer] = held[Producer]
      BY <1>3, RingFacts DEF Thread, Producer, Consumer
    <2>3. QED BY <1>3, <1>4, <2>1, <2>2 DEF RingInv, HeldOK
  <1>10. QED BY <1>5, <1>6, <1>7, <1>8, <1>9 DEF RingInv

\* Calls that park, are refused, begin, end the ring or wake up by themselves
\* leave the slots and the counts alone.
LEMMA OtherStepsRingInv ==
    ASSUME RingInv,
           \/ CallPush \/ PushWaits \/ PushFails \/ CallPop \/ PopWaits \/ PopFails
           \/ \E t \in Thread : CloseRing(t) \/ AbortRing(t) \/ SpuriousWakeup(t)
           \/ UNCHANGED vars
    PROVE  RingInv'
  <1> USE RingFacts
  <1>1. CASE CallPush
    <2>1. TypeOK'
      <3>1. held' \in [Thread -> Payload]
        BY <1>1 DEF CallPush, Thread, Payload
      <3>2. QED BY <1>1, <3>1 DEF CallPush, Return, RingInv, TypeOK, Thread
    <2>2. NoLostWakeup'
      BY <1>1 DEF CallPush, Return, RingInv, NoLostWakeup, Thread, Producer, Consumer,
                  PopReady, PushReady
    <2>3. QueueIsFifo'
      BY <1>1 DEF CallPush, RingInv, QueueIsFifo, At
    <2>4. BuffersConserved'
      <3>1. \A t \in Thread : held'[t].buffer = held[t].buffer
        BY <1>1 DEF CallPush, Thread, Payload
      <3>2. ring' = ring
        BY <1>1 DEF CallPush
      <3>3. QED BY <3>1, <3>2 DEF RingInv, BuffersConserved, Thread
    <2>5. HeldOK'
      BY <1>1 DEF CallPush, Return, RingInv, HeldOK, Thread, Producer, Consumer, Payload
    <2>6. QED BY <2>1, <2>2, <2>3, <2>4, <2>5 DEF RingInv
  <1>2. CASE PushWaits
    <2>1. UNCHANGED <<ring, pc, held, accepted, delivered>>
      BY <1>2 DEF PushWaits, Park
    <2>2. TypeOK' /\ NoLostWakeup'
      BY <1>2 DEF PushWaits, Park, RingInv, TypeOK, NoLostWakeup, Thread, Producer, Consumer,
                  PopReady, PushReady
    <2>3. QED BY <2>1, <2>2 DEF RingInv, QueueIsFifo, BuffersConserved, HeldOK, At
  <1>3. CASE PopWaits
    <2>1. UNCHANGED <<ring, pc, held, accepted, delivered>>
      BY <1>3 DEF PopWaits, Park
    <2>2. TypeOK' /\ NoLostWakeup'
      BY <1>3 DEF PopWaits, Park, RingInv, TypeOK, NoLostWakeup, Thread, Producer, Consumer,
                  PopReady, PushReady
    <2>3. QED BY <2>1, <2>2 DEF RingInv, QueueIsFifo, BuffersConserved, HeldOK, At
  <1>4. CASE PushFails \/ PopFails \/ CallPop
    <2>1. UNCHANGED <<ring, waiting, held, accepted, delivered>>
      BY <1>4 DEF PushFails, PopFails, CallPop
    <2>2. PICK t \in Thread, s \in {"refused", "pop"} :
            /\ pc' = [pc EXCEPT ![t] = s]
            /\ ~Parked(t) \/ pc[t] = "idle"
            /\ t = Producer => s = "refused"
      BY <1>4 DEF PushFails, PopFails, CallPop, Return, Thread, Producer, Consumer
    <2>3. TypeOK'
      BY <2>1, <2>2 DEF RingInv, TypeOK
    <2>4. NoLostWakeup'
      BY <2>1, <2>2 DEF RingInv, NoLostWakeup, Parked, Thread, Producer, Consumer,
                        PopReady, PushReady
    <2>5. HeldOK'
      BY <2>1, <2>2 DEF RingInv, HeldOK, Thread, Producer, Consumer
    <2>6. QED BY <2>1, <2>3, <2>4, <2>5 DEF RingInv, QueueIsFifo, BuffersConserved, At
  <1>5. ASSUME NEW t \in Thread, CloseRing(t) \/ AbortRing(t)
        PROVE  RingInv'
    <2>1. /\ ring' \in RingType(D, Payload)
          /\ ring'.slots = ring.slots /\ ring'.head = ring.head /\ ring'.count = ring.count
      BY <1>5 DEF CloseRing, AbortRing, AfterClose, AfterAbort, RingType
    <2>2. /\ UNCHANGED <<held, accepted, delivered>>
          /\ waiting' = [c \in DOMAIN waiting |-> {}]
          /\ pc[t] \in {"idle", "refused"} /\ pc' = [pc EXCEPT ![t] = "gone"]
      BY <1>5 DEF CloseRing, AbortRing, NotifyAll, Return
    <2>3. TypeOK' /\ NoLostWakeup' /\ HeldOK'
      BY <2>1, <2>2 DEF RingInv, TypeOK, NoLostWakeup, HeldOK, Thread, Producer, Consumer
    <2>4. QueueIsFifo' /\ BuffersConserved'
      BY <2>1, <2>2 DEF RingInv, QueueIsFifo, BuffersConserved, At
    <2>5. QED BY <2>3, <2>4 DEF RingInv
  <1>6. ASSUME NEW t \in Thread, SpuriousWakeup(t)
        PROVE  RingInv'
    <2>1. /\ UNCHANGED <<ring, pc, held, accepted, delivered>>
          /\ waiting' = [c \in DOMAIN waiting |-> waiting[c] \ {t}]
      BY <1>6 DEF SpuriousWakeup
    <2>2. TypeOK' /\ NoLostWakeup'
      BY <2>1 DEF RingInv, TypeOK, NoLostWakeup, PopReady, PushReady
    <2>3. QED BY <2>1, <2>2 DEF RingInv, QueueIsFifo, BuffersConserved, HeldOK, At
  <1>7. CASE UNCHANGED vars
    BY <1>7 DEF vars, RingInv, TypeOK, NoLostWakeup, QueueIsFifo, BuffersConserved, HeldOK,
                At, PopReady, PushReady
  <1>8. QED BY <1>1, <1>2, <1>3, <1>4, <1>5, <1>6, <1>7

\* The inductive invariant holds in every reachable state.
THEOREM RingInvariant == Spec => []RingInv
  <1>1. RingInv /\ [Next]_vars => RingInv'
    BY PushStoresRingInv, PopTakesHeadRingInv, OtherStepsRingInv DEF Next, Push, Pop
  <1>2. QED BY InitRingInv, <1>1, PTL DEF Spec

\* Type correctness of the ring, for every capacity.
THEOREM TypeCorrect == Spec => []TypeOK
  <1>1. RingInv => TypeOK
    BY DEF RingInv
  <1>2. QED BY RingInvariant, <1>1, PTL

\* push and pop of FrameRing never leave a thread parked that could go on.
THEOREM WakeupsAreNotLost == Spec => []NoLostWakeup
  <1>1. RingInv => NoLostWakeup
    BY DEF RingInv
  <1>2. QED BY RingInvariant, <1>1, PTL

\* The ring's queue is the accepted items not delivered yet, in order.
THEOREM QueueOrder == Spec => []QueueIsFifo
  <1>1. RingInv => QueueIsFifo
    BY DEF RingInv
  <1>2. QED BY RingInvariant, <1>1, PTL

\* The handoff by swapping never duplicates or loses a buffer.
THEOREM SwapConservesBuffers == Spec => []BuffersConserved
  <1>1. RingInv => BuffersConserved
    BY DEF RingInv
  <1>2. QED BY RingInvariant, <1>1, PTL

-----------------------------------------------------------------------------
\* Every step of the ring is a step of the channel or leaves it alone.
LEMMA StepRefines ==
    ASSUME RingInv, [Next]_vars
    PROVE  [Channel!ChannelNext]_(Channel!channelVars)
  <1> USE RingFacts
  <1> SUFFICES Channel!ChannelNext \/ UNCHANGED Channel!channelVars
    OBVIOUS
  <1>1. CASE PushStores
    <2>1. ring.count < D /\ ~ring.closed
      BY <1>1 DEF PushStores, PushReady, PushAccepts
    <2>2. /\ accepted' = accepted + 1 /\ delivered' = delivered
          /\ ring'.closed = ring.closed /\ ring'.aborted = ring.aborted
      BY <1>1 DEF PushStores, AfterPush
    <2>3. held'[Consumer] = held[Consumer]
      BY <1>1 DEF PushStores, Thread, Producer, Consumer
    <2>4. accepted - delivered < D
      BY <2>1
    <2>5. Channel!Accept
      BY <2>1, <2>2, <2>3, <2>4 DEF Channel!Accept
    <2>6. QED BY <2>5 DEF Channel!ChannelNext
  <1>2. CASE PopTakesHead
    <2>1. ring.count # 0 /\ ~ring.aborted
      BY <1>2 DEF PopTakesHead, PopDelivers
    <2>2. /\ accepted' = accepted /\ delivered' = delivered + 1
          /\ ring'.closed = ring.closed /\ ring'.aborted = ring.aborted
      BY <1>2 DEF PopTakesHead, AfterPop
    <2>3. held'[Consumer].item = delivered + 1
      <3>1. RingInv'
        BY <1>2, PopTakesHeadRingInv
      <3>2. QED BY <2>2, <3>1 DEF RingInv, HeldOK
    <2>4. delivered < accepted
      BY <2>1
    <2>5. Channel!Deliver
      BY <2>1, <2>2, <2>3, <2>4 DEF Channel!Deliver
    <2>6. QED BY <2>5 DEF Channel!ChannelNext
  <1>3. ASSUME NEW t \in Thread, CloseRing(t)
        PROVE  Channel!ChannelNext
    <2>1. /\ UNCHANGED <<held, accepted, delivered>>
          /\ ring'.closed = TRUE /\ ring'.aborted = ring.aborted
      BY <1>3 DEF CloseRing, AfterClose, RingType
    <2>2. QED BY <2>1 DEF Channel!Close, Channel!ChannelNext
  <1>4. ASSUME NEW t \in Thread, AbortRing(t)
        PROVE  Channel!ChannelNext
    <2>1. /\ UNCHANGED <<held, accepted, delivered>>
          /\ ring'.closed = TRUE /\ ring'.aborted = TRUE
      BY <1>4 DEF AbortRing, AfterAbort, RingType
    <2>2. QED BY <2>1 DEF Channel!Abort, Channel!ChannelNext
  <1>5. CASE \/ CallPush \/ PushWaits \/ PushFails \/ CallPop \/ PopWaits \/ PopFails
             \/ (\E t \in Thread : SpuriousWakeup(t)) \/ UNCHANGED vars
    <2>1. UNCHANGED <<ring, accepted, delivered>> /\ held'[Consumer] = held[Consumer]
      BY <1>5 DEF CallPush, PushWaits, PushFails, CallPop, PopWaits, PopFails, Park,
                  SpuriousWakeup, vars, Thread, Producer, Consumer
    <2>2. QED BY <2>1 DEF Channel!channelVars
  <1>6. QED BY <1>1, <1>2, <1>3, <1>4, <1>5 DEF Next, Push, Pop

\* FrameRing implements the bounded FIFO channel, for every capacity.
THEOREM RingImplementsChannel == Spec => RefinesChannel
  <1>1. Init => Channel!ChannelInit
    BY DEF Init, NewRing, Channel!ChannelInit
  <1>2. QED BY <1>1, StepRefines, RingInvariant, PTL DEF Spec, RefinesChannel, Channel!ChannelSpec

=============================================================================
