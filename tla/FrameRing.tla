------------------------------ MODULE FrameRing ------------------------------
(***************************************************************************)
(* FrameRing<Payload> of src/task/task.cpp with its mutex and its two      *)
(* condition variables.  The body of a call runs with the mutex held, so   *)
(* it is one step; a wait releases the mutex and parks the thread in the   *)
(* condition variable's wait set, and a parked thread re-evaluates the     *)
(* predicate when it is notified or wakes spuriously.                      *)
(*                                                                         *)
(* The ring has one producer and one consumer.  Either of them closes or   *)
(* aborts it between two calls of its own, and makes no call after that:   *)
(* the producer closes it at its end, the calling thread closes or aborts  *)
(* both rings in StageJoiner.shutdown, the writer aborts its ring.         *)
(***************************************************************************)
EXTENDS RingOps

CONSTANTS Capacity,  \* the constructor's argument
          MaxItems   \* bound on the number of pushes the producer makes

ASSUME FrameRingAssumption == Capacity \in Nat /\ MaxItems \in Nat

D == SlotCount(Capacity)

Producer == "producer"
Consumer == "consumer"
Thread == {Producer, Consumer}

\* A payload is a buffer and the item written in it (0: default-constructed).
Buffer == 0 .. D + 1
Payload == [buffer : Buffer, item : 0 .. MaxItems]

VARIABLES
    ring,       \* slots_, head_, count_, closed_, aborted_
    waiting,    \* waiting["item"]: threads in has_item_; waiting["space"]: in has_space_
    pc,         \* what each thread does: between calls, in a call, or gone
    held,       \* the payload each thread holds outside the ring
    accepted,   \* successful pushes
    delivered   \* successful pops

vars == <<ring, waiting, pc, held, accepted, delivered>>

Init ==
    /\ ring = NewRing(D, [i \in 0 .. D - 1 |-> [buffer |-> i, item |-> 0]])
    /\ waiting = [c \in {"item", "space"} |-> {}]
    /\ pc = [t \in Thread |-> "idle"]
    /\ held = [t \in Thread |-> [buffer |-> IF t = Producer THEN D ELSE D + 1, item |-> 0]]
    /\ accepted = 0
    /\ delivered = 0

Parked(t) == t \in waiting["item"] \cup waiting["space"]

\* cv.wait after its predicate came out false: park and release the mutex.
Park(t, condition) ==
    /\ waiting' = [waiting EXCEPT ![condition] = @ \cup {t}]
    /\ UNCHANGED <<ring, pc, held, accepted, delivered>>

\* Mutant: the notification after a swap is forgotten.
NotifyOne_Forgotten(condition) == UNCHANGED waiting

\* notify_one: some waiter of the condition leaves the wait set, if there is one.
NotifyOne(condition) ==
    IF waiting[condition] = {}
    THEN UNCHANGED waiting
    ELSE \E t \in waiting[condition] :
            waiting' = [waiting EXCEPT ![condition] = @ \ {t}]

\* The two notify_all calls of close and abort.
NotifyAll == waiting' = [c \in DOMAIN waiting |-> {}]

Return(t, where) == pc' = [pc EXCEPT ![t] = where]

\* The producer writes the next item in the payload it holds and calls push.
CallPush ==
    /\ pc[Producer] = "idle"
    /\ accepted < MaxItems
    /\ held' = [held EXCEPT ![Producer] = [buffer |-> @.buffer, item |-> accepted + 1]]
    /\ Return(Producer, "push")
    /\ UNCHANGED <<ring, waiting, accepted, delivered>>

PushWaits ==
    /\ pc[Producer] = "push" /\ ~Parked(Producer)
    /\ ~PushReady(D, ring)
    /\ Park(Producer, "space")

PushFails ==
    /\ pc[Producer] = "push" /\ ~Parked(Producer)
    /\ PushReady(D, ring) /\ ~PushAccepts(ring)
    /\ Return(Producer, "refused")
    /\ UNCHANGED <<ring, waiting, held, accepted, delivered>>

PushStores ==
    /\ pc[Producer] = "push" /\ ~Parked(Producer)
    /\ PushReady(D, ring) /\ PushAccepts(ring)
    /\ ring' = AfterPush(D, ring, held[Producer])
    /\ held' = [held EXCEPT ![Producer] = PushLeaves(D, ring)]
    /\ accepted' = accepted + 1
    /\ NotifyOne("item")
    /\ Return(Producer, "idle")
    /\ UNCHANGED delivered

CallPop ==
    /\ pc[Consumer] = "idle"
    /\ Return(Consumer, "pop")
    /\ UNCHANGED <<ring, waiting, held, accepted, delivered>>

PopWaits ==
    /\ pc[Consumer] = "pop" /\ ~Parked(Consumer)
    /\ ~PopReady(ring)
    /\ Park(Consumer, "item")

PopFails ==
    /\ pc[Consumer] = "pop" /\ ~Parked(Consumer)
    /\ PopReady(ring) /\ ~PopDelivers(ring)
    /\ Return(Consumer, "refused")
    /\ UNCHANGED <<ring, waiting, held, accepted, delivered>>

PopTakesHead ==
    /\ pc[Consumer] = "pop" /\ ~Parked(Consumer)
    /\ PopReady(ring) /\ PopDelivers(ring)
    /\ ring' = AfterPop(D, ring, held[Consumer])
    /\ held' = [held EXCEPT ![Consumer] = PopTakes(ring)]
    /\ delivered' = delivered + 1
    /\ NotifyOne("space")
    /\ Return(Consumer, "idle")
    /\ UNCHANGED accepted

\* A thread between two calls, or one whose last call was refused, closes or
\* aborts the ring on its way out.
CloseRing(t) ==
    /\ pc[t] \in {"idle", "refused"}
    /\ ring' = AfterClose(ring)
    /\ NotifyAll
    /\ Return(t, "gone")
    /\ UNCHANGED <<held, accepted, delivered>>

AbortRing(t) ==
    /\ pc[t] \in {"idle", "refused"}
    /\ ring' = AfterAbort(ring)
    /\ NotifyAll
    /\ Return(t, "gone")
    /\ UNCHANGED <<held, accepted, delivered>>

\* The standard library allows a wait to return without a notification.
SpuriousWakeup(t) ==
    /\ Parked(t)
    /\ waiting' = [c \in DOMAIN waiting |-> waiting[c] \ {t}]
    /\ UNCHANGED <<ring, pc, held, accepted, delivered>>

Push == PushWaits \/ PushFails \/ PushStores
Pop == PopWaits \/ PopFails \/ PopTakesHead

Next ==
    \/ CallPush \/ Push
    \/ CallPop \/ Pop
    \/ \E t \in Thread : CloseRing(t) \/ AbortRing(t) \/ SpuriousWakeup(t)

Spec == Init /\ [][Next]_vars

\* A thread that is not parked gets the mutex in the end.  Nothing makes a
\* thread call push or pop, close the ring or wake up by itself.
FairSpec == Spec /\ WF_vars(Push) /\ WF_vars(Pop)

-----------------------------------------------------------------------------
\* Every variable stays in its range.
TypeOK ==
    /\ ring \in RingType(D, Payload)
    /\ waiting \in [{"item", "space"} -> SUBSET Thread]
    /\ pc \in [Thread -> {"idle", "push", "pop", "refused", "gone"}]
    /\ held \in [Thread -> Payload]
    /\ accepted \in 0 .. MaxItems
    /\ delivered \in 0 .. MaxItems

\* No wakeup is lost: a thread parked in a condition variable is one whose
\* predicate is still false, so notify_one after a swap and notify_all in
\* close and abort reach every waiter that could go on.
NoLostWakeup ==
    /\ waiting["item"] \subseteq {Consumer}
    /\ waiting["space"] \subseteq {Producer}
    /\ Consumer \in waiting["item"] => pc[Consumer] = "pop" /\ ~PopReady(ring)
    /\ Producer \in waiting["space"] => pc[Producer] = "push" /\ ~PushReady(D, ring)

\* What is queued is exactly the accepted items not delivered yet, oldest at
\* the head, however often the indices have wrapped around.
QueueIsFifo ==
    /\ accepted = delivered + ring.count
    /\ \A i \in 0 .. ring.count - 1 : ring.slots[At(D, ring, i)].item = delivered + i + 1

\* Swapping moves buffers and never copies one: the slots and the two sides
\* hold pairwise different buffers, so the steady state allocates nothing.
BuffersConserved ==
    /\ \A i, j \in 0 .. D - 1 : ring.slots[i].buffer = ring.slots[j].buffer => i = j
    /\ \A t \in Thread, i \in 0 .. D - 1 : held[t].buffer # ring.slots[i].buffer
    /\ held[Producer].buffer # held[Consumer].buffer

\* A pop returns once an item is queued or the ring is closed, and a push once a
\* slot is free or the ring is closed.
CallsReturn ==
    /\ (pc[Consumer] = "pop" /\ PopReady(ring)) ~> pc[Consumer] # "pop"
    /\ (pc[Producer] = "push" /\ PushReady(D, ring)) ~> pc[Producer] # "push"

\* The ring is a bounded FIFO channel.
Channel == INSTANCE BoundedChannel WITH
    Capacity <- D,
    item <- IF delivered = 0 THEN 0 ELSE held[Consumer].item,
    closed <- ring.closed,
    aborted <- ring.aborted

RefinesChannel == Channel!ChannelSpec

=============================================================================
