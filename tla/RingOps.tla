------------------------------ MODULE RingOps ------------------------------
(***************************************************************************)
(* The data of a FrameRing (src/task/task.cpp): a circular buffer of slots *)
(* whose payloads are handed over by swapping.  The operators here are the *)
(* bodies of push, pop, close and abort once the lock is held and the wait *)
(* is over.  Blocking and notification live in FrameRing; FramePipeline    *)
(* uses these operators for its two rings.                                 *)
(***************************************************************************)
EXTENDS Naturals

\* FrameRing(capacity): a ring always has at least one slot.
SlotCount(capacity) == IF capacity = 0 THEN 1 ELSE capacity

\* The values of a ring with D slots holding members of Payload.
RingType(D, Payload) ==
    [slots   : [0 .. D - 1 -> Payload],
     head    : 0 .. D - 1,
     count   : 0 .. D,
     closed  : BOOLEAN,
     aborted : BOOLEAN]

\* A fresh ring: every slot holds its default-constructed payload.
NewRing(D, initial) ==
    [slots |-> initial, head |-> 0, count |-> 0, closed |-> FALSE, aborted |-> FALSE]

\* The slot index of the i-th queued payload, counted from the head.
At(D, r, i) == (r.head + i) % D

\* push: what has_space_ waits for, and whether the push succeeds after it.
PushReady(D, r) == r.count < D \/ r.closed
PushAccepts(r) == ~r.closed

\* Mutant: pop ignores the abort and drains the ring.
PopDelivers_IgnoresAbort(r) == r.count # 0

\* pop: what has_item_ waits for, and whether the pop succeeds after it.
PopReady(r) == r.count # 0 \/ r.closed
PopDelivers(r) == r.count # 0 /\ ~r.aborted

\* push swaps the caller's payload with the one left in the first free slot.
AfterPush(D, r, payload) ==
    [slots   |-> [r.slots EXCEPT ![At(D, r, r.count)] = payload],
     head    |-> r.head,
     count   |-> r.count + 1,
     closed  |-> r.closed,
     aborted |-> r.aborted]
PushLeaves(D, r) == r.slots[At(D, r, r.count)]

\* Mutants: pop copies the payload and does not swap it, or does not advance
\* the head.
AfterPop_Copies(D, r, payload) == [r EXCEPT !.head = (@ + 1) % D, !.count = @ - 1]
AfterPop_KeepsHead(D, r, payload) == [r EXCEPT !.slots[r.head] = payload, !.count = @ - 1]

\* pop swaps the caller's payload with the one at the head.
AfterPop(D, r, payload) ==
    [slots   |-> [r.slots EXCEPT ![r.head] = payload],
     head    |-> (r.head + 1) % D,
     count   |-> r.count - 1,
     closed  |-> r.closed,
     aborted |-> r.aborted]
PopTakes(r) == r.slots[r.head]

\* close lets the consumer drain; abort drops what is queued.
AfterClose(r) == [r EXCEPT !.closed = TRUE]
AfterAbort(r) == [r EXCEPT !.closed = TRUE, !.aborted = TRUE]

=============================================================================
