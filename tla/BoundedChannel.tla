--------------------------- MODULE BoundedChannel ---------------------------
(***************************************************************************)
(* What a FrameRing promises its two sides (src/task/task.cpp, the comment *)
(* above the class): a bounded FIFO channel.  Items are numbered in the    *)
(* order they are accepted; the consumer receives 1, 2, 3, ... without a   *)
(* gap or a repeat, never more than Capacity items are buffered, close     *)
(* lets the consumer drain, and abort stops it at once.                    *)
(***************************************************************************)
EXTENDS Naturals

CONSTANT Capacity

VARIABLES accepted,   \* number of items accepted so far
          delivered,  \* number of items delivered so far
          item,       \* the item the consumer received last, 0 before the first
          closed, aborted

channelVars == <<accepted, delivered, item, closed, aborted>>

ChannelInit ==
    /\ accepted = 0
    /\ delivered = 0
    /\ item = 0
    /\ closed = FALSE
    /\ aborted = FALSE

Accept ==
    /\ ~closed
    /\ accepted - delivered < Capacity
    /\ accepted' = accepted + 1
    /\ UNCHANGED <<delivered, item, closed, aborted>>

Deliver ==
    /\ ~aborted
    /\ delivered < accepted
    /\ delivered' = delivered + 1
    /\ item' = delivered + 1
    /\ UNCHANGED <<accepted, closed, aborted>>

Close ==
    /\ closed' = TRUE
    /\ UNCHANGED <<accepted, delivered, item, aborted>>

Abort ==
    /\ closed' = TRUE
    /\ aborted' = TRUE
    /\ UNCHANGED <<accepted, delivered, item>>

ChannelNext == Accept \/ Deliver \/ Close \/ Abort

ChannelSpec == ChannelInit /\ [][ChannelNext]_channelVars

=============================================================================
