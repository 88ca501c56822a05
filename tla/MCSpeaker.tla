------------------------------ MODULE MCSpeaker ------------------------------
(***************************************************************************)
(* The instance of SpeakerRenderer and SpeakerGains for TLC: one object    *)
(* that moves and one that may become a bed channel, heard in one channel. *)
(* Gains are multiples of 6^6, which six ramps of 2 or 3 blocks divide.    *)
(* The gains of every layout are those of SpeakerGains, at coordinates     *)
(* between, beyond and exactly at its speakers.                            *)
(***************************************************************************)
EXTENDS SpeakerRenderer, SpeakerGains

Unit == 46656

\* The controls "disabled" take the trim from the first object only.
Panning ==
    [set \in {"automatic", "disabled"} |->
        [o \in {1, 2} |->
            [p \in {"front", "side", "rear"} |->
                [c \in {"left"} |->
                    CASE p = "front" -> 0
                      [] p = "side" -> Unit
                      [] p = "rear" -> IF set = "disabled" /\ o = 1 THEN 8 * Unit ELSE 4 * Unit]]]]

\* Trim elements: records that differ by configuration, the warps, a balance to
\* the front and to the back, and what is reserved or out of range.
Record(is, level, balance) ==
    [is |-> is, centre |-> 60, surround |-> level, height |-> -level, listener |-> balance,
     overhead |-> -balance]

SomeTrims ==
    {[warp |-> warp, global |-> 2, bypass |-> {1},
      configs |-> [i \in 1 .. 9 |-> IF i % 3 = 0 THEN Record("default", 0, 0)
                                    ELSE Record("explicit", level, balance)]] :
        warp \in {1, 2}, level \in {120}, balance \in {9, -16, 17}}
    \cup {[warp |-> warp, global |-> global, bypass |-> {}, configs |-> <<>>] :
        warp \in {3, 4}, global \in {0, 1, 3}}

\* What a trim element of an update makes of the controls of a 5.1 renderer.
ModesOf(trims) ==
    LET Mode(found) == IF found = {} THEN "invalid" ELSE (CHOOSE c \in found : TRUE).mode
    IN  {Mode(ControlsOf(trim, TrimClass(15))) : trim \in trims}

\* Updates without ramp or with a ramp of two or three blocks, of which the
\* last may reach into another frame, and updates of the controls.
SomeUpdates ==
    {[moves |-> [o \in {1, 2} |-> IF o = 1 THEN p ELSE None], trim |-> None,
      ramp |-> ramp, offset |-> 0] :
        p \in {"front", "side", "rear"}, ramp \in {2, 8, 12}}
    \cup {[moves |-> [o \in {1, 2} |-> "rear"], trim |-> trim, ramp |-> 8, offset |-> 0] :
        trim \in {None} \cup ModesOf({t \in SomeTrims : t.warp = 3 /\ t.global # 0})}
    \cup {None}

\* Two events in order, out of order, at one block, and beyond the call.
SomeBatches ==
    {<<[offset |-> first, ramp |-> ramp, positions |-> [o \in {1, 2} |-> "rear"]],
       [offset |-> second, ramp |-> 12, positions |-> [o \in {1, 2} |-> p]]>> :
        first \in {0, 6, 12}, second \in {3, 7, 12, 13}, ramp \in {0, 12},
        p \in {"front", "side"}}
    \cup {<<>>}

\* A renderer either takes calls, or its first event places an object.
MCInit == Init /\ point = <<>>
MCNext ==
    \/ point = <<>> /\ Next /\ UNCHANGED point
    \/ /\ offset = None /\ controls = "automatic" /\ calls = 0
       /\ PlaceObject /\ UNCHANGED vars
MCSpec == MCInit /\ [][MCNext]_<<vars, point>>

=============================================================================
