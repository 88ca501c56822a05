----------------------------- MODULE MCBinaural -----------------------------
(***************************************************************************)
(* Small renderers: hops of one sample, blocks of two, frames of two       *)
(* blocks, two sources, two places, two branches in a room.  The delays    *)
(* are coprime and no multiple of a block, the gains differ everywhere.    *)
(***************************************************************************)
EXTENDS Binaural

MCEars == {"left", "right"}
MCQmfTaps == <<1, 2, -1>>
MCLowTaps == <<1, -1, 2>>
MCSynthTaps == <<1, 1, -2>>
MCRingLowTaps == <<2, 1, 1>>

MCBranches == {1, 2}
MCAllpasses == <<[delay |-> 2, gain |-> 2]>>
MCRoomDelays == [b \in {1, 2} |-> b + 1]
MCRoomMatrix == [b \in {1, 2} |-> [s \in {1, 2} |-> IF b = s THEN 0 ELSE 3 - 2 * b]]
MCFeedback == [b \in {1, 2} |-> 2 - b \div 2]
MCTapGain == [b \in {1, 2} |-> b]
MCExtras == <<[delay |-> 0, mix |-> [b \in {1, 2} |-> [s \in {1, 2} |-> b - s]]],
              [delay |-> 2, mix |-> [b \in {1, 2} |-> [s \in {1, 2} |-> IF b = 1 THEN -s ELSE 1]]]>>
MCRoomEars == [ear \in MCEars |-> [b \in {1, 2} |-> IF ear = "left" THEN b ELSE 3 - 2 * b]]

MCPass == -1

MCPlaces == {"front", "side"}
MCSources == {0, 1}
MCObjects == {1}
MCSendOf == [p \in MCPlaces |-> IF p = "front" THEN 1 ELSE 3]
MCLevelOf == [p \in MCPlaces |-> IF p = "front" THEN 2 ELSE 1]
MCImagesOf == [p \in MCPlaces |->
    IF p = "front" THEN <<[direction |-> "side", extra |-> 3, gain |-> 2]>>
                   ELSE <<[direction |-> "front", extra |-> 2, gain |-> -1]>>]
MCLatePasses == <<[delay |-> 1, gain |-> 1], [delay |-> 2, gain |-> 1]>>
MCLineDelays == [line \in 0 .. 3 |-> <<2, 3, 3, 5>>[line + 1]]
MCLineGains == [line \in 0 .. 3 |-> <<1, 0, 1, -1>>[line + 1]]

\* A field by how long the right ear waits for the front and the left for the side.
Field(right, left) ==
    [delay |-> [p \in MCPlaces |-> [ear \in MCEars |->
                   IF ear = "right" /\ p = "front" THEN right ELSE IF ear = "left" /\ p = "side" THEN left ELSE 0]],
     bounds |-> [ear \in MCEars |-> IF ear = "left" THEN <<0, 2>> ELSE <<0, 1>>],
     gain |-> [p \in MCPlaces |-> [ear \in MCEars |-> IF (ear = "left") = (p = "side") THEN 1 ELSE 2 * right + 1]]]
MCFirstField == Field(1, 2)
MCFields == {Field(2, 1)}
MCFirstRoom == [early |-> TRUE, late |-> TRUE]
MCRooms == {[early |-> FALSE, late |-> FALSE]}
MCDirectOfPlace == [p \in MCPlaces |-> [ear \in MCEars |-> IF (ear = "left") = (p = "side") THEN 1 ELSE 3]]

\* A sound of both sources.
MCInputs == {[n \in 1 .. 40 |-> [s \in MCSources |-> ((n * n + 3 * s) % 7) - 3]]}
MCMotions == {[n \in 0 .. 60 |-> IF n \in {2, 3, 4, 7, 8} THEN "side" ELSE "front"],
              [n \in 0 .. 60 |-> IF n = 0 \/ n > 5 THEN "side" ELSE "front"]}
=============================================================================
