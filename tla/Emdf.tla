-------------------------------- MODULE Emdf --------------------------------
(***************************************************************************)
(* emdf::parse_at, marker_offsets and find_joc_emdf: the container of a    *)
(* syncframe that holds its OAMD (11) and JOC (14) payloads, found by      *)
(* looking for the marker at every bit.                                    *)
(***************************************************************************)
EXTENDS BitReader, FiniteSets

CONSTANT MaxPayloads

OamdId == 11
JocId == 14
Syncword == <<0, 1, 0, 1, 1, 0, 0, 0, 0, 0, 1, 1, 1, 0, 0, 0>>

Malformed == [ok |-> FALSE]

-----------------------------------------------------------------------------
(* One container.                                                          *)

\* The identifier of a payload, extended when its five bits are all set.
Identifier(b, p) ==
    IF Read(b, p, 5) = 31 THEN [VariableBits(b, p + 5, 5, 8) EXCEPT !.value = 31 + @]
    ELSE [value |-> Read(b, p, 5), end |-> p + 5, endless |-> FALSE]

\* A flag, and a field of variable bits if it is set.
Optional(b, p, w) ==
    IF Flag(b, p) THEN VariableBits(b, p + 1, w, 8) ELSE [value |-> -1, end |-> p + 1, endless |-> FALSE]

\* From the flag for codec data to the size of the payload: the flag to
\* discard an unknown payload, and what a payload that is kept says of frames.
SizeAt(b, p, timed) ==
    LET p4 == p + 1 + (IF Flag(b, p) THEN 8 ELSE 0)
    IN p4 + 1 + (IF Flag(b, p4) THEN 0 ELSE IF timed THEN 7 ELSE IF Flag(b, p4 + 1) THEN 10 ELSE 1)

\* The fields of a payload from its identifier at p to its first bit, each
\* read where the one before it ends.
WithSize(b, id, duration, group, size) ==
    [ok |-> /\ ~id.endless /\ ~duration.endless /\ ~group.endless /\ ~size.endless
            /\ size.end + 8 * size.value <= Len(b),
     id |-> id.value % 256,
     offset |-> IF Flag(b, id.end) THEN Read(b, id.end + 1, 12) \div 2 ELSE 0,
     group |-> IF group.value >= 0 THEN group.value % 256 ELSE -1,
     at |-> size.end,
     bits |-> 8 * size.value]

WithGroup(b, id, duration, group) ==
    WithSize(b, id, duration, group, VariableBits(b, SizeAt(b, group.end, Flag(b, id.end)), 8, 8))

WithDuration(b, id, duration) == WithGroup(b, id, duration, Optional(b, duration.end, 2))

WithIdentifier(b, id) ==
    WithDuration(b, id, Optional(b, id.end + (IF Flag(b, id.end) THEN 13 ELSE 1), 11))

PayloadAt(b, p) == WithIdentifier(b, Identifier(b, p))

Ids(payloads) == {payloads[i].id : i \in DOMAIN payloads}

\* The loop over the payloads of a body that ends where b ends.
RECURSIVE PayloadsFrom(_, _, _)
PayloadsFrom(b, p, found) ==
    IF p + 5 > Len(b) THEN Malformed
    ELSE IF Read(b, p, 5) = 0 THEN [ok |-> TRUE, payloads |-> found]
    ELSE LET After(next) ==
                IF next.id \in Ids(found) \/ Len(found) >= MaxPayloads \/ ~next.ok
                THEN Malformed
                ELSE PayloadsFrom(b, next.at + next.bits, Append(found, next))
         IN After(PayloadAt(b, p))

\* A container whose bits end where b ends.
ContainerOf(start, b, list) ==
    IF list.ok THEN [ok |-> TRUE, start |-> start, end |-> Len(b), payloads |-> list.payloads]
    ELSE Malformed

\* parse_at.  Only version 0 and key 0 are containers; their extensions
\* cannot bring a larger code back to zero.
ParseAt(d, start) ==
    LET body == start + 32
        end == body + 8 * Read(d, start + 16, 16)
    IN IF \/ ReadBits(d, start, 16) # Syncword
          \/ end > Len(d)
          \/ body + 5 > end
          \/ Read(d, body, 5) # 0
       THEN Malformed
       ELSE ContainerOf(start, SubSeq(d, 1, end), PayloadsFrom(SubSeq(d, 1, end), body + 5, <<>>))

HasPayload(c, id) == id \in Ids(c.payloads)

Payload(c, id) == c.payloads[CHOOSE i \in DOMAIN c.payloads : c.payloads[i].id = id]

ExtractPayload(d, c, id) == ReadBits(d, Payload(c, id).at, Payload(c, id).bits)

-----------------------------------------------------------------------------
(* The container of a syncframe.                                           *)

\* marker_offsets: the eight alignments together are every bit position.
Markers(d) ==
    IF Len(d) < 32 THEN {} ELSE {p \in 0..(Len(d) - 16) : SubSeq(d, p + 1, p + 16) = Syncword}

Candidates(d) ==
    {c \in {ParseAt(d, p) : p \in Markers(d)} :
        c.ok /\ HasPayload(c, OamdId) /\ HasPayload(c, JocId)}

TopLevel_KeepsNested(found) == SetToSortSeq(found, LAMBDA a, c : a.start < c.start)

\* Candidates in their order in the frame, without those inside a kept one.
TopLevel(found) ==
    FoldLeft(LAMBDA kept, c :
                IF \E k \in Range(kept) : k.start < c.start /\ c.start < k.end
                THEN kept ELSE Append(kept, c),
             <<>>, SetToSortSeq(found, LAMBDA a, c : a.start < c.start))

\* The one container with the highest score above zero, if there is one.
Winner(cs, usable) ==
    LET best == {i \in DOMAIN cs : /\ usable[cs[i]] > 0
                                   /\ \A j \in DOMAIN cs : usable[cs[j]] <= usable[cs[i]]}
    IN IF Cardinality(best) = 1 THEN cs[CHOOSE i \in best : TRUE] ELSE Malformed

\* find_joc_emdf and find_joc_emdf_optional: the container, none, or too many,
\* given the score of each candidate.
Chosen(top, winner) ==
    CASE Len(top) = 0 -> [is |-> "absent"]
      [] Len(top) = 1 -> [is |-> "found", container |-> top[1], extra |-> FALSE]
      [] Len(top) > 1 /\ winner.ok -> [is |-> "found", container |-> winner, extra |-> TRUE]
      [] OTHER -> [is |-> "ambiguous"]

FindAmong(top, usable) == Chosen(top, Winner(top, usable))

FindJoc(d, usable) == FindAmong(TopLevel(Candidates(d)), usable)

=============================================================================
