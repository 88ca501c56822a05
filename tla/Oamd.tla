-------------------------------- MODULE Oamd --------------------------------
(***************************************************************************)
(* oamd::parse_id11, parse_trim and parse_id11_bed_assignments: three      *)
(* readings of one ID11 payload, each with its own walk over the header    *)
(* and the elements.  An error is the name the code gives it.              *)
(***************************************************************************)
EXTENDS BitReader, FiniteSets

ObjectElementId == 1
TrimElementId == 2
MaxSlots == 16
TrimConfigs == 9

IsfObjects == <<4, 8, 10, 14, 15, 30>>
StandardBedChannels == <<2, 1, 1, 2, 2, 2, 2, 2, 2, 1>>
SampleOffsets == <<8, 16, 18, 24>>
Ramps == <<0, 512, 1536>>
RampTable == <<32, 64, 128, 256, 320, 480, 1000, 1001, 1024, 1600, 1601, 1602, 1920, 2000, 2002, 2048>>

Error(name) == [ok |-> FALSE, error |-> name]

-----------------------------------------------------------------------------
(* The header and program_assignment().                                    *)

\* The bits set in a mask of n bits, least significant first.
MaskBits(mask, n) == {i \in 0..(n - 1) : (mask \div 2^i) % 2 = 1}

\* One bed instance: LFE only, standard pairs, or a mask of 17 channels.
Assignment(d, p) ==
    CASE Flag(d, p) -> [kind |-> "lfe", bits |-> {}, objects |-> 1, end |-> p + 1]
      [] ~Flag(d, p) /\ Flag(d, p + 1) ->
            LET bits == MaskBits(Read(d, p + 2, 10), 10)
            IN [kind |-> "standard", bits |-> bits, end |-> p + 12,
                objects |-> FoldSet(LAMBDA i, n : n + StandardBedChannels[i + 1], 0, bits)]
      [] OTHER -> LET bits == MaskBits(Read(d, p + 2, 17), 17)
                  IN [kind |-> "other", bits |-> bits, objects |-> Cardinality(bits), end |-> p + 19]

Beds(d, p) ==
    LET instances == IF Flag(d, p + 1) THEN Read(d, p + 2, 3) + 2 ELSE 1
        Add(a, bed) == [list |-> Append(a.list, bed), end |-> bed.end, objects |-> a.objects + bed.objects]
    IN FoldLeft(LAMBDA a, i : Add(a, Assignment(d, a.end)),
                [list |-> <<>>, objects |-> 0, end |-> p + (IF Flag(d, p + 1) THEN 5 ELSE 2)],
                [i \in 1..instances |-> i])

\* A count of objects of five bits at p, and of twelve if they are all set.
Many(d, p) == Read(d, p, 5) = 31

ObjectCount(d, p) == Read(d, p, 5) + 1 + (IF Many(d, p) THEN Read(d, p + 5, 7) ELSE 0)

AfterCount(d, p) == p + (IF Many(d, p) THEN 12 ELSE 5)

AfterReserved(d, p) == p + 4 + 8 * (Read(d, p, 4) + 1)

\* parse_program_assignment: a bare programme of dynamic objects, or up to four
\* parts, in this order: beds, ISF objects, dynamic objects, reserved bytes.
Dynamics(d, beds, isf, content, p) ==
    LET p3 == IF 2 \in content THEN AfterCount(d, p) ELSE p
    IN [beds |-> beds.list, fixed |-> beds.objects + isf, content |-> content,
        dynamic |-> IF 2 \in content THEN ObjectCount(d, p) ELSE -1,
        end |-> IF 3 \in content THEN AfterReserved(d, p3) ELSE p3]

Parts(d, beds, content) ==
    LET isf == Read(d, beds.end, 3)
    IN IF 1 \in content
       THEN Dynamics(d, beds, IF isf < 6 THEN IsfObjects[isf + 1] ELSE 0, content, beds.end + 3)
       ELSE Dynamics(d, beds, 0, content, beds.end)

Program(d, p) ==
    IF Flag(d, p)
    THEN [beds |-> <<>>, fixed |-> Read(d, p + 1, 1), dynamic |-> -1, content |-> {}, end |-> p + 2]
    ELSE Parts(d, IF Flag(d, p + 4) THEN Beds(d, p + 5) ELSE [list |-> <<>>, objects |-> 0, end |-> p + 5],
               {i \in 0..3 : Flag(d, p + 4 - i)})

\* What all three readings read first.
HeaderWith(d, p, start, program) ==
    IF Failed(d, start) \/ Failed(d, program.end) THEN Error("truncated")
    ELSE [ok |-> TRUE, program |-> program, end |-> program.end, objects |-> ObjectCount(d, p),
          version |-> Read(d, 0, 2) + (IF p = 5 THEN Read(d, 2, 3) ELSE 0)]

Header(d) ==
    LET p == IF Read(d, 0, 2) = 3 THEN 5 ELSE 2
    IN IF Len(d) < 2 THEN Error("header_truncated")
       ELSE HeaderWith(d, p, AfterCount(d, p), Program(d, AfterCount(d, p)))

BedsOf(header) == IF header.ok THEN [ok |-> TRUE, beds |-> header.program.beds] ELSE header

ParseBedAssignments(d) == BedsOf(Header(d))

-----------------------------------------------------------------------------
(* The two elements that are read.                                         *)

\* parse_object_info_block: where it ends, and the coded position of an object
\* that has one.  Its parts, each from where the one before ends: the gain, the
\* position, the distance, the size, the screen factors, the additional bytes.
AfterGain(d, p) ==
    LET reuse == p + (IF Read(d, p, 2) = 2 THEN 8 ELSE 2)
    IN reuse + (IF Flag(d, reuse) THEN 1 ELSE 6)

AfterDistance(d, p) == p + (IF Flag(d, p) THEN IF Flag(d, p + 1) THEN 2 ELSE 6 ELSE 1)

AfterSize(d, p) ==
    LET size == Read(d, p + 4, 2) IN p + 6 + (IF size = 1 THEN 5 ELSE IF size = 2 THEN 15 ELSE 0)

AfterScreen(d, p) == p + (IF Flag(d, p) THEN 7 ELSE 2)

AfterBytes(d, p) == p + (IF Flag(d, p) THEN 5 + 8 * (Read(d, p + 1, 4) + 1) ELSE 1)

Position(d, p) == <<Read(d, p, 6), Read(d, p + 6, 6), IF Flag(d, p + 12) THEN Read(d, p + 13, 4) ELSE 0>>

Placed(d, p) ==
    [end |-> AfterBytes(d, AfterScreen(d, AfterSize(d, AfterDistance(d, p + 17)))), xyz |-> Position(d, p)]

ObjectInfo(d, p, fixed) ==
    CASE Flag(d, p) -> [end |-> AfterBytes(d, p + 1), xyz |-> <<>>]
      [] ~Flag(d, p) /\ fixed -> [end |-> AfterBytes(d, AfterGain(d, p + 1)), xyz |-> <<>>]
      [] OTHER -> Placed(d, AfterGain(d, p + 1))

\* A block's offset is coded in blocks of 32 samples.
BlockSamples(d, p) == 32 * Read(d, p, 6)

\* One block of an object element: its offset factor and its ramp.
BlockInfo(d, p) ==
    LET code == Read(d, p + 6, 2)
    IN [offset |-> BlockSamples(d, p),
        ramp |-> CASE code < 3 -> Ramps[code + 1]
                   [] code = 3 /\ Flag(d, p + 8) -> RampTable[Read(d, p + 9, 4) + 1]
                   [] OTHER -> Read(d, p + 9, 11),
        end |-> p + 8 + (IF code < 3 THEN 0 ELSE IF Flag(d, p + 8) THEN 5 ELSE 12)]

Coded(v) == IF v <= 62 THEN v ELSE -1

Infos(d, p, objects, fixed) ==
    LET Add(a, o) == [list |-> Append(a.list, o.xyz), end |-> o.end]
    IN FoldLeft(LAMBDA a, i : Add(a, ObjectInfo(d, a.end, i <= fixed)),
                [list |-> <<>>, end |-> p + (IF Flag(d, p) THEN 1 ELSE 6)], [i \in 1..objects |-> i])

\* parse_object_element.  Codes of 63 name no position, and keep the last one.
WithInfos(d, sample, blocks, first, infos) ==
    IF Failed(d, infos.end) THEN Error("truncated")
    ELSE [ok |-> TRUE, end |-> infos.end, blocks |-> blocks,
          offset |-> sample + first.offset, ramp |-> first.ramp,
          slots |-> [i \in 1..MaxSlots |->
                         IF i > Len(infos.list) \/ infos.list[i] = <<>> THEN <<-1, -1, -1>>
                         ELSE <<Coded(infos.list[i][1]), Coded(infos.list[i][2]), infos.list[i][3]>>]]

WithBlocks(d, p, sample, blocks, objects, fixed) ==
    WithInfos(d, sample, blocks, BlockInfo(d, p),
              Infos(d, FoldLeft(LAMBDA q, i : BlockInfo(d, q).end, p, [i \in 1..blocks |-> i]), objects, fixed))

ObjectElement(d, p, objects, fixed) ==
    LET mode == Read(d, p, 2)
        p1 == p + (CASE mode = 1 -> 4 [] mode = 2 -> 7 [] OTHER -> 2)
        sample == CASE mode = 1 -> SampleOffsets[Read(d, p + 2, 2) + 1]
                    [] mode = 2 -> Read(d, p + 2, 5)
                    [] OTHER -> 0
    IN IF mode = 3 /\ ~Failed(d, p + 2) THEN Error("md_sample_offset_mode")
       ELSE WithBlocks(d, p1 + 3, sample, Read(d, p1, 3) + 1, objects, fixed)

\* One of the nine records of a trim element of mode 2: a default, a disabled
\* one, or up to three levels and two balances.
LevelAt(p, present, k) ==
    p + 4 * Cardinality({i \in present : i < k /\ i < 3}) + 5 * Cardinality({i \in present : i < k /\ i >= 3})

Level(d, p, k) ==
    IF k < 3 THEN Read(d, p, 4) ELSE (Read(d, p + 1, 4) + 1) * (IF Flag(d, p) THEN 1 ELSE -1)

Explicit(d, p, present) ==
    [is |-> "explicit", present |-> present, end |-> LevelAt(p, present, 5),
     value |-> [k \in 0..4 |-> IF k \in present THEN Level(d, LevelAt(p, present, k), k) ELSE 0]]

TrimRecord(d, p) ==
    CASE Flag(d, p) -> [is |-> "default", end |-> p + 1]
      [] ~Flag(d, p) /\ Flag(d, p + 1) -> [is |-> "disabled", end |-> p + 2]
      [] OTHER -> Explicit(d, p + 7, MaskBits(Read(d, p + 2, 5), 5))

TrimRecords(d, p, n) ==
    LET Add(a, r) == [list |-> Append(a.list, r), end |-> r.end]
    IN FoldLeft(LAMBDA a, i : Add(a, TrimRecord(d, a.end)), [list |-> <<>>, end |-> p], [i \in 1..n |-> i])

\* parse_trim_element
WithRecords(d, p, objects, records) ==
    LET bypass == Flag(d, records.end)
        end == records.end + 1 + (IF bypass THEN objects ELSE 0)
    IN IF Failed(d, end) THEN Error("truncated")
       ELSE [ok |-> TRUE, end |-> end, warp |-> Read(d, p, 2), mode |-> Read(d, p + 4, 2),
             records |-> records.list,
             bypassed |-> {i \in 1..objects : i <= MaxSlots /\ bypass /\ Flag(d, records.end + i)}]

TrimElement(d, p, objects) ==
    WithRecords(d, p, objects, TrimRecords(d, p + 6, IF Read(d, p + 4, 2) = 2 THEN TrimConfigs ELSE 0))

-----------------------------------------------------------------------------
(* The walk over the elements.                                             *)

\* The header of an element at p: its body and the end of its region.
ElementOf(d, p, alternate, size) ==
    LET region == size.end + 8 * (size.value + 1)
    IN IF Failed(d, size.end) THEN Error("truncated")
       ELSE IF region > Len(d) THEN Error("element_bounds")
       ELSE [ok |-> TRUE, id |-> Read(d, p, 4), body |-> size.end + (IF alternate THEN 5 ELSE 1),
             region |-> region]

ElementAt(d, p, alternate) == ElementOf(d, p, alternate, VariableBitsMax(d, p + 4, 4, 4))

\* Where the elements start, how many there are, and whether they carry a
\* number of alternate data.
Elements(d, p) ==
    LET many == Read(d, p + 1, 4) = 15
    IN [alternate |-> Flag(d, p), end |-> p + (IF many THEN 10 ELSE 5),
        count |-> Read(d, p + 1, 4) + (IF many THEN Read(d, p + 5, 5) ELSE 0)]

\* parse_trim: the first trim element, and nothing is looked at after it.
RECURSIVE TrimFrom(_, _, _, _, _)
TrimFrom(d, p, left, alternate, objects) ==
    LET Of(trim) == IF trim.ok THEN [ok |-> TRUE, trim |-> <<trim>>] ELSE trim
        At(element) ==
            IF ~element.ok THEN element
            ELSE IF element.id = TrimElementId THEN Of(TrimElement(d, element.body, objects))
            ELSE TrimFrom(d, element.region, left - 1, alternate, objects)
    IN IF left = 0 THEN [ok |-> TRUE, trim |-> <<>>] ELSE At(ElementAt(d, p, alternate))

TrimAfter(d, header, elements) ==
    IF Failed(d, elements.end) THEN Error("truncated")
    ELSE TrimFrom(d, elements.end, elements.count, elements.alternate, header.objects)

TrimOf_FirstElement(d, header) ==
    IF header.ok THEN TrimAfter(d, header, [Elements(d, header.end) EXCEPT !.count = 1]) ELSE header

TrimOf(d, header) == IF header.ok THEN TrimAfter(d, header, Elements(d, header.end)) ELSE header

ParseTrim(d) == TrimOf(d, Header(d))

\* parse_id11: every element.  One that ends before its region is skipped to
\* it; one that is longer than its region goes on from where it ended.
RECURSIVE ElementsFrom(_, _, _, _, _, _)
ElementsFrom(d, p, left, alternate, header, acc) ==
    LET On(end, found) == ElementsFrom(d, end, left - 1, alternate, header, found)
        Past(end, region) == IF end < region THEN region ELSE end
        Object(object, region) ==
            IF acc.object # <<>> THEN Error("multiple_object_elements")
            ELSE IF ~object.ok THEN object
            ELSE On(Past(object.end, region), [acc EXCEPT !.object = <<object>>])
        Trim(trim, region) ==
            IF ~trim.ok THEN trim
            ELSE On(Past(trim.end, region), [acc EXCEPT !.trim = IF @ = <<>> THEN <<trim>> ELSE @])
        At(e) ==
            CASE ~e.ok -> e
              [] e.ok /\ e.id = ObjectElementId ->
                    Object(ObjectElement(d, e.body, header.objects, header.program.fixed), e.region)
              [] e.ok /\ e.id = TrimElementId -> Trim(TrimElement(d, e.body, header.objects), e.region)
              [] OTHER -> On(e.region, acc)
    IN IF left = 0 THEN [ok |-> TRUE, end |-> p, object |-> acc.object, trim |-> acc.trim]
       ELSE At(ElementAt(d, p, alternate))

Checked(d, header, body) ==
    IF ~body.ok THEN body
    ELSE IF body.object = <<>> THEN Error("missing_object_element")
    ELSE IF \E i \in (body.end + 1)..Len(d) : d[i] = 1 THEN Error("padding")
    ELSE IF header.version # 0 THEN Error("oamd_version")
    ELSE IF header.objects > MaxSlots THEN Error("object_count")
    ELSE IF body.object[1].blocks # 1 THEN Error("multiple_position_blocks")
    ELSE [ok |-> TRUE, slots |-> body.object[1].slots, offset |-> body.object[1].offset,
          ramp |-> body.object[1].ramp, objects |-> header.objects, trim |-> body.trim,
          content |-> header.program.content, fixed |-> header.program.fixed]

WithElements(d, header, elements) ==
    IF Failed(d, elements.end) THEN Error("truncated")
    ELSE IF elements.count = 0 THEN Error("missing_object_element")
    ELSE Checked(d, header, ElementsFrom(d, elements.end, elements.count, elements.alternate, header,
                                         [object |-> <<>>, trim |-> <<>>]))

WithHeader11(d, header) == IF header.ok THEN WithElements(d, header, Elements(d, header.end)) ELSE header

ParseId11(d) == WithHeader11(d, Header(d))

=============================================================================
