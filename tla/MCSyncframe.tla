----------------------------- MODULE MCSyncframe -----------------------------
(***************************************************************************)
(* Syncframes for TLC.  A writer, independent of the parsers, encodes what *)
(* an encoder means; the properties say that it is what comes out.         *)
(***************************************************************************)
EXTENDS SyncframeMetadata

\* Small quantisers, with trees of their own number of symbols.
SmallLevels == <<4, 6>>
SmallStart == <<3, 4>>
CoarseTree == <<<<-1, 1>>, <<2, -2>>, <<-4, -3>>>>
FineTree == <<<<1, 2>>, <<-1, -2>>, <<3, -3>>, <<-6, 4>>, <<-5, -4>>>>
SmallTrees == <<CoarseTree, FineTree>>

-----------------------------------------------------------------------------
(* The writer.                                                             *)

Bits(v, n) == [i \in 1..n |-> (v \div 2^(n - i)) % 2]
Zeros(n) == [i \in 1..n |-> 0]
Padded(bits) == bits \o Zeros((8 - (Len(bits) % 8)) % 8)
Fields(fs) == FlattenSeq([i \in DOMAIN fs |-> Bits(fs[i][1], fs[i][2])])

\* A value of one or two groups of w bits.
VarBits(v, w) ==
    IF v < 2^w THEN Bits(v, w) \o <<0>>
    ELSE Bits(v \div 2^w - 1, w) \o <<1>> \o Bits(v % 2^w, w) \o <<0>>

WritePayload(id, offset, group, body) ==
    Bits(id, 5) \o (IF offset < 0 THEN <<0>> ELSE <<1>> \o Bits(2 * offset, 12)) \o <<0>>
        \o (IF group < 0 THEN <<0>> ELSE <<1>> \o VarBits(group, 2))
        \o <<0>> \o (IF offset < 0 THEN <<0, 0>> ELSE <<0>> \o Zeros(7))
        \o VarBits(Len(body) \div 8, 8) \o body

WriteContainer(payloads) ==
    LET body == Padded(Bits(0, 5) \o FlattenSeq(payloads) \o Bits(0, 5))
    IN Syncword \o Bits(Len(body) \div 8, 16) \o body

\* The code of a symbol: the path to its leaf.
RECURSIVE Code(_, _, _)
Code(tree, node, symbol) ==
    LET Below(child) == IF child < 0 THEN IF -child - 1 = symbol THEN {<<>>} ELSE {}
                        ELSE Code(tree, child, symbol)
    IN {<<0>> \o c : c \in Below(tree[node + 1][1])} \cup {<<1>> \o c : c \in Below(tree[node + 1][2])}

WriteSymbols(tree, symbols) ==
    FlattenSeq([i \in DOMAIN symbols |-> CHOOSE c \in Code(tree, 0, symbols[i]) : TRUE])

\* What an encoder means by an object: [bands, quant, offsets, points], where a
\* point is a matrix (channels by bands), or for a sparse object the channel
\* and the coefficient of each band.
WriteParams(o) ==
    IF o = <<>> THEN <<0>>
    ELSE LET index == CHOOSE i \in 1..8 : Bands[i] = o.bands
         IN Fields(<<<<1, 1>>, <<index - 1, 3>>, <<IF o.sparse THEN 1 ELSE 0, 1>>, <<o.quant - 1, 1>>,
                     <<IF o.offsets = <<>> THEN 0 ELSE 1, 1>>, <<Len(o.points) - 1, 1>>>>)
                \o FlattenSeq([i \in DOMAIN o.offsets |-> Bits(o.offsets[i] - 1, 5)])

Differences(values, first, n) ==
    [b \in DOMAIN values |-> (values[b] - (IF b = 1 THEN first ELSE values[b - 1])) % n]

WritePoint(o, channels, point) ==
    LET n == SmallLevels[o.quant]
        idx == [b \in 1..o.bands |-> point[b][1]]
        vec == [b \in 1..o.bands |-> point[b][2]]
    IN IF o.sparse
       THEN Bits(idx[1], 3)
            \o WriteSymbols(ChannelTree(channels), Tail(Differences(idx, 0, channels)))
            \o WriteSymbols(SmallTrees[o.quant], Differences(vec, SmallStart[o.quant], n))
       ELSE FlattenSeq([c \in 1..channels |->
                WriteSymbols(SmallTrees[o.quant], Differences(point[c], n \div 2, n))])

WriteJoc(config, declared, objects) ==
    Padded(Fields(<<<<config, 3>>, <<declared - 1, 6>>, <<0, 3>>, <<0, 8>>, <<7, 10>>>>)
           \o FlattenSeq([i \in DOMAIN objects |-> WriteParams(objects[i])])
           \o FlattenSeq([i \in DOMAIN objects |->
                  IF objects[i] = <<>> THEN <<>>
                  ELSE FlattenSeq([k \in DOMAIN objects[i].points |->
                           WritePoint(objects[i], Channels[config], objects[i].points[k])])]))

\* The matrix a written point stands for.
Meant(o, channels, point) ==
    [c \in 1..channels |-> [b \in 1..o.bands |->
        IF ~o.sparse THEN point[c][b]
        ELSE IF point[b][1] = c - 1 THEN point[b][2] ELSE SmallLevels[o.quant] \div 2]]

\* An OAMD payload: program fields, then elements, each [id, body].
WriteOamd(objects, program_, elements) ==
    Padded(Bits(0, 2) \o Bits(objects - 1, 5) \o program_ \o <<0>> \o Bits(Len(elements), 4)
           \o FlattenSeq([i \in DOMAIN elements |->
                  LET body == Padded(<<0>> \o elements[i][2])
                  IN Bits(elements[i][1], 4) \o VarBits(Len(body) \div 8 - 1, 4) \o body]))

\* An object element of one block; an info is <<>> (inactive), or <<x, y, z>>
\* with a gain, a size and additional bytes, or "fixed" for a bed object.
WriteInfo(info) ==
    CASE info = <<>> -> <<1, 0>>
      [] info = <<"bed">> -> <<0>> \o Bits(2, 2) \o Zeros(6) \o <<1>> \o <<1>> \o Bits(0, 4) \o Bits(255, 8)
      [] OTHER -> <<0>> \o Bits(0, 2) \o <<0>> \o Bits(9, 5) \o Bits(info[1], 6) \o Bits(info[2], 6)
                  \o <<1>> \o Bits(info[3], 4) \o <<1, 0>> \o Bits(5, 4) \o Zeros(4)
                  \o Bits(info[3] % 3, 2) \o Zeros(CASE info[3] % 3 = 1 -> 5 [] info[3] % 3 = 2 -> 15 [] OTHER -> 0)
                  \o <<0, 0>> \o <<0>>

WriteObjects(sample, factor, ramp, infos) ==
    (IF sample = 0 THEN Bits(0, 2) ELSE Bits(2, 2) \o Bits(sample, 5)) \o Bits(0, 3) \o Bits(factor, 6)
        \o (IF ramp = 512 THEN Bits(1, 2) ELSE Bits(3, 2) \o <<0>> \o Bits(ramp, 11)) \o <<1>>
        \o FlattenSeq([i \in DOMAIN infos |-> WriteInfo(infos[i])])

\* A trim element of mode 2: eight defaults but one explicit record, and the
\* objects it bypasses.
WriteTrim(levels, bypass) ==
    Bits(1, 2) \o Bits(0, 2) \o Bits(2, 2) \o <<1, 1, 1, 1>> \o <<0, 0>> \o Bits(9, 5)
        \o Bits(levels[1], 4) \o <<1>> \o Bits(levels[2], 4) \o <<0, 1>> \o <<1, 1, 1>>
        \o (IF bypass = <<>> THEN <<0>> ELSE <<1>> \o bypass)

-----------------------------------------------------------------------------
(* What is sent.  A syncframe is its header, its bits, and what they mean: *)
(* the payloads of the one genuine container, or nothing.                  *)

Nothing == [joc |-> <<>>, oamd |-> <<>>]

Header(core, acmod, lfeon, chanmap) ==
    [core |-> core, acmod |-> acmod, lfeon |-> lfeon, hasChanmap |-> chanmap # {}, chanmap |-> chanmap]

Sent(header, bits, means) ==
    [core |-> header.core, acmod |-> header.acmod, lfeon |-> header.lfeon,
     hasChanmap |-> header.hasChanmap, chanmap |-> header.chanmap, bits |-> Padded(bits), means |-> means]

CoreHeader == Header(TRUE, 7, TRUE, {})
Joint(config) == IF config \in {0, 3} THEN Header(FALSE, 0, FALSE, {})
                 ELSE Header(FALSE, 0, FALSE, IF config = 1 THEN {6} ELSE {11})

\* Objects: absent, dense and sparse, of one and three bands, one and two points.
DenseMatrix(c, bands, n) == [i \in 1..c |-> [b \in 1..bands |-> (i * b + i) % n]]
ObjectsOf(config) ==
    LET c == Channels[config]
        dense(bands, quant, points) ==
            [bands |-> bands, quant |-> quant, sparse |-> FALSE, offsets |-> <<>>,
             points |-> [k \in 1..points |-> DenseMatrix(c, bands, SmallLevels[quant])]]
        sparse(offsets, points) ==
            [bands |-> 3, quant |-> 2, sparse |-> TRUE, offsets |-> offsets, points |-> points]
    IN {<<dense(1, 1, 1)>>, <<<<>>, dense(3, 2, 1)>>,
        <<sparse(<<>>, <<<<<<c - 1, 5>>, <<0, 0>>, <<0, 2>>>>>>), <<>>>>,
        <<sparse(<<7, 32>>, <<<<<<0, 1>>, <<2, 4>>, <<1, 4>>>>, <<<<3, 0>>, <<2, 5>>, <<2, 1>>>>>>),
          dense(1, 2, 2)>>}

\* Programmes: dynamic objects with an LFE, a standard bed, and objects.
Programmes == {[objects |-> 3, fixed |-> 1, bits |-> <<1, 1>>],
               [objects |-> 3, fixed |-> 3, bits |-> <<0>> \o Bits(5, 4) \o <<0, 0>> \o <<0, 1>> \o Bits(3, 10) \o Bits(1, 5)]}

Info(p, i) == IF i <= p.fixed THEN <<"bed">> ELSE IF i = 2 THEN <<>> ELSE <<62, 63, i + 10>>

WriteProgramme(p, sample, factor, ramp, order, levels) ==
    LET object == <<1, WriteObjects(sample, factor, ramp, [i \in 1..p.objects |-> Info(p, i)])>>
        trim == <<2, WriteTrim(levels, <<0, 1, 1>>)>>
        other == <<5, Bits(170, 8) \o Bits(3, 7)>>
    IN WriteOamd(p.objects, p.bits,
                 CASE order = 1 -> <<object>> [] order = 2 -> <<other, object, trim>>
                   [] OTHER -> <<trim, other, object>>)

\* Audio data before and after, and a marker that is not a container.
Junk == Bits(22, 7)
FalseMarker == Syncword \o Bits(3, 16) \o Zeros(30)

OamdOf(p, order) == WriteProgramme(p, 5, 3, IF order = 1 THEN 512 ELSE 1000, order, <<4, 9>>)
Plain == WriteProgramme(CHOOSE p \in Programmes : p.fixed = 1, 0, 0, 512, 1, <<0, 0>>)

Genuine(config, objects, p, order, group) ==
    WriteContainer(<<WritePayload(OamdId, 6, group, OamdOf(p, order)),
                     WritePayload(JocId, -1, group, WriteJoc(config, Len(objects), objects))>>)

\* Containers that are not the frame's: of something else, truncated within
\* its JOC payload, or complete but without a common group.
Decoys ==
    {<<>>, FalseMarker,
     WriteContainer(<<WritePayload(OamdId, -1, 1, Plain), WritePayload(JocId, -1, 1, Bits(255, 8))>>),
     WriteContainer(<<WritePayload(OamdId, -1, -1, Plain),
                      WritePayload(JocId, -1, 2, WriteJoc(0, 1, <<<<>>>>))>>),
     WriteContainer(<<WritePayload(JocId, -1, 1, WriteJoc(0, 1, <<<<>>>>))>>)}

\* A container whose OAMD payload is unknown data that holds a whole container.
Nesting(config, objects, p, inner) ==
    WriteContainer(<<WritePayload(20, -1, -1, Padded(inner)), WritePayload(OamdId, 6, 1, OamdOf(p, 1)),
                     WritePayload(JocId, -1, 1, WriteJoc(config, Len(objects), objects))>>)

Meaning(config, objects, p, order) ==
    [joc |-> <<[config |-> config, objects |-> objects]>>, oamd |-> <<[programme |-> p, order |-> order]>>]

Genuines ==
    UNION {{Sent(Joint(c), Junk \o Genuine(c, objects, p, order, 1), Meaning(c, objects, p, order)) :
                objects \in ObjectsOf(c), p \in Programmes, order \in 1..3} : c \in 0..4}

SomeObjects(c) == CHOOSE o \in ObjectsOf(c) : Len(o) = 2 /\ o[1] = <<>>

Disguised ==
    {Sent(Joint(1), before \o Genuine(1, SomeObjects(1), p, 2, 1) \o Junk \o after,
          Meaning(1, SomeObjects(1), p, 2)) : before \in Decoys, after \in Decoys, p \in Programmes}
    \cup {Sent(Joint(2), Junk \o Nesting(2, SomeObjects(2), p, inner), Meaning(2, SomeObjects(2), p, 1)) :
            inner \in Decoys \cup {Genuine(1, SomeObjects(1), p, 1, 1) : p \in Programmes}, p \in Programmes}

\* Every truncation of one syncframe: its container no longer fits.
Cut ==
    LET p == CHOOSE q \in Programmes : q.fixed = 3
        whole == Junk \o Genuine(0, SomeObjects(0), p, 3, 1)
    IN {Sent(Joint(0), SubSeq(whole, 1, n), Nothing) : n \in {8 * k : k \in 0..(Len(whole) \div 8 - 1)}}

Core == Sent(CoreHeader, <<>>, Nothing)

\* One bit of a syncframe is wrong: nobody knows what it means.
Unknown == [joc |-> <<>>, oamd |-> <<"unknown">>]
Flipped ==
    LET whole == Junk \o Genuine(1, SomeObjects(1), CHOOSE q \in Programmes : q.fixed = 3, 2, 1)
    IN {Sent(Joint(1), [whole EXCEPT ![i] = 1 - @], Unknown) : i \in 8..Len(whole)}

\* Every coding mode and channel map against every configuration.
Layouts ==
    LET bits(c) == Genuine(c, <<<<>>>>, CHOOSE q \in Programmes : q.fixed = 1, 1, 1)
        maps == {m \in SUBSET {1, 3, 4, 5, 6, 7, 11, 13, 14, 15} : Cardinality(m) \in 1..2}
    IN {<<<<Sent(Header(TRUE, acmod, lfe, {}), <<>>, Nothing),
            Sent(Header(FALSE, 0, FALSE, map), bits(c), Unknown)>>>> :
            acmod \in {2, 3, 5, 6, 7}, lfe \in BOOLEAN, map \in maps, c \in {0, 1, 2}}

SmallPrograms ==
    {<<<<Core, s>>>> : s \in Cut \cup Genuines \cup Disguised \cup Flipped}
    \cup {<<<<Core, s>>, <<Core>>, <<Core, t>>>> : s \in Cut, t \in {CHOOSE g \in Genuines : g.means.joc[1].config = 3}}
    \cup Layouts

-----------------------------------------------------------------------------

\* The syncframe the frame under assembly has its metadata from, if any.
Source == {s \in {program[at[1]][i] : i \in 1..(at[2] - 1)} : s.means.joc # <<>>}

Trusted == \A f \in DOMAIN program : \A i \in DOMAIN program[f] : program[f][i].means # Unknown

Reading == status = "ok" /\ at[1] <= Len(program) /\ at[2] > 1

\* Whatever the bits, what the parsers let through is in the range the
\* renderers index with.
IndicesFit ==
    LET p == entry.params
    IN /\ p.config \in 0..4 /\ p.present \subseteq 1..15
       /\ \A i \in DOMAIN p.matrices : \A k \in DOMAIN p.matrices[i] :
            /\ DOMAIN p.matrices[i][k] = 1..Channels[p.config] /\ Len(p.matrices[i]) <= 2
            /\ \A c \in DOMAIN p.matrices[i][k] : \A b \in DOMAIN p.matrices[i][k][c] :
                    p.matrices[i][k][c][b] \in 0..5 /\ b <= 23
       /\ entry.hasUpdate => /\ \A i \in 1..OA!MaxSlots : entry.update.slots[i] \in (-1..62) \X (-1..62) \X (-1..15)
                             /\ entry.update.offset >= 0 /\ entry.update.ramp \in 0..2048
                             /\ entry.update.objects <= OA!MaxSlots
       /\ plan.ok => \A i \in DOMAIN plan.lane : plan.lane[i] \in 1..plan.channels

\* The syncframes read so far.
Seen == UNION {{program[f][i] : i \in {j \in DOMAIN program[f] :
                                          f < at[1] \/ (f = at[1] /\ j < at[2])}} : f \in DOMAIN program}

\* A syncframe with markers, none of which begins a container with both payloads.
MarkersOnly(s) == Markers(s.bits) # {} /\ Candidates(s.bits) = {}

\* The container the encoder wrote is found, and no other: not the audio data
\* that looks like one, not one inside a payload, nor one that is incomplete
\* or does not parse; and none of these is taken for the frame's own.  Whether a
\* syncframe with nothing but such markers fails is left open: the code takes
\* it for one without metadata (emdf_parser.cpp:331), where emdf_parser.h:65 says
\* that it fails.
ContainerIsOwn ==
    Trusted => /\ status = "ok" \/ \E s \in Seen : MarkersOnly(s)
               /\ Reading => /\ entry.hasJoc <=> Source # {}
                             /\ \A s \in Source : entry.params.config = s.means.joc[1].config

\* The matrices are those the encoder means, point by point and band by band,
\* whether they were sent as columns of differences or as one moving channel.
MatricesAreMeant ==
    Reading => \A s \in Source :
        LET joc == s.means.joc[1]
        IN \A i \in DOMAIN joc.objects :
               /\ i \in entry.params.present <=> joc.objects[i] # <<>>
               /\ joc.objects[i] # <<>> =>
                    /\ entry.params.matrices[i] =
                            [k \in DOMAIN joc.objects[i].points |->
                                Meant(joc.objects[i], Channels[joc.config], joc.objects[i].points[k])]
                    /\ joc.objects[i].offsets # <<>> => entry.params.offsets[i] = joc.objects[i].offsets

\* Positions, times and trim are those the encoder means, wherever in the
\* payload the elements are; a bed object, an inactive one and a code that
\* names no position leave the position as it was.
UpdateIsMeant ==
    Reading => \A s \in Source :
        LET p == s.means.oamd[1].programme
            order == s.means.oamd[1].order
        IN /\ \A i \in 1..p.objects :
                entry.update.slots[i] = IF Info(p, i) \in {<<"bed">>, <<>>} THEN <<-1, -1, -1>>
                                        ELSE <<62, -1, i + 10>>
           /\ entry.update.offset = 5 + 3 * 32 /\ entry.outer = 6
           /\ entry.update.ramp = IF order = 1 THEN 512 ELSE 1000
           /\ entry.update.trim # <<>> <=> order # 1
           /\ order # 1 => /\ entry.update.trim[1].bypassed = {2, 3}
                           /\ entry.update.trim[1].records[5].value = [k \in 0..4 |-> CASE k = 0 -> 4 [] k = 3 -> 10 [] OTHER -> 0]
           /\ entry.beds # <<>> <=> p.fixed = 3

\* The three readings of an OAMD payload, each with its own walk, agree.
ReadingsAgree ==
    \A f \in DOMAIN program : \A i \in DOMAIN program[f] :
        \A found \in {FindJoc(program[f][i].bits, Scores(program[f][i].bits))} :
            found.is = "found" =>
                \A d \in {ExtractPayload(program[f][i].bits, found.container, OamdId)} :
                    \A whole \in {OA!ParseId11(d)} :
                        whole.ok => /\ OA!ParseTrim(d) = [ok |-> TRUE, trim |-> whole.trim]
                                    /\ OA!ParseBedAssignments(d).ok

\* What is read of an OAMD payload is what was meant, by every reading of it.
OamdIsMeant == UpdateIsMeant /\ ReadingsAgree

\* Every lane of an accepted plan is fed by the decoded channel of its own
\* position, no two by the same, none by the LFE and no channel is left over,
\* whatever the core, the map and the configuration claim.
LanesHaveTheirChannels ==
    plan.ok =>
        LET frame == program[planOf]
            declared == UNION {Range(IF frame[i].core THEN CorePositions([hasCore |-> TRUE, acmod |-> frame[i].acmod, lfeon |-> frame[i].lfeon])
                                     ELSE ExpandChanmap(frame[i].chanmap)) : i \in DOMAIN frame}
            decoded == SelectSeq(DecodedOrder, LAMBDA x : x \in declared)
        IN /\ plan.channels = Cardinality(declared)
           /\ \A i \in 1..5 : decoded[plan.lane[i]] = <<"L", "R", "C", "Ls", "Rs">>[i]
           /\ {decoded[plan.lane[i]] : i \in DOMAIN plan.lane} = declared \ {"LFE"}
           /\ decoded[plan.lfe] = "LFE"
           /\ Len(plan.lane) = plan.channels - 1

\* What a frame hands to the renderers can be indexed with, and each lane
\* carries the channel it is taken for.
RenderersCanIndex == IndicesFit /\ LanesHaveTheirChannels

=============================================================================
