----------------------------- MODULE JocPayload -----------------------------
(***************************************************************************)
(* What src/joc_bitstream takes from a frame: the matrices of its objects, *)
(* from the bits of an ID14 payload (parse_id14), and the lanes its bed    *)
(* feeds.  A matrix is kept as quantiser indices; the code subtracts half  *)
(* the range and scales by a constant.                                     *)
(***************************************************************************)
EXTENDS Emdf

CONSTANTS
    Levels,        \* quantiser levels by quant_idx, <<96, 192>> in the code
    SparseStart,   \* where a sparse column starts, <<50, 100>> in the code
    DenseTree,     \* joc_huff_code_{coarse,fine}_generic
    SparseTree     \* joc_huff_code_{coarse,fine}_coeff_sparse

MaxObjects == 15

\* num_channels_for_config; other configurations are refused.
Channels == [config \in 0..4 |-> IF config \in {0, 3} THEN 5 ELSE 7]

\* num_bands_for_index
Bands == <<1, 3, 5, 7, 9, 12, 15, 23>>

\* joc_huff_code_{5,7}ch_pos_index_sparse: a node is the pair of its children,
\* and a negative child -s - 1 is the symbol s.
ChannelTree(channels) ==
    IF channels = 5 THEN <<<<-1, 1>>, <<2, 3>>, <<-4, -3>>, <<-2, -5>>>>
    ELSE <<<<-1, 1>>, <<2, 3>>, <<4, 5>>, <<-4, -3>>, <<-2, -5>>, <<-6, -7>>>>

-----------------------------------------------------------------------------

\* huff_decode.  A walk that leaves the tree fails like a truncated one.
RECURSIVE Walk(_, _, _, _)
Walk(tree, d, p, node) ==
    IF node < 0 THEN [value |-> -node - 1, end |-> p]
    ELSE IF node >= Len(tree) \/ p >= Len(d) THEN [value |-> 0, end |-> Len(d) + 1]
    ELSE Walk(tree, d, p + 1, tree[node + 1][Read(d, p, 1) + 1])

\* n symbols in a row, appended to the ones of acc.
Symbols(tree, d, n, acc) ==
    FoldLeft(LAMBDA a, i : LET s == Walk(tree, d, a.end, 0)
                           IN [values |-> Append(a.values, s.value), end |-> s.end],
             acc, [i \in 1..n |-> i])

\* The parameters of one object.
ObjectAt(d, p) ==
    IF ~Flag(d, p) THEN [present |-> FALSE, end |-> p + 1]
    ELSE LET sloped == Flag(d, p + 6)
             points == Read(d, p + 7, 1) + 1
         IN [present |-> TRUE, bands |-> Bands[Read(d, p + 1, 3) + 1], sparse |-> Flag(d, p + 4),
             quant |-> Read(d, p + 5, 1) + 1,
             offsets |-> [k \in 1..points |-> IF sloped THEN Read(d, p + 3 + 5 * k, 5) + 1 ELSE 0],
             end |-> p + 8 + (IF sloped THEN 5 * points ELSE 0)]

Objects(d, p, n) ==
    LET Add(a, o) == [values |-> Append(a.values, o), end |-> o.end]
    IN FoldLeft(LAMBDA a, i : Add(a, ObjectAt(d, a.end)), [values |-> <<>>, end |-> p], [i \in 1..n |-> i])

-----------------------------------------------------------------------------
(* The matrix of one data point: channels by bands, from its symbols.      *)

\* Mutant: only the last difference counts.
Accumulated_LastOnly(differences, first, n) ==
    [b \in DOMAIN differences |-> (differences[b] + (IF b = 1 THEN first ELSE differences[b - 1])) % n]

\* Differences added up from a first value, modulo n.
Accumulated(differences, first, n) ==
    LET sum[b \in DOMAIN differences] == (differences[b] + (IF b = 1 THEN first ELSE sum[b - 1])) % n
    IN sum

\* reconstruct_dense: each channel accumulates over the bands.
Dense(o, channels, symbols) ==
    [c \in 1..channels |-> Accumulated(SubSeq(symbols, (c - 1) * o.bands + 1, c * o.bands),
                                       Levels[o.quant] \div 2, Levels[o.quant])]

\* reconstruct_sparse: one channel is active in a band, and the coefficient
\* accumulates whatever the channel.
Sparse(o, channels, idx, vec) ==
    LET active == Accumulated(idx, 0, channels)
        coefficient == Accumulated(vec, SparseStart[o.quant], Levels[o.quant])
    IN [c \in 1..channels |->
            [b \in 1..o.bands |-> IF active[b] = c - 1 THEN coefficient[b] ELSE Levels[o.quant] \div 2]]

\* One data point of an object, appended to the ones of acc: a dense one is one
\* row of symbols, a sparse one its channels and then its coefficients.
DensePoint(o, channels, acc, symbols) ==
    [acc EXCEPT !.matrices = Append(@, Dense(o, channels, symbols.values)), !.end = symbols.end]

SparsePoint(o, channels, acc, idx, vec) ==
    [matrices |-> Append(acc.matrices, Sparse(o, channels, idx.values, vec.values)),
     end |-> vec.end, ok |-> acc.ok /\ idx.values[1] < channels]

SparseFrom(o, channels, d, acc, idx) ==
    SparsePoint(o, channels, acc, idx,
                Symbols(SparseTree[o.quant], d, o.bands, [values |-> <<>>, end |-> idx.end]))

Point(o, channels, d, acc) ==
    IF o.sparse
    THEN SparseFrom(o, channels, d, acc,
                    Symbols(ChannelTree(channels), d, o.bands - 1,
                            [values |-> <<Read(d, acc.end, 3)>>, end |-> acc.end + 3]))
    ELSE DensePoint(o, channels, acc,
                    Symbols(DenseTree[o.quant], d, channels * o.bands, [values |-> <<>>, end |-> acc.end]))

\* The matrices of an object follow the parameters of all of them.
Matrices(o, channels, d, p) ==
    IF ~o.present THEN [matrices |-> <<>>, end |-> p, ok |-> TRUE]
    ELSE FoldLeft(LAMBDA a, k : Point(o, channels, d, a),
                  [matrices |-> <<>>, end |-> p, ok |-> TRUE], o.offsets)

-----------------------------------------------------------------------------

\* parse_id14: the head, the parameters of the objects, then their matrices.
Body(d, channels, params) ==
    LET Add(a, m) == [values |-> Append(a.values, m.matrices), end |-> m.end, ok |-> a.ok /\ m.ok]
    IN FoldLeft(LAMBDA a, o : Add(a, Matrices(o, channels, d, a.end)),
                [values |-> <<>>, end |-> params.end, ok |-> TRUE], params.values)

Frame(d, declared, params, body) ==
    IF Failed(d, params.end) \/ Failed(d, body.end) \/ ~body.ok THEN Malformed
    ELSE [ok |-> TRUE, config |-> Read(d, 0, 3), ext |-> Read(d, 9, 3), clamped |-> declared > MaxObjects,
          present |-> {i \in DOMAIN params.values : params.values[i].present},
          offsets |-> [i \in DOMAIN params.values |-> IF params.values[i].present
                                                      THEN params.values[i].offsets ELSE <<>>],
          matrices |-> body.values, end |-> body.end]

FrameWith(d, declared, params) == Frame(d, declared, params, Body(d, Channels[Read(d, 0, 3)], params))

ParseId14(d) ==
    LET declared == Read(d, 3, 6) + 1
    IN IF Read(d, 0, 3) \notin DOMAIN Channels THEN Malformed
       ELSE FrameWith(d, declared, Objects(d, 30, IF declared > MaxObjects THEN MaxObjects ELSE declared))

\* check_id14_padding: at most seven bits are left, and they are zero.
PaddedWithZeros(d, parsed) ==
    parsed.ok /\ Len(d) - parsed.end <= 7 /\ \A i \in (parsed.end + 1)..Len(d) : d[i] = 0

PaddingIsClean(d) == PaddedWithZeros(d, ParseId14(d))

\* make_silent_frame_params: every object, one band, one point, all zero.
SilentFrame ==
    [ok |-> TRUE, config |-> 0, ext |-> 0, clamped |-> FALSE, present |-> 1..MaxObjects,
     offsets |-> [i \in 1..MaxObjects |-> <<0>>],
     matrices |-> [i \in 1..MaxObjects |-> <<[c \in 1..5 |-> <<Levels[1] \div 2>>]>>], end |-> 0]

\* score_container_as_joc
Score(d, c) ==
    LET associated == Payload(c, OamdId).group >= 0 /\ Payload(c, OamdId).group = Payload(c, JocId).group
    IN IF ~ParseId14(ExtractPayload(d, c, JocId)).ok THEN 0 ELSE IF associated THEN 2 ELSE 1

Scores(d) == [c \in Candidates(d) |-> Score(d, c)]

\* parse_eac3_frame: the parameters of a syncframe.
ParametersOf(d, found) ==
    IF found.is = "found" THEN ParseId14(ExtractPayload(d, found.container, JocId)) ELSE Malformed

ParseEac3Frame(d) == ParametersOf(d, FindJoc(d, Scores(d)))

-----------------------------------------------------------------------------
(***************************************************************************)
(* Which decoded channel feeds which JOC lane, from three descriptions of  *)
(* one frame: the coding mode of its core substream, the channel map of    *)
(* its dependent substream and the downmix configuration of its JOC        *)
(* payload (joc_parser.cpp), and the bed its OAMD declares                 *)
(* (bed_layout_map.cpp).  A channel map is the set of table indices set.   *)
(***************************************************************************)

NoPlan(reason) == [ok |-> FALSE, reason |-> reason]

\* kPositionBits: the order in which a decoded bed lists its channels.
DecodedOrder == <<"L", "R", "C", "LFE", "Lrs", "Rrs", "Cs", "Ls", "Rs", "Ts",
                  "Vhl", "Vhc", "Vhr", "Lts", "Rts">>

\* Table E2.5 of a channel map; bit 0 is the most significant one.
ChanmapTable ==
    <<<<"L">>, <<"C">>, <<"R">>, <<"Ls">>, <<"Rs">>, <<"Ls", "Rs">>, <<"Lrs", "Rrs">>, <<"Cs">>,
      <<"Ts">>, <<>>, <<>>, <<"Vhl", "Vhr">>, <<"Vhc">>, <<"Lts", "Rts">>, <<"LFE2">>, <<"LFE">>>>

ExpandChanmap(map) ==
    FlattenSeq([i \in 1..16 |-> IF (i - 1) \in map THEN ChanmapTable[i] ELSE <<>>])

AcmodPositions(acmod) ==
    CASE acmod < 2 -> <<"C">>
      [] acmod = 2 -> <<"L", "R">>
      [] acmod = 3 -> <<"L", "C", "R">>
      [] acmod = 4 -> <<"L", "R", "Cs">>
      [] acmod = 5 -> <<"L", "C", "R", "Cs">>
      [] acmod = 6 -> <<"L", "R", "Ls", "Rs">>
      [] OTHER -> <<"L", "C", "R", "Ls", "Rs">>

\* push_unique, one position after the other.
Unique(positions) ==
    FoldLeft(LAMBDA seen, x : IF Contains(seen, x) THEN seen ELSE Append(seen, x), <<>>, positions)

CorePositions(frame) ==
    IF ~frame.hasCore THEN <<>>
    ELSE AcmodPositions(frame.acmod) \o (IF frame.lfeon THEN <<"LFE">> ELSE <<>>)

\* chanmap_extra_pair: what the map adds to the core.
ExtraPair(core, map) ==
    Unique(SelectSeq(ExpandChanmap(map), LAMBDA x : ~Contains(core, x)))

\* num_channels_for_config and expected_pair
CoreChannels == [config \in 0..4 |-> IF config \in {0, 3} THEN 5 ELSE 7]

ExpectedPair(config) ==
    CASE config = 1 -> <<"Lrs", "Rrs">> [] config \in {2, 4} -> <<"Vhl", "Vhr">> [] OTHER -> <<>>

\* kExtraPairSlots
PairSlots == [config \in 0..4 |-> CASE config = 1 -> <<6, 7>> [] config \in {2, 4} -> <<8, 9>>
                                    [] OTHER -> <<-1, -1>>]

BedChannels(coreChannels) == IF coreChannels = 7 THEN 8 ELSE 6

InDecodedOrder_AsDeclared(positions) == Unique(positions)

InDecodedOrder(positions) == SelectSeq(DecodedOrder, LAMBDA x : Contains(positions, x))

IndexOf(ordered, x) ==
    IF Contains(ordered, x) THEN CHOOSE i \in DOMAIN ordered : ordered[i] = x ELSE 0

\* Lanes are numbered from 1, channels of the bed too.
PlanOf(ordered, wanted, config) ==
    [ok |-> TRUE, channels |-> Len(ordered), lfe |-> IndexOf(ordered, "LFE"),
     lane |-> [i \in DOMAIN wanted |-> IndexOf(ordered, wanted[i])], slots |-> PairSlots[config]]

Lanes(extra) == <<"L", "R", "C", "Ls", "Rs">> \o extra

\* compute_bed_plan
ComputeBedPlan(frame, config) ==
    LET core == CorePositions(frame)
        mapped == frame.hasDependent /\ frame.hasChanmap
        extra == IF mapped THEN ExtraPair(core, frame.chanmap) ELSE <<>>
        declared == core \o (IF mapped THEN ExpandChanmap(frame.chanmap) ELSE <<>>)
        ordered == InDecodedOrder(declared)
        wanted == Lanes(extra)
    IN IF config \notin DOMAIN CoreChannels THEN NoPlan("unsupported_configuration")
       ELSE IF \E x \in Range(declared) : ~Contains(DecodedOrder, x)
            THEN NoPlan("bed_channel_mapping_unsupported")
       ELSE IF Len(ordered) # BedChannels(CoreChannels[config]) THEN NoPlan("core_channel_count_mismatch")
       ELSE IF Len(wanted) # CoreChannels[config] THEN NoPlan("chanmap_cfg_mismatch")
       ELSE IF \E i \in DOMAIN wanted : ~Contains(ordered, wanted[i])
            THEN NoPlan("bed_channel_mapping_unsupported")
       ELSE PlanOf(ordered, wanted, config)

\* compute_bed_plan_for_config: the pair the configuration names.
ComputeBedPlanForConfig(config) ==
    IF config \notin DOMAIN CoreChannels THEN NoPlan("unsupported_configuration")
    ELSE PlanOf(InDecodedOrder(<<"LFE">> \o Lanes(ExpectedPair(config))),
                Lanes(ExpectedPair(config)), config)

-----------------------------------------------------------------------------
(* The bed an OAMD payload declares.                                       *)

\* BedChannel, in the order of the enumeration and of Table 12.
BedOrder == <<"L", "R", "C", "LFE", "Ls", "Rs", "Lrs", "Rrs", "Ltf", "Rtf", "Ltm", "Rtm",
              "Ltr", "Rtr", "Lw", "Rw", "LFE2">>

\* kStandardBits and kNonStandardBits: what a bit of a mask declares.
StandardBits ==
    <<{"L", "R"}, {"C"}, {"LFE"}, {"Ls", "Rs"}, {"Lrs", "Rrs"}, {"Ltf", "Rtf"}, {"Ltm", "Rtm"},
      {"Ltr", "Rtr"}, {"Lw", "Rw"}, {"LFE2"}>>

NonStandardBit(i) == Reverse(<<"L", "R", "C", "LFE", "Ls", "Rs", "Lrs", "Rrs", "Ltf", "Rtf", "Ltm",
                               "Rtm", "Ltr", "Rtr", "Lw", "Rw", "LFE2">>)[i + 1]

Declares(a) ==
    CASE a.kind = "lfe" -> {"LFE"}
      [] a.kind = "standard" -> UNION {StandardBits[i + 1] : i \in a.bits}
      [] OTHER -> {NonStandardBit(i) : i \in a.bits}

\* resolve_bed_layout
BedLayout(assignments) ==
    LET mask == UNION {Declares(assignments[i]) : i \in DOMAIN assignments}
    IN [present |-> mask # {}, mask |-> mask,
        complete |-> \A i \in DOMAIN assignments : assignments[i].kind = "standard",
        channels |-> SelectSeq(BedOrder, LAMBDA c : c \in mask \ {"LFE", "LFE2"})]

\* bed_channel_for_position; other positions are not in Table 12.
BedChannelOf(position) ==
    CASE position \in {"Vhl", "Vhr"} -> IF position = "Vhl" THEN "Ltf" ELSE "Rtf"
      [] position \in {"Lts", "Rts"} -> IF position = "Lts" THEN "Ltm" ELSE "Rtm"
      [] position \in {"Cs", "Ts", "Vhc"} -> "none"
      [] OTHER -> position

-----------------------------------------------------------------------------

\* check_cross_layer: an error, or the two notes.
CheckCrossLayer(config, ext, frame, assignments) ==
    LET core == CorePositions(frame)
        pair == ExtraPair(core, frame.chanmap)
        declared == core \o (IF frame.hasChanmap THEN pair ELSE <<>>)
        full == {x \in Range(declared) : x \notin {"LFE", "LFE2"}}
        bed == BedLayout(assignments)
        wide == CoreChannels[config] = 7
    IN IF ext # 0 THEN NoPlan("ext_config_idx_unsupported")
       ELSE IF wide /\ ~(frame.hasCore /\ frame.hasChanmap) THEN NoPlan("core_extension_pair")
       ELSE IF ~wide /\ frame.hasChanmap /\ pair # <<>> THEN NoPlan("core_channel_count_mismatch")
       ELSE IF declared # <<>> /\ Cardinality(full) # CoreChannels[config]
            THEN NoPlan("core_channel_count_mismatch")
       ELSE [ok |-> TRUE, pairMismatch |-> wide /\ pair # ExpectedPair(config),
             bedMismatch |-> /\ bed.present /\ bed.complete
                             /\ \E x \in Range(core) :
                                    BedChannelOf(x) # "none" /\ BedChannelOf(x) \notin bed.mask]

\* kLayoutChannels: the names a speaker layout has, and layout_bed_anchor, the
\* speaker of its geometry a bed channel is sent to directly.
SpeakersOf(layout) ==
    CASE layout = 0 -> {"L", "R"}
      [] layout = 3 -> {"L", "R", "C", "LFE"}
      [] layout = 255 -> {"L", "R", "Lrs", "Rrs"}
      [] OTHER -> {"L", "R", "C", "LFE", "Ls", "Rs"}
            \cup (IF layout \in {11, 15, 16, 19, 20} THEN {"Lrs", "Rrs"} ELSE {})
            \cup (IF layout \in {19, 20} THEN {"Lw", "Rw"} ELSE {})
            \cup (IF layout \in {14, 16, 19, 20} THEN {"Ltf", "Rtf", "Ltr", "Rtr"} ELSE {})
            \cup (IF layout \in {13, 15, 20} THEN {"Ltm", "Rtm"} ELSE {})

HasAnchor(layout, channel) == channel # "LFE" /\ channel \in SpeakersOf(layout)

=============================================================================
