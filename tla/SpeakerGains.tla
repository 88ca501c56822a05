----------------------------- MODULE SpeakerGains -----------------------------
(***************************************************************************)
(* How the speaker renderer turns a position into the gains of the         *)
(* speakers (src/speaker/speaker_renderer.cpp) under the controls that     *)
(* a trim element asks for (src/speaker/speaker_trim.cpp).                 *)
(*                                                                         *)
(* Positions are Q15.  A pair of equal-power gains, cos and sin of the     *)
(* same angle, is modelled by shares of the power: as many Steps for the   *)
(* upper speaker as the position is from the lower one, the rest for the   *)
(* lower.  Shares along three axes multiply.  Levels are decibels in       *)
(* fortieths, balances sixteenths.                                         *)
(***************************************************************************)
EXTENDS Integers, Sequences, SequencesExt, FiniteSetsExt

CONSTANTS
    Places,    \* the coordinates considered
    Trims      \* the trim elements considered

VARIABLES point    \* the object that was placed last: <<>>, or where and how

Whole == 32768
Q15Max == 32767
Steps == 8

Clamp(value, low, high) == IF value < low THEN low ELSE IF value > high THEN high ELSE value
Least(a, b) == IF a < b THEN a ELSE b
Most(a, b) == IF a > b THEN a ELSE b
Magnitude(n) == IF n < 0 THEN -n ELSE n

-----------------------------------------------------------------------------
(***************************************************************************)
(* The speaker layouts (src/speaker/speaker_layouts.h): for each its       *)
(* compact speaker bits, how many dimensions it pans in, its speakers with *)
(* their places in Q15 and their channels, and their rows on the floor and *)
(* at the top.  Only the first of the seven regions, which is the one that *)
(* every caller in the repository renders in.                              *)
(***************************************************************************)
At(u, v, channel) == [u |-> u, v |-> v, channel |-> channel]

Layout_2_0 ==
    [bits |-> 1, mode |-> 1, floor |-> <<<<1, 2>>>>, top |-> <<>>,
     points |-> <<At(0, 0, 0), At(32767, 0, 1)>>]

Layout_3_1 ==
    [bits |-> 7, mode |-> 1, floor |-> <<<<1, 3, 2>>>>, top |-> <<>>,
     points |-> <<At(0, 0, 0), At(32767, 0, 1), At(16384, 0, 2)>>]

Layout_4_0 ==
    [bits |-> 9, mode |-> 2, floor |-> <<<<1, 2>>, <<3, 4>>>>, top |-> <<>>,
     points |-> <<At(0, 0, 0), At(32767, 0, 1), At(0, 32767, 2), At(32767, 32767, 3)>>]

Layout_5_1 ==
    [bits |-> 15, mode |-> 2, floor |-> <<<<1, 3, 2>>, <<4, 5>>>>, top |-> <<>>,
     points |-> <<At(0, 0, 0), At(32767, 0, 1), At(16384, 0, 2), At(0, 32767, 4),
                 At(32767, 32767, 5)>>]

Layout_7_1 ==
    [bits |-> 31, mode |-> 2, floor |-> <<<<1, 3, 2>>, <<4, 5>>, <<6, 7>>>>, top |-> <<>>,
     points |-> <<At(0, 0, 0), At(32767, 0, 1), At(16384, 0, 2), At(0, 16384, 4),
                 At(32767, 16384, 5), At(0, 32767, 6), At(32767, 32767, 7)>>]

Layout_5_1_2 ==
    [bits |-> 1039, mode |-> 3, floor |-> <<<<1, 3, 2>>, <<4, 5>>>>, top |-> <<<<6, 7>>>>,
     points |-> <<At(0, 0, 0), At(32767, 0, 1), At(16384, 0, 2), At(0, 32767, 4),
                 At(32767, 32767, 5), At(7928, 16384, 6), At(24840, 16384, 7)>>]

Layout_5_1_4 ==
    [bits |-> 2575, mode |-> 3, floor |-> <<<<1, 3, 2>>, <<4, 5>>>>, top |-> <<<<6, 7>>, <<8, 9>>>>,
     points |-> <<At(0, 0, 0), At(32767, 0, 1), At(16384, 0, 2), At(0, 32767, 4),
                 At(32767, 32767, 5), At(7928, 7928, 6), At(24840, 7928, 7), At(7928, 24840, 8),
                 At(24840, 24840, 9)>>]

Layout_7_1_2 ==
    [bits |-> 1055, mode |-> 3, floor |-> <<<<1, 3, 2>>, <<4, 5>>, <<6, 7>>>>, top |-> <<<<8, 9>>>>,
     points |-> <<At(0, 0, 0), At(32767, 0, 1), At(16384, 0, 2), At(0, 16384, 4),
                 At(32767, 16384, 5), At(0, 32767, 6), At(32767, 32767, 7), At(7928, 16384, 8),
                 At(24840, 16384, 9)>>]

Layout_7_1_4 ==
    [bits |-> 2591, mode |-> 3, floor |-> <<<<1, 3, 2>>, <<4, 5>>, <<6, 7>>>>,
     top |-> <<<<8, 9>>, <<10, 11>>>>,
     points |-> <<At(0, 0, 0), At(32767, 0, 1), At(16384, 0, 2), At(0, 16384, 4),
                 At(32767, 16384, 5), At(0, 32767, 6), At(32767, 32767, 7), At(7928, 7928, 8),
                 At(24840, 7928, 9), At(7928, 24840, 10), At(24840, 24840, 11)>>]

Layout_9_1_4 ==
    [bits |-> 2719, mode |-> 3, floor |-> <<<<1, 3, 2>>, <<8, 9>>, <<4, 5>>, <<6, 7>>>>,
     top |-> <<<<10, 11>>, <<12, 13>>>>,
     points |-> <<At(0, 0, 0), At(32767, 0, 1), At(16384, 0, 2), At(0, 16384, 4),
                 At(32767, 16384, 5), At(0, 32767, 6), At(32767, 32767, 7), At(0, 5285, 8),
                 At(32767, 5285, 9), At(7928, 7928, 10), At(24840, 7928, 11),
                 At(7928, 24840, 12), At(24840, 24840, 13)>>]

Layout_9_1_6 ==
    [bits |-> 3743, mode |-> 3, floor |-> <<<<1, 3, 2>>, <<8, 9>>, <<4, 5>>, <<6, 7>>>>,
     top |-> <<<<10, 11>>, <<12, 13>>, <<14, 15>>>>,
     points |-> <<At(0, 0, 0), At(32767, 0, 1), At(16384, 0, 2), At(0, 16384, 4),
                 At(32767, 16384, 5), At(0, 32767, 6), At(32767, 32767, 7), At(0, 5285, 8),
                 At(32767, 5285, 9), At(7928, 7928, 10), At(24840, 7928, 11),
                 At(7928, 16384, 12), At(24840, 16384, 13), At(7928, 24840, 14),
                 At(24840, 24840, 15)>>]

Layouts ==
    {Layout_2_0, Layout_3_1, Layout_4_0, Layout_5_1,
     Layout_7_1, Layout_5_1_2, Layout_5_1_4, Layout_7_1_2,
     Layout_7_1_4, Layout_9_1_4, Layout_9_1_6}

\* The surround and height speakers that choose the trim configuration of a
\* layout, and whether the layout takes a trim at all.
TrimClass(bits) ==
    LET Of(surrounds, heights, carries) ==
            [surrounds |-> surrounds, heights |-> heights, carries |-> carries]
    IN  CASE bits \in {1, 7} -> Of(0, 0, TRUE)
          [] bits \in {9, 15} -> Of(2, 0, TRUE)
          [] bits = 31 -> Of(4, 0, TRUE)
          [] bits = 1039 -> Of(2, 2, TRUE)
          [] bits = 2575 -> Of(2, 4, TRUE)
          [] bits = 1055 -> Of(4, 2, FALSE)
          [] bits \in {2591, 2719} -> Of(4, 4, FALSE)
          [] bits = 3743 -> Of(4, 6, FALSE)

\* expand_speaker_bitfield: which of the standard's speakers each compact bit is.
Expansion ==
    <<{0, 1}, {2}, {3}, {4, 5}, {6, 7}, {8}, {9, 10}, {11, 12}, {13, 14}, {15, 16}, {17, 18},
      {19, 20}, {21, 22}, {23, 24}, {25, 26}, {27, 28}, {29, 30}, {31}, {33, 34}, {35}, {36}, {37}>>

Speakers(bits) == UNION {Expansion[i] : i \in {j \in 1 .. 22 : (bits \div 2 ^ (j - 1)) % 2 = 1}}

-----------------------------------------------------------------------------
(***************************************************************************)
(* The controls of a trim element.                                         *)
(***************************************************************************)
TrimConfigIndex(class) ==
    LET Kind(count, few) == IF count = 0 THEN 0 ELSE IF count \in few THEN 1 ELSE 2
    IN  Kind(class.surrounds, {2, 3}) + 3 * Kind(class.heights, {2})

NoTrim == [warp |-> 0, global |-> 0, bypass |-> {}, configs |-> <<>>]

Direct(mode, trim) ==
    [mode |-> mode, warp |-> trim.warp, bypass |-> trim.bypass, centre |-> 0, surround |-> 0,
     height |-> 0, listener |-> 0, overhead |-> 0]

\* Surround and height attenuate only.
Explicit(trim, record) ==
    [Direct("explicit", trim) EXCEPT
        !.centre = record.centre, !.surround = Least(record.surround, 0),
        !.height = Least(record.height, 0),
        !.listener = record.listener, !.overhead = record.overhead]

\* parameters_from_oamd: the controls, none where the element cannot be used.  A
\* layout without trim is decided before the reserved mode is looked at.
ControlsOf(trim, class) ==
    LET record == trim.configs[TrimConfigIndex(class) + 1]
        mode ==
            CASE ~class.carries \/ trim.global = 1 -> "disabled"
              [] class.carries /\ trim.global = 0 -> "automatic"
              [] class.carries /\ trim.global > 2 -> "invalid"
              [] class.carries /\ trim.global = 2 ->
                    CASE record.is \in {"default", "absent"} -> "automatic"
                      [] record.is = "disabled" -> "disabled"
                      [] record.is = "explicit" ->
                            IF {record.listener, record.overhead} \subseteq -16 .. 16
                            THEN "explicit" ELSE "invalid"
    IN  IF trim.warp > 3 \/ mode = "invalid" THEN {}
        ELSE {IF mode = "explicit" THEN Explicit(trim, record) ELSE Direct(mode, trim)}

-----------------------------------------------------------------------------
(***************************************************************************)
(* Balance and trim of a position.                                         *)
(***************************************************************************)
\* front_back_balance: the walls, a twentieth of the room each, stay; the front
\* and the back half between them are stretched and squeezed.
FrontBackBalance(position, balance) ==
    LET steps == Magnitude(balance)
        toBack == balance > 0
        Line(slope, start) == ((18 + slope) * 20 * position + start) \div 360
    IN  CASE steps = 0 \/ 20 * position <= Whole \/ 20 * position >= 19 * Whole -> position
          [] OTHER ->
                IF 2 * position < Whole
                THEN IF toBack THEN Line(steps, -steps * Whole) ELSE Line(-steps, steps * Whole)
                ELSE IF toBack THEN Line(-steps, 19 * steps * Whole) ELSE Line(steps, -19 * steps * Whole)

ApplyBalance(position, height, set) ==
    ((Whole - height) * FrontBackBalance(position, set.listener)
        + height * FrontBackBalance(position, set.overhead)) \div Whole

\* layout_attenuation_db, from the standard's speakers.
AttenuationDb(bits) ==
    LET Has(speaker) == IF speaker \in Speakers(bits) THEN 1 ELSE 0
        heights == 2 * (Has(13) + Has(15) + Has(17) + Has(19) + Has(21))
        floors == Has(8) + 2 * (Has(31) + Has(4) + Has(6) + Has(11) + Has(25) + Has(27) + Has(29) + Has(33))
    IN  -Most(180 - 15 * Least(heights, 4) - 30 * Least(floors, 4), 0)

\* position_gain: the further to the back and to the top, the softer.
AutomaticDb(bits, v, w) ==
    LET back == Clamp(20 * v, 0, 12 * Whole)
        top == Clamp(15 * w - 3 * Whole, 0, 12 * Whole)
    IN  (AttenuationDb(bits) * Clamp(back + top, 0, 12 * Whole)) \div (12 * Whole)

\* explicit_position_gain.
ExplicitDb(set, u, v, w) ==
    LET surround == (Clamp(2 * v, 0, Whole) * (Whole - w)) \div Whole
        beyond == Most(Most(20 * w - Whole, 20 * v - Whole), Magnitude(20 * u - 10 * Whole) - Whole)
        centre == Whole - Clamp(beyond \div 2, 0, Whole)
    IN  (surround * Least(set.surround, 0) + w * Least(set.height, 0)
            + centre * set.centre) \div Whole

-----------------------------------------------------------------------------
(***************************************************************************)
(* Panning.                                                                *)
(***************************************************************************)
UpperShare(lower, upper, value) == (Steps * (value - lower)) \div (upper - lower)

\* Mutant: a position exactly at a speaker or a row is in no interval.
Interval_Open(place, value) ==
    {i \in 1 .. Len(place) - 1 : value > place[i] /\ value < place[i + 1]}

\* The interval a value is in, of the places in order.
Interval(place, value) ==
    {i \in 1 .. Len(place) - 1 : value > place[i] /\ value <= place[i + 1]}

\* The shares of an ascending sequence of places: all for the first or the last
\* outside of them, else divided between two neighbours.
Shared(place, value) ==
    [i \in DOMAIN place |->
        CASE value <= place[1] -> IF i = 1 THEN Steps ELSE 0
          [] value > Last(place) -> IF i = Len(place) THEN Steps ELSE 0
          [] OTHER ->
                IF i \in Interval(place, value)
                THEN Steps - UpperShare(place[i], place[i + 1], value)
                ELSE IF i - 1 \in Interval(place, value)
                THEN UpperShare(place[i - 1], place[i], value) ELSE 0]

\* axis0_gains: every row shares the power among its own speakers.
Axis0(points, rows, u) ==
    [p \in DOMAIN points |->
        LET InRow(r) == {i \in DOMAIN rows[r] : rows[r][i] = p}
            holding == {r \in DOMAIN rows : InRow(r) # {}}
        IN  IF holding = {} THEN 0
            ELSE LET r == CHOOSE x \in holding : \A y \in holding : y <= x
                     i == CHOOSE x \in InRow(r) : TRUE
                 IN  Shared([k \in DOMAIN rows[r] |-> points[rows[r][k]].u], u)[i]]

\* axis1_gains: the rows share the power, each giving its share to all of its own.
Axis1(points, rows, v) ==
    [p \in DOMAIN points |->
        LET holding == {r \in DOMAIN rows : p \in ToSet(rows[r])}
        IN  IF holding = {} THEN 0
            ELSE Shared([r \in DOMAIN rows |-> points[rows[r][1]].v], v)
                     [CHOOSE x \in holding : TRUE]]

\* plane_gains: one axis, or two.
Plane(points, rows, u, v, mode) ==
    [p \in DOMAIN points |->
        Axis0(points, rows, u)[p] * (IF mode >= 2 THEN Axis1(points, rows, v)[p] ELSE Steps)]

-----------------------------------------------------------------------------
(***************************************************************************)
(* Warp and fold: a layout whose surrounds are its only speakers behind    *)
(* the listener either stretches the floor, or renders for a layout with a *)
(* rear pair and folds that pair into the surrounds.                       *)
(***************************************************************************)
FloorYExponent(bits) ==
    IF Speakers(bits) \cap {4, 5, 8} # {} /\ Speakers(bits) \cap {6, 7, 11, 12} = {} THEN 1 ELSE 0

Rows(rows, place) ==
    SelectSeq([r \in DOMAIN rows |->
        SelectSeq([i \in DOMAIN rows[r] |-> place[rows[r][i]]], LAMBDA x : x # 0)],
        LAMBDA row : row # <<>>)

\* build_fold_source_40: 7.1 without its centre.
FoldSource40 ==
    LET mapped == [c \in 0 .. 7 |-> IF c <= 1 THEN c ELSE c - 2]
        kept == {p \in DOMAIN Layout_7_1.points : Layout_7_1.points[p].channel \notin {2, 3}}
        place == [p \in DOMAIN Layout_7_1.points |->
                     IF p \in kept THEN Cardinality({q \in kept : q <= p}) ELSE 0]
    IN  [Layout_7_1 EXCEPT
            !.bits = 25,
            !.points = [i \in 1 .. Cardinality(kept) |->
                LET p == Layout_7_1.points[CHOOSE q \in kept : place[q] = i]
                IN  [p EXCEPT !.channel = mapped[@]]],
            !.floor = Rows(@, place)]

\* configure_surround_fold: what warp 2 and 3 render through, the layout itself
\* when there is nothing to fold.
FoldLayout(layout) ==
    CASE layout.bits = 15 -> Layout_7_1
      [] layout.bits = 1039 -> Layout_7_1_2
      [] layout.bits = 2575 -> Layout_7_1_4
      [] layout.bits = 9 -> FoldSource40
      [] OTHER -> layout

\* The channel of a speaker is its rank among the layout's.
ChannelOf(bits, speaker) == Cardinality({s \in Speakers(bits) : s < speaker})

\* build_fold_matrix: where the power of a source speaker goes, in quarters:
\* squares of 1, of sqrt(3)/2 and of 1/2.
FoldTargets(source, target, warp, speaker) ==
    IF speaker \in Speakers(target) THEN {<<speaker, 4>>}
    ELSE IF speaker \notin {6, 7} THEN {}
    ELSE LET same == speaker - 2
             cross == IF speaker = 6 THEN 5 ELSE 4
         IN  IF warp = 2 THEN {<<same, 3>>, <<cross, 1>>} ELSE {<<same, 4>>}

-----------------------------------------------------------------------------
(***************************************************************************)
(* render_point: the share of the power of every point of the layout that  *)
(* is rendered, out of Steps ^ 3, and the level of the object.             *)
(***************************************************************************)
\* The floor coordinate is warped and then balanced; the height coordinate and
\* the one the trim looks at are balanced only.
Balanced(set, bypassed, value, w) ==
    IF set.mode = "explicit" /\ ~bypassed THEN ApplyBalance(value, w, set) ELSE value

Rendered(layout, set) == IF set.warp >= 2 THEN FoldLayout(layout) ELSE layout

RenderPoint(layout, set, bypassed, u, v, w) ==
    LET region == Rendered(layout, set)
        shift == IF set.warp = 0 THEN 0 ELSE FloorYExponent(region.bits)
        floorV == Balanced(set, bypassed, Clamp(v * 2 ^ shift, 0, Whole), w)
        floor == Plane(region.points, region.floor, u, floorV, region.mode)
        top == Plane(region.points, region.top, u, Balanced(set, bypassed, v, w), 3)
        up == IF region.mode # 3 THEN 0
              ELSE IF w >= Q15Max THEN Steps ELSE (Steps * w) \div Whole
    IN  [p \in DOMAIN region.points |->
            [floor |-> floor[p] * (Steps - up), top |-> IF up = 0 THEN 0 ELSE top[p] * up]]

PointDb(layout, set, bypassed, u, v, w) ==
    LET trimV == Balanced(set, bypassed, v, w)
    IN  CASE bypassed \/ set.mode = "disabled" -> 0
          [] ~bypassed /\ set.mode = "automatic" -> AutomaticDb(layout.bits, trimV, w)
          [] ~bypassed /\ set.mode = "explicit" -> ExplicitDb(set, u, trimV, w)

-----------------------------------------------------------------------------
\* An event places an object: in a renderer of any layout, under the controls of
\* any trim element that can be used, bypassed by it or not, anywhere.
PlaceObject ==
    /\ point = <<>>
    /\ \E layout \in Layouts, trim \in Trims \cup {NoTrim}, u, v, w \in Places :
          \E set \in ControlsOf(trim, TrimClass(layout.bits)) :
              \E bypassed \in {FALSE, set.bypass # {}} :
                  point' = <<[layout |-> layout, set |-> set, bypassed |-> bypassed, v |-> v, w |-> w,
                              shares |-> RenderPoint(layout, set, bypassed, u, v, w),
                              level |-> PointDb(layout, set, bypassed, u, v, w)]>>

\* The speakers of the standard that a layout pans to: all but the LFE.
Panned(bits) == Speakers(bits) \ {3}

\* Every point of a layout is the channel of a speaker of its own.
SpeakersInPlace(layout) ==
    /\ {layout.points[p].channel : p \in DOMAIN layout.points} =
          {ChannelOf(layout.bits, s) : s \in Panned(layout.bits)}
    /\ Len(layout.points) = Cardinality(Panned(layout.bits))

\* Folding keeps the power of every speaker, and finds a place for it.
FoldKeeps(layout, warp) ==
    \A s \in Speakers(FoldLayout(layout).bits) :
        LET targets == FoldTargets(FoldLayout(layout).bits, layout.bits, warp, s)
        IN  /\ {t[1] : t \in targets} \subseteq Speakers(layout.bits)
            /\ SumSet({t[2] : t \in targets}) = 4

\* Wherever an object is placed, in whatever layout and under whatever controls a
\* trim element may ask for, panning gives its whole power to speakers of the
\* layout, none of it to the LFE or to one speaker from the floor and from the
\* top, folding the rear pair loses none, balancing keeps the order of places
\* between the walls, and trim adds nothing but what a positive centre level does.
PowerIsWhole ==
    point # <<>> =>
        LET layout == point[1].layout
            set == point[1].set
            shares == point[1].shares
            Balance(v) == Balanced(set, point[1].bypassed, v, point[1].w)
        IN  /\ SpeakersInPlace(Rendered(layout, set))
            /\ set.warp >= 2 => FoldKeeps(layout, set.warp)
            /\ FoldFunction(LAMBDA share, sum : sum + share.floor + share.top, 0, shares)
                  = Steps * Steps * Steps
            /\ \A p \in DOMAIN shares : 0 \in {shares[p].floor, shares[p].top}
            /\ \A x \in Places : x >= point[1].v => Balance(point[1].v) <= Balance(x)
            /\ \A wall \in {0, Q15Max} : Balance(wall) = wall
            /\ point[1].level <= Most(set.centre, 0)

=============================================================================
