------------------------ MODULE SpeakerRendererProofs ------------------------
(***************************************************************************)
(* Proofs about SpeakerRenderer for every block and frame size, every      *)
(* table of gains, every sequence of updates and every batch of events.    *)
(***************************************************************************)
EXTENDS SpeakerRenderer, SequenceTheorems, TLAPS

(***************************************************************************)
(* Arithmetic of the blocks.                                               *)
(***************************************************************************)
LEMMA Quotient == ASSUME NEW x \in Int, NEW d \in Nat \ {0}
                  PROVE  /\ x \div d \in Int
                         /\ d * (x \div d) <= x
                         /\ x < d * (x \div d) + d
  OBVIOUS

LEMMA Products == ASSUME NEW d \in Nat, NEW m \in Int, NEW n \in Int, m <= n
                  PROVE  d * m \in Int /\ d * n \in Int /\ d * m <= d * n
  OBVIOUS

\* A later sample is not aligned to an earlier block.
LEMMA AlignIsMonotone ==
    ASSUME NEW x \in Nat, NEW y \in Nat, x <= y
    PROVE  Align(x) \in Nat /\ Align(y) \in Nat /\ Align(x) <= Align(y)
  <1> DEFINE h == Block \div 2 - 1
             p == Align(x)
             q == Align(y)
  <1>1. Block \in Nat /\ Block >= 2 /\ Block \in Nat \ {0}
    BY SpeakerAssumption
  <1>2. h \in Nat
    BY <1>1
  <1>3. x + h \in Nat /\ y + h \in Nat /\ x + h <= y + h
    BY <1>2
  <1>4. p = (x + h) \div Block /\ q = (y + h) \div Block
    BY <1>1 DEF Align
  <1> HIDE DEF h, p, q
  <1>5. /\ p \in Int /\ q \in Int
        /\ Block * p <= x + h /\ x + h < Block * p + Block
        /\ Block * q <= y + h /\ y + h < Block * q + Block
    <2>1. x + h \in Int /\ y + h \in Int
      BY <1>3
    <2>2. p \in Int /\ Block * p <= x + h /\ x + h < Block * p + Block
      <3>1. /\ (x + h) \div Block \in Int
            /\ Block * ((x + h) \div Block) <= x + h
            /\ x + h < Block * ((x + h) \div Block) + Block
        BY <1>1, <2>1, Quotient
      <3>2. QED
        BY <1>4, <3>1
    <2>3. q \in Int /\ Block * q <= y + h /\ y + h < Block * q + Block
      <3>1. /\ (y + h) \div Block \in Int
            /\ Block * ((y + h) \div Block) <= y + h
            /\ y + h < Block * ((y + h) \div Block) + Block
        BY <1>1, <2>1, Quotient
      <3>2. QED
        BY <1>4, <3>1
    <2>4. QED
      BY <2>2, <2>3
  <1>6. p >= 0
    <2>1. SUFFICES ASSUME p + 1 <= 0 PROVE FALSE
      BY <1>5
    <2>2. Block * (p + 1) <= Block * 0
      BY <1>1, <1>5, <2>1, Products
    <2>3. Block * (p + 1) = Block * p + Block
      BY <1>1, <1>5
    <2>4. QED
      BY <1>1, <1>3, <1>5, <2>2, <2>3, Products
  <1>7. p <= q
    <2>1. SUFFICES ASSUME q + 1 <= p PROVE FALSE
      BY <1>5
    <2>2. Block * (q + 1) <= Block * p
      BY <1>1, <1>5, <2>1, Products
    <2>3. Block * (q + 1) = Block * q + Block
      BY <1>1, <1>5
    <2>4. Block * p \in Int /\ Block * q \in Int
      BY <1>1, <1>5
    <2>5. QED
      BY <1>1, <1>3, <1>5, <2>2, <2>3, <2>4
  <1>8. QED
    BY <1>5, <1>6, <1>7 DEF p, q

LEMMA AlignType == ASSUME NEW x \in Nat PROVE Align(x) \in Nat
  <1>1. x <= x
    OBVIOUS
  <1>2. QED
    BY <1>1, AlignIsMonotone

\* The last sample of a call is aligned to its end, and not beyond.
LEMMA AlignOfCall == Samples \in Nat /\ Align(Samples) = FrameBlocks
  <1> DEFINE h == Block \div 2 - 1
             q == Align(Samples)
  <1>1. Block \in Nat /\ Block >= 2 /\ Block \in Nat \ {0} /\ FrameBlocks \in Nat
    BY SpeakerAssumption
  <1>2. h \in Nat /\ h < Block
    BY <1>1
  <1>3. Samples = Block * FrameBlocks /\ Samples \in Nat
    BY <1>1 DEF Samples
  <1>4. q = (Samples + h) \div Block
    BY <1>1, <1>3 DEF Align
  <1> HIDE DEF h, q
  <1>5. q \in Int /\ Block * q <= Samples + h /\ Samples + h < Block * q + Block
    BY <1>1, <1>2, <1>3, <1>4, Quotient
  <1>6. q <= FrameBlocks
    <2>1. SUFFICES ASSUME FrameBlocks + 1 <= q PROVE FALSE
      BY <1>1, <1>5
    <2>2. Block * (FrameBlocks + 1) <= Block * q
      BY <1>1, <1>5, <2>1, Products
    <2>3. Block * (FrameBlocks + 1) = Block * FrameBlocks + Block
      BY <1>1
    <2>4. QED
      BY <1>1, <1>2, <1>3, <1>5, <2>2, <2>3, Products
  <1>7. FrameBlocks <= q
    <2>1. SUFFICES ASSUME q + 1 <= FrameBlocks PROVE FALSE
      BY <1>1, <1>5
    <2>2. Block * (q + 1) <= Block * FrameBlocks
      BY <1>1, <1>5, <2>1, Products
    <2>3. Block * (q + 1) = Block * q + Block
      BY <1>1, <1>5
    <2>4. QED
      BY <1>1, <1>2, <1>3, <1>5, <2>2, <2>3, Products
  <1>8. QED
    BY <1>1, <1>3, <1>5, <1>6, <1>7 DEF q

-----------------------------------------------------------------------------
(***************************************************************************)
(* The inductive invariant.  The event at the head of the queue is not yet *)
(* behind, none is due after the call, and the last of them is the last    *)
(* that was accepted.                                                      *)
(***************************************************************************)
QueueOK ==
    /\ at = "idle" => queue = <<>>
    /\ queue # <<>> => block <= Align(queue[1].offset)
    /\ \A i \in 1 .. Len(queue) : Align(queue[i].offset) <= FrameBlocks
    /\ \A i \in 1 .. Len(queue) - 1 : Align(queue[i].offset) <= Align(queue[i + 1].offset)

LastOK ==
    IF queue = <<>> THEN schedule # <<>> => target = Last(schedule).gains
    ELSE schedule # <<>> /\ Last(schedule).gains = queue[Len(queue)].gains

SpeakerInv == TypeOK /\ QueueOK /\ LastOK /\ status # "outside"

Entry == [block : Nat, ramp : Nat, gains : [Route -> Int], late : Nat]

LEMMA FlatType == Flat(0) \in [Route -> Int] /\ Flat(0) \in [Route -> Nat]
  BY DEF Flat

LEMMA InitInv == Init => SpeakerInv
  <1> SUFFICES ASSUME Init PROVE SpeakerInv
    OBVIOUS
  <1>1. TypeOK
    <2>1. /\ offset \in Offsets \cup {None} /\ fixed \in BOOLEAN /\ controls \in Controls
          /\ coded \in [Objects -> Positions]
      BY SpeakerAssumption DEF Init
    <2>2. /\ current \in [Route -> Int] /\ target \in [Route -> Int] /\ step \in [Route -> Int]
          /\ remaining \in [Route -> Nat]
      BY FlatType DEF Init
    <2>3. /\ at \in {"idle", "mix"} /\ block \in 0 .. FrameBlocks
          /\ status \in {"ok", "refused", "outside"} /\ calls \in 0 .. MaxCalls
      BY SpeakerAssumption DEF Init
    <2>4. queue = <<>> /\ heard = <<>> /\ schedule = <<>>
      BY DEF Init
    <2>5. QED
      BY <2>1, <2>2, <2>3, <2>4, EmptySeq DEF TypeOK
  <1>2. QueueOK /\ LastOK /\ status # "outside"
    BY DEF Init, QueueOK, LastOK
  <1>3. QED
    BY <1>1, <1>2 DEF SpeakerInv

\* The elements of a concatenation.
LEMMA Joined ==
    ASSUME NEW S, NEW s \in Seq(S), NEW t \in Seq(S)
    PROVE  /\ s \o t \in Seq(S) /\ Len(s \o t) = Len(s) + Len(t)
           /\ \A i \in 1 .. Len(s) + Len(t) :
                 (s \o t)[i] = IF i <= Len(s) THEN s[i] ELSE t[i - Len(s)]
  OBVIOUS

\* What Begin does to the queue and the schedule, whoever calls it.
LEMMA BeginInv ==
    ASSUME SpeakerInv, at = "idle", calls < MaxCalls,
           NEW events \in Seq(Event), NEW late \in Nat, Begin(events, late),
           coded' \in [Objects -> Positions], controls' \in Controls
    PROVE  SpeakerInv'
  <1>1. /\ TypeOK /\ calls \in Nat /\ MaxCalls \in Nat /\ calls' \in 0 .. MaxCalls
        /\ UNCHANGED <<offset, fixed, current, target, step, remaining, heard>>
    BY SpeakerAssumption DEF SpeakerInv, TypeOK, Begin, gainVars
  <1>2. CASE ~Valid(events)
    <2>1. status' = "refused" /\ UNCHANGED <<at, block, queue, schedule>>
      BY <1>2 DEF Begin, callVars
    <2>2. TypeOK'
      BY <1>1, <2>1 DEF TypeOK
    <2>3. QED
      BY <1>1, <2>1, <2>2 DEF SpeakerInv, QueueOK, LastOK
  <1>3. CASE Valid(events)
    <2> DEFINE added == Scheduled(events, late)
    <2>1. /\ at' = "mix" /\ block' = 0 /\ queue' = events /\ status' = "ok"
          /\ schedule' = schedule \o added
      BY <1>3 DEF Begin
    <2>2. \A i \in 1 .. Len(events) :
              /\ events[i] \in Event /\ events[i].offset \in Nat /\ events[i].ramp \in Nat
              /\ events[i].gains \in [Route -> Int]
              /\ Align(events[i].offset) \in Nat /\ Align(events[i].ramp) \in Nat
              /\ Align(events[i].offset) <= FrameBlocks
      <3> SUFFICES ASSUME NEW i \in 1 .. Len(events)
                   PROVE  /\ events[i] \in Event /\ events[i].offset \in Nat /\ events[i].ramp \in Nat
                          /\ events[i].gains \in [Route -> Int]
                          /\ Align(events[i].offset) \in Nat /\ Align(events[i].ramp) \in Nat
                          /\ Align(events[i].offset) <= FrameBlocks
        OBVIOUS
      <3>1. events[i] \in Event
        OBVIOUS
      <3>2. /\ events[i].offset \in Nat /\ events[i].ramp \in Nat
            /\ events[i].gains \in [Route -> Int]
        BY <3>1 DEF Event
      <3>3. events[i].offset <= Samples
        BY <1>3 DEF Valid
      <3>4. Align(events[i].ramp) \in Nat
        BY <3>2, AlignType
      <3>5. /\ Align(events[i].offset) \in Nat
            /\ Align(events[i].offset) <= Align(Samples)
        BY <3>2, <3>3, AlignOfCall, AlignIsMonotone
      <3>6. Align(events[i].offset) <= FrameBlocks
        BY <3>5, AlignOfCall
      <3>7. QED
        BY <3>1, <3>2, <3>4, <3>5, <3>6
    <2>3. /\ Len(events) \in Nat /\ added \in Seq(Entry) /\ Len(added) = Len(events)
          /\ \A i \in 1 .. Len(events) : added[i].gains = events[i].gains
      <3>1. Len(heard) \in Nat /\ DOMAIN events = 1 .. Len(events) /\ Len(events) \in Nat
        BY <1>1 DEF TypeOK
      <3>2. added \in [1 .. Len(events) -> Entry]
        BY <2>2, <3>1 DEF Scheduled, Entry
      <3>3. QED
        BY <3>1, <3>2 DEF Scheduled
    <2> HIDE DEF added
    <2>4. /\ schedule \in Seq(Entry) /\ schedule' \in Seq(Entry)
          /\ Len(schedule') = Len(schedule) + Len(events)
          /\ \A i \in 1 .. Len(schedule) + Len(events) :
                schedule'[i] = IF i <= Len(schedule) THEN schedule[i] ELSE added[i - Len(schedule)]
      <3>1. schedule \in Seq(Entry)
        BY <1>1 DEF TypeOK, Entry
      <3>2. /\ schedule \o added \in Seq(Entry)
            /\ Len(schedule \o added) = Len(schedule) + Len(added)
            /\ \A i \in 1 .. Len(schedule) + Len(added) :
                  (schedule \o added)[i] =
                      IF i <= Len(schedule) THEN schedule[i] ELSE added[i - Len(schedule)]
        <4>1. added \in Seq(Entry)
          BY <2>3
        <4>2. QED
          BY <3>1, <4>1, Joined, Zenon
      <3>3. schedule' = schedule \o added /\ Len(added) = Len(events)
        BY <2>1, <2>3
      <3>4. QED
        BY <3>1, <3>2, <3>3, Zenon
    <2>5. TypeOK'
      <3>1. 0 \in 0 .. FrameBlocks
        BY SpeakerAssumption
      <3>2. QED
        BY <1>1, <2>1, <2>4, <3>1 DEF TypeOK, Entry
    <2>6. QueueOK'
      <3>1. at' # "idle"
        BY <2>1
      <3>2. queue' # <<>> => block' <= Align(queue'[1].offset)
        BY <2>1, <2>2
      <3>3. \A i \in 1 .. Len(queue') : Align(queue'[i].offset) <= FrameBlocks
        BY <2>1, <2>2
      <3>4. ASSUME NEW i \in 1 .. Len(queue') - 1
            PROVE  Align(queue'[i].offset) <= Align(queue'[i + 1].offset)
        <4>1. i \in 1 .. Len(events) - 1 /\ i \in 1 .. Len(events) /\ i + 1 \in 1 .. Len(events)
          BY <2>1
        <4>2. events[i].offset <= events[i + 1].offset
          BY <1>3, <4>1 DEF Valid
        <4>3. QED
          BY <2>1, <2>2, <4>1, <4>2, AlignIsMonotone
      <3>5. QED
        BY <3>1, <3>2, <3>3, <3>4 DEF QueueOK
    <2>7. LastOK'
      <3>1. CASE events = <<>>
        <4>1. Len(events) = 0 /\ schedule' = schedule
          BY <2>1, <2>3, <2>4, <3>1, ConcatEmptySeq, EmptySeq
        <4>2. schedule # <<>> => target = Last(schedule).gains
          BY DEF SpeakerInv, QueueOK, LastOK
        <4>3. QED
          BY <1>1, <2>1, <3>1, <4>1, <4>2 DEF LastOK
      <3>2. CASE events # <<>>
        <4>1. Len(events) >= 1
          BY <3>2
        <4>2. /\ Len(schedule) \in Nat /\ Len(schedule') = Len(schedule) + Len(events)
              /\ schedule'[Len(schedule')] = added[Len(events)]
          BY <2>3, <2>4, <4>1
        <4>3. schedule' # <<>>
          BY <2>4, <4>1, <4>2
        <4>4. Last(schedule').gains = events[Len(events)].gains
          BY <2>3, <4>1, <4>2 DEF Last
        <4>5. QED
          BY <2>1, <3>2, <4>3, <4>4 DEF LastOK
      <3>3. QED
        BY <3>1, <3>2
    <2>8. QED
      BY <2>1, <2>5, <2>6, <2>7 DEF SpeakerInv
  <1>4. QED
    BY <1>2, <1>3

-----------------------------------------------------------------------------
(***************************************************************************)
(* One lemma for every action.                                             *)
(***************************************************************************)
LEMMA GainsType ==
    ASSUME NEW set \in Controls, NEW positions \in [Objects -> Positions]
    PROVE  GainsOf(set, positions) \in [Route -> Int]
  <1>1. ASSUME NEW r \in Route
        PROVE  Gain[set][r[1]][positions[r[1]]][r[2]] \in Int
    <2>1. r[1] \in Objects /\ r[2] \in Channels
      BY DEF Route
    <2>2. positions[r[1]] \in Positions
      BY <2>1
    <2>3. QED
      BY <2>1, <2>2, SpeakerAssumption
  <1>2. QED
    BY <1>1 DEF GainsOf

LEMMA WithoutUpdateInv == SpeakerInv /\ StepWithoutUpdate => SpeakerInv'
  <1> SUFFICES ASSUME SpeakerInv, StepWithoutUpdate PROVE SpeakerInv'
    OBVIOUS
  <1>1. /\ at = "idle" /\ calls < MaxCalls /\ Begin(<<>>, 0)
        /\ coded' = coded /\ controls' = controls
    BY DEF StepWithoutUpdate
  <1>2. coded' \in [Objects -> Positions] /\ controls' \in Controls
    BY <1>1 DEF SpeakerInv, TypeOK
  <1>3. <<>> \in Seq(Event) /\ 0 \in Nat
    BY EmptySeq
  <1>4. QED
    BY <1>1, <1>2, <1>3, BeginInv

\* A refused frame changes nothing but the result.
LEMMA RefusedInv ==
    ASSUME SpeakerInv, calls < MaxCalls, status' = "refused", calls' = calls + 1,
           UNCHANGED <<offset, stepVars, gainVars, callVars, historyVars>>
    PROVE  SpeakerInv'
  <1>1. UNCHANGED <<offset, coded, fixed, controls, current, target, step, remaining,
                    at, block, queue, heard, schedule>>
    BY DEF stepVars, gainVars, callVars, historyVars
  <1>2. TypeOK /\ calls' \in 0 .. MaxCalls /\ status' \in {"ok", "refused", "outside"}
    BY SpeakerAssumption DEF SpeakerInv, TypeOK
  <1>3. TypeOK'
    BY <1>1, <1>2 DEF TypeOK
  <1>4. QueueOK' /\ LastOK' /\ status' # "outside"
    BY <1>1 DEF SpeakerInv, QueueOK, LastOK
  <1>5. QED
    BY <1>3, <1>4 DEF SpeakerInv

LEMMA WithUpdateInv == SpeakerInv /\ StepWithUpdate => SpeakerInv'
  <1> SUFFICES ASSUME SpeakerInv, StepWithUpdate PROVE SpeakerInv'
    OBVIOUS
  <1>1. at = "idle" /\ calls < MaxCalls /\ TypeOK /\ offset \in Nat
    BY SpeakerAssumption DEF SpeakerInv, StepWithUpdate, TypeOK
  <1>2. PICK u \in Update :
          IF u.trim = "invalid"
          THEN /\ status' = "refused" /\ calls' = calls + 1
               /\ UNCHANGED <<offset, stepVars, gainVars, callVars, historyVars>>
          ELSE /\ controls' = IF u.trim = None THEN controls ELSE u.trim
               /\ coded' = [o \in Objects |-> IF u.moves[o] = None THEN coded[o] ELSE u.moves[o]]
               /\ LET positions ==
                          [o \in Objects |-> IF fixed /\ o \in Bed THEN BedPosition ELSE coded'[o]]
                  IN Begin(<<[offset |-> offset, ramp |-> u.ramp,
                              gains |-> GainsOf(controls', positions)]>>, u.offset)
    BY DEF StepWithUpdate
  <1>3. CASE u.trim = "invalid"
    BY <1>1, <1>2, <1>3, RefusedInv
  <1>4. CASE u.trim # "invalid"
    <2> DEFINE positions == [o \in Objects |-> IF fixed /\ o \in Bed THEN BedPosition ELSE coded'[o]]
               gains == GainsOf(controls', positions)
               event == [offset |-> offset, ramp |-> u.ramp, gains |-> gains]
    <2>1. /\ u.moves \in [Objects -> Positions \cup {None}]
          /\ u.trim \in Controls \cup {None} /\ u.ramp \in Nat /\ u.offset \in Nat
      BY <1>4, SpeakerAssumption
    <2>2. controls' \in Controls
      BY <1>1, <1>2, <1>4, <2>1 DEF TypeOK
    <2>3. coded' \in [Objects -> Positions]
      BY <1>1, <1>2, <1>4, <2>1 DEF TypeOK
    <2>4. positions \in [Objects -> Positions]
      BY <2>3, SpeakerAssumption
    <2>5. Begin(<<event>>, u.offset)
      BY <1>2, <1>4
    <2> HIDE DEF positions
    <2>6. gains \in [Route -> Int]
      BY <2>2, <2>4, GainsType
    <2> HIDE DEF gains
    <2>7. event \in Event
      BY <1>1, <2>1, <2>6 DEF Event
    <2> HIDE DEF event
    <2>8. <<event>> \in Seq(Event)
      BY <2>7
    <2>9. QED
      BY <1>1, <2>1, <2>2, <2>3, <2>5, <2>8, BeginInv
  <1>5. QED
    BY <1>3, <1>4

LEMMA DirectInv == SpeakerInv /\ ProcessDirectly => SpeakerInv'
  <1> SUFFICES ASSUME SpeakerInv, ProcessDirectly PROVE SpeakerInv'
    OBVIOUS
  <1>1. /\ at = "idle" /\ calls < MaxCalls /\ TypeOK
        /\ coded' = coded /\ controls' = controls
    BY DEF SpeakerInv, ProcessDirectly
  <1>2. PICK b \in Batches :
          Begin([i \in DOMAIN b |-> [offset |-> b[i].offset, ramp |-> b[i].ramp,
                                     gains |-> GainsOf(controls, b[i].positions)]], 0)
    BY DEF ProcessDirectly
  <1> DEFINE Direct == [offset : Nat, ramp : Nat, positions : [Objects -> Positions]]
             events == [i \in DOMAIN b |-> [offset |-> b[i].offset, ramp |-> b[i].ramp,
                                            gains |-> GainsOf(controls, b[i].positions)]]
  <1>3. b \in Seq(Direct)
    BY SpeakerAssumption
  <1> HIDE DEF Direct
  <1>4. controls \in Controls /\ controls' \in Controls /\ coded' \in [Objects -> Positions]
    BY <1>1 DEF TypeOK
  <1>5. ASSUME NEW i \in DOMAIN b
        PROVE  [offset |-> b[i].offset, ramp |-> b[i].ramp,
                gains |-> GainsOf(controls, b[i].positions)] \in Event
    <2>1. b[i] \in Direct
      BY <1>3, LenProperties, ElementOfSeq
    <2>2. b[i].offset \in Nat /\ b[i].ramp \in Nat /\ b[i].positions \in [Objects -> Positions]
      BY <2>1 DEF Direct
    <2>3. GainsOf(controls, b[i].positions) \in [Route -> Int]
      BY <1>4, <2>2, GainsType
    <2>4. QED
      BY <2>2, <2>3 DEF Event
  <1>6. DOMAIN b = 1 .. Len(b) /\ Len(b) \in Nat
    BY <1>3
  <1>7. events \in [1 .. Len(b) -> Event]
    BY <1>5, <1>6
  <1> HIDE DEF events
  <1>8. events \in Seq(Event)
    BY <1>6, <1>7
  <1>9. Begin(events, 0) /\ 0 \in Nat
    BY <1>2 DEF events
  <1>10. QED
    BY <1>1, <1>4, <1>8, <1>9, BeginInv

LEMMA DeclareBedInv == SpeakerInv /\ DeclareBed => SpeakerInv'
  <1> SUFFICES ASSUME SpeakerInv, DeclareBed PROVE SpeakerInv'
    OBVIOUS
  <1>1. /\ fixed' = TRUE
        /\ UNCHANGED <<offset, coded, controls, current, target, step, remaining,
                       at, block, queue, status, calls, heard, schedule>>
    BY DEF DeclareBed, gainVars, callVars, historyVars
  <1>2. TypeOK'
    BY <1>1 DEF SpeakerInv, TypeOK
  <1>3. QueueOK' /\ LastOK' /\ status' # "outside"
    BY <1>1 DEF SpeakerInv, QueueOK, LastOK
  <1>4. QED
    BY <1>2, <1>3 DEF SpeakerInv

LEMMA ResetInv == SpeakerInv /\ Reset => SpeakerInv'
  <1> SUFFICES ASSUME SpeakerInv, Reset PROVE SpeakerInv'
    OBVIOUS
  <1>1. /\ at = "idle" /\ queue = <<>> /\ calls < MaxCalls
        /\ UNCHANGED <<offset, fixed, at, block, queue>>
        /\ heard' = <<>> /\ schedule' = <<>> /\ calls' = calls + 1 /\ status' = "ok"
        /\ coded' = [o \in Objects |-> Corner] /\ controls' = "automatic"
    BY DEF SpeakerInv, QueueOK, Reset, callVars
  <1>2. /\ current' \in [Route -> Int] /\ target' \in [Route -> Int] /\ step' \in [Route -> Int]
        /\ remaining' \in [Route -> Nat]
    BY FlatType DEF Reset, ResetGains
  <1>3. /\ coded' \in [Objects -> Positions] /\ controls' \in Controls /\ calls' \in 0 .. MaxCalls
    BY <1>1, SpeakerAssumption DEF SpeakerInv, TypeOK
  <1>4. TypeOK'
    BY <1>1, <1>2, <1>3, EmptySeq DEF SpeakerInv, TypeOK
  <1>5. QueueOK' /\ LastOK' /\ status' # "outside"
    BY <1>1 DEF QueueOK, LastOK
  <1>6. QED
    BY <1>4, <1>5 DEF SpeakerInv

\* The queue without its first event.
LEMMA Rest ==
    ASSUME NEW S, NEW q \in Seq(S), q # <<>>
    PROVE  /\ Head(q) = q[1] /\ Head(q) \in S /\ Tail(q) \in Seq(S)
           /\ Len(q) \in Nat /\ Len(q) >= 1 /\ Len(Tail(q)) = Len(q) - 1
           /\ \A i \in 1 .. Len(q) - 1 : Tail(q)[i] = q[i + 1]
           /\ Tail(q) = <<>> <=> Len(q) = 1
  <1>1. Len(q) \in Nat /\ Len(q) >= 1
    OBVIOUS
  <1>2. /\ Head(q) = q[1] /\ Head(q) \in S /\ Tail(q) \in Seq(S)
        /\ Len(Tail(q)) = Len(q) - 1
        /\ \A i \in 1 .. Len(q) - 1 : Tail(q)[i] = q[i + 1]
    BY HeadTailProperties
  <1>3. Len(Tail(q)) = 0 <=> Tail(q) = <<>>
    <2>1. Tail(q) \in Seq(S)
      BY <1>2
    <2>2. QED
      BY <2>1, EmptySeq
  <1>4. QED
    BY <1>1, <1>2, <1>3

LEMMA ApplyEventInv == SpeakerInv /\ ApplyEvent => SpeakerInv'
  <1> SUFFICES ASSUME SpeakerInv, ApplyEvent PROVE SpeakerInv'
    OBVIOUS
  <1> DEFINE event == Head(queue)
             blocks == Align(event.ramp)
             ramped == {r \in Route : AbsoluteOf(event.gains[r] - current[r]) >= Snap /\ blocks # 0}
  <1>1. /\ TypeOK /\ QueueOK /\ LastOK /\ status # "outside"
        /\ at = "mix" /\ queue # <<>> /\ Align(event.offset) = block /\ queue' = Tail(queue)
        /\ UNCHANGED <<offset, coded, fixed, controls, at, block, status, calls, heard, schedule>>
    BY DEF SpeakerInv, ApplyEvent, EventDue, stepVars, historyVars
  <1>2. /\ target' = event.gains
        /\ current' = [r \in Route |-> IF r \in ramped THEN current[r] ELSE event.gains[r]]
        /\ step' = [r \in Route |->
                      IF r \in ramped THEN (event.gains[r] - current[r]) \div blocks ELSE 0]
        /\ remaining' = [r \in Route |-> IF r \in ramped THEN blocks ELSE 0]
    BY DEF ApplyEvent
  <1>3. queue \in Seq(Event)
    BY <1>1 DEF TypeOK
  <1>4. /\ event = queue[1] /\ event \in Event /\ queue' \in Seq(Event)
        /\ Len(queue) \in Nat /\ Len(queue) >= 1 /\ Len(queue') = Len(queue) - 1
        /\ \A i \in 1 .. Len(queue) - 1 : queue'[i] = queue[i + 1]
        /\ queue' = <<>> <=> Len(queue) = 1
    BY <1>1, <1>3, Rest
  <1>5. blocks \in Nat /\ event.gains \in [Route -> Int]
    <2>1. event.ramp \in Nat /\ event.gains \in [Route -> Int]
      BY <1>4 DEF Event
    <2>2. QED
      BY <2>1, AlignType
  <1> HIDE DEF event, blocks
  <1>6. /\ current' \in [Route -> Int] /\ target' \in [Route -> Int]
        /\ step' \in [Route -> Int] /\ remaining' \in [Route -> Nat]
    <2>1. current \in [Route -> Int]
      BY <1>1 DEF TypeOK
    <2>2. ASSUME NEW r \in Route, r \in ramped
          PROVE  (event.gains[r] - current[r]) \div blocks \in Int
      <3>1. blocks \in Nat \ {0}
        BY <1>5, <2>2
      <3>2. event.gains[r] - current[r] \in Int
        BY <1>5, <2>1
      <3>3. QED
        BY <3>1, <3>2, Quotient
    <2> HIDE DEF ramped
    <2>3. step' \in [Route -> Int]
      BY <1>2, <2>2
    <2>4. current' \in [Route -> Int] /\ target' \in [Route -> Int] /\ remaining' \in [Route -> Nat]
      BY <1>2, <1>5, <2>1
    <2>5. QED
      BY <2>3, <2>4
  <1>7. TypeOK'
    BY <1>1, <1>4, <1>6 DEF TypeOK
  <1>8. QueueOK'
    <2>1. at' # "idle"
      BY <1>1
    <2>2. ASSUME queue' # <<>> PROVE block' <= Align(queue'[1].offset)
      <3>1. 1 \in 1 .. Len(queue) - 1
        BY <1>4, <2>2
      <3>2. Align(queue[1].offset) <= Align(queue[1 + 1].offset)
        BY <1>1, <3>1 DEF QueueOK
      <3>3. queue'[1] = queue[1 + 1]
        BY <1>4, <3>1
      <3>4. QED
        BY <1>1, <1>4, <3>2, <3>3
    <2>3. ASSUME NEW i \in 1 .. Len(queue') PROVE Align(queue'[i].offset) <= FrameBlocks
      <3>1. i \in 1 .. Len(queue) - 1 /\ i + 1 \in 1 .. Len(queue)
        BY <1>4
      <3>2. QED
        BY <1>1, <1>4, <3>1 DEF QueueOK
    <2>4. ASSUME NEW i \in 1 .. Len(queue') - 1
          PROVE  Align(queue'[i].offset) <= Align(queue'[i + 1].offset)
      <3>1. /\ i \in 1 .. Len(queue) - 1 /\ i + 1 \in 1 .. Len(queue) - 1
        BY <1>4
      <3>2. Align(queue[i + 1].offset) <= Align(queue[(i + 1) + 1].offset)
        BY <1>1, <3>1 DEF QueueOK
      <3>3. queue'[i] = queue[i + 1] /\ queue'[i + 1] = queue[(i + 1) + 1]
        BY <1>4, <3>1
      <3>4. QED
        BY <3>2, <3>3
    <2>5. QED
      BY <2>1, <2>2, <2>3, <2>4 DEF QueueOK
  <1>9. LastOK'
    <2>1. /\ schedule # <<>> /\ schedule' = schedule
          /\ Last(schedule).gains = queue[Len(queue)].gains
      BY <1>1 DEF LastOK
    <2>2. CASE queue' = <<>>
      <3>1. Last(schedule).gains = event.gains
        BY <1>4, <2>1, <2>2
      <3>2. QED
        BY <1>2, <2>1, <2>2, <3>1 DEF LastOK
    <2>3. CASE queue' # <<>>
      <3>1. Len(queue) - 1 \in 1 .. Len(queue) - 1 /\ (Len(queue) - 1) + 1 = Len(queue)
        BY <1>4, <2>3
      <3>2. queue'[Len(queue')] = queue[Len(queue)]
        BY <1>4, <3>1
      <3>3. QED
        BY <2>1, <2>3, <3>2 DEF LastOK
    <2>4. QED
      BY <2>2, <2>3
  <1>10. QED
    BY <1>1, <1>7, <1>8, <1>9 DEF SpeakerInv

LEMMA MixBlockInv == SpeakerInv /\ MixBlock => SpeakerInv'
  <1> SUFFICES ASSUME SpeakerInv, MixBlock PROVE SpeakerInv'
    OBVIOUS
  <1> DEFINE played == [r \in Route |->
                 IF remaining[r] = 0 THEN [from |-> target[r], to |-> target[r]]
                 ELSE [from |-> current[r], to |-> current[r] + step[r]]]
  <1>1. /\ TypeOK /\ QueueOK /\ LastOK /\ status # "outside"
        /\ at = "mix" /\ ~EventDue /\ block < FrameBlocks /\ block' = block + 1
        /\ heard' = Append(heard, played)
        /\ UNCHANGED <<offset, coded, fixed, controls, target, step,
                       at, queue, status, calls, schedule>>
    BY DEF SpeakerInv, MixBlock, stepVars
  <1>2. /\ remaining' = [r \in Route |-> Remaining(r)]
        /\ current' = [r \in Route |-> IF remaining'[r] = 0 THEN target[r] ELSE current[r] + step[r]]
    BY DEF MixBlock
  <1>3. /\ current \in [Route -> Int] /\ target \in [Route -> Int] /\ step \in [Route -> Int]
        /\ remaining \in [Route -> Nat] /\ block \in 0 .. FrameBlocks /\ queue \in Seq(Event)
        /\ heard \in Seq([Route -> [from : Int, to : Int]]) /\ FrameBlocks \in Nat
    BY <1>1, SpeakerAssumption DEF TypeOK
  <1>4. remaining' \in [Route -> Nat]
    BY <1>2, <1>3 DEF Remaining
  <1>5. current' \in [Route -> Int]
    BY <1>2, <1>3
  <1>6. played \in [Route -> [from : Int, to : Int]]
    BY <1>3
  <1> HIDE DEF played
  <1>7. heard' \in Seq([Route -> [from : Int, to : Int]])
    BY <1>1, <1>3, <1>6, AppendProperties
  <1>8. TypeOK'
    <2>1. block' \in 0 .. FrameBlocks
      BY <1>1, <1>3
    <2>2. QED
      BY <1>1, <1>4, <1>5, <1>7, <2>1 DEF TypeOK
  <1>9. QueueOK'
    <2>1. ASSUME queue # <<>> PROVE block + 1 <= Align(queue[1].offset)
      <3>1. Head(queue) = queue[1] /\ queue[1] \in Event
        BY <1>3, <2>1, Rest
      <3>2. Align(queue[1].offset) \in Nat
        BY <3>1, AlignType DEF Event
      <3>3. block <= Align(queue[1].offset) /\ Align(queue[1].offset) # block
        BY <1>1, <2>1, <3>1 DEF QueueOK, EventDue
      <3>4. QED
        BY <1>3, <3>2, <3>3
    <2>2. QED
      BY <1>1, <2>1 DEF QueueOK
  <1>10. LastOK'
    BY <1>1 DEF LastOK
  <1>11. QED
    BY <1>1, <1>8, <1>9, <1>10 DEF SpeakerInv

\* At the end of a call the queue is empty: what remains would be due there.
LEMMA ReturnInv == SpeakerInv /\ ReturnFromCall => SpeakerInv'
  <1> SUFFICES ASSUME SpeakerInv, ReturnFromCall PROVE SpeakerInv'
    OBVIOUS
  <1>1. /\ TypeOK /\ QueueOK /\ LastOK
        /\ at = "mix" /\ ~EventDue /\ block = FrameBlocks /\ at' = "idle" /\ queue' = <<>>
        /\ status' = IF queue = <<>> THEN "ok" ELSE "outside"
        /\ UNCHANGED <<offset, coded, fixed, controls, current, target, step, remaining,
                       block, calls, heard, schedule>>
    BY DEF SpeakerInv, ReturnFromCall, stepVars, gainVars, historyVars
  <1>2. queue = <<>>
    <2>1. SUFFICES ASSUME queue # <<>> PROVE FALSE
      OBVIOUS
    <2>2. queue \in Seq(Event) /\ block \in Nat
      BY <1>1, SpeakerAssumption DEF TypeOK
    <2>3. Head(queue) = queue[1] /\ queue[1] \in Event /\ Len(queue) \in Nat /\ Len(queue) >= 1
      BY <2>1, <2>2, Rest
    <2>4. 1 \in 1 .. Len(queue)
      BY <2>3
    <2>5. Align(queue[1].offset) \in Nat
      BY <2>3, AlignType DEF Event
    <2>6. block <= Align(queue[1].offset) /\ Align(queue[1].offset) <= FrameBlocks
      BY <1>1, <2>1, <2>4 DEF QueueOK
    <2>7. Align(queue[1].offset) # block
      BY <1>1, <2>1, <2>3 DEF EventDue
    <2>8. QED
      BY <1>1, <2>2, <2>5, <2>6, <2>7
  <1>3. TypeOK'
    <2>1. queue' \in Seq(Event) /\ at' \in {"idle", "mix"} /\ status' \in {"ok", "refused", "outside"}
      BY <1>1, EmptySeq
    <2>2. QED
      BY <1>1, <2>1 DEF TypeOK
  <1>4. QueueOK' /\ LastOK' /\ status' # "outside"
    BY <1>1, <1>2 DEF QueueOK, LastOK
  <1>5. QED
    BY <1>3, <1>4 DEF SpeakerInv

LEMMA StutterInv == SpeakerInv /\ UNCHANGED vars => SpeakerInv'
  <1> SUFFICES ASSUME SpeakerInv, UNCHANGED vars PROVE SpeakerInv'
    OBVIOUS
  <1>1. UNCHANGED <<offset, coded, fixed, controls, current, target, step, remaining,
                    at, block, queue, status, calls, heard, schedule>>
    BY DEF vars, stepVars, gainVars, callVars, historyVars
  <1>2. TypeOK'
    BY <1>1 DEF SpeakerInv, TypeOK
  <1>3. QueueOK' /\ LastOK' /\ status' # "outside"
    BY <1>1 DEF SpeakerInv, QueueOK, LastOK
  <1>4. QED
    BY <1>2, <1>3 DEF SpeakerInv

LEMMA NextInv == SpeakerInv /\ [Next]_vars => SpeakerInv'
  BY WithoutUpdateInv, WithUpdateInv, DirectInv, DeclareBedInv, ResetInv,
     ApplyEventInv, MixBlockInv, ReturnInv, StutterInv DEF Next

-----------------------------------------------------------------------------
\* The gains, the ramps and the events of the renderer keep their types: a step
\* is divided by a number of blocks that is not zero, a ramp counts down to
\* zero and not below, and the block of a call stays within the call.
THEOREM TypeCorrect == Spec => []TypeOK
  <1>1. SpeakerInv => TypeOK
    BY DEF SpeakerInv
  <1>2. QED
    BY InitInv, NextInv, <1>1, PTL DEF Spec

\* process applies every event that validate_metadata has let through: no sample
\* is aligned to a block that the loop has passed or to one after the call, so
\* that its last error is never returned, and after a call every object is on
\* its way to the gains of the last event accepted so far.
THEOREM EventsAlwaysArrive == Spec => []EventsArrive
  <1>1. SpeakerInv => EventsArrive
    BY DEF SpeakerInv, QueueOK, LastOK, EventsArrive
  <1>2. QED
    BY InitInv, NextInv, <1>1, PTL DEF Spec

=============================================================================
