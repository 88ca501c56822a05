------------------------ MODULE PositionTimelineProofs ------------------------
(***************************************************************************)
(* Proofs about PositionTimeline for every number of objects, every grid,  *)
(* block, frame, chunk and delay, and every set of updates.                *)
(***************************************************************************)
EXTENDS PositionTimeline, SequenceTheorems, WellFoundedInduction, TLAPS

(***************************************************************************)
(* Arithmetic of the grid.                                                 *)
(***************************************************************************)
LEMMA DivType == ASSUME NEW x \in Int, NEW d \in Nat \ {0}
                 PROVE  /\ x \div d \in Int
                        /\ d * (x \div d) <= x
                        /\ x < d * (x \div d) + d
  OBVIOUS

\* The grid boundary of a sample at or after a boundary is not before that.
LEMMA AlignIsNotEarlier ==
    ASSUME NEW k \in Nat, NEW x \in Nat, x >= Grid * k
    PROVE  Align(x) \in Nat /\ Align(x) >= Grid * k
  <1> DEFINE y == x + Grid \div 2 - 1
             q == y \div Grid
  <1>1. Grid \in Nat /\ Grid >= 2
    BY TimelineAssumption
  <1>2. Grid \div 2 \in Nat /\ Grid \div 2 >= 1
    BY <1>1
  <1>3. y \in Nat /\ y >= Grid * k
    BY <1>1, <1>2
  <1>4. q \in Int /\ y < Grid * q + Grid
    BY <1>1, <1>3, DivType
  <1>5. Align(x) = Grid * q
    BY DEF Align
  <1> HIDE DEF q, y
  <1>6. q >= k
    <2>1. SUFFICES ASSUME q + 1 <= k PROVE FALSE
      BY <1>4
    <2>2. Grid * (q + 1) <= Grid * k
      BY <1>1, <1>4, <2>1
    <2>3. Grid * (q + 1) = Grid * q + Grid
      BY <1>1, <1>4
    <2>4. QED
      BY <1>1, <1>3, <1>4, <2>2, <2>3
  <1>7. Grid * q >= Grid * k
    BY <1>1, <1>4, <1>6
  <1>8. Grid * k \in Nat /\ Grid * q \in Int
    BY <1>1, <1>4
  <1>9. QED
    BY <1>5, <1>7, <1>8

\* A nonempty set of numbers has a least element.
LEMMA Least == ASSUME NEW T \in SUBSET Nat, T # {}
               PROVE  \E m \in T : \A k \in T : ~(k < m)
  <1>1. PICK m \in T : \A k \in T : ~(<<k, m>> \in OpToRel(<, Nat))
    BY NatLessThanWellFounded, WFMin, Zenon
  <1>2. QED
    BY <1>1 DEF OpToRel

-----------------------------------------------------------------------------
(***************************************************************************)
(* The inductive invariant: the checked invariants, and the clocks, which  *)
(* keep to the grid and to the blocks.                                     *)
(***************************************************************************)
Clocks ==
    /\ \E k \in Nat : input = Grid * k
    /\ \E k \in Nat : processed = Block * k
    /\ ~finished => processed <= input

\* Before the first state no track has a transition.
NothingYet == ~initialized => \A o \in Object : transitions[o] = <<>>

TimelineInv == TypeOK /\ RampsConnect /\ Clocks /\ NothingYet

Transition == [start : Nat, ramp : Nat, origin : Int, target : Int]

\* The number of transitions that are over at a sample exists, and they are over.
LEMMA PassedProperties ==
    ASSUME TypeOK, NEW o \in Object, NEW sample \in Nat
    PROVE  /\ Passed(o, sample) \in cursor[o] .. Len(transitions[o])
           /\ \A i \in cursor[o] + 1 .. Passed(o, sample) : End(transitions[o][i]) <= sample
           /\ Passed(o, sample) < Len(transitions[o]) =>
                 End(transitions[o][Passed(o, sample) + 1]) > sample
  <1> DEFINE L == Len(transitions[o])
             C == {c \in cursor[o] .. L : c < L => End(transitions[o][c + 1]) > sample}
  <1>1. /\ transitions[o] \in Seq(Transition) /\ L \in Nat
        /\ cursor[o] \in Nat /\ cursor[o] <= L
        /\ transitions[o] \in [1 .. L -> Transition]
    BY LenProperties DEF TypeOK, Transition
  <1>2. L \in C /\ C \in SUBSET Nat
    BY <1>1
  <1>3. PICK m \in C : \A k \in C : ~(k < m)
    BY <1>2, Least
  <1>4. ASSUME NEW i \in cursor[o] + 1 .. m
        PROVE  End(transitions[o][i]) <= sample
    <2>1. i - 1 \in cursor[o] .. L /\ i - 1 < m /\ i - 1 < L /\ i \in 1 .. L /\ i = (i - 1) + 1
      BY <1>1, <1>3, <1>4
    <2>2. i - 1 \notin C
      BY <1>3, <2>1
    <2>3. transitions[o][i] \in Transition
      BY <1>1, <2>1
    <2>4. End(transitions[o][i]) \in Int
      BY <2>3 DEF End, Transition
    <2>5. QED
      BY <2>1, <2>2, <2>4
  <1>5. \E c \in cursor[o] .. L :
            /\ \A i \in cursor[o] + 1 .. c : End(transitions[o][i]) <= sample
            /\ c < L => End(transitions[o][c + 1]) > sample
    BY <1>3, <1>4
  <1>6. QED
    BY <1>5 DEF Passed

\* An object's position is a position, however far its track has come.
LEMMA PositionType ==
    ASSUME TypeOK, NEW o \in Object, NEW sample \in Nat
    PROVE  PositionAt(o, sample) \in Int
  <1> DEFINE L == Len(transitions[o])
             c == Passed(o, sample)
             t == transitions[o][c + 1]
             rest == IF c > cursor[o] THEN transitions[o][c].target ELSE initial[o]
  <1>1. /\ L \in Nat /\ cursor[o] \in Nat /\ initial[o] \in Int
        /\ transitions[o] \in [1 .. L -> Transition]
    BY LenProperties DEF TypeOK, Transition
  <1>2. c \in cursor[o] .. L /\ (c < L => End(t) > sample)
    BY PassedProperties
  <1>3. rest \in Int
    BY <1>1, <1>2 DEF Transition
  <1>4. ASSUME c # L, ~(sample < t.start)
        PROVE  Between(t.origin, t.target, sample - t.start, t.ramp) \in Int
    <2>1. t \in Transition
      BY <1>1, <1>2, <1>4
    <2>2. /\ t.start \in Nat /\ t.ramp \in Nat /\ t.origin \in Int /\ t.target \in Int
          /\ End(t) = t.start + t.ramp
      BY <2>1 DEF Transition, End
    <2>3. t.ramp \in Nat \ {0}
      BY <1>1, <1>2, <1>4, <2>2
    <2>4. (t.target - t.origin) * (sample - t.start) \in Int
      BY <2>2
    <2>5. ((t.target - t.origin) * (sample - t.start)) \div t.ramp \in Int
      BY <2>3, <2>4, DivType
    <2>6. QED
      BY <2>2, <2>5 DEF Between
  <1>5. QED
    BY <1>3, <1>4 DEF PositionAt

-----------------------------------------------------------------------------
(***************************************************************************)
(* Scheduling: what one track becomes.                                     *)
(***************************************************************************)
\* A sequence of transitions that follow and continue one another.
Connected(s) ==
    \A i \in 1 .. Len(s) - 1 :
          /\ End(s[i]) <= s[i + 1].start /\ s[i].start < s[i + 1].start
          /\ s[i + 1].origin = s[i].target

LEMMA AppendedProperties ==
    ASSUME TimelineInv, NEW o \in Object, NEW s \in Nat, NEW ramp \in Nat, NEW target \in Int,
           s >= processed, ~Overlaps(o, s)
    PROVE  /\ Appended(o, s, ramp, target) \in Seq(Transition)
           /\ Len(Appended(o, s, ramp, target)) >= Len(transitions[o])
           /\ Connected(Appended(o, s, ramp, target))
           /\ Appended(o, s, ramp, target) # <<>>
           /\ Last(Appended(o, s, ramp, target)).target = target
           /\ \A i \in DOMAIN Appended(o, s, ramp, target) :
                 \/ /\ i \in DOMAIN transitions[o]
                    /\ Appended(o, s, ramp, target)[i] = transitions[o][i]
                 \/ /\ Appended(o, s, ramp, target)[i].start >= processed
                    /\ i \in DOMAIN transitions[o] => transitions[o][i].start >= processed
  <1> DEFINE T == transitions[o]
             L == Len(T)
             t == [start |-> s, ramp |-> ramp, origin |-> lastTarget[o], target |-> target]
             r == [t EXCEPT !.origin = Last(T).origin]
             A == Appended(o, s, ramp, target)
  <1>1. /\ T \in Seq(Transition) /\ L \in Nat /\ T \in [1 .. L -> Transition]
        /\ DOMAIN T = 1 .. L
        /\ lastTarget[o] \in Int /\ processed \in Nat
        /\ Connected(T)
        /\ L # 0 => T[L].target = lastTarget[o]
    BY LenProperties, EmptySeq DEF TimelineInv, TypeOK, RampsConnect, Ordered, Transition, Connected, Last
  <1>2. t \in Transition /\ t.start = s /\ t.target = target /\ t.origin = lastTarget[o]
    BY <1>1 DEF Transition
  <1>3. L # 0 => End(T[L]) <= s
    <2>1. L # 0 => T # <<>> /\ T[L] \in Transition
      BY <1>1
    <2>2. L # 0 => End(T[L]) \in Int
      BY <2>1 DEF End, Transition
    <2>3. QED
      BY <2>1, <2>2 DEF Overlaps, Last
  <1>4. CASE Replaces(o, s)
    <2>1. /\ L # 0 /\ L \in 1 .. L /\ T[L].start = s /\ T[L].ramp = 0 /\ T[L] \in Transition
          /\ Last(T) = T[L]
      BY <1>1, <1>4 DEF Replaces, Last
    <2>2. /\ r \in Transition /\ r.start = s /\ r.target = target /\ r.origin = T[L].origin
          /\ r.ramp = ramp
      BY <1>2, <2>1 DEF Transition
    <2> HIDE DEF r
    <2>3. A = [T EXCEPT ![L] = r]
      BY <1>4 DEF Appended, r
    <2>4. /\ A \in Seq(Transition) /\ Len(A) = L /\ DOMAIN A = 1 .. L
          /\ A[L] = r /\ \A i \in 1 .. L - 1 : A[i] = T[i]
      BY <1>1, <2>1, <2>2, <2>3, ExceptSeq
    <2>5. Connected(A)
      <3>1. SUFFICES ASSUME NEW i \in 1 .. L - 1
                     PROVE  /\ End(A[i]) <= A[i + 1].start /\ A[i].start < A[i + 1].start
                            /\ A[i + 1].origin = A[i].target
        BY <2>4 DEF Connected
      <3>2. A[i] = T[i] /\ i + 1 \in 1 .. L
        BY <1>1, <2>4
      <3>3. /\ A[i + 1].start = T[i + 1].start /\ A[i + 1].origin = T[i + 1].origin
        BY <1>1, <2>1, <2>2, <2>4, <3>2
      <3>4. QED
        BY <1>1, <3>2, <3>3 DEF Connected
    <2>6. A # <<>> /\ Last(A).target = target
      BY <2>1, <2>2, <2>4 DEF Last
    <2>7. QED
      BY <1>1, <2>1, <2>2, <2>4, <2>5, <2>6
  <1>5. CASE ~Replaces(o, s)
    <2>1. A = Append(T, t)
      BY <1>5 DEF Appended
    <2> HIDE DEF t
    <2>2. /\ A \in Seq(Transition) /\ Len(A) = L + 1 /\ DOMAIN A = 1 .. L + 1
          /\ A[L + 1] = t /\ \A i \in 1 .. L : A[i] = T[i]
          /\ A # <<>>
      BY <1>1, <1>2, <2>1, AppendProperties, LenProperties
    <2>3. L # 0 => T[L].start < s
      <3>1. SUFFICES ASSUME L # 0 PROVE T[L].start < s
        OBVIOUS
      <3>2. T[L] \in Transition /\ T # <<>>
        BY <1>1, <3>1
      <3>3. T[L].start + T[L].ramp <= s
        BY <1>3, <3>1 DEF End
      <3>4. ~(T[L].start = s /\ T[L].ramp = 0)
        BY <1>5, <3>2 DEF Replaces, Last
      <3>5. QED
        BY <3>2, <3>3, <3>4 DEF Transition
    <2>4. ASSUME NEW i \in 1 .. Len(A) - 1
          PROVE  /\ End(A[i]) <= A[i + 1].start /\ A[i].start < A[i + 1].start
                 /\ A[i + 1].origin = A[i].target
      <3>1. CASE i = L
        BY <1>1, <1>2, <1>3, <2>2, <2>3, <2>4, <3>1 DEF End
      <3>2. CASE i # L
        <4>1. i \in 1 .. L - 1 /\ A[i] = T[i] /\ A[i + 1] = T[i + 1]
          BY <1>1, <2>2, <2>4, <3>2
        <4>2. QED
          BY <1>1, <4>1 DEF Connected
      <3>3. QED
        BY <3>1, <3>2
    <2>5. Connected(A)
      BY <2>4 DEF Connected
    <2>6. Last(A).target = target
      BY <1>1, <1>2, <2>2 DEF Last
    <2>7. \A i \in DOMAIN A :
              \/ i \in DOMAIN T /\ A[i] = T[i]
              \/ A[i].start >= processed /\ i \notin DOMAIN T
      <3>1. TAKE i \in DOMAIN A
      <3>2. CASE i = L + 1
        BY <1>1, <1>2, <2>2, <3>2
      <3>3. CASE i # L + 1
        BY <1>1, <2>2, <3>3
      <3>4. QED
        BY <3>2, <3>3
    <2>8. Len(A) >= L
      BY <1>1, <2>2
    <2>9. QED
      BY <2>2, <2>5, <2>6, <2>7, <2>8
  <1>6. QED
    BY <1>4, <1>5

-----------------------------------------------------------------------------
(***************************************************************************)
(* One lemma per action.                                                   *)
(***************************************************************************)
LEMMA InitInv == Init => TimelineInv
  <1> SUFFICES ASSUME Init PROVE TimelineInv
    OBVIOUS
  <1>1. TypeOK
    <2>1. Corner \in Int /\ Zero \in Int /\ MaxFrames \in Nat /\ MaxPass \in Nat
      BY TimelineAssumption
    <2>2. /\ transitions \in [Object -> Seq([start : Nat, ramp : Nat, origin : Int, target : Int])]
          /\ changes \in [Object -> Seq([start : Nat, ramp : Nat, target : Int])]
          /\ \A o \in Object : cursor[o] <= Len(transitions[o])
          /\ answers \in Seq([Object -> Int])
      BY EmptySeq DEF Init
    <2>3. /\ coded \in [Object -> Int] /\ lastTarget \in [Object -> Int]
          /\ initial \in [Object -> Int] /\ start \in [Object -> Int]
          /\ cursor \in [Object -> Nat]
      BY <2>1 DEF Init
    <2>4. /\ input \in Nat /\ processed \in Nat /\ lastQuery \in Nat \cup {-1}
          /\ lastQuery < processed /\ lastCoded \in Nat \cup {-1}
          /\ submitted \in 0 .. MaxFrames /\ pass \in 0 .. MaxPass
      BY <2>1 DEF Init
    <2>5. QED
      BY <2>2, <2>3, <2>4 DEF Init, TypeOK
  <1>2. RampsConnect
    BY EmptySeq DEF Init, RampsConnect, Ordered
  <1>3. Clocks
    BY TimelineAssumption DEF Init, Clocks
  <1>4. NothingYet
    BY DEF Init, NothingYet
  <1>5. QED
    BY <1>1, <1>2, <1>3, <1>4 DEF TimelineInv

LEMMA ResetInv == TimelineInv /\ Reset => TimelineInv'
  <1> SUFFICES ASSUME TimelineInv, Reset PROVE TimelineInv'
    OBVIOUS
  <1>1. TypeOK'
    <2>1. Corner \in Int /\ Zero \in Int /\ MaxFrames \in Nat /\ MaxPass \in Nat
      BY TimelineAssumption
    <2>2. /\ transitions' \in [Object -> Seq([start : Nat, ramp : Nat, origin : Int, target : Int])]
          /\ changes' \in [Object -> Seq([start : Nat, ramp : Nat, target : Int])]
          /\ \A o \in Object : cursor'[o] <= Len(transitions'[o])
          /\ answers' \in Seq([Object -> Int])
      BY EmptySeq DEF Reset, ResetTracks
    <2>3. /\ coded' \in [Object -> Int] /\ lastTarget' \in [Object -> Int]
          /\ initial' \in [Object -> Int] /\ start' \in [Object -> Int]
          /\ cursor' \in [Object -> Nat]
      BY <2>1 DEF Reset, ResetTracks
    <2>4. /\ input' \in Nat /\ processed' \in Nat /\ lastQuery' \in Nat \cup {-1}
          /\ lastQuery' < processed' /\ lastCoded' \in Nat \cup {-1}
          /\ submitted' \in 0 .. MaxFrames
      BY <2>1 DEF Reset, ResetTracks
    <2>5. pass' \in 0 .. MaxPass
      BY <2>1 DEF Reset, TimelineInv, TypeOK
    <2>6. /\ chunk' \in Chunks /\ delay' \in Delays /\ bed' \in BOOLEAN
          /\ initialized' \in BOOLEAN /\ finished' \in BOOLEAN /\ status' = "ok"
      BY DEF Reset, configVars, TimelineInv, TypeOK
    <2>7. QED
      BY <2>2, <2>3, <2>4, <2>5, <2>6 DEF TypeOK
  <1>2. RampsConnect'
    BY EmptySeq DEF Reset, ResetTracks, RampsConnect, Ordered
  <1>3. Clocks'
    BY TimelineAssumption DEF Reset, Clocks
  <1>4. NothingYet'
    BY DEF Reset, ResetTracks, NothingYet
  <1>5. QED
    BY <1>1, <1>2, <1>3, <1>4 DEF TimelineInv

\* The clocks after another frame.
LEMMA AnotherFrame ==
    ASSUME TimelineInv, input' = input + Frame, processed' = processed, finished' = finished
    PROVE  Clocks' /\ input' \in Nat
  <1>1. PICK k \in Nat : input = Grid * k
    BY DEF TimelineInv, Clocks
  <1>2. PICK f \in 0 .. Frame : Frame = Grid * f
    BY TimelineAssumption
  <1>3. Grid \in Nat /\ Frame \in Nat /\ input \in Nat /\ processed \in Nat
    BY TimelineAssumption DEF TimelineInv, TypeOK
  <1>4. input' = Grid * (k + f) /\ k + f \in Nat
    BY <1>1, <1>2, <1>3
  <1>5. QED
    BY <1>3, <1>4 DEF TimelineInv, Clocks

\* One more submission within the bound.
LEMMA AnotherSubmission ==
    ASSUME TypeOK, submitted < MaxFrames, submitted' = submitted + 1
    PROVE  submitted' \in 0 .. MaxFrames
  <1>1. MaxFrames \in Nat /\ submitted \in 0 .. MaxFrames
    BY TimelineAssumption DEF TypeOK
  <1>2. QED
    BY <1>1

\* What an update is.
LEMMA UpdateFacts ==
    ASSUME TimelineInv, NEW u \in Update
    PROVE  /\ CodedEvent(u) \in Nat /\ u.ramp \in Nat
           /\ Applied(u) \in [Object -> Int] /\ Targets(u) \in [Object -> Int]
           /\ TransitionStart(u) \in Nat /\ TransitionStart(u) >= input
  <1>1. /\ u.offset \in Nat /\ u.ramp \in Nat /\ u.moves \in [Object -> Int \cup {None}]
        /\ BedPosition \in Int /\ None \notin Int /\ Delays \subseteq Nat
    BY TimelineAssumption
  <1>2. input \in Nat /\ coded \in [Object -> Int] /\ delay \in Nat
    BY <1>1 DEF TimelineInv, TypeOK
  <1>3. CodedEvent(u) \in Nat /\ CodedEvent(u) + delay \in Nat /\ CodedEvent(u) + delay >= input
    BY <1>1, <1>2 DEF CodedEvent
  <1>4. Applied(u) \in [Object -> Int]
    BY <1>1, <1>2 DEF Applied
  <1>5. Targets(u) \in [Object -> Int]
    BY <1>1, <1>4 DEF Targets
  <1>6. PICK k \in Nat : input = Grid * k
    BY DEF TimelineInv, Clocks
  <1>7. TransitionStart(u) \in Nat /\ TransitionStart(u) >= input
    BY <1>3, <1>6, AlignIsNotEarlier DEF TransitionStart
  <1>8. QED
    BY <1>1, <1>3, <1>4, <1>5, <1>7

LEMMA RejectInv ==
    ASSUME TimelineInv, NEW u \in Update, RejectStale(u) \/ RejectLate(u),
           UNCHANGED <<configVars, bed, queryVars, finished, pass>>,
           submitted < MaxFrames, submitted' = submitted + 1
    PROVE  TimelineInv'
  <1>1. /\ coded' = Applied(u) /\ lastCoded' \in Nat \cup {-1}
        /\ status' \in {"non_monotonic_binaural_updates", "late_initial_binaural_state"}
        /\ UNCHANGED <<initialized, lastTarget, transitions, initial, input, changes, start>>
        /\ UNCHANGED <<chunk, delay, bed, cursor, lastQuery, processed, answers, finished, pass>>
    BY UpdateFacts DEF RejectStale, RejectLate, trackVars, configVars, queryVars, TimelineInv, TypeOK
  <1>2. coded' \in [Object -> Int] /\ submitted' \in 0 .. MaxFrames
    BY <1>1, UpdateFacts, AnotherSubmission DEF TimelineInv
  <1>3. TypeOK'
    BY <1>1, <1>2 DEF TimelineInv, TypeOK
  <1>4. RampsConnect' /\ Clocks' /\ NothingYet'
    BY <1>1 DEF TimelineInv, RampsConnect, Ordered, Clocks, NothingYet
  <1>5. QED
    BY <1>3, <1>4 DEF TimelineInv

LEMMA InitializeInv ==
    ASSUME TimelineInv, NEW u \in Update, Initialize(u),
           UNCHANGED <<configVars, bed, queryVars, finished, pass>>,
           submitted < MaxFrames, submitted' = submitted + 1
    PROVE  TimelineInv'
  <1>1. /\ coded' = Applied(u) /\ lastCoded' = CodedEvent(u) /\ initialized' = TRUE
        /\ initial' = Targets(u) /\ lastTarget' = Targets(u) /\ start' = Targets(u)
        /\ input' = input + Frame /\ status' = "ok"
        /\ UNCHANGED <<transitions, changes>>
        /\ UNCHANGED <<chunk, delay, bed, cursor, lastQuery, processed, answers, finished, pass>>
    BY DEF Initialize, configVars, queryVars
  <1>2. Clocks' /\ input' \in Nat
    BY <1>1, AnotherFrame
  <1>3. submitted' \in 0 .. MaxFrames
    BY AnotherSubmission DEF TimelineInv
  <1>4. TypeOK'
    BY <1>1, <1>2, <1>3, UpdateFacts DEF TimelineInv, TypeOK
  <1>5. \A o \in Object : transitions[o] = <<>>
    BY DEF Initialize, MayInitialize, TimelineInv, NothingYet
  <1>6. RampsConnect'
    BY <1>1, <1>5 DEF TimelineInv, RampsConnect, Ordered
  <1>7. NothingYet'
    BY <1>1 DEF NothingYet
  <1>8. QED
    BY <1>2, <1>4, <1>6, <1>7 DEF TimelineInv

\* What an accepted update does to the tracks.
LEMMA ScheduledTracks ==
    ASSUME TimelineInv, ~finished, NEW u \in Update, Schedule(u), NEW o \in Object
    PROVE  /\ transitions'[o] \in Seq(Transition) /\ lastTarget'[o] \in Int
           /\ Len(transitions'[o]) >= Len(transitions[o])
           /\ Connected(transitions'[o])
           /\ transitions'[o] # <<>> => Last(transitions'[o]).target = lastTarget'[o]
           /\ changes'[o] \in Seq([start : Nat, ramp : Nat, target : Int])
           /\ \A i \in DOMAIN transitions'[o] :
                 \/ i \in DOMAIN transitions[o] /\ transitions'[o][i] = transitions[o][i]
                 \/ /\ transitions'[o][i].start >= processed
                    /\ i \in DOMAIN transitions[o] => transitions[o][i].start >= processed
  <1> DEFINE s == TransitionStart(u)
  <1>1. /\ s \in Nat /\ s >= processed /\ u.ramp \in Nat /\ Targets(u)[o] \in Int
        /\ processed \in Nat /\ input \in Nat
    <2>1. s \in Nat /\ s >= input /\ u.ramp \in Nat /\ Targets(u) \in [Object -> Int]
      BY UpdateFacts
    <2>2. processed \in Nat /\ input \in Nat /\ processed <= input
      BY DEF TimelineInv, Clocks, TypeOK
    <2> HIDE DEF s
    <2>3. QED
      BY <2>1, <2>2
  <1> HIDE DEF s
  <1>2. /\ transitions'[o] =
               IF o \in Accepting(u) THEN Appended(o, s, u.ramp, Targets(u)[o]) ELSE transitions[o]
        /\ lastTarget'[o] = IF o \in Accepting(u) THEN Targets(u)[o] ELSE lastTarget[o]
        /\ changes'[o] =
               IF o \in Accepting(u)
               THEN Append(changes[o], [start |-> s, ramp |-> u.ramp, target |-> Targets(u)[o]])
               ELSE changes[o]
    BY DEF Schedule, s
  <1>3. /\ transitions[o] \in Seq(Transition) /\ lastTarget[o] \in Int
        /\ changes[o] \in Seq([start : Nat, ramp : Nat, target : Int])
        /\ Connected(transitions[o])
        /\ transitions[o] # <<>> => Last(transitions[o]).target = lastTarget[o]
    BY DEF TimelineInv, TypeOK, RampsConnect, Ordered, Connected, Transition
  <1>4. CASE o \in Accepting(u)
    <2>1. ~Overlaps(o, s)
      BY <1>4 DEF Accepting, Moved, Object, s
    <2>2. [start |-> s, ramp |-> u.ramp, target |-> Targets(u)[o]]
             \in [start : Nat, ramp : Nat, target : Int]
      BY <1>1
    <2>3. changes'[o] \in Seq([start : Nat, ramp : Nat, target : Int])
      BY <1>2, <1>3, <1>4, <2>2, AppendProperties
    <2> DEFINE target == Targets(u)[o]
               A == Appended(o, s, u.ramp, target)
    <2>4. transitions'[o] = A /\ lastTarget'[o] = target
      BY <1>2, <1>4
    <2> HIDE DEF target
    <2>5. target \in Int
      BY <1>1 DEF target
    <2>6. /\ A \in Seq(Transition) /\ Len(A) >= Len(transitions[o])
          /\ Connected(A) /\ Last(A).target = target
          /\ \A i \in DOMAIN A :
                \/ i \in DOMAIN transitions[o] /\ A[i] = transitions[o][i]
                \/ /\ A[i].start >= processed
                   /\ i \in DOMAIN transitions[o] => transitions[o][i].start >= processed
      BY <1>1, <2>1, <2>5, AppendedProperties
    <2> HIDE DEF A
    <2>7. QED
      BY <2>3, <2>4, <2>5, <2>6
  <1>5. CASE o \notin Accepting(u)
    <2>1. /\ transitions'[o] = transitions[o] /\ lastTarget'[o] = lastTarget[o]
          /\ changes'[o] = changes[o]
      BY <1>2, <1>5
    <2>2. Len(transitions[o]) \in Nat
      BY <1>3, LenProperties
    <2>3. QED
      BY <1>3, <2>1, <2>2
  <1>6. QED
    BY <1>4, <1>5

LEMMA ScheduleInv ==
    ASSUME TimelineInv, ~finished, NEW u \in Update, Schedule(u),
           UNCHANGED <<configVars, bed, queryVars, finished, pass>>,
           submitted < MaxFrames, submitted' = submitted + 1
    PROVE  TimelineInv'
  <1>1. /\ coded' = Applied(u) /\ lastCoded' = CodedEvent(u) /\ initialized
        /\ \/ input' = input + Frame /\ status' = "ok"
           \/ input' = input /\ status' = "overlapping_binaural_position_ramps"
        /\ UNCHANGED <<initialized, initial, start>>
        /\ UNCHANGED <<chunk, delay, bed, cursor, lastQuery, processed, answers, finished, pass>>
    BY DEF Schedule, configVars, queryVars
  <1>2. Clocks' /\ input' \in Nat
    <2>1. CASE input' = input + Frame
      BY <1>1, <2>1, AnotherFrame
    <2>2. CASE input' = input
      BY <1>1, <2>2 DEF TimelineInv, TypeOK, Clocks
    <2>3. QED
      BY <1>1, <2>1, <2>2
  <1>3. /\ transitions' \in [Object -> Seq(Transition)] /\ lastTarget' \in [Object -> Int]
        /\ changes' \in [Object -> Seq([start : Nat, ramp : Nat, target : Int])]
    <2>1. /\ transitions' = [o \in Object |-> transitions'[o]]
          /\ lastTarget' = [o \in Object |-> lastTarget'[o]]
          /\ changes' = [o \in Object |-> changes'[o]]
      BY DEF Schedule
    <2>2. QED
      BY <2>1, ScheduledTracks
  <1>4. \A o \in Object : cursor'[o] <= Len(transitions'[o])
    <2>1. SUFFICES ASSUME NEW o \in Object PROVE cursor'[o] <= Len(transitions'[o])
      OBVIOUS
    <2>2. /\ cursor[o] \in Nat /\ Len(transitions[o]) \in Nat /\ cursor[o] <= Len(transitions[o])
      BY LenProperties DEF TimelineInv, TypeOK
    <2>3. Len(transitions'[o]) >= Len(transitions[o]) /\ Len(transitions'[o]) \in Nat
      BY ScheduledTracks, LenProperties
    <2>4. QED
      BY <1>1, <2>2, <2>3
  <1>5. TypeOK'
    <2>1. coded' \in [Object -> Int] /\ lastCoded' \in Nat \cup {-1}
      BY <1>1, UpdateFacts
    <2>2. submitted' \in 0 .. MaxFrames
      BY AnotherSubmission DEF TimelineInv
    <2>3. QED
      BY <1>1, <1>2, <1>3, <1>4, <2>1, <2>2 DEF TimelineInv, TypeOK, Transition
  <1>6. RampsConnect'
    BY ScheduledTracks DEF RampsConnect, Ordered, Connected
  <1>7. NothingYet'
    BY <1>1 DEF NothingYet
  <1>8. QED
    BY <1>2, <1>5, <1>6, <1>7 DEF TimelineInv

LEMMA SubmitFrameInv == TimelineInv /\ SubmitFrame => TimelineInv'
  <1> SUFFICES ASSUME TimelineInv, SubmitFrame PROVE TimelineInv'
    OBVIOUS
  <1>1. /\ ~finished /\ submitted < MaxFrames /\ submitted' = submitted + 1
        /\ UNCHANGED <<configVars, bed, queryVars, finished, pass>>
    BY DEF SubmitFrame
  <1>2. CASE /\ input' = input + Frame /\ status' = "ok"
             /\ UNCHANGED <<coded, initialized, lastCoded, trackVars, changes, start>>
    <2>1. /\ UNCHANGED <<coded, initialized, lastCoded, lastTarget, transitions, initial,
                         changes, start>>
          /\ UNCHANGED <<chunk, delay, bed, cursor, lastQuery, processed, answers, finished, pass>>
      BY <1>1, <1>2 DEF trackVars, configVars, queryVars
    <2>2. Clocks' /\ input' \in Nat
      BY <1>2, <2>1, AnotherFrame
    <2>3. submitted' \in 0 .. MaxFrames
      BY <1>1, AnotherSubmission DEF TimelineInv
    <2>4. TypeOK'
      BY <1>2, <2>1, <2>2, <2>3 DEF TimelineInv, TypeOK
    <2>5. RampsConnect' /\ NothingYet'
      BY <2>1 DEF TimelineInv, RampsConnect, Ordered, NothingYet
    <2>6. QED
      BY <2>2, <2>4, <2>5 DEF TimelineInv
  <1>3. ASSUME NEW u \in Update, RejectStale(u) \/ RejectLate(u)
        PROVE  TimelineInv'
    BY <1>1, <1>3, RejectInv
  <1>4. ASSUME NEW u \in Update, Initialize(u)
        PROVE  TimelineInv'
    BY <1>1, <1>4, InitializeInv
  <1>5. ASSUME NEW u \in Update, Schedule(u)
        PROVE  TimelineInv'
    BY <1>1, <1>5, ScheduleInv
  <1>6. QED
    BY <1>2, <1>3, <1>4, <1>5 DEF SubmitFrame

LEMMA CallInv == TimelineInv /\ (DeclareBed \/ Finish) => TimelineInv'
  <1> SUFFICES ASSUME TimelineInv, DeclareBed \/ Finish PROVE TimelineInv'
    OBVIOUS
  <1>1. /\ UNCHANGED <<chunk, delay, coded, initialized, lastCoded, lastTarget, transitions, initial,
                       cursor, lastQuery, processed, answers, input, submitted, pass, changes, start>>
        /\ bed' \in BOOLEAN /\ finished' \in BOOLEAN
        /\ finished' = finished \/ finished' = TRUE
        /\ status' = status \/ status' = "ok"
    BY DEF DeclareBed, Finish, configVars, trackVars, queryVars, TimelineInv, TypeOK
  <1>2. TypeOK'
    BY <1>1 DEF TimelineInv, TypeOK
  <1>3. RampsConnect' /\ Clocks' /\ NothingYet'
    BY <1>1 DEF TimelineInv, RampsConnect, Ordered, Clocks, NothingYet
  <1>4. QED
    BY <1>2, <1>3 DEF TimelineInv

\* A chunk is rendered in whole blocks, and never beyond what was submitted.
LEMMA NextBlock ==
    ASSUME TimelineInv, ~Idle, processed' = processed + Block, UNCHANGED <<input, finished>>
    PROVE  Clocks' /\ processed' \in Nat
  <1>1. /\ processed \in Nat /\ input \in Nat /\ Block \in Nat \ {0}
        /\ chunk \in Nat \ {0}
    BY TimelineAssumption DEF TimelineInv, TypeOK
  <1>2. PICK p \in Nat : processed = Block * p
    BY DEF TimelineInv, Clocks
  <1>3. processed' = Block * (p + 1) /\ p + 1 \in Nat
    BY <1>1, <1>2
  <1>4. ASSUME ~finished
        PROVE  processed' <= input
    <2>1. PICK c \in 0 .. chunk : chunk = Block * c
      BY TimelineAssumption DEF TimelineInv, TypeOK
    <2> DEFINE q == input \div chunk
    <2>2. q \in Int /\ chunk * q <= input
      BY <1>1, DivType
    <2>3. processed < chunk * q
      BY <1>1, <1>4, <2>2 DEF Idle, Due
    <2> HIDE DEF q
    <2>4. chunk * q = Block * (c * q) /\ c * q \in Int
      BY <1>1, <2>1, <2>2
    <2> DEFINE b == c * q
    <2> HIDE DEF b
    <2>5. Block * p < Block * b /\ b \in Int
      BY <1>2, <2>3, <2>4 DEF b
    <2>6. p + 1 <= b
      <3>1. SUFFICES ASSUME b <= p PROVE FALSE
        BY <1>2, <2>5
      <3>2. Block * b <= Block * p
        BY <1>1, <1>2, <2>5, <3>1
      <3>3. QED
        BY <1>1, <1>2, <2>5, <3>2
    <2>7. Block * (p + 1) <= Block * b
      BY <1>1, <1>2, <2>5, <2>6
    <2>8. Block * b = chunk * q
      BY <2>4 DEF b
    <2>9. QED
      BY <1>1, <1>3, <2>2, <2>5, <2>7, <2>8
  <1>5. \E k \in Nat : input = Grid * k
    BY DEF TimelineInv, Clocks
  <1>6. /\ \E k \in Nat : input' = Grid * k
        /\ \E k \in Nat : processed' = Block * k
        /\ ~finished' => processed' <= input'
    BY <1>3, <1>4, <1>5
  <1>7. processed' \in Nat
    BY <1>1
  <1>8. QED
    BY <1>6, <1>7 DEF Clocks

LEMMA RenderBlockInv == TimelineInv /\ RenderBlock => TimelineInv'
  <1> SUFFICES ASSUME TimelineInv, RenderBlock PROVE TimelineInv'
    OBVIOUS
  <1>1. /\ ~Idle /\ processed' = processed + Block /\ lastQuery' = processed
        /\ UNCHANGED <<chunk, delay, bed, coded, initialized, lastCoded, lastTarget, transitions,
                       input, finished, status, submitted, pass, changes, start>>
        /\ answers' = Append(answers, [o \in Object |-> PositionAt(o, processed)])
        /\ cursor' = [o \in Object |-> Passed(o, processed)]
        /\ initial' = [o \in Object |->
               IF cursor'[o] > cursor[o] THEN transitions[o][cursor'[o]].target ELSE initial[o]]
    BY DEF RenderBlock, configVars
  <1>2. Clocks' /\ processed' \in Nat /\ processed \in Nat /\ lastQuery' < processed'
    BY <1>1, NextBlock, TimelineAssumption DEF TimelineInv, TypeOK
  <1>3. ASSUME NEW o \in Object
        PROVE  /\ cursor'[o] \in Nat /\ cursor'[o] <= Len(transitions[o])
               /\ initial'[o] \in Int /\ PositionAt(o, processed) \in Int
    <2>1. /\ cursor'[o] \in cursor[o] .. Len(transitions[o])
          /\ cursor[o] \in Nat /\ Len(transitions[o]) \in Nat
          /\ initial[o] \in Int /\ transitions[o] \in [1 .. Len(transitions[o]) -> Transition]
      BY <1>1, <1>2, PassedProperties, LenProperties DEF TimelineInv, TypeOK, Transition
    <2>2. cursor'[o] > cursor[o] => transitions[o][cursor'[o]].target \in Int
      BY <2>1 DEF Transition
    <2>3. initial'[o] \in Int
      BY <1>1, <2>1, <2>2
    <2>4. PositionAt(o, processed) \in Int
      BY <1>2, PositionType DEF TimelineInv
    <2>5. QED
      BY <2>1, <2>3, <2>4
  <1>4. /\ cursor' \in [Object -> Nat] /\ initial' \in [Object -> Int]
        /\ [o \in Object |-> PositionAt(o, processed)] \in [Object -> Int]
    BY <1>1, <1>3
  <1>5. answers' \in Seq([Object -> Int])
    BY <1>1, <1>4, AppendProperties DEF TimelineInv, TypeOK
  <1>6. TypeOK'
    BY <1>1, <1>2, <1>3, <1>4, <1>5 DEF TimelineInv, TypeOK
  <1>7. RampsConnect' /\ NothingYet'
    BY <1>1 DEF TimelineInv, RampsConnect, Ordered, NothingYet
  <1>8. QED
    BY <1>2, <1>6, <1>7 DEF TimelineInv

LEMMA StutterInv == TimelineInv /\ UNCHANGED vars => TimelineInv'
  BY DEF TimelineInv, TypeOK, RampsConnect, Ordered, Clocks, NothingYet, vars

LEMMA NextInv == TimelineInv /\ [Next]_vars => TimelineInv'
  BY SubmitFrameInv, CallInv, ResetInv, RenderBlockInv, StutterInv DEF Next

LEMMA Invariance == Spec => []TimelineInv
  BY InitInv, NextInv, PTL DEF Spec

-----------------------------------------------------------------------------
(***************************************************************************)
(* The theorems.                                                           *)
(***************************************************************************)
\* The variables of a timeline have their types: no cursor leaves its track, no
\* transition starts before sample 0, and positions are asked for at increasing
\* samples only, so that the guard of position_at (position_timeline.cpp:64)
\* never fires.
THEOREM TypeCorrect == Spec => []TypeOK
  <1>1. TimelineInv => TypeOK
    BY DEF TimelineInv
  <1>2. QED
    BY <1>1, Invariance, PTL

\* Whatever the updates, the transitions of an object are in order, do not
\* overlap, and each starts where the one before it ends (append,
\* position_timeline.cpp:23).
THEOREM RampsAlwaysConnect == Spec => []RampsConnect
  <1>1. TimelineInv => RampsConnect
    BY DEF TimelineInv
  <1>2. QED
    BY <1>1, Invariance, PTL

\* A step that is no reset and stays within the invariant leaves the past alone.
LEMMA StepNeverRewrites ==
    ASSUME TimelineInv, [Next]_vars, pass' = pass, NEW o \in Object
    PROVE  /\ \A i \in Rewritten(o) : transitions[o][i].start >= processed
           /\ \A i \in Rewritten(o) \cup Added(o) :
                 i \in DOMAIN transitions'[o] => transitions'[o][i].start >= processed
  <1>1. CASE transitions' = transitions
    BY <1>1 DEF Rewritten, Added
  <1>2. ASSUME ~finished, NEW u \in Update, Schedule(u)
        PROVE  /\ \A i \in Rewritten(o) : transitions[o][i].start >= processed
               /\ \A i \in Rewritten(o) \cup Added(o) :
                     i \in DOMAIN transitions'[o] => transitions'[o][i].start >= processed
    <2>1. /\ transitions[o] \in Seq(Transition) /\ transitions'[o] \in Seq(Transition)
          /\ Len(transitions'[o]) >= Len(transitions[o])
      BY <1>2, ScheduledTracks DEF TimelineInv, TypeOK, Transition
    <2>2. DOMAIN transitions[o] \subseteq DOMAIN transitions'[o]
      BY <2>1, LenProperties
    <2>3. \A i \in DOMAIN transitions'[o] :
              \/ i \in DOMAIN transitions[o] /\ transitions'[o][i] = transitions[o][i]
              \/ /\ transitions'[o][i].start >= processed
                 /\ i \in DOMAIN transitions[o] => transitions[o][i].start >= processed
      BY <1>2, ScheduledTracks
    <2>4. QED
      BY <2>2, <2>3 DEF Rewritten, Added
  <1>3. CASE SubmitFrame
    BY <1>1, <1>2, <1>3 DEF SubmitFrame, RejectStale, RejectLate, Initialize, trackVars
  <1>4. CASE Reset
    <2>1. pass \in Nat /\ pass' = pass + 1
      BY <1>4, TimelineAssumption DEF Reset, TimelineInv, TypeOK
    <2>2. QED
      BY <2>1
  <1>5. CASE DeclareBed \/ Finish \/ RenderBlock \/ UNCHANGED vars
    BY <1>1, <1>5 DEF DeclareBed, Finish, RenderBlock, trackVars, vars
  <1>6. QED
    BY <1>3, <1>4, <1>5 DEF Next

\* An accepted update only ever schedules at or after the next unrendered
\* sample, whatever the delay, the offset and the size of the chunk: it is
\* aligned to a grid that divides the frame (submit_update,
\* position_timeline.cpp:105), so no sample already rendered changes its position.
THEOREM PastIsNeverRewritten == Spec => NeverRewrites
  <1>1. TimelineInv /\ [Next]_vars =>
            [pass' = pass =>
                \A o \in Object :
                    /\ \A i \in Rewritten(o) : transitions[o][i].start >= processed
                    /\ \A i \in Rewritten(o) \cup Added(o) :
                          i \in DOMAIN transitions'[o] =>
                              transitions'[o][i].start >= processed]_vars
    BY StepNeverRewrites
  <1>2. QED
    BY <1>1, Invariance, PTL DEF Spec, NeverRewrites

-----------------------------------------------------------------------------
(***************************************************************************)
(* The answers.  A track holds the changes of its object, of those with    *)
(* one start the last; what the changes mean is read off the track, and    *)
(* what is over and dropped lies before the next block.                    *)
(***************************************************************************)

\* Started, TargetBefore and Meant, of a history of changes and the position
\* before them.
StartedIn(cs, x) == {i \in DOMAIN cs : cs[i].start <= x}
TargetIn(cs, first, x) ==
    IF StartedIn(cs, x) = {} THEN first ELSE cs[Latest(StartedIn(cs, x))].target
MeantIn(cs, first, x) ==
    IF StartedIn(cs, x) = {} THEN first
    ELSE LET c == cs[Latest(StartedIn(cs, x))]
         IN  IF x >= c.start + c.ramp
             THEN c.target
             ELSE Between(TargetIn(cs, first, c.start - 1), c.target, x - c.start, c.ramp)

\* Each transition ends before every later one.
Sorted(ts) ==
    \A i, j \in DOMAIN ts : i < j => End(ts[i]) <= ts[j].start /\ ts[i].start < ts[j].start

\* A transition is a change that no later one starts with, and ramps from what
\* ruled before it; no change is without a transition at its start.
IsLastChange(t, cs, k) ==
    /\ cs[k].start = t.start /\ cs[k].ramp = t.ramp /\ cs[k].target = t.target
    /\ \A j \in DOMAIN cs : j > k => cs[j].start > t.start
Mirrors(ts, cs, first) ==
    /\ \A i \in DOMAIN ts :
          /\ \E k \in DOMAIN cs : IsLastChange(ts[i], cs, k)
          /\ ts[i].origin = TargetIn(cs, first, ts[i].start - 1)
    /\ \A k \in DOMAIN cs : \E i \in DOMAIN ts : ts[i].start = cs[k].start

Change == [start : Nat, ramp : Nat, target : Int]

Tracks ==
    \A o \in Object :
        /\ Sorted(transitions[o])
        /\ Mirrors(transitions[o], changes[o], start[o])
        /\ lastTarget[o] = IF changes[o] = <<>> THEN start[o] ELSE changes[o][Len(changes[o])].target
Dropped ==
    \A o \in Object :
        /\ initial[o] = IF cursor[o] = 0 THEN start[o] ELSE transitions[o][cursor[o]].target
        /\ \A i \in 1 .. cursor[o] : End(transitions[o][i]) < processed
Answered ==
    /\ processed = Block * Len(answers)
    /\ \A b \in DOMAIN answers : \A o \in Object :
          answers[b][o] = MeantIn(changes[o], start[o], (b - 1) * Block)
AnswersInv == Tracks /\ Dropped /\ Answered


LEMMA LastOrBefore == ASSUME NEW n \in Nat, NEW i \in 1 .. n
                      PROVE  i = n \/ i \in 1 .. n - 1
  OBVIOUS

LEMMA LatestIs == ASSUME NEW S \in SUBSET Nat, NEW k \in S, \A j \in S : j <= k
                  PROVE  Latest(S) = k
  <1>1. \A i \in S : (\A j \in S : j <= i) => i = k
    OBVIOUS
  <1>2. QED
    BY <1>1 DEF Latest

\* A nonempty set of indices has a latest one.
LEMMA LatestExists == ASSUME NEW n \in Nat, NEW S \in SUBSET (1 .. n), S # {}
                      PROVE  Latest(S) \in S /\ \A j \in S : j <= Latest(S)
  <1> DEFINE T == {n - i : i \in S}
  <1>1. T \in SUBSET Nat /\ T # {}
    <2>1. \A i \in S : n - i \in Nat
      OBVIOUS
    <2>2. QED
      BY <2>1
  <1>2. PICK m \in T : \A k \in T : ~(k < m)
    BY <1>1, Least
  <1>3. PICK i \in S : m = n - i
    BY <1>2
  <1>4. ASSUME NEW j \in S PROVE j <= i
    <2>1. n - j \in T
      BY <1>4
    <2>2. ~(n - j < n - i)
      BY <1>2, <1>3, <2>1
    <2>3. i \in 1 .. n /\ j \in 1 .. n
      BY <1>3, <1>4
    <2>4. QED
      BY <2>2, <2>3
  <1>5. QED
    BY <1>3, <1>4 DEF Latest

\* A change says nothing of what comes before it.
LEMMA EarlierIsKept ==
    ASSUME NEW cs \in Seq(Change), NEW c \in Change, NEW first \in Int, NEW x \in Int, x < c.start
    PROVE  /\ StartedIn(Append(cs, c), x) = StartedIn(cs, x)
           /\ TargetIn(Append(cs, c), first, x) = TargetIn(cs, first, x)
           /\ MeantIn(Append(cs, c), first, x) = MeantIn(cs, first, x)
  <1> DEFINE K == Len(cs)
             after == Append(cs, c)
  <1>1. /\ K \in Nat /\ DOMAIN cs = 1 .. K /\ cs \in [1 .. K -> Change]
        /\ DOMAIN after = 1 .. K + 1 /\ after[K + 1] = c
        /\ \A i \in 1 .. K : after[i] = cs[i]
    BY LenProperties, AppendProperties
  <1> HIDE DEF after
  <1>2. ASSUME NEW y \in Int, y < c.start
        PROVE  /\ StartedIn(after, y) = StartedIn(cs, y)
               /\ StartedIn(cs, y) # {} =>
                     /\ Latest(StartedIn(cs, y)) \in 1 .. K
                     /\ cs[Latest(StartedIn(cs, y))].start <= y
                     /\ after[Latest(StartedIn(cs, y))] = cs[Latest(StartedIn(cs, y))]
               /\ TargetIn(after, first, y) = TargetIn(cs, first, y)
    <2>1. StartedIn(after, y) = StartedIn(cs, y)
      <3>1. c.start \in Nat
        BY DEF Change
      <3>2. ~(after[K + 1].start <= y)
        BY <1>1, <1>2, <3>1
      <3>3. QED
        BY <1>1, <3>2 DEF StartedIn
    <2>2. StartedIn(cs, y) \in SUBSET (1 .. K)
      BY <1>1 DEF StartedIn
    <2>3. StartedIn(cs, y) # {} => Latest(StartedIn(cs, y)) \in StartedIn(cs, y)
      BY <1>1, <2>2, LatestExists
    <2>4. StartedIn(cs, y) # {} =>
              /\ Latest(StartedIn(cs, y)) \in 1 .. K
              /\ cs[Latest(StartedIn(cs, y))].start <= y
              /\ after[Latest(StartedIn(cs, y))] = cs[Latest(StartedIn(cs, y))]
      BY <1>1, <2>2, <2>3 DEF StartedIn
    <2>5. QED
      BY <2>1, <2>4 DEF TargetIn
  <1> DEFINE k == Latest(StartedIn(cs, x))
  <1>3. MeantIn(after, first, x) = MeantIn(cs, first, x)
    <2>1. CASE StartedIn(cs, x) = {}
      BY <1>2, <2>1 DEF MeantIn
    <2>2. CASE StartedIn(cs, x) # {}
      <3>1. k \in 1 .. K /\ cs[k].start <= x /\ after[k] = cs[k]
        BY <1>2, <2>2
      <3>2. cs[k] \in Change /\ cs[k].start \in Nat /\ c.start \in Nat
        BY <1>1, <3>1 DEF Change
      <3>3. cs[k].start - 1 \in Int /\ cs[k].start - 1 < c.start
        BY <3>1, <3>2
      <3>4. TargetIn(after, first, cs[k].start - 1) = TargetIn(cs, first, cs[k].start - 1)
        BY <1>2, <3>3
      <3>5. Latest(StartedIn(after, x)) = k /\ StartedIn(after, x) # {}
        BY <1>2, <2>2
      <3>6. QED
        BY <2>2, <3>1, <3>4, <3>5 DEF MeantIn
    <2>3. QED
      BY <2>1, <2>2
  <1>4. QED
    BY <1>2, <1>3 DEF after

\* What a change and a transition are made of.
LEMMA Fields ==
    /\ \A t \in Transition : /\ t.start \in Nat /\ t.ramp \in Nat /\ t.origin \in Int /\ t.target \in Int
                             /\ End(t) = t.start + t.ramp /\ End(t) \in Nat
    /\ \A c \in Change : c.start \in Nat /\ c.ramp \in Nat /\ c.target \in Int
  BY DEF Transition, Change, End

\* The change that rules at a sample is that of the last transition to start.
LEMMA RulingChange ==
    ASSUME NEW ts \in Seq(Transition), NEW cs \in Seq(Change), NEW first \in Int,
           Sorted(ts), Mirrors(ts, cs, first), NEW x \in Int,
           NEW i \in DOMAIN ts, ts[i].start <= x, i < Len(ts) => x < ts[i + 1].start,
           NEW k \in DOMAIN cs, IsLastChange(ts[i], cs, k)
    PROVE  StartedIn(cs, x) # {} /\ Latest(StartedIn(cs, x)) = k
  <1>1. /\ DOMAIN ts = 1 .. Len(ts) /\ Len(ts) \in Nat /\ ts \in [1 .. Len(ts) -> Transition]
        /\ DOMAIN cs = 1 .. Len(cs) /\ Len(cs) \in Nat /\ cs \in [1 .. Len(cs) -> Change]
    BY LenProperties
  <1>2. k \in StartedIn(cs, x)
    BY DEF StartedIn, IsLastChange
  <1>3. ASSUME NEW j \in DOMAIN ts, ts[j].start <= x
        PROVE  ts[j].start <= ts[i].start
    <2>1. ts[j].start \in Nat /\ ts[i].start \in Nat
      BY <1>1, Fields
    <2>2. CASE j <= i
      BY <1>1, <2>1, <2>2 DEF Sorted
    <2>3. CASE i < j
      <3>1. i + 1 \in DOMAIN ts /\ i < Len(ts) /\ ts[i + 1].start \in Nat
        BY <1>1, <2>3, Fields
      <3>2. i + 1 = j \/ ts[i + 1].start < ts[j].start
        BY <1>1, <2>3, <3>1 DEF Sorted
      <3>3. QED
        BY <1>3, <2>1, <3>1, <3>2
    <2>4. QED
      BY <1>1, <2>2, <2>3
  <1>4. ASSUME NEW j \in StartedIn(cs, x)
        PROVE  j <= k
    <2>1. j \in DOMAIN cs /\ cs[j].start <= x
      BY <1>4 DEF StartedIn
    <2>2. PICK n \in DOMAIN ts : ts[n].start = cs[j].start
      BY <2>1 DEF Mirrors
    <2>3. ts[n].start <= ts[i].start
      BY <1>3, <2>1, <2>2
    <2>4. cs[j].start <= ts[i].start
      BY <2>2, <2>3
    <2>5. j > k => cs[j].start > ts[i].start
      BY <2>1 DEF IsLastChange
    <2>6. cs[j].start \in Nat /\ ts[i].start \in Nat /\ j \in Nat /\ k \in Nat
      BY <1>1, <2>1, Fields
    <2>7. QED
      BY <2>4, <2>5, <2>6
  <1>5. StartedIn(cs, x) \in SUBSET Nat
    BY <1>1 DEF StartedIn
  <1>6. QED
    BY <1>2, <1>4, <1>5, LatestIs

\* What the changes mean at a sample, read off the transitions not yet over.
LEMMA TrackMeans ==
    ASSUME NEW ts \in Seq(Transition), NEW cs \in Seq(Change), NEW first \in Int,
           Sorted(ts), Mirrors(ts, cs, first), NEW x \in Nat,
           NEW c \in 0 .. Len(ts), \A i \in 1 .. c : End(ts[i]) <= x,
           c < Len(ts) => End(ts[c + 1]) > x
    PROVE  MeantIn(cs, first, x) =
               IF c = Len(ts) \/ x < ts[c + 1].start
               THEN IF c = 0 THEN first ELSE ts[c].target
               ELSE Between(ts[c + 1].origin, ts[c + 1].target, x - ts[c + 1].start, ts[c + 1].ramp)
  <1>1. /\ DOMAIN ts = 1 .. Len(ts) /\ Len(ts) \in Nat /\ ts \in [1 .. Len(ts) -> Transition]
        /\ DOMAIN cs = 1 .. Len(cs) /\ Len(cs) \in Nat /\ cs \in [1 .. Len(cs) -> Change]
    BY LenProperties
  <1>2. CASE c = Len(ts) \/ x < ts[c + 1].start
    <2>1. CASE c = 0
      <3>1. ASSUME NEW i \in DOMAIN ts PROVE ~(ts[i].start <= x)
        <4>1. 1 \in DOMAIN ts /\ x < ts[1].start /\ ts[1].start \in Nat /\ ts[i].start \in Nat
          BY <1>1, <1>2, <2>1, <3>1, Fields
        <4>2. i = 1 \/ ts[1].start < ts[i].start
          BY <1>1, <4>1 DEF Sorted
        <4>3. QED
          BY <4>1, <4>2
      <3>2. StartedIn(cs, x) = {}
        <4>1. SUFFICES ASSUME NEW j \in DOMAIN cs, cs[j].start <= x PROVE FALSE
          BY DEF StartedIn
        <4>2. PICK n \in DOMAIN ts : ts[n].start = cs[j].start
          BY DEF Mirrors
        <4>3. QED
          BY <3>1, <4>1, <4>2
      <3>3. QED
        BY <1>2, <2>1, <3>2 DEF MeantIn
    <2>2. CASE c # 0
      <3>1. c \in DOMAIN ts /\ End(ts[c]) <= x /\ ts[c] \in Transition
        BY <1>1, <2>2
      <3>2. PICK k \in DOMAIN cs : IsLastChange(ts[c], cs, k)
        BY <3>1 DEF Mirrors
      <3>3. ts[c].start <= x /\ ts[c].start + ts[c].ramp <= x
        BY <3>1, Fields
      <3>4. c < Len(ts) => x < ts[c + 1].start
        <4> DEFINE L == Len(ts)
        <4>1. L \in Nat
          BY <1>1
        <4> HIDE DEF L
        <4>2. c < L => c # L
          BY <4>1
        <4>3. c < Len(ts) => c # Len(ts)
          BY <4>2 DEF L
        <4>4. QED
          BY <1>2, <4>3, Zenon
      <3>5. StartedIn(cs, x) # {} /\ Latest(StartedIn(cs, x)) = k
        BY <3>1, <3>2, <3>3, <3>4, RulingChange
      <3>6. cs[k].start = ts[c].start /\ cs[k].ramp = ts[c].ramp /\ cs[k].target = ts[c].target
        BY <3>2 DEF IsLastChange
      <3>7. MeantIn(cs, first, x) = ts[c].target
        BY <3>3, <3>5, <3>6 DEF MeantIn
      <3>8. QED
        BY <1>2, <2>2, <3>7
    <2>3. QED
      BY <2>1, <2>2
  <1>3. CASE ~(c = Len(ts) \/ x < ts[c + 1].start)
    <2> DEFINE t == ts[c + 1]
    <2>1. c + 1 \in DOMAIN ts /\ t \in Transition /\ End(t) > x
      BY <1>1, <1>3
    <2>2. /\ t.start \in Nat /\ t.ramp \in Nat /\ t.start <= x /\ ~(x >= t.start + t.ramp)
      BY <1>3, <2>1, Fields
    <2>3. PICK k \in DOMAIN cs : IsLastChange(t, cs, k)
      BY <2>1 DEF Mirrors
    <2>4. c + 1 < Len(ts) => x < ts[c + 1 + 1].start
      <3>1. SUFFICES ASSUME c + 1 < Len(ts) PROVE x < ts[c + 1 + 1].start
        OBVIOUS
      <3>2. c + 1 + 1 \in DOMAIN ts /\ c + 1 < c + 1 + 1 /\ ts[c + 1 + 1].start \in Nat
        BY <1>1, <3>1, Fields
      <3>3. End(t) <= ts[c + 1 + 1].start /\ End(t) \in Nat
        BY <2>1, <3>2, Fields DEF Sorted
      <3>4. QED
        BY <2>1, <3>2, <3>3
    <2>5. StartedIn(cs, x) # {} /\ Latest(StartedIn(cs, x)) = k
      BY <2>1, <2>2, <2>3, <2>4, RulingChange
    <2>6. cs[k].start = t.start /\ cs[k].ramp = t.ramp /\ cs[k].target = t.target
      BY <2>3 DEF IsLastChange
    <2>7. t.origin = TargetIn(cs, first, t.start - 1)
      BY <2>1 DEF Mirrors
    <2>8. MeantIn(cs, first, x) = Between(t.origin, t.target, x - t.start, t.ramp)
      BY <2>2, <2>5, <2>6, <2>7 DEF MeantIn
    <2>9. QED
      BY <1>3, <2>8
  <1>4. QED
    BY <1>2, <1>3

\* The starts of the transitions rise, and the last of them starts last.
LEMMA LastStartsLast ==
    ASSUME NEW ts \in Seq(Transition), NEW cs \in Seq(Change), NEW first \in Int,
           Sorted(ts), Mirrors(ts, cs, first), NEW k \in DOMAIN cs
    PROVE  /\ ts # <<>> /\ Len(ts) \in DOMAIN ts
           /\ cs[k].start <= ts[Len(ts)].start
  <1>1. /\ DOMAIN ts = 1 .. Len(ts) /\ Len(ts) \in Nat /\ ts \in [1 .. Len(ts) -> Transition]
        /\ DOMAIN cs = 1 .. Len(cs) /\ cs \in [1 .. Len(cs) -> Change]
    BY LenProperties
  <1>2. PICK i \in DOMAIN ts : ts[i].start = cs[k].start
    BY DEF Mirrors
  <1>3. Len(ts) \in DOMAIN ts /\ ts # <<>>
    BY <1>1, <1>2
  <1>4. i = Len(ts) \/ ts[i].start < ts[Len(ts)].start
    BY <1>1, <1>2, <1>3 DEF Sorted
  <1>5. ts[i].start \in Nat /\ ts[Len(ts)].start \in Nat
    BY <1>1, <1>2, <1>3, Fields
  <1>6. QED
    BY <1>2, <1>3, <1>4, <1>5

\* A change after all others, and the transition that is added for it.
LEMMA AddedMirrors ==
    ASSUME NEW ts \in Seq(Transition), NEW cs \in Seq(Change), NEW first \in Int,
           Sorted(ts), Mirrors(ts, cs, first), NEW t \in Transition, NEW c \in Change,
           c.start = t.start, c.ramp = t.ramp, c.target = t.target,
           t.origin = IF cs = <<>> THEN first ELSE cs[Len(cs)].target,
           ts # <<>> => End(ts[Len(ts)]) <= t.start /\ ts[Len(ts)].start < t.start
    PROVE  Sorted(Append(ts, t)) /\ Mirrors(Append(ts, t), Append(cs, c), first)
  <1> DEFINE L == Len(ts)
             K == Len(cs)
             A == Append(ts, t)
             B == Append(cs, c)
  <1>1. /\ DOMAIN ts = 1 .. L /\ L \in Nat /\ ts \in [1 .. L -> Transition]
        /\ DOMAIN cs = 1 .. K /\ K \in Nat /\ cs \in [1 .. K -> Change]
    BY LenProperties
  <1>2. /\ DOMAIN A = 1 .. L + 1 /\ A[L + 1] = t /\ \A i \in 1 .. L : A[i] = ts[i]
        /\ DOMAIN B = 1 .. K + 1 /\ B[K + 1] = c /\ \A k \in 1 .. K : B[k] = cs[k]
    BY <1>1, AppendProperties
  <1>3. t.start \in Nat /\ c.start \in Nat
    BY Fields
  <1>4. ASSUME NEW i \in 1 .. L
        PROVE  End(ts[i]) <= t.start /\ ts[i].start < t.start
    <2>1. ts # <<>> /\ L \in DOMAIN ts /\ ts[L] \in Transition /\ ts[i] \in Transition
      BY <1>1, <1>4
    <2>2. CASE i = L
      BY <2>1, <2>2
    <2>3. CASE i # L
      <3>1. End(ts[i]) <= ts[L].start /\ ts[i].start < ts[L].start
        BY <1>1, <1>4, <2>1, <2>3 DEF Sorted
      <3>2. End(ts[i]) \in Nat /\ ts[i].start \in Nat /\ ts[L].start \in Nat
        BY <2>1, Fields
      <3>3. ts[L].start < t.start
        BY <2>1
      <3>4. QED
        BY <1>3, <3>1, <3>2, <3>3
    <2>4. QED
      BY <2>2, <2>3
  <1>5. ASSUME NEW k \in 1 .. K
        PROVE  cs[k].start < t.start
    <2>1. ts # <<>> /\ cs[k].start <= ts[L].start /\ L \in 1 .. L
      BY <1>1, LastStartsLast
    <2>2. ts[L].start < t.start
      BY <2>1
    <2>3. cs[k].start \in Nat /\ ts[L].start \in Nat
      BY <1>1, <2>1, Fields
    <2>4. QED
      BY <1>3, <2>1, <2>2, <2>3
  <1> HIDE DEF A, B
  <1>6. Sorted(A)
    <2>1. SUFFICES ASSUME NEW i \in 1 .. L + 1, NEW j \in 1 .. L + 1, i < j
                   PROVE  End(A[i]) <= A[j].start /\ A[i].start < A[j].start
      BY <1>2 DEF Sorted
    <2>2. i \in 1 .. L /\ A[i] = ts[i]
      BY <1>1, <1>2, <2>1
    <2>3. CASE j = L + 1
      BY <1>2, <1>4, <2>2, <2>3
    <2>4. CASE j # L + 1
      <3>1. j \in 1 .. L /\ A[j] = ts[j]
        BY <1>1, <1>2, <2>1, <2>4
      <3>2. QED
        BY <1>1, <2>1, <2>2, <3>1 DEF Sorted
    <2>5. QED
      BY <2>3, <2>4
  <1>7. ASSUME NEW y \in Int, y < t.start
        PROVE  TargetIn(B, first, y) = TargetIn(cs, first, y)
    BY <1>7, EarlierIsKept DEF B
  <1>8. ASSUME NEW i \in 1 .. L
        PROVE  /\ \E k \in DOMAIN B : IsLastChange(A[i], B, k)
               /\ A[i].origin = TargetIn(B, first, A[i].start - 1)
    <2>1. A[i] = ts[i] /\ ts[i].start < t.start /\ ts[i].start \in Nat
      BY <1>1, <1>2, <1>4, <1>8, Fields
    <2>2. PICK k \in 1 .. K : IsLastChange(ts[i], cs, k)
      BY <1>1, <1>8 DEF Mirrors
    <2>3. \A j \in 1 .. K + 1 : j > k => B[j].start > ts[i].start
      <3>1. TAKE j \in 1 .. K + 1
      <3>2. CASE j = K + 1
        BY <1>2, <1>3, <2>1, <3>2
      <3>3. CASE j # K + 1
        <4>1. j \in 1 .. K
          BY <1>1, <3>3
        <4>2. B[j] = cs[j]
          BY <1>2, <4>1
        <4>3. QED
          BY <1>1, <2>2, <4>1, <4>2 DEF IsLastChange
      <3>4. QED
        BY <3>2, <3>3
    <2>4. k \in DOMAIN B /\ IsLastChange(A[i], B, k)
      BY <1>1, <1>2, <2>1, <2>2, <2>3 DEF IsLastChange
    <2>5. ts[i].origin = TargetIn(cs, first, ts[i].start - 1)
      BY <1>1, <1>8 DEF Mirrors
    <2>6. ts[i].start - 1 \in Int /\ ts[i].start - 1 < t.start
      BY <1>3, <2>1
    <2>7. QED
      BY <1>7, <2>1, <2>4, <2>5, <2>6
  <1>9. /\ K + 1 \in DOMAIN B /\ IsLastChange(A[L + 1], B, K + 1)
        /\ A[L + 1].origin = TargetIn(B, first, A[L + 1].start - 1)
    <2>1. K + 1 \in DOMAIN B /\ IsLastChange(A[L + 1], B, K + 1)
      BY <1>1, <1>2 DEF IsLastChange
    <2>2. StartedIn(cs, t.start - 1) = 1 .. K
      <3>1. \A k \in 1 .. K : cs[k].start <= t.start - 1
        BY <1>1, <1>3, <1>5, Fields
      <3>2. QED
        BY <1>1, <3>1 DEF StartedIn
    <2>3. TargetIn(cs, first, t.start - 1) = t.origin
      <3>1. CASE cs = <<>>
        <4>1. K = 0
          BY <3>1
        <4>2. 1 .. K = {}
          BY <4>1
        <4>3. QED
          BY <2>2, <3>1, <4>2 DEF TargetIn
      <3>2. CASE cs # <<>>
        <4>1. K # 0
          BY <1>1, <3>2, EmptySeq
        <4>2. K \in 1 .. K /\ 1 .. K \in SUBSET Nat /\ \A j \in 1 .. K : j <= K
          BY <1>1, <4>1
        <4>3. Latest(1 .. K) = K
          BY <4>2, LatestIs
        <4>4. QED
          BY <2>2, <3>2, <4>2, <4>3 DEF TargetIn
      <3>3. QED
        BY <3>1, <3>2
    <2>4. t.start - 1 \in Int /\ t.start - 1 < t.start
      BY <1>3
    <2>5. TargetIn(B, first, t.start - 1) = t.origin
      BY <1>7, <2>3, <2>4
    <2>6. QED
      BY <1>2, <2>1, <2>5
  <1>10. ASSUME NEW k \in 1 .. K + 1
         PROVE  \E i \in DOMAIN A : A[i].start = B[k].start
    <2>1. CASE k = K + 1
      <3>1. L + 1 \in DOMAIN A /\ A[L + 1].start = B[k].start
        BY <1>1, <1>2, <2>1
      <3>2. QED
        BY <3>1
    <2>2. CASE k # K + 1
      <3>1. k \in 1 .. K /\ B[k] = cs[k]
        BY <1>1, <1>2, <2>2
      <3>2. PICK i \in 1 .. L : ts[i].start = cs[k].start
        BY <1>1, <3>1 DEF Mirrors
      <3>3. i \in DOMAIN A /\ A[i] = ts[i]
        BY <1>1, <1>2
      <3>4. QED
        BY <3>1, <3>2, <3>3
    <2>3. QED
      BY <2>1, <2>2
  <1>11. Mirrors(A, B, first)
    <2>1. ASSUME NEW i \in DOMAIN A
          PROVE  /\ \E k \in DOMAIN B : IsLastChange(A[i], B, k)
                 /\ A[i].origin = TargetIn(B, first, A[i].start - 1)
      <3>1. i \in 1 .. L \/ i = L + 1
        BY <1>1, <1>2
      <3>2. QED
        BY <1>8, <1>9, <3>1
    <2>2. QED
      BY <1>2, <1>10, <2>1 DEF Mirrors
  <1>12. QED
    BY <1>6, <1>11 DEF A, B

\* A change that starts with the last one, a jump whose transition it replaces.
LEMMA ReplacedMirrors ==
    ASSUME NEW ts \in Seq(Transition), NEW cs \in Seq(Change), NEW first \in Int,
           Sorted(ts), Mirrors(ts, cs, first), NEW t \in Transition, NEW c \in Change,
           c.start = t.start, c.ramp = t.ramp, c.target = t.target,
           ts # <<>>, ts[Len(ts)].start = t.start, t.origin = ts[Len(ts)].origin
    PROVE  /\ Sorted([ts EXCEPT ![Len(ts)] = t])
           /\ Mirrors([ts EXCEPT ![Len(ts)] = t], Append(cs, c), first)
  <1> DEFINE L == Len(ts)
             K == Len(cs)
             A == [ts EXCEPT ![Len(ts)] = t]
             B == Append(cs, c)
  <1>1. /\ DOMAIN ts = 1 .. L /\ L \in Nat /\ ts \in [1 .. L -> Transition] /\ L \in 1 .. L
        /\ DOMAIN cs = 1 .. K /\ K \in Nat /\ cs \in [1 .. K -> Change]
    BY LenProperties, EmptySeq
  <1>2. /\ DOMAIN A = 1 .. L /\ A[L] = t /\ \A i \in 1 .. L - 1 : A[i] = ts[i]
        /\ DOMAIN B = 1 .. K + 1 /\ B[K + 1] = c /\ \A k \in 1 .. K : B[k] = cs[k]
    BY <1>1, AppendProperties
  <1>3. t.start \in Nat /\ c.start \in Nat /\ ts[L].start = t.start /\ t.origin = ts[L].origin
    BY Fields
  <1>4. ASSUME NEW i \in 1 .. L - 1
        PROVE  i \in 1 .. L /\ ts[i].start < t.start /\ A[i] = ts[i]
    BY <1>1, <1>2, <1>3 DEF Sorted
  <1>5. \A i \in 1 .. L : A[i].start = ts[i].start
    <2>1. TAKE i \in 1 .. L
    <2>2. CASE i = L
      BY <1>2, <1>3, <2>2
    <2>3. CASE i # L
      <3>1. i \in 1 .. L - 1
        BY <1>1, <2>3
      <3>2. QED
        BY <1>4, <3>1
    <2>4. QED
      BY <2>2, <2>3
  <1> HIDE DEF A, B
  <1>6. Sorted(A)
    <2>1. SUFFICES ASSUME NEW i \in 1 .. L, NEW j \in 1 .. L, i < j
                   PROVE  End(A[i]) <= A[j].start /\ A[i].start < A[j].start
      BY <1>2 DEF Sorted
    <2>2. i \in 1 .. L - 1
      BY <1>1, <2>1
    <2>3. A[i] = ts[i] /\ A[j].start = ts[j].start
      BY <1>4, <1>5, <2>2
    <2>4. QED
      BY <1>1, <2>1, <2>3 DEF Sorted
  <1>7. ASSUME NEW y \in Int, y < t.start
        PROVE  TargetIn(B, first, y) = TargetIn(cs, first, y)
    BY <1>7, EarlierIsKept DEF B
  <1>8. \A i \in 1 .. L : A[i].origin = TargetIn(B, first, A[i].start - 1)
    <2>1. TAKE i \in 1 .. L
    <2>2. A[i].origin = ts[i].origin
      <3>1. CASE i = L
        BY <1>2, <1>3, <3>1
      <3>2. CASE i # L
        <4>1. i \in 1 .. L - 1
          BY <1>1, <3>2
        <4>2. QED
          BY <1>4, <4>1
      <3>3. QED
        BY <3>1, <3>2
    <2>3. ts[i].origin = TargetIn(cs, first, ts[i].start - 1)
      BY <1>1 DEF Mirrors
    <2>4. ts[i].start \in Nat /\ ts[i].start <= t.start
      <3>1. i = L \/ i \in 1 .. L - 1
        BY <1>1, LastOrBefore
      <3>2. ts[i].start \in Nat
        BY <1>1, Fields
      <3>3. QED
        BY <1>3, <1>4, <3>1, <3>2
    <2>5. ts[i].start - 1 \in Int /\ ts[i].start - 1 < t.start
      BY <1>3, <2>4
    <2>6. QED
      BY <1>5, <1>7, <2>2, <2>3, <2>5
  <1>9. \A i \in 1 .. L : \E k \in DOMAIN B : IsLastChange(A[i], B, k)
    <2>1. TAKE i \in 1 .. L
    <2>2. CASE i = L
      <3>1. K + 1 \in DOMAIN B /\ IsLastChange(A[i], B, K + 1)
        BY <1>1, <1>2, <2>2 DEF IsLastChange
      <3>2. QED
        BY <3>1
    <2>3. CASE i # L
      <3>1. i \in 1 .. L - 1
        BY <1>1, <2>3
      <3>2. A[i] = ts[i] /\ ts[i].start < t.start
        BY <1>4, <3>1
      <3>3. PICK k \in 1 .. K : IsLastChange(ts[i], cs, k)
        BY <1>1 DEF Mirrors
      <3>4. \A j \in 1 .. K + 1 : j > k => B[j].start > ts[i].start
        <4>1. TAKE j \in 1 .. K + 1
        <4>2. CASE j = K + 1
          <5>1. B[j].start = t.start
            BY <1>2, <4>2
          <5>2. ts[i].start \in Nat
            BY <1>1, Fields
          <5>3. QED
            BY <1>3, <3>2, <5>1, <5>2
        <4>3. CASE j # K + 1
          <5>1. j \in 1 .. K
            BY <1>1, <4>3
          <5>2. B[j] = cs[j]
            BY <1>2, <5>1
          <5>3. QED
            BY <1>1, <3>3, <5>1, <5>2 DEF IsLastChange
        <4>4. QED
          BY <4>2, <4>3
      <3>5. k \in DOMAIN B /\ IsLastChange(A[i], B, k)
        BY <1>1, <1>2, <3>2, <3>3, <3>4 DEF IsLastChange
      <3>6. QED
        BY <3>5
    <2>4. QED
      BY <2>2, <2>3
  <1>10. \A k \in 1 .. K + 1 : \E i \in 1 .. L : A[i].start = B[k].start
    <2>1. TAKE k \in 1 .. K + 1
    <2>2. CASE k = K + 1
      <3>1. L \in 1 .. L /\ A[L].start = B[k].start
        BY <1>1, <1>2, <2>2
      <3>2. QED
        BY <3>1
    <2>3. CASE k # K + 1
      <3>1. k \in 1 .. K /\ B[k] = cs[k]
        BY <1>1, <1>2, <2>3
      <3>2. PICK i \in 1 .. L : ts[i].start = cs[k].start
        BY <1>1, <3>1 DEF Mirrors
      <3>3. QED
        BY <1>5, <3>1, <3>2
    <2>4. QED
      BY <2>2, <2>3
  <1>11. Mirrors(A, B, first)
    BY <1>2, <1>8, <1>9, <1>10 DEF Mirrors
  <1>12. QED
    BY <1>6, <1>11 DEF A, B

\* The history's own definitions are these, and a track's state has its type.
LEMMA MeantIsMeantIn ==
    ASSUME NEW o \in Object, NEW x \in Int
    PROVE  Meant(o, x) = MeantIn(changes[o], start[o], x)
  <1>1. \A y \in Int : Started(o, y) = StartedIn(changes[o], y)
    BY DEF Started, StartedIn
  <1>2. \A y : TargetBefore(o, y) = TargetIn(changes[o], start[o], y)
    BY DEF TargetBefore, TargetIn, Started, StartedIn
  <1>3. QED
    BY <1>1, <1>2 DEF Meant, MeantIn

LEMMA TrackTypes ==
    ASSUME TimelineInv, NEW o \in Object
    PROVE  /\ transitions[o] \in Seq(Transition) /\ changes[o] \in Seq(Change)
           /\ start[o] \in Int /\ initial[o] \in Int /\ lastTarget[o] \in Int
           /\ cursor[o] \in 0 .. Len(transitions[o]) /\ Len(transitions[o]) \in Nat
           /\ DOMAIN transitions[o] = 1 .. Len(transitions[o])
           /\ transitions[o] \in [1 .. Len(transitions[o]) -> Transition]
           /\ DOMAIN changes[o] = 1 .. Len(changes[o]) /\ Len(changes[o]) \in Nat
           /\ processed \in Nat /\ Block \in Nat \ {0} /\ Len(answers) \in Nat
           /\ DOMAIN answers = 1 .. Len(answers)
  <1>1. /\ transitions[o] \in Seq(Transition) /\ changes[o] \in Seq(Change)
        /\ start[o] \in Int /\ initial[o] \in Int /\ lastTarget[o] \in Int
        /\ cursor[o] \in Nat /\ cursor[o] <= Len(transitions[o]) /\ processed \in Nat
        /\ answers \in Seq([Object -> Int])
    BY DEF TimelineInv, TypeOK, Transition, Change
  <1>2. Block \in Nat \ {0}
    BY TimelineAssumption
  <1>3. /\ Len(transitions[o]) \in Nat /\ DOMAIN transitions[o] = 1 .. Len(transitions[o])
        /\ transitions[o] \in [1 .. Len(transitions[o]) -> Transition]
        /\ DOMAIN changes[o] = 1 .. Len(changes[o]) /\ Len(changes[o]) \in Nat
        /\ DOMAIN answers = 1 .. Len(answers) /\ Len(answers) \in Nat
    BY <1>1, LenProperties
  <1>4. QED
    BY <1>1, <1>2, <1>3

\* A block is rendered at the positions the changes mean.
LEMMA AnswerIsMeant ==
    ASSUME TimelineInv, AnswersInv, NEW o \in Object
    PROVE  PositionAt(o, processed) = Meant(o, processed)
  <1> DEFINE ts == transitions[o]
             L == Len(ts)
             c == Passed(o, processed)
             rest == IF c > cursor[o] THEN ts[c].target ELSE initial[o]
  <1>1. /\ ts \in Seq(Transition) /\ changes[o] \in Seq(Change) /\ start[o] \in Int
        /\ cursor[o] \in 0 .. L /\ L \in Nat /\ processed \in Nat
        /\ ts \in [1 .. L -> Transition] /\ DOMAIN ts = 1 .. L
    BY TrackTypes
  <1>2. Sorted(ts) /\ Mirrors(ts, changes[o], start[o])
    BY DEF AnswersInv, Tracks
  <1>3. /\ initial[o] = IF cursor[o] = 0 THEN start[o] ELSE ts[cursor[o]].target
        /\ \A i \in 1 .. cursor[o] : End(ts[i]) < processed
    BY DEF AnswersInv, Dropped
  <1>4. /\ c \in cursor[o] .. L
        /\ \A i \in cursor[o] + 1 .. c : End(ts[i]) <= processed
        /\ c < L => End(ts[c + 1]) > processed
    BY <1>1, PassedProperties DEF TimelineInv
  <1>5. PositionAt(o, processed) =
            IF c = L \/ processed < ts[c + 1].start
            THEN rest
            ELSE Between(ts[c + 1].origin, ts[c + 1].target, processed - ts[c + 1].start,
                         ts[c + 1].ramp)
    BY DEF PositionAt
  <1> HIDE DEF c
  <1>6. c \in 0 .. L /\ rest = IF c = 0 THEN start[o] ELSE ts[c].target
    BY <1>1, <1>3, <1>4
  <1>7. \A i \in 1 .. c : End(ts[i]) <= processed
    <2>1. TAKE i \in 1 .. c
    <2>2. CASE i <= cursor[o]
      <3>1. i \in 1 .. cursor[o] /\ ts[i] \in Transition
        BY <1>1, <1>4, <2>2
      <3>2. End(ts[i]) < processed /\ End(ts[i]) \in Nat
        BY <1>3, <3>1, Fields
      <3>3. QED
        BY <1>1, <3>2
    <2>3. CASE ~(i <= cursor[o])
      <3>1. i \in cursor[o] + 1 .. c
        BY <1>1, <1>4, <2>3
      <3>2. QED
        BY <1>4, <3>1
    <2>4. QED
      BY <2>2, <2>3
  <1> HIDE DEF ts, rest
  <1>8. MeantIn(changes[o], start[o], processed) =
            IF c = Len(ts) \/ processed < ts[c + 1].start
            THEN IF c = 0 THEN start[o] ELSE ts[c].target
            ELSE Between(ts[c + 1].origin, ts[c + 1].target, processed - ts[c + 1].start,
                         ts[c + 1].ramp)
    BY <1>1, <1>2, <1>4, <1>6, <1>7, TrackMeans
  <1>9. Meant(o, processed) = MeantIn(changes[o], start[o], processed)
    BY <1>1, MeantIsMeantIn
  <1>10. QED
    BY <1>5, <1>6, <1>8, <1>9

-----------------------------------------------------------------------------
\* What a track becomes when it accepts a change.
LEMMA AcceptedTrack ==
    ASSUME TimelineInv, AnswersInv, NEW o \in Object, NEW s \in Nat, NEW ramp \in Nat,
           NEW target \in Int, s >= processed, ~Overlaps(o, s),
           NEW c, c = [start |-> s, ramp |-> ramp, target |-> target]
    PROVE  /\ Sorted(Appended(o, s, ramp, target))
           /\ Mirrors(Appended(o, s, ramp, target), Append(changes[o], c), start[o])
           /\ \A i \in 1 .. cursor[o] : Appended(o, s, ramp, target)[i] = transitions[o][i]
  <1> DEFINE ts == transitions[o]
             L == Len(ts)
             t == [start |-> s, ramp |-> ramp, origin |-> lastTarget[o], target |-> target]
             r == [t EXCEPT !.origin = Last(ts).origin]
             A == Appended(o, s, ramp, target)
  <1>1. /\ ts \in Seq(Transition) /\ changes[o] \in Seq(Change) /\ start[o] \in Int
        /\ L \in Nat /\ DOMAIN ts = 1 .. L /\ ts \in [1 .. L -> Transition]
        /\ cursor[o] \in 0 .. L /\ processed \in Nat /\ lastTarget[o] \in Int
    BY TrackTypes
  <1>2. /\ Sorted(ts) /\ Mirrors(ts, changes[o], start[o])
        /\ lastTarget[o] =
              IF changes[o] = <<>> THEN start[o] ELSE changes[o][Len(changes[o])].target
    BY DEF AnswersInv, Tracks
  <1>3. \A i \in 1 .. cursor[o] : End(ts[i]) < processed
    BY DEF AnswersInv, Dropped
  <1>4. c \in Change /\ c.start = s /\ c.ramp = ramp /\ c.target = target
    BY DEF Change
  <1>5. /\ t \in Transition /\ t.start = s /\ t.ramp = ramp /\ t.target = target
        /\ t.origin = lastTarget[o]
    BY <1>1 DEF Transition
  <1>6. ts # <<>> => L \in 1 .. L /\ Last(ts) = ts[L] /\ End(ts[L]) <= s
    <2>1. SUFFICES ASSUME ts # <<>>
                   PROVE  L \in 1 .. L /\ Last(ts) = ts[L] /\ End(ts[L]) <= s
      OBVIOUS
    <2>2. L # 0
      BY <1>1, <2>1, EmptySeq
    <2>3. L \in 1 .. L /\ Last(ts) = ts[L]
      BY <1>1, <2>2 DEF Last
    <2>4. ~(s < End(ts[L]))
      BY <2>1, <2>3 DEF Overlaps
    <2>5. End(ts[L]) \in Nat
      BY <1>1, <2>3, Fields
    <2>6. QED
      BY <2>3, <2>4, <2>5
  <1>7. CASE Replaces(o, s)
    <2>1. ts # <<>> /\ Last(ts).start = s /\ Last(ts).ramp = 0
      BY <1>7 DEF Replaces
    <2>2. L \in 1 .. L /\ ts[L].start = s /\ ts[L] \in Transition
      BY <1>1, <1>6, <2>1
    <2>3. /\ r \in Transition /\ r.start = s /\ r.ramp = ramp /\ r.target = target
          /\ r.origin = ts[L].origin
      BY <1>5, <1>6, <2>1, <2>2 DEF Transition
    <2>4. A = [ts EXCEPT ![L] = r]
      BY <1>7 DEF Appended
    <2> HIDE DEF r, t, ts
    <2>5. Sorted([ts EXCEPT ![L] = r]) /\ Mirrors([ts EXCEPT ![L] = r], Append(changes[o], c), start[o])
      BY <1>1, <1>2, <1>4, <2>1, <2>2, <2>3, ReplacedMirrors
    <2>6. ASSUME NEW i \in 1 .. cursor[o]
          PROVE  A[i] = ts[i]
      <3>1. i # L
        <4>1. SUFFICES ASSUME i = L PROVE FALSE
          OBVIOUS
        <4>2. End(ts[L]) < processed
          BY <1>3, <4>1
        <4>3. End(ts[L]) \in Nat /\ End(ts[L]) = ts[L].start + ts[L].ramp /\ ts[L].ramp \in Nat
          BY <2>2, Fields
        <4>4. QED
          BY <1>1, <2>2, <4>2, <4>3
      <3>2. i \in 1 .. L
        BY <1>1
      <3>3. QED
        BY <1>1, <2>4, <3>1, <3>2
    <2>7. QED
      BY <2>4, <2>5, <2>6 DEF ts
  <1>8. CASE ~Replaces(o, s)
    <2>1. A = Append(ts, t)
      BY <1>8 DEF Appended
    <2> HIDE DEF t
    <2>2. ts # <<>> => ts[L].start < s
      <3>1. SUFFICES ASSUME ts # <<>> PROVE ts[L].start < s
        OBVIOUS
      <3>2. ts[L] \in Transition /\ Last(ts) = ts[L] /\ End(ts[L]) <= s
        BY <1>1, <1>6, <3>1
      <3>3. ts[L].start \in Nat /\ ts[L].ramp \in Nat /\ ts[L].start + ts[L].ramp <= s
        BY <3>2, Fields
      <3>4. ~(ts[L].start = s /\ ts[L].ramp = 0)
        BY <1>8, <3>1, <3>2 DEF Replaces
      <3>5. QED
        BY <3>3, <3>4
    <2> HIDE DEF ts
    <2>3. Sorted(Append(ts, t)) /\ Mirrors(Append(ts, t), Append(changes[o], c), start[o])
      BY <1>1, <1>2, <1>4, <1>5, <1>6, <2>2, AddedMirrors
    <2>4. \A i \in 1 .. cursor[o] : A[i] = ts[i]
      BY <1>1, <1>5, <2>1, AppendProperties
    <2>5. QED
      BY <2>1, <2>3, <2>4 DEF ts
  <1>9. QED
    BY <1>7, <1>8

LEMMA InitAnswers == Init => AnswersInv
  <1> SUFFICES ASSUME Init PROVE AnswersInv
    OBVIOUS
  <1>1. Tracks
    BY DEF Init, Tracks, Sorted, Mirrors
  <1>2. Dropped
    BY DEF Init, Dropped
  <1>3. Answered
    BY TimelineAssumption DEF Init, Answered
  <1>4. QED
    BY <1>1, <1>2, <1>3 DEF AnswersInv

LEMMA ResetAnswers == TimelineInv /\ Reset => AnswersInv'
  <1> SUFFICES ASSUME Reset PROVE AnswersInv'
    OBVIOUS
  <1>1. Tracks'
    BY DEF Reset, ResetTracks, Tracks, Sorted, Mirrors
  <1>2. Dropped'
    BY DEF Reset, ResetTracks, Dropped
  <1>3. Answered'
    BY TimelineAssumption DEF Reset, Answered
  <1>4. QED
    BY <1>1, <1>2, <1>3 DEF AnswersInv

\* What neither an accepted update nor a block touches.
LEMMA OtherAnswers ==
    ASSUME AnswersInv,
           UNCHANGED <<transitions, changes, start, initial, lastTarget, cursor, processed, answers>>
    PROVE  AnswersInv'
  BY DEF AnswersInv, Tracks, Dropped, Answered

\* The first state comes before any change and any block.
LEMMA InitializeAnswers ==
    ASSUME TimelineInv, AnswersInv, NEW u \in Update, Initialize(u), UNCHANGED queryVars
    PROVE  AnswersInv'
  <1>1. /\ initial' = Targets(u) /\ lastTarget' = Targets(u) /\ start' = Targets(u)
        /\ UNCHANGED <<transitions, changes, cursor, processed, answers>>
        /\ processed = 0
    BY DEF Initialize, MayInitialize, queryVars
  <1>2. ASSUME NEW o \in Object
        PROVE  transitions[o] = <<>> /\ changes[o] = <<>> /\ cursor[o] = 0
    <2>1. transitions[o] = <<>>
      BY DEF Initialize, MayInitialize, TimelineInv, NothingYet
    <2>2. /\ changes[o] \in Seq(Change) /\ DOMAIN changes[o] = 1 .. Len(changes[o])
          /\ Len(changes[o]) \in Nat /\ cursor[o] \in 0 .. Len(transitions[o])
      BY TrackTypes
    <2>3. Mirrors(transitions[o], changes[o], start[o])
      BY DEF AnswersInv, Tracks
    <2>4. ~(\E k \in DOMAIN changes[o] : TRUE)
      BY <2>1, <2>3 DEF Mirrors
    <2>5. Len(changes[o]) = 0
      <3>1. Len(changes[o]) # 0 => 1 \in DOMAIN changes[o]
        BY <2>2
      <3>2. QED
        BY <2>4, <3>1
    <2>6. changes[o] = <<>>
      BY <2>2, <2>5, EmptySeq
    <2>7. QED
      BY <2>1, <2>2, <2>6
  <1>3. answers = <<>>
    <2>1. /\ Block \in Nat \ {0} /\ Len(answers) \in Nat /\ answers \in Seq([Object -> Int])
      BY TimelineAssumption, LenProperties DEF TimelineInv, TypeOK
    <2>2. Block * Len(answers) = 0
      BY <1>1 DEF AnswersInv, Answered
    <2>3. Len(answers) = 0
      BY <2>1, <2>2
    <2>4. QED
      BY <2>1, <2>3, EmptySeq
  <1>4. Tracks'
    BY <1>1, <1>2 DEF Tracks, Sorted, Mirrors
  <1>5. Dropped'
    BY <1>1, <1>2 DEF Dropped
  <1>6. Answered'
    BY <1>1, <1>3 DEF AnswersInv, Answered
  <1>7. QED
    BY <1>4, <1>5, <1>6 DEF AnswersInv

\* An accepted change says nothing of the blocks already rendered.
LEMMA ScheduleAnswers ==
    ASSUME TimelineInv, AnswersInv, ~finished, NEW u \in Update, Schedule(u), UNCHANGED queryVars
    PROVE  AnswersInv'
  <1> DEFINE s == TransitionStart(u)
             c(o) == [start |-> s, ramp |-> u.ramp, target |-> Targets(u)[o]]
  <1>1. /\ s \in Nat /\ s >= processed /\ u.ramp \in Nat /\ Targets(u) \in [Object -> Int]
        /\ processed \in Nat
    <2>1. s \in Nat /\ s >= input /\ u.ramp \in Nat /\ Targets(u) \in [Object -> Int]
      BY UpdateFacts
    <2>2. processed \in Nat /\ input \in Nat /\ processed <= input
      BY DEF TimelineInv, Clocks, TypeOK
    <2> HIDE DEF s
    <2>3. QED
      BY <2>1, <2>2
  <1>2. UNCHANGED <<start, initial, cursor, processed, answers>>
    BY DEF Schedule, queryVars
  <1>3. ASSUME NEW o \in Object
        PROVE  \/ /\ o \in Accepting(u)
                  /\ transitions'[o] = Appended(o, s, u.ramp, Targets(u)[o])
                  /\ lastTarget'[o] = Targets(u)[o]
                  /\ changes'[o] = Append(changes[o], c(o))
               \/ /\ transitions'[o] = transitions[o] /\ lastTarget'[o] = lastTarget[o]
                  /\ changes'[o] = changes[o]
    BY DEF Schedule
  <1> HIDE DEF s
  <1>4. ASSUME NEW o \in Object
        PROVE  /\ Sorted(transitions'[o]) /\ Mirrors(transitions'[o], changes'[o], start[o])
               /\ lastTarget'[o] =
                     IF changes'[o] = <<>> THEN start[o] ELSE changes'[o][Len(changes'[o])].target
               /\ \A i \in 1 .. cursor[o] : transitions'[o][i] = transitions[o][i]
               /\ \A x \in Int : x < processed =>
                     MeantIn(changes'[o], start[o], x) = MeantIn(changes[o], start[o], x)
    <2>1. CASE changes'[o] = changes[o] /\ transitions'[o] = transitions[o]
                  /\ lastTarget'[o] = lastTarget[o]
      BY <2>1 DEF AnswersInv, Tracks
    <2>2. CASE /\ o \in Accepting(u)
               /\ transitions'[o] = Appended(o, s, u.ramp, Targets(u)[o])
               /\ lastTarget'[o] = Targets(u)[o]
               /\ changes'[o] = Append(changes[o], c(o))
      <3>1. ~Overlaps(o, s)
        BY <2>2 DEF Accepting, Moved, Object, s
      <3>2. Targets(u)[o] \in Int /\ changes[o] \in Seq(Change) /\ start[o] \in Int
        BY <1>1, TrackTypes
      <3>3. c(o) \in Change /\ c(o).start = s /\ c(o).target = Targets(u)[o]
        BY <1>1, <3>2 DEF Change
      <3>4. /\ Sorted(transitions'[o]) /\ Mirrors(transitions'[o], changes'[o], start[o])
            /\ \A i \in 1 .. cursor[o] : transitions'[o][i] = transitions[o][i]
        BY <1>1, <2>2, <3>1, <3>2, AcceptedTrack
      <3> HIDE DEF c
      <3>5. /\ changes'[o] # <<>> /\ changes'[o][Len(changes'[o])] = c(o)
        BY <2>2, <3>2, <3>3, AppendProperties, LenProperties
      <3>6. ASSUME NEW x \in Int, x < processed
            PROVE  MeantIn(changes'[o], start[o], x) = MeantIn(changes[o], start[o], x)
        BY <1>1, <2>2, <3>2, <3>3, <3>6, EarlierIsKept
      <3>7. QED
        BY <2>2, <3>3, <3>4, <3>5, <3>6
    <2>3. QED
      BY <1>3, <2>1, <2>2
  <1>5. Tracks'
    BY <1>2, <1>4 DEF Tracks
  <1>6. Dropped'
    <2>1. SUFFICES ASSUME NEW o \in Object
                   PROVE  /\ initial[o] = IF cursor[o] = 0 THEN start[o]
                                          ELSE transitions'[o][cursor[o]].target
                          /\ \A i \in 1 .. cursor[o] : End(transitions'[o][i]) < processed
      BY <1>2 DEF Dropped
    <2>2. \A i \in 1 .. cursor[o] : transitions'[o][i] = transitions[o][i]
      BY <1>4
    <2>3. cursor[o] # 0 => cursor[o] \in 1 .. cursor[o]
      BY TrackTypes
    <2>4. /\ initial[o] = IF cursor[o] = 0 THEN start[o] ELSE transitions[o][cursor[o]].target
          /\ \A i \in 1 .. cursor[o] : End(transitions[o][i]) < processed
      BY DEF AnswersInv, Dropped
    <2>5. QED
      BY <2>2, <2>3, <2>4
  <1>7. Answered'
    <2>1. SUFFICES ASSUME NEW b \in DOMAIN answers, NEW o \in Object
                   PROVE  answers[b][o] = MeantIn(changes'[o], start[o], (b - 1) * Block)
      BY <1>2 DEF AnswersInv, Answered
    <2>2. /\ b \in 1 .. Len(answers) /\ Len(answers) \in Nat /\ Block \in Nat \ {0}
          /\ processed = Block * Len(answers)
      BY TrackTypes DEF AnswersInv, Answered
    <2>3. (b - 1) * Block \in Int /\ (b - 1) * Block < processed
      <3>1. b - 1 \in Nat /\ b - 1 + 1 <= Len(answers)
        BY <2>2
      <3>2. Block * (b - 1 + 1) <= Block * Len(answers)
        BY <2>2, <3>1
      <3>3. Block * (b - 1 + 1) = (b - 1) * Block + Block
        BY <2>2, <3>1
      <3>4. (b - 1) * Block \in Int
        BY <2>2, <3>1
      <3>5. QED
        BY <2>2, <3>2, <3>3, <3>4
    <2>4. answers[b][o] = MeantIn(changes[o], start[o], (b - 1) * Block)
      BY DEF AnswersInv, Answered
    <2>5. QED
      BY <1>4, <2>3, <2>4
  <1>8. QED
    BY <1>5, <1>6, <1>7 DEF AnswersInv

\* A block is answered as the changes mean, and what is over stays behind.
LEMMA RenderAnswers == TimelineInv /\ AnswersInv /\ RenderBlock => AnswersInv'
  <1> SUFFICES ASSUME TimelineInv, AnswersInv, RenderBlock PROVE AnswersInv'
    OBVIOUS
  <1> DEFINE now == [o \in Object |-> PositionAt(o, processed)]
  <1>1. /\ processed' = processed + Block
        /\ UNCHANGED <<transitions, changes, start, lastTarget>>
        /\ answers' = Append(answers, now)
        /\ cursor' = [o \in Object |-> Passed(o, processed)]
        /\ initial' = [o \in Object |->
               IF cursor'[o] > cursor[o] THEN transitions[o][cursor'[o]].target ELSE initial[o]]
    BY DEF RenderBlock
  <1>2. now \in [Object -> Int] /\ \A o \in Object : now[o] = MeantIn(changes[o], start[o], processed)
    <2>1. processed \in Nat
      BY DEF TimelineInv, TypeOK
    <2>2. ASSUME NEW o \in Object
          PROVE  /\ PositionAt(o, processed) \in Int
                 /\ PositionAt(o, processed) = MeantIn(changes[o], start[o], processed)
      BY <2>1, AnswerIsMeant, MeantIsMeantIn, PositionType DEF TimelineInv
    <2>3. QED
      BY <2>2
  <1> HIDE DEF now
  <1>3. Tracks'
    BY <1>1 DEF AnswersInv, Tracks
  <1>4. Dropped'
    <2>1. SUFFICES ASSUME NEW o \in Object
                   PROVE  /\ initial'[o] = IF cursor'[o] = 0 THEN start[o]
                                           ELSE transitions[o][cursor'[o]].target
                          /\ \A i \in 1 .. cursor'[o] : End(transitions[o][i]) < processed'
      BY <1>1 DEF Dropped
    <2>2. /\ cursor[o] \in 0 .. Len(transitions[o]) /\ Len(transitions[o]) \in Nat
          /\ transitions[o] \in [1 .. Len(transitions[o]) -> Transition]
          /\ processed \in Nat /\ Block \in Nat \ {0}
      BY TrackTypes
    <2>3. /\ cursor'[o] \in cursor[o] .. Len(transitions[o])
          /\ \A i \in cursor[o] + 1 .. cursor'[o] : End(transitions[o][i]) <= processed
      BY <1>1, <2>2, PassedProperties DEF TimelineInv
    <2>4. /\ initial[o] = IF cursor[o] = 0 THEN start[o] ELSE transitions[o][cursor[o]].target
          /\ \A i \in 1 .. cursor[o] : End(transitions[o][i]) < processed
      BY DEF AnswersInv, Dropped
    <2>5. initial'[o] = IF cursor'[o] > cursor[o] THEN transitions[o][cursor'[o]].target ELSE initial[o]
      BY <1>1
    <2>6. ASSUME NEW i \in 1 .. cursor'[o]
          PROVE  End(transitions[o][i]) < processed'
      <3>1. i \in 1 .. Len(transitions[o])
        BY <2>2, <2>3
      <3>2. End(transitions[o][i]) \in Nat
        BY <2>2, <3>1, Fields
      <3>3. CASE i <= cursor[o]
        <4>1. i \in 1 .. cursor[o]
          BY <2>2, <3>1, <3>3
        <4>2. QED
          BY <1>1, <2>2, <2>4, <3>2, <4>1
      <3>4. CASE ~(i <= cursor[o])
        <4>1. i \in cursor[o] + 1 .. cursor'[o]
          BY <2>2, <2>3, <3>4
        <4>2. End(transitions[o][i]) <= processed
          BY <2>3, <4>1
        <4>3. QED
          BY <1>1, <2>2, <3>2, <4>2
      <3>5. QED
        BY <3>3, <3>4
    <2>7. QED
      BY <2>2, <2>3, <2>4, <2>5, <2>6
  <1>5. Answered'
    <2>1. /\ answers \in Seq([Object -> Int]) /\ DOMAIN answers = 1 .. Len(answers)
          /\ Len(answers) \in Nat /\ processed = Block * Len(answers)
          /\ processed \in Nat /\ Block \in Nat \ {0}
      <3>1. answers \in Seq([Object -> Int]) /\ processed \in Nat
        BY DEF TimelineInv, TypeOK
      <3>2. processed = Block * Len(answers)
        BY DEF AnswersInv, Answered
      <3>3. Block \in Nat \ {0}
        BY TimelineAssumption
      <3>4. QED
        BY <3>1, <3>2, <3>3, LenProperties
    <2>2. /\ DOMAIN answers' = 1 .. Len(answers) + 1 /\ Len(answers') = Len(answers) + 1
          /\ answers'[Len(answers) + 1] = now
          /\ \A b \in 1 .. Len(answers) : answers'[b] = answers[b]
      <3>1. now \in [Object -> Int] /\ answers \in Seq([Object -> Int]) /\ answers' = Append(answers, now)
        BY <1>1, <1>2, <2>1
      <3>2. answers' \in Seq([Object -> Int])
        BY <3>1, AppendProperties
      <3>3. QED
        BY <2>1, <3>1, <3>2, AppendProperties, LenProperties
    <2>3. processed' = Block * Len(answers')
      <3>1. Block * (Len(answers) + 1) = Block * Len(answers) + Block
        BY <2>1
      <3>2. QED
        BY <1>1, <2>1, <2>2, <3>1
    <2>4. ASSUME NEW b \in 1 .. Len(answers) + 1, NEW o \in Object
          PROVE  answers'[b][o] = MeantIn(changes[o], start[o], (b - 1) * Block)
      <3>1. CASE b = Len(answers) + 1
        <4>1. b - 1 = Len(answers)
          BY <2>1, <3>1
        <4>2. (b - 1) * Block = processed
          BY <2>1, <4>1
        <4>3. QED
          BY <1>2, <2>2, <3>1, <4>2
      <3>2. CASE b # Len(answers) + 1
        <4>1. b \in 1 .. Len(answers)
          BY <2>1, <3>2
        <4>2. QED
          BY <2>1, <2>2, <4>1 DEF AnswersInv, Answered
      <3>3. QED
        BY <3>1, <3>2
    <2>5. QED
      BY <1>1, <2>2, <2>3, <2>4 DEF Answered
  <1>6. QED
    BY <1>3, <1>4, <1>5 DEF AnswersInv

LEMMA SubmitAnswers == TimelineInv /\ AnswersInv /\ SubmitFrame => AnswersInv'
  <1> SUFFICES ASSUME TimelineInv, AnswersInv, SubmitFrame PROVE AnswersInv'
    OBVIOUS
  <1>1. ~finished /\ UNCHANGED queryVars
    BY DEF SubmitFrame
  <1>2. CASE UNCHANGED <<trackVars, changes, start>>
    BY <1>1, <1>2, OtherAnswers DEF trackVars, queryVars
  <1>3. ASSUME NEW u \in Update, Initialize(u) PROVE AnswersInv'
    BY <1>1, <1>3, InitializeAnswers
  <1>4. ASSUME NEW u \in Update, Schedule(u) PROVE AnswersInv'
    BY <1>1, <1>4, ScheduleAnswers
  <1>5. QED
    BY <1>2, <1>3, <1>4 DEF SubmitFrame, RejectStale, RejectLate

LEMMA NextAnswers == TimelineInv /\ AnswersInv /\ [Next]_vars => AnswersInv'
  <1> SUFFICES ASSUME TimelineInv, AnswersInv, [Next]_vars PROVE AnswersInv'
    OBVIOUS
  <1>1. CASE DeclareBed \/ Finish \/ UNCHANGED vars
    BY <1>1, OtherAnswers DEF DeclareBed, Finish, trackVars, queryVars, vars
  <1>2. QED
    BY <1>1, SubmitAnswers, ResetAnswers, RenderAnswers DEF Next

\* Whatever the chunk, the delay and the updates, every block was rendered at
\* the positions that all the updates accepted since, too, give its first
\* sample (position_at and submit_update, position_timeline.cpp:62 and :105): an
\* update always comes before the samples it moves are rendered, and the
\* transitions the cursors have dropped are never missed.
THEOREM AnswersStayFinal == Spec => []AnswersAreFinal
  <1>1. TimelineInv /\ AnswersInv => AnswersAreFinal
    <2>1. SUFFICES ASSUME TimelineInv, AnswersInv, NEW b \in DOMAIN answers, NEW o \in Object
                   PROVE  answers[b][o] = Meant(o, (b - 1) * Block)
      BY DEF AnswersAreFinal
    <2>2. answers[b][o] = MeantIn(changes[o], start[o], (b - 1) * Block)
      BY <2>1 DEF AnswersInv, Answered
    <2>3. b \in Nat /\ Block \in Nat
      BY <2>1, TrackTypes
    <2>4. (b - 1) * Block \in Int
      BY <2>3
    <2>5. QED
      BY <2>2, <2>4, MeantIsMeantIn
  <1>2. Spec => []AnswersInv
    BY InitAnswers, NextAnswers, Invariance, PTL DEF Spec
  <1>3. QED
    BY <1>1, <1>2, Invariance, PTL

=============================================================================
