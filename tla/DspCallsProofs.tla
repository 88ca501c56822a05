---------------------------- MODULE DspCallsProofs ----------------------------
(***************************************************************************)
(* Proofs about DspCalls, for every build, machine and request, for every  *)
(* size and memory, and for every arithmetic whose addition commutes: the  *)
(* table names units the machine can execute, and each call through it     *)
(* writes the bits of the scalar reference, NEON's accumulation aside.     *)
(*                                                                         *)
(* A kernel's outputs are independent, so what it means is said once, as   *)
(* memory "to" that each index of memory "from" is taken to.  A unit's     *)
(* loop is followed through memory that is done up to an index (Upto), or  *)
(* at some indices (Done): each step of the loop, a vector or an element,  *)
(* does what comes next.  The vectors are related to the elements lane by  *)
(* lane, where the order of two factors or summands may differ and the     *)
(* order of a sum's terms may not.                                         *)
(*                                                                         *)
(* A transform is a sequence of stages, each of them a set of butterflies  *)
(* that touch disjoint complexes (StageMeans).  All the units' stages mean *)
(* the same, also those whose groups are smaller than a vector, and so do  *)
(* those of the transform in place once a plan's table has been shown to   *)
(* hold the factors that one works out (TwiddleHolds).                     *)
(***************************************************************************)
EXTENDS DspCalls, WellFoundedInduction, TLAPS

-----------------------------------------------------------------------------
(* Induction and loops.                                                    *)

\* A set of naturals that is not empty has a least member.
LEMMA HasLeast == ASSUME NEW T \in SUBSET Nat, T # {}
                  PROVE  \E m \in T : \A k \in T : ~(k < m)
  <1>1. PICK m \in T : \A k \in T : ~(<<k, m>> \in OpToRel(<, Nat))
    BY NatLessThanWellFounded, WFMin, Zenon
  <1>2. QED
    BY <1>1 DEF OpToRel

\* What holds at zero and from each index to the next holds at every index.
LEMMA Upward ==
    ASSUME NEW n \in Nat, NEW S, 0 \in S, \A k \in 0 .. n - 1 : k \in S => k + 1 \in S
    PROVE  \A k \in 0 .. n : k \in S
  <1> DEFINE T == {k \in 0 .. n : k \notin S}
  <1> SUFFICES ASSUME T # {} PROVE FALSE
    OBVIOUS
  <1>1. PICK m \in T : \A k \in T : ~(k < m)
    BY HasLeast, T \in SUBSET Nat
  <1>2. m # 0 /\ m \in 1 .. n
    BY <1>1
  <1>3. m - 1 \in 0 .. n - 1 /\ m - 1 \notin T
    BY <1>1, <1>2
  <1>4. QED
    BY <1>1, <1>2, <1>3

\* A value worked out now is the value.
LEMMA IsEvaluated == \A v : Evaluated(v) = v
  BY DEF Evaluated

\* The states of a loop, index by index.
Follows(f, n, body, state) ==
    f = [k \in 0 .. n |-> IF k = 0 THEN state ELSE Evaluated(body[k - 1][f[k - 1]])]
\* The states a loop goes through.
After(n, body, state) == CHOOSE f : Follows(f, n, body, state)

\* A loop ends in the last of its states.
LEMMA LoopIsAfter == \A n, body, state : Loop(n, body, state) = After(n, body, state)[n]
  BY Zenon DEF Loop, After, Follows

\* There are such states, whatever the body.
LEMMA StatesExist ==
    ASSUME NEW n \in Nat, NEW body, NEW state
    PROVE  \E f : Follows(f, n, body, state)
  <1> DEFINE S == {p \in 0 .. n : \E f : Follows(f, p, body, state)}
  <1>1. 0 \in S
    <2> DEFINE f == [k \in 0 .. 0 |-> state]
    <2>1. Follows(f, 0, body, state)
      BY DEF Follows
    <2>2. QED
      BY <2>1
  <1>2. ASSUME NEW p \in 0 .. n - 1, p \in S PROVE p + 1 \in S
    <2>1. PICK f : Follows(f, p, body, state)
      BY <1>2
    <2>2. f = [k \in 0 .. p |-> IF k = 0 THEN state ELSE Evaluated(body[k - 1][f[k - 1]])]
      BY <2>1 DEF Follows
    <2> DEFINE g == [k \in 0 .. p + 1 |-> IF k = p + 1 THEN Evaluated(body[p][f[p]]) ELSE f[k]]
    <2>3. ASSUME NEW k \in 0 .. p + 1
          PROVE  g[k] = IF k = 0 THEN state ELSE Evaluated(body[k - 1][g[k - 1]])
      <3>1. CASE k = p + 1
        <4>1. k # 0 /\ k - 1 = p /\ p \in 0 .. p + 1 /\ p # p + 1
          BY <3>1
        <4>2. g[k - 1] = f[p] /\ g[k] = Evaluated(body[p][f[p]])
          BY <3>1, <4>1
        <4>3. QED
          BY <4>1, <4>2
      <3>2. CASE k # p + 1
        <4>1. k \in 0 .. p /\ (k # 0 => k - 1 \in 0 .. p)
          BY <3>2
        <4>2. g[k] = f[k] /\ (k # 0 => g[k - 1] = f[k - 1])
          BY <3>2, <4>1
        <4>3. f[k] = IF k = 0 THEN state ELSE Evaluated(body[k - 1][f[k - 1]])
          BY <2>2, <4>1
        <4>4. QED
          BY <4>1, <4>2, <4>3
      <3>3. QED
        BY <3>1, <3>2
    <2>4. g = [k \in 0 .. p + 1 |-> g[k]]
      OBVIOUS
    <2> HIDE DEF g
    <2>5. Follows(g, p + 1, body, state)
      BY <2>3, <2>4 DEF Follows
    <2>6. QED
      BY <2>5
  <1>3. n \in S
    <2> HIDE DEF S
    <2>1. QED
      BY <1>1, <1>2, Upward
  <1>4. QED
    BY <1>3

\* The states at an index are those of the body before it.
LEMMA AfterUnfolds ==
    ASSUME NEW n \in Nat, NEW body, NEW state
    PROVE  /\ After(n, body, state)[0] = state
           /\ \A k \in 0 .. n - 1 :
                  After(n, body, state)[k + 1] = body[k][After(n, body, state)[k]]
  <1> DEFINE f == After(n, body, state)
  <1>0. \E e : Follows(e, n, body, state)
    BY StatesExist
  <1>1. Follows(f, n, body, state)
    BY <1>0, Zenon DEF After
  <1> HIDE DEF f
  <1>2. f = [k \in 0 .. n |-> IF k = 0 THEN state ELSE Evaluated(body[k - 1][f[k - 1]])]
    BY <1>1 DEF Follows
  <1>3. f[0] = state
    BY <1>2
  <1>4. ASSUME NEW k \in 0 .. n - 1 PROVE f[k + 1] = body[k][f[k]]
    <2>1. k + 1 \in 0 .. n /\ k + 1 # 0 /\ (k + 1) - 1 = k
      OBVIOUS
    <2>2. f[k + 1] = Evaluated(body[(k + 1) - 1][f[(k + 1) - 1]])
      BY <1>2, <2>1
    <2>3. QED
      BY <2>1, <2>2, IsEvaluated
  <1>5. QED
    BY <1>3, <1>4 DEF f

\* A loop whose states are known ends in the last of them.
Through(states, n, body, state) ==
    states[0] = state /\ \A k \in 0 .. n - 1 : states[k + 1] = body[k][states[k]]

\* States that follow one another are the loop's.
LEMMA LoopStates ==
    ASSUME NEW n \in Nat, NEW body, NEW state, NEW states, Through(states, n, body, state)
    PROVE  Loop(n, body, state) = states[n]
  <1> DEFINE f == After(n, body, state)
             S == {k \in 0 .. n : f[k] = states[k]}
  <1>1. f[0] = state /\ \A k \in 0 .. n - 1 : f[k + 1] = body[k][f[k]]
    BY AfterUnfolds
  <1> HIDE DEF f
  <1>2. 0 \in S
    BY <1>1 DEF Through
  <1>3. ASSUME NEW k \in 0 .. n - 1, k \in S PROVE k + 1 \in S
    BY <1>1, <1>3 DEF Through
  <1> HIDE DEF S
  <1>4. n \in S
    BY <1>2, <1>3, Upward
  <1>5. f[n] = states[n]
    BY <1>4 DEF S
  <1>6. QED
    BY <1>5, LoopIsAfter DEF f

\* A loop takes one step more than the loop that stops before it.
LEMMA LoopUnfolds ==
    ASSUME NEW body, NEW state
    PROVE  /\ Loop(0, body, state) = state
           /\ \A n \in Nat : Loop(n + 1, body, state) = body[n][Loop(n, body, state)]
  <1>1. Loop(0, body, state) = state
    BY LoopIsAfter, AfterUnfolds
  <1>2. ASSUME NEW n \in Nat PROVE Loop(n + 1, body, state) = body[n][Loop(n, body, state)]
    <2> DEFINE f == After(n + 1, body, state)
    <2>1. f[0] = state /\ \A k \in 0 .. n : f[k + 1] = body[k][f[k]]
      BY AfterUnfolds, n + 1 \in Nat, (n + 1) - 1 = n
    <2>2. Loop(n + 1, body, state) = f[n + 1]
      BY LoopIsAfter
    <2> HIDE DEF f
    <2>3. Loop(n, body, state) = f[n]
      <3>1. Through(f, n, body, state)
        BY <2>1 DEF Through
      <3>2. QED
        BY <3>1, LoopStates
    <2>4. QED
      BY <2>1, <2>2, <2>3
  <1>3. QED
    BY <1>1, <1>2

\* A loop over states of a set, by functions on the set, stays in it.
LEMMA LoopStays ==
    ASSUME NEW n \in Nat, NEW M, NEW body, NEW state \in M,
           \A k \in 0 .. n - 1 : \A m \in M : body[k][m] \in M
    PROVE  Loop(n, body, state) \in M
  <1> DEFINE f == After(n, body, state)
             S == {k \in 0 .. n : f[k] \in M}
  <1>1. f[0] = state /\ \A k \in 0 .. n - 1 : f[k + 1] = body[k][f[k]]
    BY AfterUnfolds
  <1> HIDE DEF f
  <1>2. 0 \in S
    BY <1>1
  <1>3. ASSUME NEW k \in 0 .. n - 1, k \in S PROVE k + 1 \in S
    BY <1>1, <1>3
  <1> HIDE DEF S
  <1>4. n \in S
    BY <1>2, <1>3, Upward
  <1>5. QED
    BY <1>4, LoopIsAfter DEF f, S

\* A run of elements is whole vectors and a rest shorter than one.
LEMMA Whole == ASSUME NEW count \in Nat, NEW width \in {2, 4}
   PROVE /\ count \div width \in Nat /\ count % width \in 0 .. width - 1
         /\ width * (count \div width) \in Nat
         /\ count = width * (count \div width) + (count % width)
         /\ \A j \in 0 .. (count \div width) - 1 : width * j \in Nat /\ width * j + width <= width * (count \div width)
  <1>1. CASE width = 2
    <2>1. count \div 2 \in Nat /\ count % 2 \in 0 .. 1 /\ count = 2 * (count \div 2) + (count % 2)
      OBVIOUS
    <2>2. \A j \in 0 .. (count \div 2) - 1 : 2 * j \in Nat /\ 2 * j + 2 <= 2 * (count \div 2)
      BY <2>1
    <2>3. 2 * (count \div 2) \in Nat
      BY <2>1
    <2>4. QED
      BY <1>1, <2>1, <2>2, <2>3
  <1>2. CASE width = 4
    <2>1. count \div 4 \in Nat /\ count % 4 \in 0 .. 3 /\ count = 4 * (count \div 4) + (count % 4)
      OBVIOUS
    <2>2. \A j \in 0 .. (count \div 4) - 1 : 4 * j \in Nat /\ 4 * j + 4 <= 4 * (count \div 4)
      BY <2>1
    <2>3. 4 * (count \div 4) \in Nat
      BY <2>1
    <2>4. QED
      BY <1>2, <2>1, <2>2, <2>3
  <1>3. QED
    BY <1>1, <1>2

\* The states a vector loop goes through: whole vectors, then what is left.
VectorStates(count, width, vector, rest, states) ==
    /\ \A j \in 0 .. (count \div width) - 1 : states[width * j + width] = vector[width * j][states[width * j]]
    /\ \A k \in width * (count \div width) .. count - 1 : states[k + 1] = rest[k][states[k]]

\* A vectorized loop whose states are known, over the vectors and over the rest, ends in the last.
LEMMA VectorLoopStates ==
    ASSUME NEW count \in Nat, NEW width \in {2, 4}, NEW vector, NEW rest, NEW state, NEW states,
           states[0] = state, VectorStates(count, width, vector, rest, states)
    PROVE  VectorLoop(count, width, vector, rest, state) = states[count]
  <1> DEFINE whole == count \div width
             left == count % width
             base == width * whole
             vectors == [j \in 0 .. whole - 1 |-> vector[width * j]]
             rests == [j \in 0 .. left - 1 |-> rest[base + j]]
             first == [j \in 0 .. whole |-> states[width * j]]
             second == [j \in 0 .. left |-> states[base + j]]
  <1>1. whole \in Nat /\ left \in Nat /\ base \in Nat /\ count = base + left
    BY Whole
  <1>0. \A j \in 0 .. whole - 1 : states[width * j + width] = vector[width * j][states[width * j]]
    BY DEF VectorStates
  <1>2. Loop(whole, vectors, state) = first[whole]
    <2>1. first[0] = state
      BY <1>1
    <2>2. ASSUME NEW j \in 0 .. whole - 1 PROVE first[j + 1] = vectors[j][first[j]]
      <3>1. width * (j + 1) = width * j + width /\ j \in 0 .. whole /\ j + 1 \in 0 .. whole
        BY <1>1
      <3>2. QED
        BY <1>0, <3>1
    <2> HIDE DEF first, vectors, whole
    <2>3. whole \in Nat
      BY <1>1
    <2>4. Through(first, whole, vectors, state)
      BY <2>1, <2>2 DEF Through
    <2>5. QED
      BY <2>3, <2>4, LoopStates
  <1>3. first[whole] = states[base]
    BY <1>1
  <1>4. \A k \in base .. count - 1 : states[k + 1] = rest[k][states[k]]
    BY DEF VectorStates
  <1>5. VectorLoop(count, width, vector, rest, state) = Loop(left, rests, Loop(whole, vectors, state))
    BY DEF VectorLoop
  <1> HIDE DEF base, first, vectors, whole, left
  <1>6. Loop(left, rests, states[base]) = second[left]
    <2>1. second[0] = states[base]
      BY <1>1
    <2>2. ASSUME NEW j \in 0 .. left - 1 PROVE second[j + 1] = rests[j][second[j]]
      <3>1. /\ base + j \in base .. count - 1
            /\ (base + j) + 1 = base + (j + 1)
            /\ j \in 0 .. left /\ j + 1 \in 0 .. left
        BY <1>1
      <3>2. states[(base + j) + 1] = rest[base + j][states[base + j]]
        BY <1>4, <3>1
      <3>3. QED
        BY <3>1, <3>2
    <2> HIDE DEF second, rests
    <2>3. left \in Nat
      BY <1>1
    <2>4. Through(second, left, rests, states[base])
      BY <2>1, <2>2 DEF Through
    <2>5. QED
      BY <2>3, <2>4, LoopStates
  <1>7. second[left] = states[count]
    BY <1>1
  <1>8. QED
    BY <1>2, <1>3, <1>5, <1>6, <1>7

-----------------------------------------------------------------------------
(* Memory.                                                                 *)

\* Memory whose doubles at some indices are done.
Done(from, to, W) == [i \in DOMAIN from |-> IF i \in W THEN to[i] ELSE from[i]]

\* Memory is what it holds at each index.
LEMMA SameMemory ==
    ASSUME NEW size \in Int, NEW a \in Memory(size), NEW b \in Memory(size),
           \A i \in 0 .. size - 1 : a[i] = b[i]
    PROVE  a = b
  BY DEF Memory

\* Memory that is partly done is memory, and each index has the old or the new double.
LEMMA DoneIs ==
    ASSUME NEW size \in Int, NEW from \in Memory(size), NEW to \in Memory(size), NEW W
    PROVE  /\ Done(from, to, W) \in Memory(size)
           /\ \A i \in 0 .. size - 1 : Done(from, to, W)[i] \in Doubles
           /\ \A i \in 0 .. size - 1 : i \in W => Done(from, to, W)[i] = to[i]
           /\ \A i \in 0 .. size - 1 : i \notin W => Done(from, to, W)[i] = from[i]
  BY DEF Done, Memory

\* Memory that is partly done is memory.
LEMMA DoneIn ==
    ASSUME NEW size \in Int, NEW from \in Memory(size), NEW to \in Memory(size), NEW W
    PROVE  Done(from, to, W) \in Memory(size)
  BY DEF Done, Memory

\* Each index of memory that is partly done has the new double or the old one.
LEMMA DoneAt ==
    ASSUME NEW size \in Int, NEW from \in Memory(size), NEW to \in Memory(size), NEW W
    PROVE  /\ \A i \in 0 .. size - 1 : i \in W => Done(from, to, W)[i] = to[i]
           /\ \A i \in 0 .. size - 1 : i \notin W => Done(from, to, W)[i] = from[i]
  BY DEF Done, Memory

\* A vector stored.
LEMMA StoreIs ==
    ASSUME NEW size \in Int, NEW m \in Memory(size), NEW at \in Int, NEW width \in Nat,
           NEW v \in Memory(width)
    PROVE  /\ Store(m, at, v) \in Memory(size)
           /\ \A i \in 0 .. size - 1 : at <= i /\ i < at + width => Store(m, at, v)[i] = v[i - at]
           /\ \A i \in 0 .. size - 1 : ~(at <= i /\ i < at + width) => Store(m, at, v)[i] = m[i]
  <1>1. DOMAIN v = 0 .. width - 1 /\ DOMAIN m = 0 .. size - 1
        /\ \A j \in 0 .. width - 1 : v[j] \in Doubles
    BY DEF Memory
  <1>2. \A i \in 0 .. size - 1 : m[i] \in Doubles
    BY DEF Memory
  <1> DEFINE s == Store(m, at, v)
  <1>3. s = [i \in 0 .. size - 1 |-> IF i - at \in 0 .. width - 1 THEN v[i - at] ELSE m[i]]
    BY <1>1 DEF Store
  <1> HIDE DEF s
  <1>4. \A i \in 0 .. size - 1 : i - at \in 0 .. width - 1 <=> at <= i /\ i < at + width
    OBVIOUS
  <1>5. \A i \in 0 .. size - 1 : s[i] = IF at <= i /\ i < at + width THEN v[i - at] ELSE m[i]
    BY <1>3, <1>4
  <1>6. \A i \in 0 .. size - 1 : s[i] \in Doubles
    <2>1. SUFFICES ASSUME NEW i \in 0 .. size - 1 PROVE s[i] \in Doubles
      OBVIOUS
    <2>2. CASE at <= i /\ i < at + width
      BY <1>1, <1>4, <1>5, <2>2
    <2>3. CASE ~(at <= i /\ i < at + width)
      BY <1>2, <1>5, <2>3
    <2>4. QED
      BY <2>2, <2>3
  <1>7. s \in Memory(size)
    BY <1>3, <1>6 DEF Memory
  <1>8. QED
    BY <1>5, <1>7 DEF s

\* Memory with two doubles replaced, the later one winning.
LEMMA TwoPut ==
    ASSUME NEW S, NEW m \in [S -> Doubles], NEW a, NEW b, NEW x, NEW y
    PROVE  [m EXCEPT ![a] = x, ![b] = y] = [i \in S |-> IF i = b THEN y ELSE IF i = a THEN x ELSE m[i]]
  OBVIOUS

\* A complex put into memory.
LEMMA PutIs ==
    ASSUME NEW size \in Int, NEW m \in Memory(size), NEW k \in Int, NEW value, value[1] \in Doubles, value[2] \in Doubles
    PROVE  /\ PutComplex(m, k, value) \in Memory(size)
           /\ 2 * k \in 0 .. size - 1 => PutComplex(m, k, value)[2 * k] = value[1]
           /\ 2 * k + 1 \in 0 .. size - 1 => PutComplex(m, k, value)[2 * k + 1] = value[2]
           /\ \A i \in 0 .. size - 1 : i \notin {2 * k, 2 * k + 1} => PutComplex(m, k, value)[i] = m[i]
  <1> DEFINE a == 2 * k
             b == 2 * k + 1
             S == 0 .. size - 1
             p == PutComplex(m, k, value)
  <1>1. m \in [S -> Doubles] /\ \A i \in S : m[i] \in Doubles
    BY DEF Memory
  <1>2. p = [m EXCEPT ![a] = value[1], ![b] = value[2]]
    BY DEF PutComplex
  <1>0. a # b /\ a \in Int /\ b \in Int
    OBVIOUS
  <1> HIDE DEF a, b, S, p
  <1>3. p = [i \in S |-> IF i = b THEN value[2] ELSE IF i = a THEN value[1] ELSE m[i]]
    BY <1>1, <1>2, TwoPut
  <1>4. \A i \in S : p[i] = IF i = b THEN value[2] ELSE IF i = a THEN value[1] ELSE m[i]
    BY <1>3
  <1>5. p \in [S -> Doubles]
    BY <1>1, <1>3
  <1>6. /\ a \in S => p[a] = value[1]
        /\ b \in S => p[b] = value[2]
        /\ \A i \in S : i \notin {a, b} => p[i] = m[i]
    BY <1>4, <1>0
  <1>7. QED
    BY <1>5, <1>6 DEF a, b, S, p, Memory

\* What is stored of the doubles to be there is done.
LEMMA StoreDone ==
    ASSUME NEW size \in Int, NEW from \in Memory(size), NEW to \in Memory(size), NEW W,
           NEW at \in Nat, NEW width \in Nat, at + width <= size,
           NEW v \in Memory(width), \A j \in 0 .. width - 1 : v[j] = to[at + j]
    PROVE  Store(Done(from, to, W), at, v) = Done(from, to, W \cup (at .. at + width - 1))
  <1> DEFINE m == Done(from, to, W)
             V == W \cup (at .. at + width - 1)
             n == Done(from, to, V)
             s == Store(m, at, v)
  <1>1. /\ m \in Memory(size)
        /\ \A i \in 0 .. size - 1 : i \in W => m[i] = to[i]
        /\ \A i \in 0 .. size - 1 : i \notin W => m[i] = from[i]
    BY DoneIs
  <1> HIDE DEF m, V
  <1>2. /\ n \in Memory(size)
        /\ \A i \in 0 .. size - 1 : i \in V => n[i] = to[i]
        /\ \A i \in 0 .. size - 1 : i \notin V => n[i] = from[i]
    BY DoneIs
  <1> HIDE DEF n
  <1>3. /\ s \in Memory(size)
        /\ \A i \in 0 .. size - 1 : at <= i /\ i < at + width => s[i] = v[i - at]
        /\ \A i \in 0 .. size - 1 : ~(at <= i /\ i < at + width) => s[i] = m[i]
    BY <1>1, StoreIs, at \in Int, ZenonT(40)
  <1> HIDE DEF s
  <1>4. ASSUME NEW i \in 0 .. size - 1 PROVE s[i] = n[i]
    <2>1. CASE at <= i /\ i < at + width
      <3>1. i - at \in 0 .. width - 1 /\ at + (i - at) = i
        BY <2>1
      <3>2. v[i - at] = to[i]
        BY <3>1
      <3>3. i \in V
        BY <2>1 DEF V
      <3>4. QED
        BY <1>2, <1>3, <2>1, <3>2, <3>3
    <2>2. CASE ~(at <= i /\ i < at + width)
      <3>1. i \in V <=> i \in W
        BY <2>2 DEF V
      <3>2. QED
        BY <1>1, <1>2, <1>3, <2>2, <3>1
    <2>3. QED
      BY <2>1, <2>2
  <1>5. s = n
    BY <1>2, <1>3, <1>4, SameMemory
  <1>6. QED
    BY <1>5 DEF s, n, m, V

\* Writing a complex of what is to come does its two doubles.
LEMMA PutDone ==
    ASSUME NEW size \in Int, NEW from \in Memory(size), NEW to \in Memory(size), NEW W,
           NEW k \in Nat, 2 * k + 2 <= size,
           NEW value, value[1] = to[2 * k], value[2] = to[2 * k + 1]
    PROVE  PutComplex(Done(from, to, W), k, value) = Done(from, to, W \cup {2 * k, 2 * k + 1})
  <1> DEFINE m == Done(from, to, W)
             V == W \cup {2 * k, 2 * k + 1}
             n == Done(from, to, V)
             s == PutComplex(m, k, value)
  <1>1. /\ m \in Memory(size)
        /\ \A i \in 0 .. size - 1 : i \in W => m[i] = to[i]
        /\ \A i \in 0 .. size - 1 : i \notin W => m[i] = from[i]
    BY DoneIs
  <1> HIDE DEF m, V
  <1>2. /\ n \in Memory(size)
        /\ \A i \in 0 .. size - 1 : i \in V => n[i] = to[i]
        /\ \A i \in 0 .. size - 1 : i \notin V => n[i] = from[i]
    BY DoneIs
  <1> HIDE DEF n
  <1>0. /\ 2 * k \in 0 .. size - 1 /\ 2 * k + 1 \in 0 .. size - 1
        /\ value[1] \in Doubles /\ value[2] \in Doubles
    BY DEF Memory
  <1>3. /\ s \in Memory(size)
        /\ 2 * k \in 0 .. size - 1 => s[2 * k] = value[1]
        /\ 2 * k + 1 \in 0 .. size - 1 => s[2 * k + 1] = value[2]
        /\ \A i \in 0 .. size - 1 : i \notin {2 * k, 2 * k + 1} => s[i] = m[i]
    BY <1>0, <1>1, PutIs
  <1> HIDE DEF s
  <1>4. ASSUME NEW i \in 0 .. size - 1 PROVE s[i] = n[i]
    <2>1. CASE i = 2 * k
      BY <1>0, <1>2, <1>3, <2>1 DEF V
    <2>2. CASE i = 2 * k + 1
      BY <1>0, <1>2, <1>3, <2>2 DEF V
    <2>3. CASE i \notin {2 * k, 2 * k + 1}
      <3>1. i \in V <=> i \in W
        BY <2>3 DEF V
      <3>2. QED
        BY <1>1, <1>2, <1>3, <2>3, <3>1
    <2>4. QED
      BY <2>1, <2>2, <2>3
  <1>5. s = n
    BY <1>2, <1>3, <1>4, SameMemory
  <1>6. QED
    BY <1>5 DEF s, n, m, V

-----------------------------------------------------------------------------
(* Arithmetic and lanes.                                                   *)

\* Doubles are closed under the arithmetic, and addition commutes.
LEMMA Closed ==
    /\ \A x, y \in Doubles : /\ Plus(x, y) \in Doubles /\ Times(x, y) \in Doubles /\ Minus(x, y) \in Doubles
                             /\ Plus(x, y) = Plus(y, x)
    /\ \A x \in Doubles : Negated(x) \in Doubles
    /\ 0 \in Doubles /\ 1 \in Doubles
  BY ArithmeticAssumption DEF Minus

\* A complex of memory is two of its doubles.
LEMMA ComplexIs ==
    ASSUME NEW size \in Int, NEW m \in Memory(size), NEW k \in Nat, 2 * k + 2 <= size
    PROVE  /\ m[2 * k] \in Doubles /\ m[2 * k + 1] \in Doubles
           /\ Complex(m, k)[1] = m[2 * k] /\ Complex(m, k)[2] = m[2 * k + 1]
  BY DEF Complex, Memory

\* A vector loaded is the doubles of memory from its address on.
LEMMA LoadIs ==
    ASSUME NEW size \in Int, NEW m \in Memory(size), NEW at \in Nat, NEW width \in Nat, at + width <= size
    PROVE  /\ Load(m, at, width) \in Memory(width)
           /\ \A i \in 0 .. width - 1 : Load(m, at, width)[i] = m[at + i]
  BY DEF Load, Memory

\* A vector loaded within memory is a vector of doubles.
LEMMA LoadIn ==
    ASSUME NEW size \in Int, NEW m \in Memory(size), NEW at \in Nat, NEW width \in Nat, at + width <= size
    PROVE  Load(m, at, width) \in Memory(width)
  BY LoadIs

\* A broadcast has its value in every lane.
LEMMA BroadcastIs ==
    ASSUME NEW x \in Doubles, NEW width \in Nat
    PROVE  /\ Broadcast(x, width) \in Memory(width)
           /\ \A i \in 0 .. width - 1 : Broadcast(x, width)[i] = x
  BY DEF Broadcast, Memory

\* Vector arithmetic is lane by lane.
LEMMA LanesAre ==
    ASSUME NEW width \in Nat, NEW a \in Memory(width), NEW b \in Memory(width)
    PROVE  /\ Added(a, b) \in Memory(width)
           /\ Subtracted(a, b) \in Memory(width)
           /\ Multiplied(a, b) \in Memory(width)
           /\ \A i \in 0 .. width - 1 :
                  /\ Added(a, b)[i] = Plus(a[i], b[i])
                  /\ Subtracted(a, b)[i] = Minus(a[i], b[i])
                  /\ Multiplied(a, b)[i] = Times(a[i], b[i])
  <1>1. \A i \in 0 .. width - 1 : a[i] \in Doubles /\ b[i] \in Doubles
    BY DEF Memory
  <1>2. \A i \in 0 .. width - 1 :
            Plus(a[i], b[i]) \in Doubles /\ Minus(a[i], b[i]) \in Doubles /\ Times(a[i], b[i]) \in Doubles
    BY <1>1, Closed
  <1>3. Added(a, b) \in Memory(width) /\ \A i \in 0 .. width - 1 : Added(a, b)[i] = Plus(a[i], b[i])
    BY <1>2 DEF Added, Memory
  <1>4. Subtracted(a, b) \in Memory(width) /\ \A i \in 0 .. width - 1 : Subtracted(a, b)[i] = Minus(a[i], b[i])
    BY <1>2 DEF Subtracted, Memory
  <1>5. Multiplied(a, b) \in Memory(width) /\ \A i \in 0 .. width - 1 : Multiplied(a, b)[i] = Times(a[i], b[i])
    BY <1>2 DEF Multiplied, Memory
  <1>6. QED
    BY <1>3, <1>4, <1>5

\* Half the lanes are first in their pairs, half of them second.
LEMMA EveryLane ==
    ASSUME NEW h \in Nat, NEW i \in 0 .. 2 * h - 1
    PROVE  \E p \in 0 .. h - 1 : i = 2 * p \/ i = 2 * p + 1
  <1>1. i = 2 * (i \div 2) \/ i = 2 * (i \div 2) + 1
    OBVIOUS
  <1>2. i \div 2 \in 0 .. h - 1
    OBVIOUS
  <1>3. QED
    BY <1>1, <1>2

\* The shuffles of a vector of complexes, pair by pair.
LEMMA PairsAre ==
    ASSUME NEW h \in Nat, NEW a \in Memory(2 * h), NEW b \in Memory(2 * h)
    PROVE  /\ Swapped(a) \in Memory(2 * h) /\ Firsts(a) \in Memory(2 * h) /\ Seconds(a) \in Memory(2 * h)
           /\ Blend(a, b) \in Memory(2 * h)
           /\ \A p \in 0 .. h - 1 :
                  /\ a[2 * p] \in Doubles /\ a[2 * p + 1] \in Doubles
                  /\ Swapped(a)[2 * p] = a[2 * p + 1] /\ Swapped(a)[2 * p + 1] = a[2 * p]
                  /\ Firsts(a)[2 * p] = a[2 * p] /\ Firsts(a)[2 * p + 1] = a[2 * p]
                  /\ Seconds(a)[2 * p] = a[2 * p + 1] /\ Seconds(a)[2 * p + 1] = a[2 * p + 1]
                  /\ Blend(a, b)[2 * p] = a[2 * p] /\ Blend(a, b)[2 * p + 1] = b[2 * p + 1]
  <1>1. DOMAIN a = 0 .. 2 * h - 1
        /\ \A i \in 0 .. 2 * h - 1 : a[i] \in Doubles /\ b[i] \in Doubles
    BY DEF Memory
  <1> DEFINE s == Swapped(a)
             f == Firsts(a)
             g == Seconds(a)
             c == Blend(a, b)
  <1>2. s = [i \in 0 .. 2 * h - 1 |-> a[IF i % 2 = 0 THEN i + 1 ELSE i - 1]]
    BY <1>1 DEF Swapped
  <1>3. f = [i \in 0 .. 2 * h - 1 |-> a[i - (i % 2)]]
    BY <1>1 DEF Firsts
  <1>4. g = [i \in 0 .. 2 * h - 1 |-> a[i - (i % 2) + 1]]
    BY <1>1 DEF Seconds
  <1>5. c = [i \in 0 .. 2 * h - 1 |-> IF i % 2 = 0 THEN a[i] ELSE b[i]]
    BY <1>1 DEF Blend
  <1> HIDE DEF s, f, g, c
  <1>6. ASSUME NEW p \in 0 .. h - 1
        PROVE  /\ a[2 * p] \in Doubles /\ a[2 * p + 1] \in Doubles
               /\ s[2 * p] = a[2 * p + 1] /\ s[2 * p + 1] = a[2 * p]
               /\ f[2 * p] = a[2 * p] /\ f[2 * p + 1] = a[2 * p]
               /\ g[2 * p] = a[2 * p + 1] /\ g[2 * p + 1] = a[2 * p + 1]
               /\ c[2 * p] = a[2 * p] /\ c[2 * p + 1] = b[2 * p + 1]
    <2>1. /\ 2 * p \in 0 .. 2 * h - 1 /\ 2 * p + 1 \in 0 .. 2 * h - 1
          /\ (2 * p) % 2 = 0 /\ (2 * p + 1) % 2 = 1
          /\ (2 * p + 1) - 1 = 2 * p
      OBVIOUS
    <2>2. s[2 * p] = a[2 * p + 1] /\ s[2 * p + 1] = a[2 * p]
      BY <1>2, <2>1
    <2>3. f[2 * p] = a[2 * p] /\ f[2 * p + 1] = a[2 * p]
      BY <1>3, <2>1
    <2>4. g[2 * p] = a[2 * p + 1] /\ g[2 * p + 1] = a[2 * p + 1]
      BY <1>4, <2>1
    <2>5. c[2 * p] = a[2 * p] /\ c[2 * p + 1] = b[2 * p + 1]
      BY <1>5, <2>1
    <2>6. QED
      BY <1>1, <2>1, <2>2, <2>3, <2>4, <2>5
  <1>7. ASSUME NEW i \in 0 .. 2 * h - 1
        PROVE  s[i] \in Doubles /\ f[i] \in Doubles /\ g[i] \in Doubles /\ c[i] \in Doubles
    <2>1. PICK p \in 0 .. h - 1 : i = 2 * p \/ i = 2 * p + 1
      BY EveryLane
    <2>2. b[i] \in Doubles
      BY <1>1
    <2>3. QED
      BY <1>6, <2>1, <2>2
  <1>8. s \in Memory(2 * h) /\ f \in Memory(2 * h) /\ g \in Memory(2 * h) /\ c \in Memory(2 * h)
    BY <1>2, <1>3, <1>4, <1>5, <1>7 DEF Memory
  <1>9. QED
    BY <1>6, <1>8 DEF s, f, g, c

\* A swap exchanges the two doubles of each complex.
LEMMA SwapIs ==
    ASSUME NEW h \in Nat, NEW a \in Memory(2 * h)
    PROVE  /\ Swapped(a) \in Memory(2 * h)
           /\ \A p \in 0 .. h - 1 : Swapped(a)[2 * p] = a[2 * p + 1] /\ Swapped(a)[2 * p + 1] = a[2 * p]
  BY PairsAre

\* A blend takes the real parts of one vector and the imaginary parts of the other.
LEMMA BlendIs ==
    ASSUME NEW h \in Nat, NEW a \in Memory(2 * h), NEW b \in Memory(2 * h)
    PROVE  /\ Blend(a, b) \in Memory(2 * h)
           /\ \A p \in 0 .. h - 1 :
                  Blend(a, b)[2 * p] = a[2 * p] /\ Blend(a, b)[2 * p + 1] = b[2 * p + 1]
  BY PairsAre, ZenonT(40)

\* The alternating sum subtracts the real lanes and adds the imaginary ones.
LEMMA AddSubIs ==
    ASSUME NEW h \in Nat, NEW a \in Memory(2 * h), NEW b \in Memory(2 * h)
    PROVE  /\ AddSub(a, b) \in Memory(2 * h)
           /\ \A p \in 0 .. h - 1 : /\ AddSub(a, b)[2 * p] = Minus(a[2 * p], b[2 * p])
                                    /\ AddSub(a, b)[2 * p + 1] = Plus(a[2 * p + 1], b[2 * p + 1])
  <1> DEFINE s == Subtracted(a, b)
             t == Added(a, b)
  <1>1. /\ s \in Memory(2 * h) /\ t \in Memory(2 * h)
        /\ \A i \in 0 .. 2 * h - 1 : s[i] = Minus(a[i], b[i]) /\ t[i] = Plus(a[i], b[i])
    BY LanesAre
  <1>2. AddSub(a, b) = Blend(s, t)
    BY DEF AddSub
  <1> HIDE DEF s, t
  <1>3. /\ Blend(s, t) \in Memory(2 * h)
        /\ \A p \in 0 .. h - 1 : Blend(s, t)[2 * p] = s[2 * p] /\ Blend(s, t)[2 * p + 1] = t[2 * p + 1]
    BY <1>1, BlendIs
  <1>4. \A p \in 0 .. h - 1 : 2 * p \in 0 .. 2 * h - 1 /\ 2 * p + 1 \in 0 .. 2 * h - 1
    OBVIOUS
  <1>5. QED
    BY <1>1, <1>2, <1>3, <1>4

\* The products of whole complexes, AVX2's and AVX-512's.
LEMMA MulPairIs ==
    ASSUME NEW h \in Nat, NEW a \in Memory(2 * h), NEW b \in Memory(2 * h)
    PROVE  /\ MulPair(a, b) \in Memory(2 * h) /\ MulQuad(a, b) \in Memory(2 * h)
           /\ \A p \in 0 .. h - 1 :
                  /\ MulPair(a, b)[2 * p] = ComplexTimes(Complex(a, p), Complex(b, p))[1]
                  /\ MulPair(a, b)[2 * p + 1] = ComplexTimes(Complex(a, p), Complex(b, p))[2]
                  /\ MulQuad(a, b)[2 * p] = ComplexTimes(Complex(a, p), Complex(b, p))[1]
                  /\ MulQuad(a, b)[2 * p + 1] = ComplexTimes(Complex(a, p), Complex(b, p))[2]
  <1> DEFINE w == 2 * h
             f == Firsts(b)
             g == Seconds(b)
             s == Swapped(a)
             r == Multiplied(a, f)
             c == Multiplied(s, g)
             x == AddSub(r, c)
             t == Added(r, c)
             d == Subtracted(r, c)
             u == Blend(r, t)
             y == Blend(d, u)
  <1>0. MulPair(a, b) = x /\ MulQuad(a, b) = y
    BY DEF MulPair, MulQuad
  <1>1. /\ f \in Memory(2 * h) /\ g \in Memory(2 * h) /\ s \in Memory(2 * h)
        /\ \A p \in 0 .. h - 1 : /\ a[2 * p] \in Doubles /\ a[2 * p + 1] \in Doubles
                                 /\ s[2 * p] = a[2 * p + 1] /\ s[2 * p + 1] = a[2 * p]
    <2>1. /\ s \in Memory(2 * h)
          /\ \A p \in 0 .. h - 1 : /\ a[2 * p] \in Doubles /\ a[2 * p + 1] \in Doubles
                                   /\ s[2 * p] = a[2 * p + 1] /\ s[2 * p + 1] = a[2 * p]
      BY PairsAre, SMTT(30)
    <2>2. f \in Memory(2 * h) /\ g \in Memory(2 * h)
      BY PairsAre
    <2>3. QED
      BY <2>1, <2>2
  <1>2. \A p \in 0 .. h - 1 :
           /\ b[2 * p] \in Doubles /\ b[2 * p + 1] \in Doubles
           /\ f[2 * p] = b[2 * p] /\ f[2 * p + 1] = b[2 * p]
           /\ g[2 * p] = b[2 * p + 1] /\ g[2 * p + 1] = b[2 * p + 1]
    BY PairsAre, SMTT(30)
  <1> HIDE DEF f, g, s
  <1>3. /\ r \in Memory(2 * h) /\ c \in Memory(2 * h)
        /\ \A i \in 0 .. 2 * h - 1 : r[i] = Times(a[i], f[i]) /\ c[i] = Times(s[i], g[i])
    BY <1>1, LanesAre, 2 * h \in Nat
  <1> HIDE DEF r, c
  <1>4. /\ x \in Memory(2 * h)
        /\ \A p \in 0 .. h - 1 : x[2 * p] = Minus(r[2 * p], c[2 * p]) /\ x[2 * p + 1] = Plus(r[2 * p + 1], c[2 * p + 1])
    BY <1>3, AddSubIs
  <1>5. /\ t \in Memory(2 * h) /\ d \in Memory(2 * h)
        /\ \A i \in 0 .. 2 * h - 1 : t[i] = Plus(r[i], c[i]) /\ d[i] = Minus(r[i], c[i])
    BY <1>3, LanesAre, 2 * h \in Nat
  <1> HIDE DEF x, t, d
  <1>6. /\ u \in Memory(2 * h)
        /\ \A p \in 0 .. h - 1 : u[2 * p + 1] = t[2 * p + 1]
    BY <1>3, <1>5, BlendIs
  <1> HIDE DEF u
  <1>7. /\ y \in Memory(2 * h)
        /\ \A p \in 0 .. h - 1 : y[2 * p] = d[2 * p] /\ y[2 * p + 1] = u[2 * p + 1]
    BY <1>5, <1>6, BlendIs
  <1> HIDE DEF y
  <1>8. ASSUME NEW p \in 0 .. h - 1
        PROVE  /\ x[2 * p] = ComplexTimes(Complex(a, p), Complex(b, p))[1]
               /\ x[2 * p + 1] = ComplexTimes(Complex(a, p), Complex(b, p))[2]
               /\ y[2 * p] = ComplexTimes(Complex(a, p), Complex(b, p))[1]
               /\ y[2 * p + 1] = ComplexTimes(Complex(a, p), Complex(b, p))[2]
    <2>1. 2 * p \in 0 .. 2 * h - 1 /\ 2 * p + 1 \in 0 .. 2 * h - 1
      OBVIOUS
    <2>2. /\ r[2 * p] = Times(a[2 * p], b[2 * p]) /\ r[2 * p + 1] = Times(a[2 * p + 1], b[2 * p])
          /\ c[2 * p] = Times(a[2 * p + 1], b[2 * p + 1]) /\ c[2 * p + 1] = Times(a[2 * p], b[2 * p + 1])
      BY <1>1, <1>2, <1>3, <2>1
    <2>3. Plus(r[2 * p + 1], c[2 * p + 1]) = Plus(c[2 * p + 1], r[2 * p + 1])
      BY <1>3, <2>1, Closed DEF Memory
    <2>4. /\ ComplexTimes(Complex(a, p), Complex(b, p))[1] = Minus(r[2 * p], c[2 * p])
          /\ ComplexTimes(Complex(a, p), Complex(b, p))[2] = Plus(c[2 * p + 1], r[2 * p + 1])
      BY <2>2 DEF ComplexTimes, Complex
    <2>5. QED
      BY <1>4, <1>5, <1>6, <1>7, <2>1, <2>3, <2>4
  <1>9. QED
    BY <1>0, <1>4, <1>7, <1>8

\* The products' pairwise sums and differences.
LEMMA PairwiseIs ==
    ASSUME NEW h \in Nat, NEW a \in Memory(2 * h), NEW b \in Memory(2 * h)
    PROVE  /\ Blend(PairwiseDifference(a), PairwiseSum(b)) \in Memory(2 * h)
           /\ Blend(Blend(Subtracted(a, Swapped(a)), a), PairwiseSum(b)) \in Memory(2 * h)
           /\ \A p \in 0 .. h - 1 :
                  /\ Blend(PairwiseDifference(a), PairwiseSum(b))[2 * p] = Minus(a[2 * p], a[2 * p + 1])
                  /\ Blend(PairwiseDifference(a), PairwiseSum(b))[2 * p + 1] = Plus(b[2 * p], b[2 * p + 1])
                  /\ Blend(Blend(Subtracted(a, Swapped(a)), a), PairwiseSum(b))[2 * p] = Minus(a[2 * p], a[2 * p + 1])
                  /\ Blend(Blend(Subtracted(a, Swapped(a)), a), PairwiseSum(b))[2 * p + 1] = Plus(b[2 * p], b[2 * p + 1])
  <1> DEFINE s == Swapped(a)
             t == Swapped(b)
             d == AddSub(a, s)
             e == Subtracted(a, s)
             f == Blend(e, a)
             g == Added(b, t)
             x == Blend(d, g)
             y == Blend(f, g)
  <1>0. /\ Blend(PairwiseDifference(a), PairwiseSum(b)) = x
        /\ Blend(Blend(Subtracted(a, Swapped(a)), a), PairwiseSum(b)) = y
    BY DEF PairwiseDifference, PairwiseSum
  <1>1. /\ s \in Memory(2 * h)
        /\ \A p \in 0 .. h - 1 : s[2 * p] = a[2 * p + 1]
    BY PairsAre
  <1>2. /\ t \in Memory(2 * h)
        /\ \A p \in 0 .. h - 1 : /\ b[2 * p] \in Doubles /\ b[2 * p + 1] \in Doubles
                                 /\ t[2 * p + 1] = b[2 * p]
    BY PairsAre
  <1> HIDE DEF s, t
  <1>3. /\ d \in Memory(2 * h)
        /\ \A p \in 0 .. h - 1 : d[2 * p] = Minus(a[2 * p], s[2 * p])
    BY <1>1, AddSubIs
  <1>4. /\ e \in Memory(2 * h) /\ g \in Memory(2 * h)
        /\ \A i \in 0 .. 2 * h - 1 : e[i] = Minus(a[i], s[i]) /\ g[i] = Plus(b[i], t[i])
    BY <1>1, <1>2, LanesAre, 2 * h \in Nat
  <1> HIDE DEF d, e, g
  <1>5. /\ f \in Memory(2 * h)
        /\ \A p \in 0 .. h - 1 : f[2 * p] = e[2 * p]
    BY <1>4, BlendIs
  <1> HIDE DEF f
  <1>6. /\ x \in Memory(2 * h) /\ y \in Memory(2 * h)
        /\ \A p \in 0 .. h - 1 : /\ x[2 * p] = d[2 * p] /\ x[2 * p + 1] = g[2 * p + 1]
                                 /\ y[2 * p] = f[2 * p] /\ y[2 * p + 1] = g[2 * p + 1]
    BY <1>3, <1>4, <1>5, BlendIs
  <1> HIDE DEF x, y
  <1>7. ASSUME NEW p \in 0 .. h - 1
        PROVE  /\ x[2 * p] = Minus(a[2 * p], a[2 * p + 1])
               /\ x[2 * p + 1] = Plus(b[2 * p], b[2 * p + 1])
               /\ y[2 * p] = Minus(a[2 * p], a[2 * p + 1])
               /\ y[2 * p + 1] = Plus(b[2 * p], b[2 * p + 1])
    <2>1. 2 * p \in 0 .. 2 * h - 1 /\ 2 * p + 1 \in 0 .. 2 * h - 1
      OBVIOUS
    <2>2. Plus(b[2 * p], b[2 * p + 1]) = Plus(b[2 * p + 1], b[2 * p])
      BY <1>2, Closed
    <2>3. g[2 * p + 1] = Plus(b[2 * p + 1], b[2 * p])
      BY <1>2, <1>4, <2>1
    <2>4. QED
      BY <1>1, <1>3, <1>4, <1>5, <1>6, <2>1, <2>2, <2>3
  <1>8. QED
    BY <1>0, <1>6, <1>7

-----------------------------------------------------------------------------
(* Sweeps: memory done from the front.                                     *)

\* Memory that is done up to an index.
Upto(from, to, n) == Done(from, to, 0 .. n - 1)

\* Memory that is done up to an index is memory.
LEMMA UptoIn ==
    ASSUME NEW size \in Int, NEW from \in Memory(size), NEW to \in Memory(size), NEW n \in Int
    PROVE  Upto(from, to, n) \in Memory(size)
  BY DoneIn, Zenon DEF Upto

\* Before the index the new doubles, from it on the old ones.
LEMMA UptoAt ==
    ASSUME NEW size \in Int, NEW from \in Memory(size), NEW to \in Memory(size), NEW n \in Int
    PROVE  /\ \A i \in 0 .. size - 1 : i < n => Upto(from, to, n)[i] = to[i]
           /\ \A i \in 0 .. size - 1 : n <= i => Upto(from, to, n)[i] = from[i]
  <1> DEFINE W == 0 .. n - 1
             m == Done(from, to, W)
  <1>1. \A i \in 0 .. size - 1 : (i \in W <=> i < n)
    OBVIOUS
  <1> HIDE DEF W
  <1>2. /\ \A i \in 0 .. size - 1 : i \in W => m[i] = to[i]
        /\ \A i \in 0 .. size - 1 : i \notin W => m[i] = from[i]
    BY DoneAt
  <1> HIDE DEF m
  <1>3. \A i \in 0 .. size - 1 : n <= i => i \notin W
    BY <1>1
  <1>4. QED
    BY <1>1, <1>2, <1>3 DEF m, W, Upto

\* Done up to nothing is the old memory, up to the end the new one.
LEMMA UptoEnds ==
    ASSUME NEW size \in Nat, NEW from \in Memory(size), NEW to \in Memory(size)
    PROVE  Upto(from, to, 0) = from /\ Upto(from, to, size) = to
  <1>1. Upto(from, to, 0) \in Memory(size) /\ Upto(from, to, size) \in Memory(size)
    BY UptoIn, size \in Int, 0 \in Int, Zenon
  <1>2. \A i \in 0 .. size - 1 : Upto(from, to, 0)[i] = from[i]
    BY UptoAt
  <1>3. \A i \in 0 .. size - 1 : Upto(from, to, size)[i] = to[i]
    BY UptoAt
  <1>4. QED
    BY <1>1, <1>2, <1>3, SameMemory

\* Storing the vector that comes next does memory up to its end.
LEMMA StoreSweeps ==
    ASSUME NEW size \in Int, NEW from \in Memory(size), NEW to \in Memory(size),
           NEW at \in Nat, NEW width \in Nat, at + width <= size,
           NEW v \in Memory(width), \A j \in 0 .. width - 1 : v[j] = to[at + j]
    PROVE  Store(Upto(from, to, at), at, v) = Upto(from, to, at + width)
  <1> DEFINE W == 0 .. at - 1
             V == W \cup (at .. at + width - 1)
             U == 0 .. (at + width) - 1
  <1>1. Upto(from, to, at) = Done(from, to, W) /\ Upto(from, to, at + width) = Done(from, to, U)
    BY DEF Upto
  <1>2. V = U
    OBVIOUS
  <1> HIDE DEF W, U
  <1>3. Store(Done(from, to, W), at, v) = Done(from, to, V)
    BY StoreDone
  <1>4. QED
    BY <1>1, <1>2, <1>3, Zenon

\* Writing the complex that comes next does memory up to its end.
LEMMA PutSweeps ==
    ASSUME NEW size \in Int, NEW from \in Memory(size), NEW to \in Memory(size),
           NEW k \in Nat, 2 * k + 2 <= size,
           NEW value, value[1] = to[2 * k], value[2] = to[2 * k + 1]
    PROVE  PutComplex(Upto(from, to, 2 * k), k, value) = Upto(from, to, 2 * k + 2)
  <1> DEFINE W == 0 .. 2 * k - 1
             V == W \cup {2 * k, 2 * k + 1}
             U == 0 .. (2 * k + 2) - 1
  <1>1. Upto(from, to, 2 * k) = Done(from, to, W) /\ Upto(from, to, 2 * k + 2) = Done(from, to, U)
    BY DEF Upto
  <1>2. V = U
    OBVIOUS
  <1> HIDE DEF W, U
  <1>3. PutComplex(Done(from, to, W), k, value) = Done(from, to, V)
    BY PutDone
  <1>4. QED
    BY <1>1, <1>2, <1>3, Zenon

\* Vectors of whole complexes and complexes on their own that each do their part.
LEMMA VectorSweep ==
    ASSUME NEW count \in Nat, NEW width \in {2, 4}, NEW vector, NEW rest,
           NEW from \in Memory(2 * count), NEW to \in Memory(2 * count),
           \A k \in 0 .. count - 1 : k + width <= count =>
               vector[k][Upto(from, to, 2 * k)] = Upto(from, to, 2 * k + 2 * width),
           \A k \in 0 .. count - 1 : rest[k][Upto(from, to, 2 * k)] = Upto(from, to, 2 * k + 2)
    PROVE  VectorLoop(count, width, vector, rest, from) = to
  <1> DEFINE states == [k \in 0 .. count |-> Upto(from, to, 2 * k)]
             whole == count \div width
  <1>0. /\ whole \in Nat /\ width * whole \in Nat /\ width * whole <= count
        /\ \A j \in 0 .. whole - 1 : width * j \in Nat /\ width * j + width <= width * whole
    BY Whole
  <1>1. states[0] = from /\ states[count] = to
    BY UptoEnds, 2 * count \in Nat
  <1>2. ASSUME NEW j \in 0 .. whole - 1
        PROVE  states[width * j + width] = vector[width * j][states[width * j]]
    <2> DEFINE k == width * j
    <2>1. k \in 0 .. count - 1 /\ k + width <= count /\ k \in 0 .. count /\ k + width \in 0 .. count
      BY <1>0
    <2> HIDE DEF k
    <2>2. 2 * (k + width) = 2 * k + 2 * width
      BY <2>1
    <2>3. vector[k][Upto(from, to, 2 * k)] = Upto(from, to, 2 * k + 2 * width)
      BY <2>1
    <2>4. states[k + width] = vector[k][states[k]]
      BY <2>1, <2>2, <2>3
    <2>5. QED
      BY <2>4 DEF k
  <1>3. ASSUME NEW k \in width * whole .. count - 1
        PROVE  states[k + 1] = rest[k][states[k]]
    <2>1. k \in 0 .. count - 1 /\ k \in 0 .. count /\ k + 1 \in 0 .. count /\ 2 * (k + 1) = 2 * k + 2
      BY <1>0
    <2>2. QED
      BY <2>1
  <1> HIDE DEF states
  <1>4. VectorStates(count, width, vector, rest, states)
    BY <1>2, <1>3 DEF VectorStates
  <1>5. VectorLoop(count, width, vector, rest, from) = states[count]
    BY <1>1, <1>4, VectorLoopStates
  <1>6. QED
    BY <1>1, <1>5

-----------------------------------------------------------------------------
(* Scaled complexes accumulated.                                           *)

\* What the reference accumulates, index by index.
LEMMA AxpyIs ==
    ASSUME NEW count \in Nat, NEW out \in Memory(2 * count), NEW field \in Memory(2 * count), NEW scale \in Doubles
    PROVE  /\ AxpyScalar(out, field, scale, count) \in Memory(2 * count)
           /\ \A i \in 0 .. 2 * count - 1 :
                  AxpyScalar(out, field, scale, count)[i] = Plus(out[i], Times(field[i], scale))
  <1>1. \A i \in 0 .. 2 * count - 1 : Plus(out[i], Times(field[i], scale)) \in Doubles
    BY Closed DEF Memory
  <1>2. QED
    BY <1>1 DEF AxpyScalar, Memory

\* Accumulation in whole vectors and a rest has the reference's bits (x86 units).
LEMMA AxpyIsScalar ==
    ASSUME NEW count \in Nat, NEW out \in Memory(2 * count), NEW field \in Memory(2 * count), NEW scale \in Doubles,
           NEW complexes \in {2, 4}
    PROVE  Axpy(out, field, scale, count, complexes, 2 * complexes) = AxpyScalar(out, field, scale, count)
  <1> DEFINE size == 2 * count
             to == AxpyScalar(out, field, scale, count)
             width == 2 * complexes
             vector == [k \in 0 .. count - 1 |-> [m \in Memory(2 * count) |-> AxpyVector(m, field, scale, k, width)]]
             rest == [k \in 0 .. count - 1 |-> [m \in Memory(2 * count) |-> AxpyRest(m, field, scale, k)]]
  <1>0. size \in Nat /\ out \in Memory(size) /\ field \in Memory(size) /\ width \in Nat
    OBVIOUS
  <1>1. to \in Memory(size) /\ \A i \in 0 .. size - 1 : to[i] = Plus(out[i], Times(field[i], scale))
    BY AxpyIs
  <1> HIDE DEF to
  <1>2. ASSUME NEW k \in 0 .. count - 1, k + complexes <= count
        PROVE  vector[k][Upto(out, to, 2 * k)] = Upto(out, to, 2 * k + 2 * complexes)
    <2> DEFINE m == Upto(out, to, 2 * k)
               at == 2 * k
               a == Load(m, at, width)
               b == Load(field, at, width)
               c == Broadcast(scale, width)
               d == Multiplied(b, c)
               v == Added(a, d)
    <2>0. at \in Nat /\ at + width <= size
      BY <1>2
    <2>1. m \in Memory(size) /\ \A i \in 0 .. size - 1 : at <= i => m[i] = out[i]
      <3>1. at \in Int /\ size \in Int
        OBVIOUS
      <3>2. m \in Memory(size)
        BY <1>0, <1>1, <3>1, UptoIn, Zenon
      <3>3. \A i \in 0 .. size - 1 : at <= i => m[i] = out[i]
        BY <1>0, <1>1, <3>1, UptoAt
      <3>4. QED
        BY <3>2, <3>3
    <2>2. vector[k][m] = Store(m, at, v)
      BY <2>1 DEF AxpyVector
    <2>9. m = Upto(out, to, at)
      OBVIOUS
    <2> HIDE DEF m, at, size, width
    <2>3. a \in Memory(width) /\ \A i \in 0 .. width - 1 : a[i] = m[at + i]
      BY <1>0, <2>0, <2>1, LoadIs
    <2>4. b \in Memory(width) /\ \A i \in 0 .. width - 1 : b[i] = field[at + i]
      BY <1>0, <2>0, LoadIs
    <2>5. c \in Memory(width) /\ \A i \in 0 .. width - 1 : c[i] = scale
      BY <1>0, BroadcastIs
    <2> HIDE DEF a, b, c
    <2>6. d \in Memory(width) /\ \A i \in 0 .. width - 1 : d[i] = Times(b[i], c[i])
      BY <1>0, <2>4, <2>5, LanesAre
    <2> HIDE DEF d
    <2>7. v \in Memory(width) /\ \A i \in 0 .. width - 1 : v[i] = Plus(a[i], d[i])
      BY <1>0, <2>3, <2>6, LanesAre
    <2> HIDE DEF v
    <2>8. ASSUME NEW i \in 0 .. width - 1 PROVE v[i] = to[at + i]
      <3>1. at + i \in 0 .. size - 1 /\ at <= at + i
        BY <1>0, <2>0
      <3>2. a[i] = out[at + i] /\ d[i] = Times(field[at + i], scale)
        BY <2>1, <2>3, <2>4, <2>5, <2>6, <3>1
      <3>3. QED
        BY <1>1, <2>7, <3>1, <3>2
    <2>10. Store(Upto(out, to, at), at, v) = Upto(out, to, at + width)
      BY <1>0, <1>1, <2>0, <2>7, <2>8, StoreSweeps
    <2>11. QED
      BY <2>2, <2>9, <2>10 DEF at, width, m
  <1>3. ASSUME NEW k \in 0 .. count - 1
        PROVE  rest[k][Upto(out, to, 2 * k)] = Upto(out, to, 2 * k + 2)
    <2> DEFINE m == Upto(out, to, 2 * k)
               value == <<Plus(m[2 * k], Times(field[2 * k], scale)), Plus(m[2 * k + 1], Times(field[2 * k + 1], scale))>>
    <2>1. m \in Memory(size) /\ \A i \in 0 .. size - 1 : 2 * k <= i => m[i] = out[i]
      <3>1. 2 * k \in Int /\ size \in Int
        OBVIOUS
      <3>2. m \in Memory(size)
        BY <1>0, <1>1, <3>1, UptoIn, Zenon
      <3>3. \A i \in 0 .. size - 1 : 2 * k <= i => m[i] = out[i]
        BY <1>0, <1>1, <3>1, UptoAt
      <3>4. QED
        BY <3>2, <3>3
    <2>2. m[2 * k] = out[2 * k] /\ m[2 * k + 1] = out[2 * k + 1]
      BY <2>1
    <2>3. value[1] = to[2 * k] /\ value[2] = to[2 * k + 1]
      BY <1>1, <2>2
    <2>4. rest[k][m] = AxpyRest(m, field, scale, k)
      BY <2>1
    <2> HIDE DEF m
    <2>5. AxpyRest(m, field, scale, k) = PutComplex(m, k, value)
      <3>1. DOMAIN m = 0 .. size - 1 /\ 2 * k # 2 * k + 1
        BY <2>1 DEF Memory
      <3> DEFINE a == 2 * k
                 b == 2 * k + 1
      <3>2. a # b
        BY <3>1
      <3>3. AxpyRest(m, field, scale, k)
            = [m EXCEPT ![a] = Plus(m[a], Times(field[a], scale)), ![b] = Plus(m[b], Times(field[b], scale))]
        BY <3>2 DEF AxpyRest
      <3>4. QED
        BY <3>3 DEF PutComplex
    <2> HIDE DEF value
    <2>6. PutComplex(Upto(out, to, 2 * k), k, value) = Upto(out, to, 2 * k + 2)
      BY <1>0, <1>1, <2>3, PutSweeps, k \in Nat, 2 * k + 2 <= size
    <2>7. QED
      BY <2>4, <2>5, <2>6 DEF m
  <1>4. Axpy(out, field, scale, count, complexes, width) = VectorLoop(count, complexes, vector, rest, out)
    BY DEF Axpy
  <1> HIDE DEF vector, rest, size
  <1>5. VectorLoop(count, complexes, vector, rest, out) = to
    BY <1>0, <1>1, <1>2, <1>3, VectorSweep DEF size
  <1>6. QED
    BY <1>4, <1>5 DEF to, width

\* A vector of complexes.
LEMMA ComplexesSweep ==
    ASSUME NEW size \in Int, NEW from \in Memory(size), NEW to \in Memory(size),
           NEW k \in Nat, NEW h \in Nat, 2 * k + 2 * h <= size,
           NEW v \in Memory(2 * h),
           \A p \in 0 .. h - 1 : v[2 * p] = to[2 * (k + p)] /\ v[2 * p + 1] = to[2 * (k + p) + 1]
    PROVE  Store(Upto(from, to, 2 * k), 2 * k, v) = Upto(from, to, 2 * k + 2 * h)
  <1> DEFINE at == 2 * k
             width == 2 * h
  <1>1. ASSUME NEW i \in 0 .. width - 1 PROVE v[i] = to[at + i]
    <2>1. PICK p \in 0 .. h - 1 : i = 2 * p \/ i = 2 * p + 1
      BY EveryLane
    <2>2. 2 * (k + p) = at + 2 * p /\ 2 * (k + p) + 1 = at + (2 * p + 1)
      OBVIOUS
    <2>3. QED
      BY <2>1, <2>2
  <1>2. at \in Nat /\ width \in Nat /\ at + width <= size /\ v \in Memory(width)
    OBVIOUS
  <1> HIDE DEF at, width
  <1>3. Store(Upto(from, to, at), at, v) = Upto(from, to, at + width)
    BY <1>1, <1>2, StoreSweeps
  <1>4. QED
    BY <1>3 DEF at, width

\* The parts of two complexes.
LEMMA PartsAre ==
    ASSUME NEW size \in Int, NEW m \in Memory(size), NEW k \in Nat, 2 * k + 4 <= size
    PROVE  /\ Parts(m, k)[1] \in Memory(2) /\ Parts(m, k)[2] \in Memory(2)
           /\ \A p \in 0 .. 1 : /\ Parts(m, k)[1][p] = m[2 * (k + p)]
                                /\ Parts(m, k)[2][p] = m[2 * (k + p) + 1]
  <1>1. \A p \in 0 .. 1 : 2 * (k + p) \in 0 .. size - 1 /\ 2 * (k + p) + 1 \in 0 .. size - 1
    OBVIOUS
  <1>2. \A p \in 0 .. 1 : m[2 * (k + p)] \in Doubles /\ m[2 * (k + p) + 1] \in Doubles
    BY <1>1 DEF Memory
  <1>3. Parts(m, k)[1] = [i \in 0 .. 1 |-> m[2 * (k + i)]] /\ Parts(m, k)[2] = [i \in 0 .. 1 |-> m[2 * (k + i) + 1]]
    BY DEF Parts
  <1>4. QED
    BY <1>2, <1>3 DEF Memory

\* Storing the two complexes that come next, parts apart, does memory up to their end.
LEMMA PartsSweep ==
    ASSUME NEW size \in Int, NEW from \in Memory(size), NEW to \in Memory(size),
           NEW k \in Nat, 2 * k + 4 <= size,
           NEW parts, parts[1] \in Memory(2), parts[2] \in Memory(2),
           \A p \in 0 .. 1 : parts[1][p] = to[2 * (k + p)] /\ parts[2][p] = to[2 * (k + p) + 1]
    PROVE  StoreParts(Upto(from, to, 2 * k), k, parts) = Upto(from, to, 2 * k + 4)
  <1> DEFINE v == [i \in 0 .. 3 |-> parts[1 + (i % 2)][i \div 2]]
  <1>1. \A p \in 0 .. 1 : parts[1][p] \in Doubles /\ parts[2][p] \in Doubles
    BY SMTT(30) DEF Memory
  <1>2. ASSUME NEW p \in 0 .. 1
        PROVE  v[2 * p] = parts[1][p] /\ v[2 * p + 1] = parts[2][p]
    <2>1. /\ 2 * p \in 0 .. 3 /\ (2 * p) % 2 = 0 /\ (2 * p) \div 2 = p
          /\ 2 * p + 1 \in 0 .. 3 /\ (2 * p + 1) % 2 = 1 /\ (2 * p + 1) \div 2 = p
      OBVIOUS
    <2>2. QED
      BY <2>1
  <1>3. v \in Memory(4)
    <2>1. ASSUME NEW i \in 0 .. 3 PROVE v[i] \in Doubles
      <3>1. PICK p \in 0 .. 1 : i = 2 * p \/ i = 2 * p + 1
        BY EveryLane
      <3>2. QED
        BY <1>1, <1>2, <3>1
    <2>2. v = [i \in 0 .. 3 |-> v[i]]
      OBVIOUS
    <2> HIDE DEF v
    <2>3. QED
      BY <2>1, <2>2 DEF Memory
  <1>4. StoreParts(Upto(from, to, 2 * k), k, parts) = Store(Upto(from, to, 2 * k), 2 * k, v)
    BY DEF StoreParts
  <1> HIDE DEF v
  <1> DEFINE h == 2
  <1>5. h \in Nat /\ 2 * k + 2 * h <= size /\ v \in Memory(2 * h) /\ 2 * k + 2 * h = 2 * k + 4
    BY <1>3
  <1>6. \A p \in 0 .. h - 1 : v[2 * p] = to[2 * (k + p)] /\ v[2 * p + 1] = to[2 * (k + p) + 1]
    BY <1>2
  <1> HIDE DEF h
  <1>7. Store(Upto(from, to, 2 * k), 2 * k, v) = Upto(from, to, 2 * k + 2 * h)
    BY <1>5, <1>6, ComplexesSweep
  <1>8. QED
    BY <1>4, <1>5, <1>7

\* Products of the complexes in two vectors.
Products(v, a, b) ==
    \/ v = Blend(PairwiseDifference(Multiplied(a, b)), PairwiseSum(Multiplied(Swapped(a), b)))
    \/ v = Blend(Blend(Subtracted(Multiplied(a, b), Swapped(Multiplied(a, b))), Multiplied(a, b)),
                 PairwiseSum(Multiplied(Swapped(a), b)))

\* Products of whole complexes, the way the multiplication kernels take them.
LEMMA ProductLanes ==
    ASSUME NEW h \in Nat, NEW a \in Memory(2 * h), NEW b \in Memory(2 * h),
           NEW v, Products(v, a, b)
    PROVE  /\ v \in Memory(2 * h)
           /\ \A p \in 0 .. h - 1 : /\ v[2 * p] = ComplexTimes(Complex(a, p), Complex(b, p))[1]
                                    /\ v[2 * p + 1] = ComplexTimes(Complex(a, p), Complex(b, p))[2]
  <1> DEFINE s == Swapped(a)
             x == Multiplied(a, b)
             y == Multiplied(s, b)
  <1>0. 2 * h \in Nat
    OBVIOUS
  <1>1. /\ s \in Memory(2 * h)
        /\ \A p \in 0 .. h - 1 : s[2 * p] = a[2 * p + 1] /\ s[2 * p + 1] = a[2 * p]
    BY PairsAre
  <1> HIDE DEF s
  <1>2. /\ x \in Memory(2 * h) /\ \A i \in 0 .. 2 * h - 1 : x[i] = Times(a[i], b[i])
    BY <1>0, LanesAre
  <1>3. /\ y \in Memory(2 * h) /\ \A i \in 0 .. 2 * h - 1 : y[i] = Times(s[i], b[i])
    BY <1>0, <1>1, LanesAre
  <1>4. \/ v = Blend(PairwiseDifference(x), PairwiseSum(y))
        \/ v = Blend(Blend(Subtracted(x, Swapped(x)), x), PairwiseSum(y))
    BY DEF s, Products
  <1> HIDE DEF x, y
  <1>5. /\ v \in Memory(2 * h)
        /\ \A p \in 0 .. h - 1 : /\ v[2 * p] = Minus(x[2 * p], x[2 * p + 1])
                                 /\ v[2 * p + 1] = Plus(y[2 * p], y[2 * p + 1])
    BY <1>2, <1>3, <1>4, PairwiseIs
  <1>6. ASSUME NEW p \in 0 .. h - 1
        PROVE  /\ v[2 * p] = ComplexTimes(Complex(a, p), Complex(b, p))[1]
               /\ v[2 * p + 1] = ComplexTimes(Complex(a, p), Complex(b, p))[2]
    <2>1. 2 * p \in 0 .. 2 * h - 1 /\ 2 * p + 1 \in 0 .. 2 * h - 1
      OBVIOUS
    <2>2. /\ x[2 * p] = Times(a[2 * p], b[2 * p]) /\ x[2 * p + 1] = Times(a[2 * p + 1], b[2 * p + 1])
          /\ y[2 * p] = Times(a[2 * p + 1], b[2 * p]) /\ y[2 * p + 1] = Times(a[2 * p], b[2 * p + 1])
      BY <1>1, <1>2, <1>3, <2>1
    <2>3. Plus(y[2 * p], y[2 * p + 1]) = Plus(y[2 * p + 1], y[2 * p])
      BY <1>3, <2>1, Closed DEF Memory
    <2>4. QED
      BY <1>5, <2>2, <2>3 DEF ComplexTimes, Complex
  <1>7. QED
    BY <1>5, <1>6

\* A product of complexes is a complex.
LEMMA ComplexTimesIn ==
    ASSUME NEW a, NEW b, a[1] \in Doubles, a[2] \in Doubles, b[1] \in Doubles, b[2] \in Doubles
    PROVE  /\ ComplexTimes(a, b)[1] \in Doubles /\ ComplexTimes(a, b)[2] \in Doubles
           /\ ComplexTimes(a, b) \in Doubles \X Doubles
  <1>1. /\ Minus(Times(a[1], b[1]), Times(a[2], b[2])) \in Doubles
        /\ Plus(Times(a[1], b[2]), Times(a[2], b[1])) \in Doubles
    BY Closed
  <1>2. QED
    BY <1>1 DEF ComplexTimes

\* The same products with real and imaginary parts apart.
LEMMA PartsProduct ==
    ASSUME NEW a, NEW b, a[1] \in Memory(2), a[2] \in Memory(2), b[1] \in Memory(2), b[2] \in Memory(2)
    PROVE  /\ ComplexMulNeon(a, b)[1] \in Memory(2) /\ ComplexMulNeon(a, b)[2] \in Memory(2)
           /\ \A p \in 0 .. 1 :
                  /\ ComplexMulNeon(a, b)[1][p] = ComplexTimes(<<a[1][p], a[2][p]>>, <<b[1][p], b[2][p]>>)[1]
                  /\ ComplexMulNeon(a, b)[2][p] = ComplexTimes(<<a[1][p], a[2][p]>>, <<b[1][p], b[2][p]>>)[2]
  <1> DEFINE x == Multiplied(a[1], b[1])
             y == Multiplied(a[2], b[2])
             z == Multiplied(a[1], b[2])
             t == Multiplied(a[2], b[1])
             r == Subtracted(x, y)
             i == Added(z, t)
  <1>1. ComplexMulNeon(a, b)[1] = r /\ ComplexMulNeon(a, b)[2] = i
    BY DEF ComplexMulNeon
  <1>2. /\ x \in Memory(2) /\ y \in Memory(2) /\ z \in Memory(2) /\ t \in Memory(2)
        /\ \A p \in 0 .. 1 : /\ x[p] = Times(a[1][p], b[1][p]) /\ y[p] = Times(a[2][p], b[2][p])
                             /\ z[p] = Times(a[1][p], b[2][p]) /\ t[p] = Times(a[2][p], b[1][p])
    BY LanesAre
  <1> HIDE DEF x, y, z, t
  <1>3. /\ r \in Memory(2) /\ i \in Memory(2)
        /\ \A p \in 0 .. 1 : r[p] = Minus(x[p], y[p]) /\ i[p] = Plus(z[p], t[p])
    BY <1>2, LanesAre
  <1> HIDE DEF r, i
  <1>4. QED
    BY <1>1, <1>2, <1>3 DEF ComplexTimes

-----------------------------------------------------------------------------
(* Complexes multiplied.                                                   *)

\* What the reference multiplies, complex by complex.
LEMMA MultiplyIs ==
    ASSUME NEW count \in Nat, NEW left \in Memory(2 * count), NEW right \in Memory(2 * count)
    PROVE  /\ MultiplyScalar(left, right, count) \in Memory(2 * count)
           /\ \A k \in 0 .. count - 1 :
                  /\ MultiplyScalar(left, right, count)[2 * k] = ComplexTimes(Complex(left, k), Complex(right, k))[1]
                  /\ MultiplyScalar(left, right, count)[2 * k + 1] = ComplexTimes(Complex(left, k), Complex(right, k))[2]
  <1> DEFINE to == MultiplyScalar(left, right, count)
  <1>1. to = [i \in 0 .. 2 * count - 1 |-> ComplexTimes(Complex(left, i \div 2), Complex(right, i \div 2))[(i % 2) + 1]]
    BY DEF MultiplyScalar
  <1> HIDE DEF to
  <1>2. ASSUME NEW k \in 0 .. count - 1
        PROVE  /\ to[2 * k] = ComplexTimes(Complex(left, k), Complex(right, k))[1]
               /\ to[2 * k + 1] = ComplexTimes(Complex(left, k), Complex(right, k))[2]
    <2>1. /\ 2 * k \in 0 .. 2 * count - 1 /\ (2 * k) % 2 = 0 /\ (2 * k) \div 2 = k
          /\ 2 * k + 1 \in 0 .. 2 * count - 1 /\ (2 * k + 1) % 2 = 1 /\ (2 * k + 1) \div 2 = k
      OBVIOUS
    <2> DEFINE a == 2 * k
               b == 2 * k + 1
    <2>2. /\ a \in 0 .. 2 * count - 1 /\ a \div 2 = k /\ (a % 2) + 1 = 1
          /\ b \in 0 .. 2 * count - 1 /\ b \div 2 = k /\ (b % 2) + 1 = 2
      BY <2>1
    <2> HIDE DEF a, b
    <2>3. /\ to[a] = ComplexTimes(Complex(left, a \div 2), Complex(right, a \div 2))[(a % 2) + 1]
          /\ to[b] = ComplexTimes(Complex(left, b \div 2), Complex(right, b \div 2))[(b % 2) + 1]
      BY <1>1, <2>2
    <2>4. QED
      BY <2>2, <2>3 DEF a, b
  <1>3. ASSUME NEW k \in 0 .. count - 1
        PROVE  /\ ComplexTimes(Complex(left, k), Complex(right, k))[1] \in Doubles
               /\ ComplexTimes(Complex(left, k), Complex(right, k))[2] \in Doubles
    <2> DEFINE a == Complex(left, k)
               b == Complex(right, k)
    <2>1. a[1] \in Doubles /\ a[2] \in Doubles /\ b[1] \in Doubles /\ b[2] \in Doubles
      BY 2 * count \in Int, 2 * k + 2 <= 2 * count, ComplexIs
    <2> HIDE DEF a, b
    <2>2. ComplexTimes(a, b)[1] \in Doubles /\ ComplexTimes(a, b)[2] \in Doubles
      BY <2>1, ComplexTimesIn
    <2>3. QED
      BY <2>2 DEF a, b
  <1>4. ASSUME NEW i \in 0 .. 2 * count - 1 PROVE to[i] \in Doubles
    <2>1. PICK k \in 0 .. count - 1 : i = 2 * k \/ i = 2 * k + 1
      BY EveryLane
    <2>2. QED
      BY <1>2, <1>3, <2>1
  <1>5. to \in Memory(2 * count)
    BY <1>1, <1>4 DEF Memory
  <1>6. QED
    BY <1>2, <1>5 DEF to

\* The scalar rest of a multiplication writes the complex that comes next.
LEMMA MultiplyRestIs ==
    ASSUME NEW count \in Nat, NEW left \in Memory(2 * count), NEW right \in Memory(2 * count),
           NEW out \in Memory(2 * count), NEW k \in 0 .. count - 1
    PROVE  MultiplyRest(Upto(out, MultiplyScalar(left, right, count), 2 * k), left, right, k)
           = Upto(out, MultiplyScalar(left, right, count), 2 * k + 2)
  <1> DEFINE to == MultiplyScalar(left, right, count)
             size == 2 * count
             value == ComplexTimes(Complex(left, k), Complex(right, k))
  <1>1. to \in Memory(size) /\ value[1] = to[2 * k] /\ value[2] = to[2 * k + 1]
    BY MultiplyIs
  <1>2. size \in Int /\ 2 * k + 2 <= size /\ k \in Nat /\ out \in Memory(size)
    OBVIOUS
  <1> HIDE DEF to, size, value
  <1>3. PutComplex(Upto(out, to, 2 * k), k, value) = Upto(out, to, 2 * k + 2)
    BY <1>1, <1>2, PutSweeps
  <1>4. QED
    BY <1>3 DEF to, value, MultiplyRest

\* A vector loaded from memory at a complex.
LoadedFrom(a, m, k, h) == a = Load(m, 2 * k, 2 * h)

\* The complexes of a vector loaded are those of memory.
LEMMA LoadedComplex ==
    ASSUME NEW size \in Int, NEW m \in Memory(size), NEW k \in Nat, NEW h \in Nat, 2 * k + 2 * h <= size,
           NEW a, LoadedFrom(a, m, k, h), NEW p \in 0 .. h - 1
    PROVE  Complex(a, p) = Complex(m, k + p)
  <1>0. a = Load(m, 2 * k, 2 * h)
    BY DEF LoadedFrom
  <1>1. \A i \in 0 .. 2 * h - 1 : a[i] = m[2 * k + i]
    BY <1>0, 2 * k \in Nat, 2 * h \in Nat, LoadIs
  <1>2. /\ 2 * p \in 0 .. 2 * h - 1 /\ 2 * p + 1 \in 0 .. 2 * h - 1
        /\ 2 * k + 2 * p = 2 * (k + p) /\ 2 * k + (2 * p + 1) = 2 * (k + p) + 1
    OBVIOUS
  <1>3. a[2 * p] = m[2 * (k + p)] /\ a[2 * p + 1] = m[2 * (k + p) + 1]
    BY <1>1, <1>2
  <1>4. QED
    BY <1>3 DEF Complex

\* A vector of products of the complexes in memory.
ProductsOf(v, left, right, k, h) ==
    \A p \in 0 .. h - 1 : /\ v[2 * p] = ComplexTimes(Complex(left, k + p), Complex(right, k + p))[1]
                          /\ v[2 * p + 1] = ComplexTimes(Complex(left, k + p), Complex(right, k + p))[2]

\* Storing a vector of products does memory up to its end.
LEMMA ProductsSweep ==
    ASSUME NEW count \in Nat, NEW left \in Memory(2 * count), NEW right \in Memory(2 * count),
           NEW out \in Memory(2 * count), NEW k \in Nat, NEW h \in Nat, k + h <= count,
           NEW v \in Memory(2 * h), ProductsOf(v, left, right, k, h)
    PROVE  Store(Upto(out, MultiplyScalar(left, right, count), 2 * k), 2 * k, v)
           = Upto(out, MultiplyScalar(left, right, count), 2 * k + 2 * h)
  <1> DEFINE to == MultiplyScalar(left, right, count)
             size == 2 * count
  <1>1. /\ to \in Memory(size)
        /\ \A n \in 0 .. count - 1 : /\ to[2 * n] = ComplexTimes(Complex(left, n), Complex(right, n))[1]
                                     /\ to[2 * n + 1] = ComplexTimes(Complex(left, n), Complex(right, n))[2]
    BY MultiplyIs
  <1>2. size \in Int /\ 2 * k + 2 * h <= size /\ out \in Memory(size)
    OBVIOUS
  <1> HIDE DEF to, size
  <1>3. ASSUME NEW p \in 0 .. h - 1
        PROVE  v[2 * p] = to[2 * (k + p)] /\ v[2 * p + 1] = to[2 * (k + p) + 1]
    <2> DEFINE n == k + p
    <2>1. n \in 0 .. count - 1
      OBVIOUS
    <2>2. /\ v[2 * p] = ComplexTimes(Complex(left, n), Complex(right, n))[1]
          /\ v[2 * p + 1] = ComplexTimes(Complex(left, n), Complex(right, n))[2]
      BY DEF ProductsOf
    <2> HIDE DEF n
    <2>3. v[2 * p] = to[2 * n] /\ v[2 * p + 1] = to[2 * n + 1]
      BY <1>1, <2>1, <2>2
    <2>4. QED
      BY <2>3 DEF n
  <1>4. Store(Upto(out, to, 2 * k), 2 * k, v) = Upto(out, to, 2 * k + 2 * h)
    BY <1>1, <1>2, <1>3, ComplexesSweep
  <1>5. QED
    BY <1>4 DEF to

\* Two or four products in a vector.
Multiplies(v, left, right, k, h) == Products(v, Load(left, 2 * k, 2 * h), Load(right, 2 * k, 2 * h))

\* A vector the units multiply is a vector of products.
LEMMA VectorOfProducts ==
    ASSUME NEW count \in Nat, NEW left \in Memory(2 * count), NEW right \in Memory(2 * count),
           NEW out \in Memory(2 * count), NEW k \in Nat, NEW h \in Nat, k + h <= count,
           NEW v, Multiplies(v, left, right, k, h)
    PROVE  Store(Upto(out, MultiplyScalar(left, right, count), 2 * k), 2 * k, v)
           = Upto(out, MultiplyScalar(left, right, count), 2 * k + 2 * h)
  <1> DEFINE a == Load(left, 2 * k, 2 * h)
             b == Load(right, 2 * k, 2 * h)
             size == 2 * count
  <1>1. 2 * k \in Nat /\ 2 * h \in Nat /\ size \in Int /\ 2 * k + 2 * h <= size
        /\ left \in Memory(size) /\ right \in Memory(size)
    OBVIOUS
  <1> HIDE DEF size
  <1>2. a \in Memory(2 * h) /\ b \in Memory(2 * h)
    BY <1>1, LoadIn, Zenon
  <1>8. LoadedFrom(a, left, k, h) /\ LoadedFrom(b, right, k, h)
    BY DEF LoadedFrom
  <1>4. Products(v, a, b)
    BY DEF Multiplies
  <1> HIDE DEF a, b
  <1>3. \A p \in 0 .. h - 1 : Complex(a, p) = Complex(left, k + p) /\ Complex(b, p) = Complex(right, k + p)
    BY <1>1, <1>8, LoadedComplex
  <1>5. /\ v \in Memory(2 * h)
        /\ \A p \in 0 .. h - 1 : /\ v[2 * p] = ComplexTimes(Complex(a, p), Complex(b, p))[1]
                                 /\ v[2 * p + 1] = ComplexTimes(Complex(a, p), Complex(b, p))[2]
    BY <1>2, <1>4, ProductLanes
  <1>6. ProductsOf(v, left, right, k, h)
    BY <1>3, <1>5, Zenon DEF ProductsOf
  <1>7. v \in Memory(2 * h)
    BY <1>5
  <1>9. QED
    BY <1>6, <1>7, ProductsSweep

\* AVX2 multiplies with the reference's bits.
LEMMA MultiplyAvx2IsScalar ==
    ASSUME NEW count \in Nat, NEW left \in Memory(2 * count), NEW right \in Memory(2 * count),
           NEW out \in Memory(2 * count)
    PROVE  MultiplyAvx2(out, left, right, count) = MultiplyScalar(left, right, count)
  <1> DEFINE to == MultiplyScalar(left, right, count)
             vector == [k \in 0 .. count - 1 |-> [m \in Memory(2 * count) |-> MultiplyPair(m, left, right, k)]]
             rest == [k \in 0 .. count - 1 |-> [m \in Memory(2 * count) |-> MultiplyRest(m, left, right, k)]]
  <1>1. to \in Memory(2 * count)
    BY MultiplyIs
  <1>2. \A k \in 0 .. count - 1 : Upto(out, to, 2 * k) \in Memory(2 * count)
    BY <1>1, UptoIn, 2 * count \in Int, \A k \in 0 .. count - 1 : 2 * k \in Int, Zenon DEF to
  <1>3. ASSUME NEW k \in 0 .. count - 1, k + 2 <= count
        PROVE  vector[k][Upto(out, to, 2 * k)] = Upto(out, to, 2 * k + 2 * 2)
    <2> DEFINE h == 2
               m == Upto(out, to, 2 * k)
               a == Load(left, 2 * k, 2 * h)
               b == Load(right, 2 * k, 2 * h)
               v == Blend(PairwiseDifference(Multiplied(a, b)), PairwiseSum(Multiplied(Swapped(a), b)))
    <2>1. vector[k][m] = Store(m, 2 * k, v)
      BY <1>2, 2 * h = 4 DEF MultiplyPair
    <2>2. Multiplies(v, left, right, k, h)
      BY DEF Products, Multiplies
    <2>3. h \in Nat /\ k + h <= count /\ k \in Nat
      BY <1>3
    <2> HIDE DEF h, v
    <2>4. Store(m, 2 * k, v) = Upto(out, to, 2 * k + 2 * h)
      BY <2>2, <2>3, VectorOfProducts
    <2>5. QED
      BY <2>1, <2>4 DEF h
  <1>4. ASSUME NEW k \in 0 .. count - 1
        PROVE  rest[k][Upto(out, to, 2 * k)] = Upto(out, to, 2 * k + 2)
    BY <1>2, MultiplyRestIs
  <1>5. MultiplyAvx2(out, left, right, count) = VectorLoop(count, 2, vector, rest, out)
    BY DEF MultiplyAvx2
  <1> HIDE DEF vector, rest, to
  <1>6. VectorLoop(count, 2, vector, rest, out) = to
    BY <1>1, <1>3, <1>4, VectorSweep
  <1>7. QED
    BY <1>5, <1>6 DEF to

\* AVX-512 multiplies with the reference's bits.
LEMMA MultiplyAvx512IsScalar ==
    ASSUME NEW count \in Nat, NEW left \in Memory(2 * count), NEW right \in Memory(2 * count),
           NEW out \in Memory(2 * count)
    PROVE  MultiplyAvx512(out, left, right, count) = MultiplyScalar(left, right, count)
  <1> DEFINE to == MultiplyScalar(left, right, count)
             vector == [k \in 0 .. count - 1 |-> [m \in Memory(2 * count) |-> MultiplyQuad(m, left, right, k)]]
             rest == [k \in 0 .. count - 1 |-> [m \in Memory(2 * count) |-> MultiplyRest(m, left, right, k)]]
  <1>1. to \in Memory(2 * count)
    BY MultiplyIs
  <1>2. \A k \in 0 .. count - 1 : Upto(out, to, 2 * k) \in Memory(2 * count)
    BY <1>1, UptoIn, 2 * count \in Int, \A k \in 0 .. count - 1 : 2 * k \in Int, Zenon DEF to
  <1>3. ASSUME NEW k \in 0 .. count - 1, k + 4 <= count
        PROVE  vector[k][Upto(out, to, 2 * k)] = Upto(out, to, 2 * k + 2 * 4)
    <2> DEFINE h == 4
               m == Upto(out, to, 2 * k)
               a == Load(left, 2 * k, 2 * h)
               b == Load(right, 2 * k, 2 * h)
               v == Blend(Blend(Subtracted(Multiplied(a, b), Swapped(Multiplied(a, b))), Multiplied(a, b)),
                          PairwiseSum(Multiplied(Swapped(a), b)))
    <2>1. vector[k][m] = Store(m, 2 * k, v)
      BY <1>2, 2 * h = 8, IsEvaluated DEF MultiplyQuad
    <2>2. Multiplies(v, left, right, k, h)
      BY DEF Products, Multiplies
    <2>3. h \in Nat /\ k + h <= count /\ k \in Nat
      BY <1>3
    <2> HIDE DEF h, v
    <2>4. Store(m, 2 * k, v) = Upto(out, to, 2 * k + 2 * h)
      BY <2>2, <2>3, VectorOfProducts
    <2>5. QED
      BY <2>1, <2>4 DEF h
  <1>4. ASSUME NEW k \in 0 .. count - 1
        PROVE  rest[k][Upto(out, to, 2 * k)] = Upto(out, to, 2 * k + 2)
    BY <1>2, MultiplyRestIs
  <1>5. MultiplyAvx512(out, left, right, count) = VectorLoop(count, 4, vector, rest, out)
    BY DEF MultiplyAvx512
  <1> HIDE DEF vector, rest, to
  <1>6. VectorLoop(count, 4, vector, rest, out) = to
    BY <1>1, <1>3, <1>4, VectorSweep
  <1>7. QED
    BY <1>5, <1>6 DEF to

\* NEON multiplies with the reference's bits.
LEMMA MultiplyNeonIsScalar ==
    ASSUME NEW count \in Nat, NEW left \in Memory(2 * count), NEW right \in Memory(2 * count),
           NEW out \in Memory(2 * count)
    PROVE  MultiplyNeon(out, left, right, count) = MultiplyScalar(left, right, count)
  <1> DEFINE to == MultiplyScalar(left, right, count)
             vector == [k \in 0 .. count - 1 |-> [m \in Memory(2 * count) |-> MultiplyPairNeon(m, left, right, k)]]
             rest == [k \in 0 .. count - 1 |-> [m \in Memory(2 * count) |-> MultiplyRest(m, left, right, k)]]
  <1>1. to \in Memory(2 * count)
    BY MultiplyIs
  <1>2. \A k \in 0 .. count - 1 : Upto(out, to, 2 * k) \in Memory(2 * count)
    BY <1>1, UptoIn, 2 * count \in Int, \A k \in 0 .. count - 1 : 2 * k \in Int, Zenon DEF to
  <1>3. ASSUME NEW k \in 0 .. count - 1, k + 2 <= count
        PROVE  vector[k][Upto(out, to, 2 * k)] = Upto(out, to, 2 * k + 2 * 2)
    <2> DEFINE m == Upto(out, to, 2 * k)
               a == Parts(left, k)
               b == Parts(right, k)
               v == ComplexMulNeon(a, b)
               size == 2 * count
    <2>1. vector[k][m] = StoreParts(m, k, v)
      BY <1>2 DEF MultiplyPairNeon
    <2>2. /\ size \in Int /\ 2 * k + 4 <= size /\ k \in Nat
          /\ left \in Memory(size) /\ right \in Memory(size) /\ out \in Memory(size)
          /\ k + 0 \in 0 .. count - 1 /\ k + 1 \in 0 .. count - 1
      BY <1>3
    <2>7. \A n \in 0 .. count - 1 : /\ to[2 * n] = ComplexTimes(Complex(left, n), Complex(right, n))[1]
                                    /\ to[2 * n + 1] = ComplexTimes(Complex(left, n), Complex(right, n))[2]
      BY MultiplyIs
    <2>0. to \in Memory(size)
      BY <1>1
    <2> HIDE DEF size, to
    <2>3. /\ a[1] \in Memory(2) /\ a[2] \in Memory(2)
          /\ \A p \in 0 .. 1 : a[1][p] = left[2 * (k + p)] /\ a[2][p] = left[2 * (k + p) + 1]
      BY <2>2, PartsAre
    <2>4. /\ b[1] \in Memory(2) /\ b[2] \in Memory(2)
          /\ \A p \in 0 .. 1 : b[1][p] = right[2 * (k + p)] /\ b[2][p] = right[2 * (k + p) + 1]
      BY <2>2, PartsAre
    <2> HIDE DEF a, b
    <2>5. /\ v[1] \in Memory(2) /\ v[2] \in Memory(2)
          /\ \A p \in 0 .. 1 : /\ v[1][p] = ComplexTimes(<<a[1][p], a[2][p]>>, <<b[1][p], b[2][p]>>)[1]
                               /\ v[2][p] = ComplexTimes(<<a[1][p], a[2][p]>>, <<b[1][p], b[2][p]>>)[2]
      BY <2>3, <2>4, PartsProduct, SMTT(30)
    <2> HIDE DEF v
    <2>6. ASSUME NEW p \in 0 .. 1
          PROVE  v[1][p] = to[2 * (k + p)] /\ v[2][p] = to[2 * (k + p) + 1]
      <3> DEFINE n == k + p
      <3>1. n \in 0 .. count - 1
        BY <2>2
      <3>2. <<a[1][p], a[2][p]>> = Complex(left, n) /\ <<b[1][p], b[2][p]>> = Complex(right, n)
        BY <2>3, <2>4 DEF Complex
      <3> HIDE DEF n
      <3>3. v[1][p] = to[2 * n] /\ v[2][p] = to[2 * n + 1]
        BY <2>5, <2>7, <3>1, <3>2
      <3>4. QED
        BY <3>3 DEF n
    <2>8. StoreParts(m, k, v) = Upto(out, to, 2 * k + 4)
      BY <2>0, <2>2, <2>5, <2>6, PartsSweep
    <2>9. 2 * k + 4 = 2 * k + 2 * 2
      OBVIOUS
    <2>10. QED
      BY <2>1, <2>8, <2>9
  <1>4. ASSUME NEW k \in 0 .. count - 1
        PROVE  rest[k][Upto(out, to, 2 * k)] = Upto(out, to, 2 * k + 2)
    BY <1>2, MultiplyRestIs
  <1>5. MultiplyNeon(out, left, right, count) = VectorLoop(count, 2, vector, rest, out)
    BY DEF MultiplyNeon
  <1> HIDE DEF vector, rest, to
  <1>6. VectorLoop(count, 2, vector, rest, out) = to
    BY <1>1, <1>3, <1>4, VectorSweep
  <1>7. QED
    BY <1>5, <1>6 DEF to

-----------------------------------------------------------------------------
(* Quotients and remainders.                                               *)

\* Quotient and remainder of naturals, for a divisor that is not a literal.
LEMMA DivMod ==
    ASSUME NEW d \in Nat, d # 0, NEW x \in Nat
    PROVE  x \div d \in Nat /\ x % d \in 0 .. d - 1 /\ x = d * (x \div d) + (x % d)
  <1>1. x \div d \in Int /\ x % d \in 0 .. d - 1 /\ x = d * (x \div d) + (x % d)
    OBVIOUS
  <1> DEFINE q == x \div d
             r == x % d
  <1>2. q \in Int /\ r \in 0 .. d - 1 /\ x = d * q + r
    BY <1>1
  <1> HIDE DEF q, r
  <1>3. ASSUME q < 0 PROVE FALSE
    <2>1. d * q <= d * (0 - 1)
      BY <1>2, <1>3
    <2>2. d * (0 - 1) = 0 - d
      OBVIOUS
    <2>3. QED
      BY <1>2, <2>1, <2>2
  <1>4. QED
    BY <1>2, <1>3 DEF q, r

\* Only one quotient leaves a remainder below the divisor.
LEMMA DivModIs ==
    ASSUME NEW d \in Nat, d # 0, NEW q \in Nat, NEW r \in 0 .. d - 1, NEW x, x = d * q + r
    PROVE  x \div d = q /\ x % d = r
  <1>1. x \in Nat
    OBVIOUS
  <1> DEFINE p == x \div d
             s == x % d
  <1>2. p \in Nat /\ s \in 0 .. d - 1 /\ x = d * p + s
    BY <1>1, DivMod
  <1> HIDE DEF p, s
  <1>3. d * p + s = d * q + r
    BY <1>2
  <1>4. ASSUME NEW a \in Nat, NEW b \in Nat, a < b, NEW t \in 0 .. d - 1, NEW u \in 0 .. d - 1,
               d * a + t = d * b + u
        PROVE  FALSE
    <2> DEFINE k == b - a
    <2>1. k \in Nat /\ k >= 1 /\ b = a + k
      BY <1>4
    <2> HIDE DEF k
    <2>2. d * b = d * a + d * k
      BY <2>1
    <2>3. d * k >= d
      BY <2>1
    <2>4. QED
      BY <1>4, <2>2, <2>3
  <1>5. p = q
    BY <1>2, <1>3, <1>4
  <1>6. s = r
    BY <1>2, <1>3, <1>5
  <1>7. QED
    BY <1>5, <1>6 DEF p, s

-----------------------------------------------------------------------------
(* What accumulates into memory.                                           *)

\* From a complex on, the memory to be there is what was there and the terms.
Accumulates(from, to, k, h, term) ==
    \A p \in 0 .. h - 1 : /\ to[2 * (k + p)] = Plus(from[2 * (k + p)], term[2 * p])
                          /\ to[2 * (k + p) + 1] = Plus(from[2 * (k + p) + 1], term[2 * p + 1])

\* Adding a vector of terms to what comes next does memory up to its end.
LEMMA AccumulateSweeps ==
    ASSUME NEW size \in Int, NEW from \in Memory(size), NEW to \in Memory(size),
           NEW k \in Nat, NEW h \in Nat, 2 * k + 2 * h <= size,
           NEW term \in Memory(2 * h), Accumulates(from, to, k, h, term)
    PROVE  Store(Upto(from, to, 2 * k), 2 * k, Added(Load(Upto(from, to, 2 * k), 2 * k, 2 * h), term))
           = Upto(from, to, 2 * k + 2 * h)
  <1> DEFINE at == 2 * k
             width == 2 * h
             m == Upto(from, to, at)
             a == Load(m, at, width)
             v == Added(a, term)
  <1>1. at \in Nat /\ width \in Nat /\ at + width <= size /\ at \in Int /\ term \in Memory(width)
    OBVIOUS
  <1> HIDE DEF at, width
  <1>2. m \in Memory(size)
    BY <1>1, UptoIn, Zenon
  <1>3. \A i \in 0 .. size - 1 : at <= i => m[i] = from[i]
    BY <1>1, UptoAt
  <1> HIDE DEF m
  <1>4. a \in Memory(width)
    BY <1>1, <1>2, LoadIn, Zenon
  <1>5. \A i \in 0 .. width - 1 : a[i] = m[at + i]
    BY <1>1, <1>2, LoadIs
  <1>6. \A i \in 0 .. width - 1 : a[i] = from[at + i]
    BY <1>1, <1>3, <1>5
  <1> HIDE DEF a
  <1>7. v \in Memory(width) /\ \A i \in 0 .. width - 1 : v[i] = Plus(a[i], term[i])
    BY <1>1, <1>4, LanesAre
  <1> HIDE DEF v
  <1>8. ASSUME NEW p \in 0 .. h - 1
        PROVE  v[2 * p] = to[2 * (k + p)] /\ v[2 * p + 1] = to[2 * (k + p) + 1]
    <2>1. /\ 2 * p \in 0 .. width - 1 /\ 2 * p + 1 \in 0 .. width - 1
          /\ at + 2 * p = 2 * (k + p) /\ at + (2 * p + 1) = 2 * (k + p) + 1
      BY DEF at, width
    <2>2. a[2 * p] = from[2 * (k + p)] /\ a[2 * p + 1] = from[2 * (k + p) + 1]
      BY <1>6, <2>1
    <2>3. QED
      BY <1>7, <2>1, <2>2 DEF Accumulates
  <1>9. Store(Upto(from, to, 2 * k), 2 * k, v) = Upto(from, to, 2 * k + 2 * h)
    BY <1>7, <1>8, ComplexesSweep DEF width
  <1>10. QED
    BY <1>9 DEF v, a, m, at, width

\* The two terms, parts apart, that take memory to what is meant.
PartsTerms(from, to, k, term) ==
    \A p \in 0 .. 1 : /\ to[2 * (k + p)] = Plus(from[2 * (k + p)], term[1][p])
                      /\ to[2 * (k + p) + 1] = Plus(from[2 * (k + p) + 1], term[2][p])

\* Adding two terms, parts apart, to what comes next does memory up to their end.
LEMMA PartsAccumulate ==
    ASSUME NEW size \in Int, NEW from \in Memory(size), NEW to \in Memory(size),
           NEW k \in Nat, 2 * k + 4 <= size,
           NEW term, term[1] \in Memory(2), term[2] \in Memory(2),
           PartsTerms(from, to, k, term)
    PROVE  StoreParts(Upto(from, to, 2 * k), k,
                      [p \in 1 .. 2 |-> Added(Parts(Upto(from, to, 2 * k), k)[p], term[p])])
           = Upto(from, to, 2 * k + 4)
  <1> DEFINE m == Upto(from, to, 2 * k)
             a == Parts(m, k)
             x == Added(a[1], term[1])
             y == Added(a[2], term[2])
             v == [p \in 1 .. 2 |-> Added(a[p], term[p])]
  <1>1. m \in Memory(size)
    BY 2 * k \in Int, UptoIn, Zenon
  <1>2. \A i \in 0 .. size - 1 : 2 * k <= i => m[i] = from[i]
    BY 2 * k \in Int, UptoAt
  <1>0. m = Upto(from, to, 2 * k)
    OBVIOUS
  <1> HIDE DEF m
  <1>3. /\ a[1] \in Memory(2) /\ a[2] \in Memory(2)
        /\ \A p \in 0 .. 1 : a[1][p] = m[2 * (k + p)] /\ a[2][p] = m[2 * (k + p) + 1]
    BY <1>1, PartsAre
  <1>4. \A p \in 0 .. 1 : a[1][p] = from[2 * (k + p)] /\ a[2][p] = from[2 * (k + p) + 1]
    <2>1. SUFFICES ASSUME NEW p \in 0 .. 1
                   PROVE  a[1][p] = from[2 * (k + p)] /\ a[2][p] = from[2 * (k + p) + 1]
      OBVIOUS
    <2>2. 2 * (k + p) \in 0 .. size - 1 /\ 2 * (k + p) + 1 \in 0 .. size - 1 /\ 2 * k <= 2 * (k + p) /\ 2 * k <= 2 * (k + p) + 1
      OBVIOUS
    <2>3. QED
      BY <1>2, <1>3, <2>2
  <1>5. v[1] = x /\ v[2] = y
    OBVIOUS
  <1> HIDE DEF a, v
  <1>6. /\ x \in Memory(2) /\ y \in Memory(2)
        /\ \A p \in 0 .. 1 : x[p] = Plus(a[1][p], term[1][p]) /\ y[p] = Plus(a[2][p], term[2][p])
    BY <1>3, LanesAre
  <1> HIDE DEF x, y
  <1>7. \A p \in 0 .. 1 : v[1][p] = to[2 * (k + p)] /\ v[2][p] = to[2 * (k + p) + 1]
    BY <1>4, <1>5, <1>6 DEF PartsTerms
  <1>8. v[1] \in Memory(2) /\ v[2] \in Memory(2)
    BY <1>5, <1>6
  <1>9. StoreParts(Upto(from, to, 2 * k), k, v) = Upto(from, to, 2 * k + 4)
    BY <1>7, <1>8, PartsSweep
  <1>10. QED
    BY <1>9 DEF v, a, m

\* A vector loop over a part of memory.
Sweeping(vector, rest, from, to, base, count, width) ==
    /\ \A k \in 0 .. count - 1 : k + width <= count =>
           vector[k][Upto(from, to, 2 * (base + k))] = Upto(from, to, 2 * (base + k) + 2 * width)
    /\ \A k \in 0 .. count - 1 : rest[k][Upto(from, to, 2 * (base + k))] = Upto(from, to, 2 * (base + k) + 2)

\* A vectorized loop that sweeps complexes does as many as it counts.
LEMMA SweepFrom ==
    ASSUME NEW count \in Nat, NEW width \in {2, 4}, NEW vector, NEW rest, NEW from, NEW to, NEW base \in Nat,
           Sweeping(vector, rest, from, to, base, count, width)
    PROVE  VectorLoop(count, width, vector, rest, Upto(from, to, 2 * base)) = Upto(from, to, 2 * (base + count))
  <1> DEFINE states == [k \in 0 .. count |-> Upto(from, to, 2 * (base + k))]
             whole == count \div width
  <1>0. /\ whole \in Nat /\ width * whole \in Nat /\ width * whole <= count
        /\ \A j \in 0 .. whole - 1 : width * j \in Nat /\ width * j + width <= width * whole
    BY Whole
  <1>1. states[0] = Upto(from, to, 2 * base) /\ states[count] = Upto(from, to, 2 * (base + count))
    BY base + 0 = base
  <1>2. ASSUME NEW j \in 0 .. whole - 1
        PROVE  states[width * j + width] = vector[width * j][states[width * j]]
    <2> DEFINE k == width * j
    <2>1. k \in 0 .. count - 1 /\ k + width <= count /\ k \in 0 .. count /\ k + width \in 0 .. count
      BY <1>0
    <2> HIDE DEF k
    <2>2. 2 * (base + (k + width)) = 2 * (base + k) + 2 * width
      BY <2>1
    <2>3. vector[k][Upto(from, to, 2 * (base + k))] = Upto(from, to, 2 * (base + k) + 2 * width)
      BY <2>1 DEF Sweeping
    <2>4. states[k + width] = vector[k][states[k]]
      BY <2>1, <2>2, <2>3
    <2>5. QED
      BY <2>4 DEF k
  <1>3. ASSUME NEW k \in width * whole .. count - 1
        PROVE  states[k + 1] = rest[k][states[k]]
    <2>1. k \in 0 .. count - 1 /\ k \in 0 .. count /\ k + 1 \in 0 .. count /\ 2 * (base + (k + 1)) = 2 * (base + k) + 2
      BY <1>0
    <2>2. rest[k][Upto(from, to, 2 * (base + k))] = Upto(from, to, 2 * (base + k) + 2)
      BY <2>1 DEF Sweeping
    <2>3. QED
      BY <2>1, <2>2
  <1> HIDE DEF states
  <1>4. VectorStates(count, width, vector, rest, states)
    BY <1>2, <1>3 DEF VectorStates
  <1>5. VectorLoop(count, width, vector, rest, Upto(from, to, 2 * base)) = states[count]
    BY <1>1, <1>4, VectorLoopStates
  <1>6. QED
    BY <1>1, <1>5

-----------------------------------------------------------------------------
(* The paths.                                                              *)

\* What a complex of a history adds through a complex of a transfer.
TermOf(h, t, scale) ==
    <<Minus(Times(Times(h[1], t[1]), scale), Times(Times(h[2], t[2]), scale)),
      Plus(Times(Times(h[1], t[2]), scale), Times(Times(h[2], t[1]), scale))>>

\* A term of a path is a complex.
LEMMA TermIn ==
    ASSUME NEW h, NEW t, NEW scale \in Doubles,
           h[1] \in Doubles, h[2] \in Doubles, t[1] \in Doubles, t[2] \in Doubles
    PROVE  TermOf(h, t, scale)[1] \in Doubles /\ TermOf(h, t, scale)[2] \in Doubles
  <1>1. /\ Minus(Times(Times(h[1], t[1]), scale), Times(Times(h[2], t[2]), scale)) \in Doubles
        /\ Plus(Times(Times(h[1], t[2]), scale), Times(Times(h[2], t[1]), scale)) \in Doubles
    BY Closed
  <1>2. QED
    BY <1>1 DEF TermOf

\* What a path adds to a band is the term of its history and its transfer.
LEMMA PathTermIs ==
    \A transfer, history, scale, ear, band :
        PathTerm(transfer, history, scale, ear, band)
        = TermOf(Complex(history, band), Complex(transfer, ear * PathBands + band), scale)
  BY DEF PathTerm, TermOf

\* Memory the paths can run over.
PathInputs(out, transfer, histories, scale) ==
    /\ out \in Memory(4 * PathBands) /\ transfer \in Memory(4 * PathBands) /\ scale \in Doubles
    /\ \A ear \in 0 .. 1 : histories[ear] \in Memory(2 * PathBands)

\* What the reference adds for a path, ear by ear and band by band.
LEMMA PathIs ==
    ASSUME NEW out, NEW transfer, NEW histories, NEW scale, PathInputs(out, transfer, histories, scale)
    PROVE  /\ PathScalar(out, transfer, histories, scale) \in Memory(4 * PathBands)
           /\ \A ear \in 0 .. 1, band \in 0 .. PathBands - 1 :
                  LET n == ear * PathBands + band
                      term == TermOf(Complex(histories[ear], band), Complex(transfer, n), scale)
                  IN  /\ PathScalar(out, transfer, histories, scale)[2 * n] = Plus(out[2 * n], term[1])
                      /\ PathScalar(out, transfer, histories, scale)[2 * n + 1] = Plus(out[2 * n + 1], term[2])
                      /\ term[1] \in Doubles /\ term[2] \in Doubles
  <1> DEFINE to == PathScalar(out, transfer, histories, scale)
             P == PathBands
             Term(ear, band) == TermOf(Complex(histories[ear], band), Complex(transfer, ear * P + band), scale)
             size == 4 * P
  <1>0. P \in Nat /\ size \in Nat /\ out \in Memory(size) /\ transfer \in Memory(size) /\ scale \in Doubles
        /\ \A ear \in 0 .. 1 : histories[ear] \in Memory(2 * P)
    BY SizesAssumption DEF PathInputs
  <1>1. to = [i \in 0 .. 4 * P - 1 |-> Plus(out[i], Term((i \div 2) \div P, (i \div 2) % P)[(i % 2) + 1])]
    BY PathTermIs DEF PathScalar
  <1> HIDE DEF to, P
  <1>2. ASSUME NEW ear \in 0 .. 1, NEW band \in 0 .. P - 1
        PROVE  /\ ear * P + band \in 0 .. 2 * P - 1
               /\ (ear * P + band) \div P = ear /\ (ear * P + band) % P = band
    <2>1. P * ear = ear * P /\ ear \in Nat /\ P \in Nat /\ P # 0
      BY <1>0
    <2>2. ear * P + band \in 0 .. 2 * P - 1
      <3>1. CASE ear = 0
        BY <1>0, <3>1
      <3>2. CASE ear = 1
        BY <1>0, <3>2
      <3>3. QED
        BY <3>1, <3>2
    <2> DEFINE n == ear * P + band
    <2>3. n = P * ear + band
      BY <2>1
    <2> HIDE DEF n
    <2>4. n \div P = ear /\ n % P = band
      BY <2>1, <2>3, DivModIs
    <2>5. QED
      BY <2>2, <2>4 DEF n
  <1>3. ASSUME NEW ear \in 0 .. 1, NEW band \in 0 .. P - 1
        PROVE  LET n == ear * P + band
               IN  /\ to[2 * n] = Plus(out[2 * n], Term(ear, band)[1])
                   /\ to[2 * n + 1] = Plus(out[2 * n + 1], Term(ear, band)[2])
    <2> DEFINE n == ear * P + band
    <2>1. n \in 0 .. 2 * P - 1 /\ n \div P = ear /\ n % P = band
      BY <1>2
    <2> HIDE DEF n, Term
    <2> DEFINE a == 2 * n
               b == 2 * n + 1
    <2>2. /\ a \in 0 .. 4 * P - 1 /\ a \div 2 = n /\ (a % 2) + 1 = 1
          /\ b \in 0 .. 4 * P - 1 /\ b \div 2 = n /\ (b % 2) + 1 = 2
      BY <1>0, <2>1
    <2> HIDE DEF a, b
    <2>3. /\ to[a] = Plus(out[a], Term((a \div 2) \div P, (a \div 2) % P)[(a % 2) + 1])
          /\ to[b] = Plus(out[b], Term((b \div 2) \div P, (b \div 2) % P)[(b % 2) + 1])
      BY <1>1, <2>2
    <2>4. to[a] = Plus(out[a], Term(ear, band)[1]) /\ to[b] = Plus(out[b], Term(ear, band)[2])
      BY <2>1, <2>2, <2>3
    <2>5. QED
      BY <2>4 DEF n, a, b
  <1>4. ASSUME NEW ear \in 0 .. 1, NEW band \in 0 .. P - 1
        PROVE  Term(ear, band)[1] \in Doubles /\ Term(ear, band)[2] \in Doubles
    <2> DEFINE n == ear * P + band
               h == Complex(histories[ear], band)
               t == Complex(transfer, n)
               twice == 2 * P
    <2>1. n \in Nat /\ 2 * n + 2 <= size /\ band \in Nat /\ 2 * band + 2 <= twice /\ size \in Int /\ twice \in Int
      BY <1>0, <1>2
    <2>5. transfer \in Memory(size) /\ histories[ear] \in Memory(twice)
      BY <1>0
    <2> HIDE DEF n, size, twice
    <2>2. h[1] \in Doubles /\ h[2] \in Doubles
      BY <2>1, <2>5, ComplexIs
    <2>3. t[1] \in Doubles /\ t[2] \in Doubles
      BY <2>1, <2>5, ComplexIs
    <2> HIDE DEF h, t
    <2>4. TermOf(h, t, scale)[1] \in Doubles /\ TermOf(h, t, scale)[2] \in Doubles
      BY <1>0, <2>2, <2>3, TermIn
    <2>6. QED
      BY <2>4 DEF h, t, n
  <1>5. ASSUME NEW i \in 0 .. size - 1 PROVE to[i] \in Doubles
    <2>1. PICK n \in 0 .. 2 * P - 1 : i = 2 * n \/ i = 2 * n + 1
      <3> DEFINE h == 2 * P
      <3>1. h \in Nat /\ size = 2 * h
        BY <1>0
      <3> HIDE DEF h, size
      <3>2. \E n \in 0 .. h - 1 : i = 2 * n \/ i = 2 * n + 1
        BY <3>1, EveryLane
      <3>3. QED
        BY <3>2 DEF h
    <2>2. PICK ear \in 0 .. 1, band \in 0 .. P - 1 : n = ear * P + band
      <3>1. CASE n < P
        <4>1. n \in 0 .. P - 1 /\ n = 0 * P + n /\ 0 \in 0 .. 1
          BY <1>0, <3>1
        <4>2. QED
          BY <4>1
      <3>2. CASE ~(n < P)
        <4>1. n - P \in 0 .. P - 1 /\ n = 1 * P + (n - P) /\ 1 \in 0 .. 1
          BY <1>0, <3>2
        <4>2. QED
          BY <4>1
      <3>3. QED
        BY <3>1, <3>2
    <2>3. i \in 0 .. size - 1 /\ out[i] \in Doubles
      BY <1>0 DEF Memory
    <2>4. to[i] = Plus(out[i], Term(ear, band)[1]) \/ to[i] = Plus(out[i], Term(ear, band)[2])
      BY <1>3, <2>1, <2>2
    <2> HIDE DEF Term
    <2>5. QED
      BY <1>4, <2>3, <2>4, Closed
  <1>6. to \in Memory(4 * P)
    <2>1. to = [i \in 0 .. 4 * P - 1 |-> to[i]]
      BY <1>1
    <2>2. QED
      BY <1>5, <2>1 DEF Memory
  <1>7. QED
    BY <1>3, <1>4, <1>6 DEF to, P

\* A vector of what complexes of a history add.
Terms(v, bands, tap, scale, h) ==
    LET product == Multiplied(Multiplied(bands, tap), Broadcast(scale, 2 * h))
        crossed == Multiplied(Multiplied(bands, Swapped(tap)), Broadcast(scale, 2 * h))
    IN  \/ v = Blend(PairwiseDifference(product), PairwiseSum(crossed))
        \/ v = Blend(Blend(Subtracted(product, Swapped(product)), product), PairwiseSum(crossed))

\* The vectors the x86 units build are terms in their lanes.
LEMMA TermLanes ==
    ASSUME NEW h \in Nat, NEW a \in Memory(2 * h), NEW b \in Memory(2 * h), NEW scale \in Doubles,
           NEW v, Terms(v, a, b, scale, h)
    PROVE  /\ v \in Memory(2 * h)
           /\ \A p \in 0 .. h - 1 : /\ v[2 * p] = TermOf(Complex(a, p), Complex(b, p), scale)[1]
                                    /\ v[2 * p + 1] = TermOf(Complex(a, p), Complex(b, p), scale)[2]
  <1> DEFINE s == Swapped(b)
             f == Broadcast(scale, 2 * h)
             x1 == Multiplied(a, b)
             y1 == Multiplied(a, s)
             x == Multiplied(x1, f)
             y == Multiplied(y1, f)
  <1>0. 2 * h \in Nat
    OBVIOUS
  <1>1. /\ s \in Memory(2 * h)
        /\ \A p \in 0 .. h - 1 : s[2 * p] = b[2 * p + 1] /\ s[2 * p + 1] = b[2 * p]
    BY SwapIs
  <1>2. f \in Memory(2 * h) /\ \A i \in 0 .. 2 * h - 1 : f[i] = scale
    BY <1>0, BroadcastIs
  <1>8. \/ v = Blend(PairwiseDifference(x), PairwiseSum(y))
        \/ v = Blend(Blend(Subtracted(x, Swapped(x)), x), PairwiseSum(y))
    BY DEF Terms
  <1> HIDE DEF s, f
  <1>3. x1 \in Memory(2 * h) /\ \A i \in 0 .. 2 * h - 1 : x1[i] = Times(a[i], b[i])
    BY <1>0, LanesAre
  <1>4. y1 \in Memory(2 * h) /\ \A i \in 0 .. 2 * h - 1 : y1[i] = Times(a[i], s[i])
    BY <1>0, <1>1, LanesAre
  <1> HIDE DEF x1, y1
  <1>5. x \in Memory(2 * h) /\ \A i \in 0 .. 2 * h - 1 : x[i] = Times(x1[i], f[i])
    BY <1>0, <1>2, <1>3, LanesAre
  <1>6. y \in Memory(2 * h) /\ \A i \in 0 .. 2 * h - 1 : y[i] = Times(y1[i], f[i])
    BY <1>0, <1>2, <1>4, LanesAre
  <1> HIDE DEF x, y
  <1>7. /\ v \in Memory(2 * h)
        /\ \A p \in 0 .. h - 1 : /\ v[2 * p] = Minus(x[2 * p], x[2 * p + 1])
                                 /\ v[2 * p + 1] = Plus(y[2 * p], y[2 * p + 1])
    BY <1>5, <1>6, <1>8, PairwiseIs
  <1>9. ASSUME NEW p \in 0 .. h - 1
        PROVE  /\ v[2 * p] = TermOf(Complex(a, p), Complex(b, p), scale)[1]
               /\ v[2 * p + 1] = TermOf(Complex(a, p), Complex(b, p), scale)[2]
    <2>1. 2 * p \in 0 .. 2 * h - 1 /\ 2 * p + 1 \in 0 .. 2 * h - 1
      OBVIOUS
    <2>2. /\ x[2 * p] = Times(Times(a[2 * p], b[2 * p]), scale)
          /\ x[2 * p + 1] = Times(Times(a[2 * p + 1], b[2 * p + 1]), scale)
          /\ y[2 * p] = Times(Times(a[2 * p], b[2 * p + 1]), scale)
          /\ y[2 * p + 1] = Times(Times(a[2 * p + 1], b[2 * p]), scale)
      BY <1>1, <1>2, <1>3, <1>4, <1>5, <1>6, <2>1
    <2>3. QED
      BY <1>7, <2>2 DEF TermOf, Complex
  <1>10. QED
    BY <1>7, <1>9

\* A vector of the bands of an ear.
PathVector(v, transfer, histories, scale, ear, band, h) ==
    Terms(v, Load(histories[ear], 2 * band, 2 * h), Load(transfer, 2 * (ear * PathBands + band), 2 * h), scale, h)

\* A vector of bands adds their terms.
LEMMA PathVectorSweeps ==
    ASSUME NEW out, NEW transfer, NEW histories, NEW scale, PathInputs(out, transfer, histories, scale),
           NEW ear \in 0 .. 1, NEW band \in Nat, NEW h \in Nat, band + h <= PathBands,
           NEW v, PathVector(v, transfer, histories, scale, ear, band, h),
           NEW n, n = ear * PathBands + band, NEW to, to = PathScalar(out, transfer, histories, scale)
    PROVE  Store(Upto(out, to, 2 * n), 2 * n, Added(Load(Upto(out, to, 2 * n), 2 * n, 2 * h), v))
           = Upto(out, to, 2 * n + 2 * h)
  <1> DEFINE P == PathBands
             size == 4 * P
             twice == 2 * P
             history == histories[ear]
             a == Load(history, 2 * band, 2 * h)
             b == Load(transfer, 2 * n, 2 * h)
  <1>1. /\ P \in Nat /\ size \in Int /\ twice \in Int
        /\ out \in Memory(size) /\ transfer \in Memory(size) /\ scale \in Doubles /\ history \in Memory(twice)
    <2>1. P \in Nat
      BY SizesAssumption
    <2>2. out \in Memory(size) /\ transfer \in Memory(size) /\ scale \in Doubles /\ history \in Memory(twice)
      BY DEF PathInputs
    <2>3. QED
      BY <2>1, <2>2
  <1>2. /\ to \in Memory(size)
        /\ \A e \in 0 .. 1, k \in 0 .. P - 1 :
                  LET m == e * P + k
                      term == TermOf(Complex(histories[e], k), Complex(transfer, m), scale)
                  IN  /\ to[2 * m] = Plus(out[2 * m], term[1])
                      /\ to[2 * m + 1] = Plus(out[2 * m + 1], term[2])
    BY PathIs
  <1>3. n \in Nat /\ n + h <= 2 * P
    <2>1. CASE ear = 0
      BY <1>1, <2>1
    <2>2. CASE ear = 1
      BY <1>1, <2>2
    <2>3. QED
      BY <2>1, <2>2
  <1>4. 2 * n + 2 * h <= size /\ 2 * band + 2 * h <= twice /\ 2 * n \in Nat /\ 2 * band \in Nat /\ 2 * h \in Nat
    BY <1>1, <1>3
  <1>5. Terms(v, a, b, scale, h)
    BY DEF PathVector
  <1> HIDE DEF size, twice, history
  <1>6. a \in Memory(2 * h) /\ b \in Memory(2 * h)
    BY <1>1, <1>3, <1>4, LoadIn, Zenon
  <1>12. LoadedFrom(a, history, band, h) /\ LoadedFrom(b, transfer, n, h)
    BY DEF LoadedFrom
  <1> HIDE DEF a, b
  <1>7. \A p \in 0 .. h - 1 : Complex(a, p) = Complex(history, band + p) /\ Complex(b, p) = Complex(transfer, n + p)
    BY <1>1, <1>3, <1>4, <1>12, LoadedComplex
  <1>8. /\ v \in Memory(2 * h)
        /\ \A p \in 0 .. h - 1 : /\ v[2 * p] = TermOf(Complex(a, p), Complex(b, p), scale)[1]
                                 /\ v[2 * p + 1] = TermOf(Complex(a, p), Complex(b, p), scale)[2]
    BY <1>1, <1>5, <1>6, TermLanes
  <1>9. ASSUME NEW p \in 0 .. h - 1
        PROVE  /\ to[2 * (n + p)] = Plus(out[2 * (n + p)], v[2 * p])
               /\ to[2 * (n + p) + 1] = Plus(out[2 * (n + p) + 1], v[2 * p + 1])
    <2> DEFINE k == band + p
               m == ear * P + k
               term == TermOf(Complex(history, k), Complex(transfer, m), scale)
    <2>1. k \in 0 .. P - 1
      BY <1>1
    <2>2. m = n + p
      <3>1. ear * P \in Nat
        BY <1>1
      <3>2. QED
        BY <3>1
    <2>3. v[2 * p] = term[1] /\ v[2 * p + 1] = term[2]
      BY <1>7, <1>8, <2>2
    <2> HIDE DEF k
    <2>4. to[2 * m] = Plus(out[2 * m], term[1]) /\ to[2 * m + 1] = Plus(out[2 * m + 1], term[2])
      BY <1>2, <2>1 DEF history
    <2> HIDE DEF m, term
    <2>5. QED
      BY <2>2, <2>3, <2>4
  <1>10. Accumulates(out, to, n, h, v)
    BY <1>9 DEF Accumulates
  <1>11. QED
    BY <1>1, <1>2, <1>3, <1>4, <1>8, <1>10, AccumulateSweeps

\* The scalar rest of the bands adds its term.
LEMMA PathRestSweeps ==
    ASSUME NEW out, NEW transfer, NEW histories, NEW scale, PathInputs(out, transfer, histories, scale),
           NEW ear \in 0 .. 1, NEW band \in 0 .. PathBands - 1,
           NEW n, n = ear * PathBands + band, NEW to, to = PathScalar(out, transfer, histories, scale)
    PROVE  PathRest(Upto(out, to, 2 * n), transfer, histories[ear], scale, ear, band) = Upto(out, to, 2 * n + 2)
  <1> DEFINE P == PathBands
             size == 4 * P
             m == Upto(out, to, 2 * n)
             term == TermOf(Complex(histories[ear], band), Complex(transfer, n), scale)
             value == ComplexPlus(Complex(m, n), term)
  <1>1. P \in Nat /\ size \in Int /\ out \in Memory(size)
    BY SizesAssumption DEF PathInputs
  <1>2. n \in Nat /\ 2 * n + 2 <= size
    <2>1. CASE ear = 0
      BY <1>1, <2>1
    <2>2. CASE ear = 1
      BY <1>1, <2>2
    <2>3. QED
      BY <2>1, <2>2
  <1>3. to \in Memory(size) /\ to[2 * n] = Plus(out[2 * n], term[1]) /\ to[2 * n + 1] = Plus(out[2 * n + 1], term[2])
    BY PathIs
  <1>4. m[2 * n] = out[2 * n] /\ m[2 * n + 1] = out[2 * n + 1]
    <2> HIDE DEF size
    <2>1. \A i \in 0 .. size - 1 : 2 * n <= i => m[i] = out[i]
      BY <1>1, <1>2, <1>3, UptoAt, 2 * n \in Int, SMTT(30)
    <2> HIDE DEF m
    <2>2. QED
      BY <1>1, <1>2, <2>1
  <1>5. PathRest(m, transfer, histories[ear], scale, ear, band) = PutComplex(m, n, value)
    BY PathTermIs, Zenon DEF PathRest
  <1>6. value[1] = to[2 * n] /\ value[2] = to[2 * n + 1]
    BY <1>3, <1>4 DEF ComplexPlus, Complex
  <1> HIDE DEF size, value
  <1>7. PutComplex(Upto(out, to, 2 * n), n, value) = Upto(out, to, 2 * n + 2)
    BY <1>1, <1>2, <1>3, <1>6, PutSweeps
  <1>8. QED
    BY <1>5, <1>7 DEF m

\* One ear after the other.
EarsSweep(body, from, to) ==
    \A ear \in 0 .. 1 : body[ear][Upto(from, to, 2 * (ear * PathBands))] = Upto(from, to, 2 * (ear * PathBands + PathBands))

\* Both ears done is all done.
LEMMA EarLoop ==
    ASSUME NEW body, NEW from \in Memory(4 * PathBands), NEW to \in Memory(4 * PathBands), EarsSweep(body, from, to)
    PROVE  Loop(2, body, from) = to
  <1> DEFINE P == PathBands
             size == 4 * P
             place == [e \in 0 .. 2 |-> IF e = 0 THEN 0 ELSE IF e = 1 THEN 2 * P ELSE size]
             states == [e \in 0 .. 2 |-> Upto(from, to, place[e])]
  <1>1. P \in Nat
    BY SizesAssumption
  <1>2. Upto(from, to, 0) = from /\ Upto(from, to, size) = to
    BY <1>1, UptoEnds, size \in Nat
  <1>3. /\ 2 * (0 * P) = place[0] /\ 2 * (0 * P + P) = place[1]
        /\ 2 * (1 * P) = place[1] /\ 2 * (1 * P + P) = place[2]
    BY <1>1
  <1>4. /\ states[0] = from /\ states[2] = to
        /\ states[0 + 1] = body[0][states[0]] /\ states[1 + 1] = body[1][states[1]]
    <2>1. states[0] = Upto(from, to, place[0]) /\ states[1] = Upto(from, to, place[1]) /\ states[2] = Upto(from, to, place[2])
      OBVIOUS
    <2>2. place[0] = 0 /\ place[2] = size
      OBVIOUS
    <2>3. /\ body[0][Upto(from, to, 2 * (0 * P))] = Upto(from, to, 2 * (0 * P + P))
          /\ body[1][Upto(from, to, 2 * (1 * P))] = Upto(from, to, 2 * (1 * P + P))
      BY 0 \in 0 .. 1, 1 \in 0 .. 1, Zenon DEF EarsSweep
    <2> HIDE DEF place, states, P, size
    <2>4. 0 + 1 = 1 /\ 1 + 1 = 2
      OBVIOUS
    <2>5. /\ body[0][Upto(from, to, place[0])] = Upto(from, to, place[1])
          /\ body[1][Upto(from, to, place[1])] = Upto(from, to, place[2])
      BY <1>3, <2>3, Zenon
    <2>6. QED
      BY <1>2, <2>1, <2>2, <2>4, <2>5, Zenon
  <1> HIDE DEF states
  <1>5. Through(states, 2, body, from)
    BY <1>4 DEF Through
  <1>6. QED
    BY <1>4, <1>5, LoopStates, ZenonT(40)

\* AVX2 renders a path with the reference's bits.
LEMMA PathAvx2IsScalar ==
    ASSUME NEW out, NEW transfer, NEW histories, NEW scale, PathInputs(out, transfer, histories, scale)
    PROVE  PathAvx2(out, transfer, histories, scale) = PathScalar(out, transfer, histories, scale)
  <1> DEFINE P == PathBands
             to == PathScalar(out, transfer, histories, scale)
             size == 4 * P
             vector(ear) == [band \in 0 .. PathBands - 1 |-> [m \in Memory(4 * PathBands) |->
                                PathPair(m, transfer, histories[ear], scale, ear, band)]]
             rest(ear) == [band \in 0 .. PathBands - 1 |-> [m \in Memory(4 * PathBands) |->
                              PathRest(m, transfer, histories[ear], scale, ear, band)]]
             body == [ear \in 0 .. 1 |-> [m \in Memory(4 * PathBands) |->
                         VectorLoop(PathBands, 2, vector(ear), rest(ear), m)]]
  <1>1. P \in Nat /\ size \in Int
    BY SizesAssumption
  <1>2. out \in Memory(size) /\ to \in Memory(size)
    BY PathIs DEF PathInputs
  <1>3. \A n \in Int : Upto(out, to, n) \in Memory(size)
    <2> HIDE DEF to, size
    <2>1. QED
      BY <1>1, <1>2, UptoIn, Zenon
  <1>4. ASSUME NEW ear \in 0 .. 1, NEW band \in 0 .. P - 1, NEW n \in Nat, n = ear * P + band, band + 2 <= P
        PROVE  vector(ear)[band][Upto(out, to, 2 * n)] = Upto(out, to, 2 * n + 2 * 2)
    <2> DEFINE h == 2
               m == Upto(out, to, 2 * n)
               a == Load(histories[ear], 2 * band, 2 * h)
               b == Load(transfer, 2 * (ear * PathBands + band), 2 * h)
               x == Multiplied(Multiplied(a, b), Broadcast(scale, 2 * h))
               y == Multiplied(Multiplied(a, Swapped(b)), Broadcast(scale, 2 * h))
               v == Blend(PairwiseDifference(x), PairwiseSum(y))
    <2>1. vector(ear)[band][m] = PathPair(m, transfer, histories[ear], scale, ear, band)
      BY <1>3, 2 * n \in Int
    <2>2. PathPair(m, transfer, histories[ear], scale, ear, band) = Store(m, 2 * n, Added(Load(m, 2 * n, 2 * h), v))
      BY <1>4, 2 * h = 2 * 2, IsEvaluated DEF PathPair
    <2>3. PathVector(v, transfer, histories, scale, ear, band, h)
      BY DEF PathVector, Terms
    <2>4. h \in Nat /\ band \in Nat /\ band + h <= PathBands
      BY <1>4
    <2> HIDE DEF h, v, vector
    <2>5. Store(m, 2 * n, Added(Load(m, 2 * n, 2 * h), v)) = Upto(out, to, 2 * n + 2 * h)
      BY <1>4, <2>3, <2>4, PathVectorSweeps
    <2>6. QED
      BY <2>1, <2>2, <2>5 DEF h
  <1>5. ASSUME NEW ear \in 0 .. 1, NEW band \in 0 .. P - 1, NEW n \in Nat, n = ear * P + band
        PROVE  rest(ear)[band][Upto(out, to, 2 * n)] = Upto(out, to, 2 * n + 2)
    <2>1. rest(ear)[band][Upto(out, to, 2 * n)]
          = PathRest(Upto(out, to, 2 * n), transfer, histories[ear], scale, ear, band)
      BY <1>3, 2 * n \in Int
    <2>2. QED
      BY <1>5, <2>1, PathRestSweeps
  <1>6. ASSUME NEW ear \in 0 .. 1
        PROVE  body[ear][Upto(out, to, 2 * (ear * P))] = Upto(out, to, 2 * (ear * P + P))
    <2> DEFINE base == ear * P
               x == vector(ear)
               y == rest(ear)
    <2>1. base \in Nat
      BY <1>1
    <2>2. body[ear][Upto(out, to, 2 * base)] = VectorLoop(P, 2, x, y, Upto(out, to, 2 * base))
      BY <1>3, <2>1, 2 * base \in Int
    <2>3. /\ \A k \in 0 .. P - 1 : k + 2 <= P =>
                 x[k][Upto(out, to, 2 * (base + k))] = Upto(out, to, 2 * (base + k) + 2 * 2)
          /\ \A k \in 0 .. P - 1 : y[k][Upto(out, to, 2 * (base + k))] = Upto(out, to, 2 * (base + k) + 2)
      BY <1>4, <1>5, <2>1, \A k \in 0 .. P - 1 : base + k \in Nat
    <2> HIDE DEF x, y, base, to, P
    <2>4. Sweeping(x, y, out, to, base, P, 2)
      BY <2>3 DEF Sweeping
    <2>5. VectorLoop(P, 2, x, y, Upto(out, to, 2 * base)) = Upto(out, to, 2 * (base + P))
      BY <1>1, <2>1, <2>4, SweepFrom
    <2>6. QED
      BY <2>2, <2>5 DEF base
  <1>7. PathAvx2(out, transfer, histories, scale) = Loop(2, body, out)
    BY DEF PathAvx2
  <1> HIDE DEF body, to
  <1>8. EarsSweep(body, out, to)
    BY <1>6 DEF EarsSweep
  <1>9. Loop(2, body, out) = to
    BY <1>2, <1>8, EarLoop
  <1>10. QED
    BY <1>7, <1>9 DEF to

\* AVX-512 renders a path with the reference's bits.
LEMMA PathAvx512IsScalar ==
    ASSUME NEW out, NEW transfer, NEW histories, NEW scale, PathInputs(out, transfer, histories, scale)
    PROVE  PathAvx512(out, transfer, histories, scale) = PathScalar(out, transfer, histories, scale)
  <1> DEFINE P == PathBands
             to == PathScalar(out, transfer, histories, scale)
             size == 4 * P
             vector(ear) == [band \in 0 .. PathBands - 1 |-> [m \in Memory(4 * PathBands) |->
                                PathQuad(m, transfer, histories[ear], scale, ear, band)]]
             rest(ear) == [band \in 0 .. PathBands - 1 |-> [m \in Memory(4 * PathBands) |->
                              PathRest(m, transfer, histories[ear], scale, ear, band)]]
             body == [ear \in 0 .. 1 |-> [m \in Memory(4 * PathBands) |->
                         VectorLoop(PathBands, 4, vector(ear), rest(ear), m)]]
  <1>1. P \in Nat /\ size \in Int
    BY SizesAssumption
  <1>2. out \in Memory(size) /\ to \in Memory(size)
    BY PathIs DEF PathInputs
  <1>3. \A n \in Int : Upto(out, to, n) \in Memory(size)
    <2> HIDE DEF to, size
    <2>1. QED
      BY <1>1, <1>2, UptoIn, Zenon
  <1>4. ASSUME NEW ear \in 0 .. 1, NEW band \in 0 .. P - 1, NEW n \in Nat, n = ear * P + band, band + 4 <= P
        PROVE  vector(ear)[band][Upto(out, to, 2 * n)] = Upto(out, to, 2 * n + 2 * 4)
    <2> DEFINE h == 4
               m == Upto(out, to, 2 * n)
               a == Load(histories[ear], 2 * band, 2 * h)
               b == Load(transfer, 2 * (ear * PathBands + band), 2 * h)
               x == Multiplied(Multiplied(a, b), Broadcast(scale, 2 * h))
               y == Multiplied(Multiplied(a, Swapped(b)), Broadcast(scale, 2 * h))
               v == Blend(Blend(Subtracted(x, Swapped(x)), x), PairwiseSum(y))
    <2>1. vector(ear)[band][m] = PathQuad(m, transfer, histories[ear], scale, ear, band)
      BY <1>3, 2 * n \in Int
    <2>2. PathQuad(m, transfer, histories[ear], scale, ear, band) = Store(m, 2 * n, Added(Load(m, 2 * n, 2 * h), v))
      BY <1>4, 2 * h = 2 * 4, IsEvaluated DEF PathQuad
    <2>3. PathVector(v, transfer, histories, scale, ear, band, h)
      BY DEF PathVector, Terms
    <2>4. h \in Nat /\ band \in Nat /\ band + h <= PathBands
      BY <1>4
    <2> HIDE DEF h, v, vector
    <2>5. Store(m, 2 * n, Added(Load(m, 2 * n, 2 * h), v)) = Upto(out, to, 2 * n + 2 * h)
      BY <1>4, <2>3, <2>4, PathVectorSweeps
    <2>6. QED
      BY <2>1, <2>2, <2>5 DEF h
  <1>5. ASSUME NEW ear \in 0 .. 1, NEW band \in 0 .. P - 1, NEW n \in Nat, n = ear * P + band
        PROVE  rest(ear)[band][Upto(out, to, 2 * n)] = Upto(out, to, 2 * n + 2)
    <2>1. rest(ear)[band][Upto(out, to, 2 * n)]
          = PathRest(Upto(out, to, 2 * n), transfer, histories[ear], scale, ear, band)
      BY <1>3, 2 * n \in Int
    <2>2. QED
      BY <1>5, <2>1, PathRestSweeps
  <1>6. ASSUME NEW ear \in 0 .. 1
        PROVE  body[ear][Upto(out, to, 2 * (ear * P))] = Upto(out, to, 2 * (ear * P + P))
    <2> DEFINE base == ear * P
               x == vector(ear)
               y == rest(ear)
    <2>1. base \in Nat
      BY <1>1
    <2>2. body[ear][Upto(out, to, 2 * base)] = VectorLoop(P, 4, x, y, Upto(out, to, 2 * base))
      BY <1>3, <2>1, 2 * base \in Int
    <2>3. /\ \A k \in 0 .. P - 1 : k + 4 <= P =>
                 x[k][Upto(out, to, 2 * (base + k))] = Upto(out, to, 2 * (base + k) + 2 * 4)
          /\ \A k \in 0 .. P - 1 : y[k][Upto(out, to, 2 * (base + k))] = Upto(out, to, 2 * (base + k) + 2)
      BY <1>4, <1>5, <2>1, \A k \in 0 .. P - 1 : base + k \in Nat
    <2> HIDE DEF x, y, base, to, P
    <2>4. Sweeping(x, y, out, to, base, P, 4)
      BY <2>3 DEF Sweeping
    <2>5. VectorLoop(P, 4, x, y, Upto(out, to, 2 * base)) = Upto(out, to, 2 * (base + P))
      BY <1>1, <2>1, <2>4, SweepFrom
    <2>6. QED
      BY <2>2, <2>5 DEF base
  <1>7. PathAvx512(out, transfer, histories, scale) = Loop(2, body, out)
    BY DEF PathAvx512
  <1> HIDE DEF body, to
  <1>8. EarsSweep(body, out, to)
    BY <1>6 DEF EarsSweep
  <1>9. Loop(2, body, out) = to
    BY <1>2, <1>8, EarLoop
  <1>10. QED
    BY <1>7, <1>9 DEF to

\* NEON's terms, parts apart, are the terms.
LEMMA TermParts ==
    ASSUME NEW a, NEW b, NEW scale \in Doubles, NEW f, f = Broadcast(scale, 2),
           a[1] \in Memory(2), a[2] \in Memory(2), b[1] \in Memory(2), b[2] \in Memory(2)
    PROVE  /\ PathTermNeon(a, b, f)[1] \in Memory(2) /\ PathTermNeon(a, b, f)[2] \in Memory(2)
           /\ \A p \in 0 .. 1 :
                  /\ PathTermNeon(a, b, f)[1][p] = TermOf(<<a[1][p], a[2][p]>>, <<b[1][p], b[2][p]>>, scale)[1]
                  /\ PathTermNeon(a, b, f)[2][p] = TermOf(<<a[1][p], a[2][p]>>, <<b[1][p], b[2][p]>>, scale)[2]
  <1>0. f \in Memory(2) /\ \A p \in 0 .. 1 : f[p] = scale
    BY BroadcastIs
  <1>1. \A g, h \in Memory(2) : /\ Scaled(g, h, f) \in Memory(2)
                                /\ \A p \in 0 .. 1 : Scaled(g, h, f)[p] = Times(Times(g[p], h[p]), scale)
    <2>1. SUFFICES ASSUME NEW g \in Memory(2), NEW h \in Memory(2)
                   PROVE  /\ Scaled(g, h, f) \in Memory(2)
                          /\ \A p \in 0 .. 1 : Scaled(g, h, f)[p] = Times(Times(g[p], h[p]), scale)
      OBVIOUS
    <2> DEFINE x == Multiplied(g, h)
               y == Multiplied(x, f)
    <2>2. x \in Memory(2) /\ \A p \in 0 .. 1 : x[p] = Times(g[p], h[p])
      BY LanesAre
    <2> HIDE DEF x
    <2>3. y \in Memory(2) /\ \A p \in 0 .. 1 : y[p] = Times(x[p], f[p])
      BY <1>0, <2>2, LanesAre
    <2> HIDE DEF y
    <2>4. Scaled(g, h, f) = y
      BY DEF Scaled, y, x
    <2>5. QED
      BY <1>0, <2>2, <2>3, <2>4
  <1> DEFINE x == Scaled(a[1], b[1], f)
             y == Scaled(a[2], b[2], f)
             z == Scaled(a[1], b[2], f)
             t == Scaled(a[2], b[1], f)
             r == Subtracted(x, y)
             i == Added(z, t)
  <1>2. PathTermNeon(a, b, f)[1] = r /\ PathTermNeon(a, b, f)[2] = i
    BY DEF PathTermNeon
  <1>3. /\ x \in Memory(2) /\ y \in Memory(2) /\ z \in Memory(2) /\ t \in Memory(2)
        /\ \A p \in 0 .. 1 : /\ x[p] = Times(Times(a[1][p], b[1][p]), scale) /\ y[p] = Times(Times(a[2][p], b[2][p]), scale)
                             /\ z[p] = Times(Times(a[1][p], b[2][p]), scale) /\ t[p] = Times(Times(a[2][p], b[1][p]), scale)
    BY <1>1
  <1> HIDE DEF x, y, z, t
  <1>4. /\ r \in Memory(2) /\ i \in Memory(2)
        /\ \A p \in 0 .. 1 : r[p] = Minus(x[p], y[p]) /\ i[p] = Plus(z[p], t[p])
    BY <1>3, LanesAre
  <1> HIDE DEF r, i
  <1>5. QED
    BY <1>2, <1>3, <1>4 DEF TermOf

\* NEON renders a path with the reference's bits.
LEMMA PathNeonIsScalar ==
    ASSUME NEW out, NEW transfer, NEW histories, NEW scale, PathInputs(out, transfer, histories, scale)
    PROVE  PathNeon(out, transfer, histories, scale) = PathScalar(out, transfer, histories, scale)
  <1> DEFINE P == PathBands
             to == PathScalar(out, transfer, histories, scale)
             size == 4 * P
             vector(ear) == [band \in 0 .. PathBands - 1 |-> [m \in Memory(4 * PathBands) |->
                                PathPairNeon(m, transfer, histories[ear], scale, ear, band)]]
             rest(ear) == [band \in 0 .. PathBands - 1 |-> [m \in Memory(4 * PathBands) |->
                              PathRest(m, transfer, histories[ear], scale, ear, band)]]
             body == [ear \in 0 .. 1 |-> [m \in Memory(4 * PathBands) |->
                         VectorLoop(PathBands, 2, vector(ear), rest(ear), m)]]
  <1>1. P \in Nat /\ size \in Int
    BY SizesAssumption
  <1>2. out \in Memory(size) /\ to \in Memory(size)
    BY PathIs DEF PathInputs
  <1>3. \A n \in Int : Upto(out, to, n) \in Memory(size)
    <2> HIDE DEF to, size
    <2>1. QED
      BY <1>1, <1>2, UptoIn, Zenon
  <1>4. ASSUME NEW ear \in 0 .. 1, NEW band \in 0 .. P - 1, NEW n \in Nat, n = ear * P + band, band + 2 <= P
        PROVE  vector(ear)[band][Upto(out, to, 2 * n)] = Upto(out, to, 2 * n + 2 * 2)
    <2> DEFINE m == Upto(out, to, 2 * n)
               a == Parts(histories[ear], band)
               b == Parts(transfer, n)
               f == Broadcast(scale, 2)
               term == PathTermNeon(a, b, f)
               v == [p \in 1 .. 2 |-> Added(Parts(m, n)[p], term[p])]
               twice == 2 * P
    <2>1. vector(ear)[band][m] = PathPairNeon(m, transfer, histories[ear], scale, ear, band)
      BY <1>3, 2 * n \in Int
    <2>2. PathPairNeon(m, transfer, histories[ear], scale, ear, band) = StoreParts(m, n, v)
      BY <1>4 DEF PathPairNeon
    <2> HIDE DEF vector
    <2>3. n + 2 <= 2 * P
      <3>1. CASE ear = 0
        BY <1>1, <1>4, <3>1
      <3>2. CASE ear = 1
        BY <1>1, <1>4, <3>2
      <3>3. QED
        BY <3>1, <3>2
    <2>4. band \in Nat /\ 2 * band + 4 <= twice /\ 2 * n + 4 <= size /\ twice \in Int
      BY <1>1, <1>4, <2>3
    <2>5. histories[ear] \in Memory(twice) /\ transfer \in Memory(size) /\ scale \in Doubles
      BY DEF PathInputs
    <2>6. /\ to \in Memory(size)
          /\ \A e \in 0 .. 1, k \in 0 .. P - 1 :
                  LET l == e * P + k
                      t == TermOf(Complex(histories[e], k), Complex(transfer, l), scale)
                  IN  /\ to[2 * l] = Plus(out[2 * l], t[1])
                      /\ to[2 * l + 1] = Plus(out[2 * l + 1], t[2])
      BY PathIs
    <2> HIDE DEF size, twice, to
    <2>7. /\ a[1] \in Memory(2) /\ a[2] \in Memory(2)
          /\ \A p \in 0 .. 1 : a[1][p] = histories[ear][2 * (band + p)] /\ a[2][p] = histories[ear][2 * (band + p) + 1]
      BY <2>4, <2>5, PartsAre
    <2>8. /\ b[1] \in Memory(2) /\ b[2] \in Memory(2)
          /\ \A p \in 0 .. 1 : b[1][p] = transfer[2 * (n + p)] /\ b[2][p] = transfer[2 * (n + p) + 1]
      BY <1>1, <2>4, <2>5, PartsAre
    <2>9. f = Broadcast(scale, 2) /\ term = PathTermNeon(a, b, f)
      OBVIOUS
    <2> HIDE DEF a, b, f, term
    <2>10. /\ term[1] \in Memory(2) /\ term[2] \in Memory(2)
           /\ \A p \in 0 .. 1 : /\ term[1][p] = TermOf(<<a[1][p], a[2][p]>>, <<b[1][p], b[2][p]>>, scale)[1]
                                /\ term[2][p] = TermOf(<<a[1][p], a[2][p]>>, <<b[1][p], b[2][p]>>, scale)[2]
      BY <2>5, <2>7, <2>8, <2>9, TermParts, SMTT(30)
    <2>11. ASSUME NEW p \in 0 .. 1
           PROVE  /\ to[2 * (n + p)] = Plus(out[2 * (n + p)], term[1][p])
                  /\ to[2 * (n + p) + 1] = Plus(out[2 * (n + p) + 1], term[2][p])
      <3> DEFINE k == band + p
                 l == ear * P + k
      <3>1. k \in 0 .. P - 1
        BY <1>1, <1>4
      <3>2. l = n + p
        <4>1. ear * P \in Nat
          BY <1>1
        <4>2. QED
          BY <1>4, <4>1
      <3>3. <<a[1][p], a[2][p]>> = Complex(histories[ear], k) /\ <<b[1][p], b[2][p]>> = Complex(transfer, l)
        BY <2>7, <2>8, <3>2 DEF Complex
      <3> HIDE DEF k
      <3> DEFINE t == TermOf(Complex(histories[ear], k), Complex(transfer, l), scale)
      <3>4. to[2 * l] = Plus(out[2 * l], t[1]) /\ to[2 * l + 1] = Plus(out[2 * l + 1], t[2])
        BY <2>6, <3>1
      <3>5. term[1][p] = t[1] /\ term[2][p] = t[2]
        BY <2>10, <3>3
      <3> HIDE DEF l, t
      <3>6. QED
        BY <3>2, <3>4, <3>5
    <2>12. PartsTerms(out, to, n, term)
      BY <2>11 DEF PartsTerms
    <2>13. StoreParts(m, n, v) = Upto(out, to, 2 * n + 4)
      BY <1>1, <1>2, <2>4, <2>6, <2>10, <2>12, PartsAccumulate
    <2>14. 2 * n + 4 = 2 * n + 2 * 2
      OBVIOUS
    <2>15. QED
      BY <2>1, <2>2, <2>13, <2>14
  <1>5. ASSUME NEW ear \in 0 .. 1, NEW band \in 0 .. P - 1, NEW n \in Nat, n = ear * P + band
        PROVE  rest(ear)[band][Upto(out, to, 2 * n)] = Upto(out, to, 2 * n + 2)
    <2>1. rest(ear)[band][Upto(out, to, 2 * n)]
          = PathRest(Upto(out, to, 2 * n), transfer, histories[ear], scale, ear, band)
      BY <1>3, 2 * n \in Int
    <2>2. QED
      BY <1>5, <2>1, PathRestSweeps
  <1>6. ASSUME NEW ear \in 0 .. 1
        PROVE  body[ear][Upto(out, to, 2 * (ear * P))] = Upto(out, to, 2 * (ear * P + P))
    <2> DEFINE base == ear * P
               x == vector(ear)
               y == rest(ear)
    <2>1. base \in Nat
      BY <1>1
    <2>2. body[ear][Upto(out, to, 2 * base)] = VectorLoop(P, 2, x, y, Upto(out, to, 2 * base))
      BY <1>3, <2>1, 2 * base \in Int
    <2>3. /\ \A k \in 0 .. P - 1 : k + 2 <= P =>
                 x[k][Upto(out, to, 2 * (base + k))] = Upto(out, to, 2 * (base + k) + 2 * 2)
          /\ \A k \in 0 .. P - 1 : y[k][Upto(out, to, 2 * (base + k))] = Upto(out, to, 2 * (base + k) + 2)
      BY <1>4, <1>5, <2>1, \A k \in 0 .. P - 1 : base + k \in Nat
    <2> HIDE DEF x, y, base, to, P
    <2>4. Sweeping(x, y, out, to, base, P, 2)
      BY <2>3 DEF Sweeping
    <2>5. VectorLoop(P, 2, x, y, Upto(out, to, 2 * base)) = Upto(out, to, 2 * (base + P))
      BY <1>1, <2>1, <2>4, SweepFrom
    <2>6. QED
      BY <2>2, <2>5 DEF base
  <1>7. PathNeon(out, transfer, histories, scale) = Loop(2, body, out)
    BY DEF PathNeon
  <1> HIDE DEF body, to
  <1>8. EarsSweep(body, out, to)
    BY <1>6 DEF EarsSweep
  <1>9. Loop(2, body, out) = to
    BY <1>2, <1>8, EarLoop
  <1>10. QED
    BY <1>7, <1>9 DEF to

-----------------------------------------------------------------------------
(* Rows.                                                                   *)

\* A loop that sweeps memory in equal steps.
Sweeps(body, from, to, base, step, count) ==
    \A j \in 0 .. count - 1 : body[j][Upto(from, to, base + step * j)] = Upto(from, to, base + step * j + step)

\* A loop whose every step does what comes next does as much as it steps.
LEMMA SweepLoop ==
    ASSUME NEW count \in Nat, NEW step \in Nat, NEW base \in Nat, NEW body, NEW from, NEW to,
           Sweeps(body, from, to, base, step, count)
    PROVE  Loop(count, body, Upto(from, to, base)) = Upto(from, to, base + step * count)
  <1> DEFINE states == [j \in 0 .. count |-> Upto(from, to, base + step * j)]
  <1>1. states[0] = Upto(from, to, base) /\ states[count] = Upto(from, to, base + step * count)
    BY base + step * 0 = base
  <1>2. ASSUME NEW j \in 0 .. count - 1 PROVE states[j + 1] = body[j][states[j]]
    <2>1. base + step * (j + 1) = base + step * j + step
      OBVIOUS
    <2>2. j \in 0 .. count /\ j + 1 \in 0 .. count
      OBVIOUS
    <2>3. body[j][Upto(from, to, base + step * j)] = Upto(from, to, base + step * j + step)
      BY DEF Sweeps
    <2>4. QED
      BY <2>1, <2>2, <2>3
  <1> HIDE DEF states
  <1>3. Through(states, count, body, Upto(from, to, base))
    BY <1>1, <1>2 DEF Through
  <1>4. QED
    BY <1>1, <1>3, LoopStates

\* A vector is a power of two of doubles, and divides what is a whole number of the widest.
LEMMA Widths ==
    ASSUME NEW count \in Nat, count % 8 = 0, NEW width \in {2, 4, 8}
    PROVE  count \div width \in Nat /\ count = width * (count \div width)
  <1>1. CASE width = 2
    BY <1>1
  <1>2. CASE width = 4
    BY <1>2
  <1>3. CASE width = 8
    BY <1>3
  <1>4. QED
    BY <1>1, <1>2, <1>3

\* A vector of a row.
LEMMA RowPart ==
    ASSUME NEW rows \in Nat, NEW length \in Nat, NEW row \in 0 .. rows - 1,
           NEW width \in Nat, NEW chunks \in Nat, length = width * chunks, NEW j \in 0 .. chunks - 1
    PROVE  /\ rows * length \in Nat /\ row * length \in Nat /\ width * j \in Nat
           /\ width * j + width <= length
           /\ row * length + length <= rows * length
  <1>1. rows * length \in Nat /\ row * length \in Nat /\ width * j \in Nat
    OBVIOUS
  <1>2. width * j + width <= length
    <2>1. width * (j + 1) <= width * chunks
      OBVIOUS
    <2>2. QED
      BY <2>1
  <1>3. row * length + length <= rows * length
    <2>1. (row + 1) * length <= rows * length
      OBVIOUS
    <2>2. QED
      BY <2>1
  <1>4. QED
    BY <1>1, <1>2, <1>3

\* What the reference adds for the analysis, index by index.
LEMMA AnalysisIs ==
    ASSUME NEW rows \in Nat, NEW out \in Memory(rows * AnalysisBands), NEW source \in Memory(rows * AnalysisBands),
           NEW coefficients \in Memory(AnalysisBands)
    PROVE  /\ AnalysisScalar(out, source, coefficients, rows) \in Memory(rows * AnalysisBands)
           /\ \A i \in 0 .. rows * AnalysisBands - 1 :
                  AnalysisScalar(out, source, coefficients, rows)[i]
                  = Plus(out[i], Times(source[i], coefficients[i % AnalysisBands]))
  <1> DEFINE A == AnalysisBands
             size == rows * A
  <1>1. A \in Nat /\ size \in Nat
    BY SizesAssumption
  <1>2. ASSUME NEW i \in 0 .. size - 1
        PROVE  Plus(out[i], Times(source[i], coefficients[i % A])) \in Doubles
    <2>1. A # 0
      BY <1>1
    <2>2. i % A \in 0 .. A - 1
      BY <1>1, <2>1, DivMod
    <2>3. out[i] \in Doubles /\ source[i] \in Doubles /\ coefficients[i % A] \in Doubles
      BY <2>2 DEF Memory
    <2>4. QED
      BY <2>3, Closed
  <1>3. QED
    BY <1>2 DEF AnalysisScalar, Memory

\* The analysis in vectors of any of the units' widths has the reference's bits.
LEMMA AnalysisIsScalar ==
    ASSUME NEW rows \in Nat, NEW out \in Memory(rows * AnalysisBands), NEW source \in Memory(rows * AnalysisBands),
           NEW coefficients \in Memory(AnalysisBands), NEW width \in {2, 4, 8}
    PROVE  Analysis(out, source, coefficients, rows, width) = AnalysisScalar(out, source, coefficients, rows)
  <1> DEFINE A == AnalysisBands
             size == rows * A
             chunks == A \div width
             to == AnalysisScalar(out, source, coefficients, rows)
             inner(row) == [j \in 0 .. (AnalysisBands \div width) - 1 |-> [n \in Memory(rows * AnalysisBands) |->
                               LET band == width * j
                                   at == row * AnalysisBands + band
                               IN  Store(n, at, Added(Load(n, at, width),
                                                      Multiplied(Load(source, at, width),
                                                                 Load(coefficients, band, width))))]]
             body == [row \in 0 .. rows - 1 |-> [m \in Memory(rows * AnalysisBands) |->
                         Loop(AnalysisBands \div width, inner(row), m)]]
  <1>1. A \in Nat /\ size \in Nat /\ chunks \in Nat /\ A = width * chunks /\ width \in Nat
    <2>1. A \in Nat /\ A % 8 = 0
      BY SizesAssumption
    <2> HIDE DEF A
    <2>2. chunks \in Nat /\ A = width * chunks
      BY <2>1, Widths
    <2>3. QED
      BY <2>1, <2>2
  <1>2. to \in Memory(size) /\ \A i \in 0 .. size - 1 : to[i] = Plus(out[i], Times(source[i], coefficients[i % A]))
    BY AnalysisIs
  <1>3. \A n \in Int : Upto(out, to, n) \in Memory(size)
    <2> HIDE DEF to, size
    <2>1. out \in Memory(size) /\ size \in Int
      BY <1>1 DEF size
    <2>2. QED
      BY <1>2, <2>1, UptoIn, Zenon
  <1>4. ASSUME NEW row \in 0 .. rows - 1, NEW j \in 0 .. chunks - 1
        PROVE  inner(row)[j][Upto(out, to, row * A + width * j)] = Upto(out, to, row * A + width * j + width)
    <2> DEFINE band == width * j
               at == row * A + band
               m == Upto(out, to, at)
               a == Load(m, at, width)
               b == Load(source, at, width)
               c == Load(coefficients, band, width)
               d == Multiplied(b, c)
               v == Added(a, d)
    <2>1. /\ row * A \in Nat /\ band \in Nat /\ band + width <= A /\ row * A + A <= size
      BY <1>1, RowPart
    <2>2. inner(row)[j][m] = Store(m, at, v)
      BY <1>3, <2>1, at \in Int
    <2>3. at \in Nat /\ at + width <= size
      BY <1>1, <2>1
    <2>4. ASSUME NEW i \in 0 .. width - 1 PROVE (at + i) % A = band + i
      <3> DEFINE r == band + i
      <3>1. r \in 0 .. A - 1 /\ A # 0
        BY <1>1, <2>1
      <3>2. at + i = A * row + r
        <4>1. row * A = A * row
          BY <1>1
        <4>2. QED
          BY <1>1, <2>1, <4>1
      <3>3. row \in Nat /\ A \in Nat
        BY <1>1
      <3> DEFINE n == at + i
      <3>4. n = A * row + r
        BY <3>2
      <3> HIDE DEF r, n, A
      <3>5. n % A = r
        BY <3>1, <3>3, <3>4, DivModIs
      <3>6. QED
        BY <3>5 DEF r, n
    <2>5. m \in Memory(size)
      BY <1>3, <2>3
    <2>6. out \in Memory(size) /\ source \in Memory(size) /\ coefficients \in Memory(A)
      OBVIOUS
    <2>7. m = Upto(out, to, at) /\ at = row * A + width * j
      OBVIOUS
    <2> HIDE DEF m, at, band, size, A, to, inner
    <2>8. \A i \in 0 .. size - 1 : at <= i => m[i] = out[i]
      BY <1>1, <1>2, <2>3, <2>6, <2>7, UptoAt
    <2>9. a \in Memory(width) /\ \A i \in 0 .. width - 1 : a[i] = m[at + i]
      BY <1>1, <2>3, <2>5, LoadIs
    <2>10. b \in Memory(width) /\ \A i \in 0 .. width - 1 : b[i] = source[at + i]
      BY <1>1, <2>3, <2>6, LoadIs
    <2>11. c \in Memory(width) /\ \A i \in 0 .. width - 1 : c[i] = coefficients[band + i]
      BY <1>1, <2>1, <2>6, LoadIs
    <2> HIDE DEF a, b, c
    <2>12. d \in Memory(width) /\ \A i \in 0 .. width - 1 : d[i] = Times(b[i], c[i])
      BY <1>1, <2>10, <2>11, LanesAre
    <2> HIDE DEF d
    <2>13. v \in Memory(width) /\ \A i \in 0 .. width - 1 : v[i] = Plus(a[i], d[i])
      BY <1>1, <2>9, <2>12, LanesAre
    <2> HIDE DEF v
    <2>14. ASSUME NEW i \in 0 .. width - 1 PROVE v[i] = to[at + i]
      <3>1. at + i \in 0 .. size - 1 /\ at <= at + i
        BY <1>1, <2>3
      <3>2. a[i] = out[at + i] /\ d[i] = Times(source[at + i], coefficients[(at + i) % A])
        BY <2>4, <2>8, <2>9, <2>10, <2>11, <2>12, <3>1
      <3>3. QED
        BY <1>2, <2>13, <3>1, <3>2
    <2>15. Store(Upto(out, to, at), at, v) = Upto(out, to, at + width)
      BY <1>1, <1>2, <2>3, <2>6, <2>13, <2>14, StoreSweeps
    <2>16. QED
      BY <2>2, <2>7, <2>15
  <1>5. ASSUME NEW row \in 0 .. rows - 1
        PROVE  body[row][Upto(out, to, 0 + A * row)] = Upto(out, to, 0 + A * row + A)
    <2> DEFINE base == row * A
               x == inner(row)
    <2>1. base \in Nat /\ 0 + A * row = base
      BY <1>1
    <2>2. body[row][Upto(out, to, base)] = Loop(chunks, x, Upto(out, to, base))
      BY <1>3, <2>1, base \in Int
    <2>3. \A j \in 0 .. chunks - 1 : x[j][Upto(out, to, base + width * j)] = Upto(out, to, base + width * j + width)
      BY <1>4
    <2> HIDE DEF x, base, to, chunks
    <2>4. Sweeps(x, out, to, base, width, chunks)
      BY <2>3 DEF Sweeps
    <2>5. Loop(chunks, x, Upto(out, to, base)) = Upto(out, to, base + width * chunks)
      BY <1>1, <2>1, <2>4, SweepLoop
    <2>6. QED
      BY <1>1, <2>1, <2>2, <2>5
  <1>6. Analysis(out, source, coefficients, rows, width) = Loop(rows, body, out)
    BY DEF Analysis
  <1>7. out \in Memory(size)
    OBVIOUS
  <1> HIDE DEF body, to, A, size
  <1>8. Sweeps(body, out, to, 0, A, rows)
    BY <1>5 DEF Sweeps
  <1>9. Loop(rows, body, Upto(out, to, 0)) = Upto(out, to, 0 + A * rows)
    BY <1>1, <1>8, SweepLoop
  <1>10. 0 + A * rows = size
    BY <1>1 DEF size
  <1>11. Upto(out, to, 0) = out /\ Upto(out, to, size) = to
    BY <1>1, <1>2, <1>7, UptoEnds
  <1>12. QED
    BY <1>6, <1>9, <1>10, <1>11 DEF to

-----------------------------------------------------------------------------
(* Sums in lanes.                                                          *)

\* Every cell of the states of one loop is the state of a loop of its own.
Cells(S, C, view, count, body, start, scalar, zero) ==
    /\ count \in Nat /\ start \in S
    /\ \A c \in C : view[start][c] = zero
    /\ \A k \in 0 .. count - 1, s \in S : /\ body[k][s] \in S
                                          /\ \A c \in C : view[body[k][s]][c] = scalar[c][k][view[s][c]]

\* Every cell ends with the sum the scalar loop ends with.
CellsEnd(S, C, view, count, body, start, scalar, zero) ==
    /\ Loop(count, body, start) \in S
    /\ \A c \in C : view[Loop(count, body, start)][c] = Loop(count, scalar[c], zero)

\* A loop over vectors of sums is, cell by cell, the scalar loop: terms are added in the same order.
LEMMA CellsLoop ==
    ASSUME NEW S, NEW C, NEW view, NEW count, NEW body, NEW start, NEW scalar, NEW zero,
           Cells(S, C, view, count, body, start, scalar, zero)
    PROVE  CellsEnd(S, C, view, count, body, start, scalar, zero)
  <1> DEFINE same(k) == /\ Loop(k, body, start) \in S
                        /\ \A c \in C : view[Loop(k, body, start)][c] = Loop(k, scalar[c], zero)
             T == {k \in 0 .. count : same(k)}
  <1>0. count \in Nat /\ start \in S
    BY DEF Cells
  <1>1. 0 \in T
    <2>1. Loop(0, body, start) = start /\ \A c \in C : Loop(0, scalar[c], zero) = zero
      BY LoopUnfolds
    <2>2. QED
      BY <1>0, <2>1 DEF Cells
  <1>2. ASSUME NEW k \in 0 .. count - 1, k \in T PROVE k + 1 \in T
    <2> DEFINE s == Loop(k, body, start)
    <2>1. s \in S /\ \A c \in C : view[s][c] = Loop(k, scalar[c], zero)
      BY <1>2
    <2>2. Loop(k + 1, body, start) = body[k][s] /\ \A c \in C : Loop(k + 1, scalar[c], zero) = scalar[c][k][Loop(k, scalar[c], zero)]
      <3>1. k \in Nat
        BY <1>0
      <3>2. Loop(k + 1, body, start) = body[k][s]
        BY <3>1, LoopUnfolds, ZenonT(40)
      <3>3. ASSUME NEW c \in C PROVE Loop(k + 1, scalar[c], zero) = scalar[c][k][Loop(k, scalar[c], zero)]
        BY <3>1, LoopUnfolds, ZenonT(40)
      <3>4. QED
        BY <3>2, <3>3
    <2> HIDE DEF s
    <2>3. body[k][s] \in S /\ \A c \in C : view[body[k][s]][c] = scalar[c][k][view[s][c]]
      BY <2>1 DEF Cells
    <2>4. same(k + 1)
      BY <2>1, <2>2, <2>3
    <2>5. QED
      BY <1>0, <2>4
  <1> HIDE DEF T
  <1>3. count \in T
    BY <1>0, <1>1, <1>2, Upward
  <1>4. QED
    BY <1>3 DEF T, CellsEnd

\* A sum of the hybrid bands is a double.
LEMMA JoinIn ==
    ASSUME NEW rows \in Nat, NEW values \in Memory(rows * HybridTerms), NEW taps \in Memory(HybridTerms * HybridOutputs),
           NEW row \in 0 .. rows - 1, NEW output \in 0 .. HybridOutputs - 1
    PROVE  Join(values, taps, row, output) \in Doubles
  <1> DEFINE body == [term \in 0 .. HybridTerms - 1 |-> [sum \in Doubles |->
                         LET value == values[row * HybridTerms + term]
                         IN  IF value = 0 THEN sum
                             ELSE Plus(sum, Times(value, taps[term * HybridOutputs + output]))]]
  <1>1. HybridTerms \in Nat /\ HybridOutputs \in Nat
    BY SizesAssumption
  <1>2. ASSUME NEW term \in 0 .. HybridTerms - 1, NEW sum \in Doubles PROVE body[term][sum] \in Doubles
    <2>1. values[row * HybridTerms + term] \in Doubles
      <3>1. row * HybridTerms + term \in 0 .. rows * HybridTerms - 1
        BY <1>1, RowPart, HybridTerms = 1 * HybridTerms, term \in 0 .. HybridTerms - 1
      <3>2. QED
        BY <3>1 DEF Memory
    <2>2. taps[term * HybridOutputs + output] \in Doubles
      <3>1. term * HybridOutputs + output \in 0 .. HybridTerms * HybridOutputs - 1
        BY <1>1, RowPart, HybridOutputs = 1 * HybridOutputs
      <3>2. QED
        BY <3>1 DEF Memory
    <2>3. QED
      BY <2>1, <2>2, Closed
  <1>3. Join(values, taps, row, output) = Loop(HybridTerms, body, 0)
    BY DEF Join
  <1> HIDE DEF body
  <1>4. QED
    BY <1>1, <1>2, <1>3, LoopStays, Closed

\* The sums of the hybrid join are, lane by lane, the reference's.
LEMMA JoinSumsAre ==
    ASSUME NEW rows \in Nat, NEW values \in Memory(rows * HybridTerms), NEW taps \in Memory(HybridTerms * HybridOutputs),
           NEW row \in 0 .. rows - 1, NEW lanes \in {2, 4, 8}
    PROVE  /\ JoinSums(values, taps, row, lanes) \in [0 .. (HybridOutputs \div lanes) - 1 -> Memory(lanes)]
           /\ \A n \in 0 .. (HybridOutputs \div lanes) - 1, l \in 0 .. lanes - 1 :
                  JoinSums(values, taps, row, lanes)[n][l] = Join(values, taps, row, lanes * n + l)
  <1> DEFINE H == HybridOutputs
             T == HybridTerms
             chunks == H \div lanes
             S == [0 .. (HybridOutputs \div lanes) - 1 -> Memory(lanes)]
             C == (0 .. (HybridOutputs \div lanes) - 1) \X (0 .. lanes - 1)
             view == [s \in S |-> [c \in C |-> s[c[1]][c[2]]]]
             body == [term \in 0 .. HybridTerms - 1 |-> [sums \in [0 .. (HybridOutputs \div lanes) - 1 -> Memory(lanes)] |->
                         LET value == values[row * HybridTerms + term]
                         IN  IF value = 0 THEN sums
                             ELSE [n \in 0 .. (HybridOutputs \div lanes) - 1 |->
                                      Added(sums[n], Multiplied(Broadcast(value, lanes),
                                                                Load(taps, term * HybridOutputs + lanes * n, lanes)))]]]
             start == [n \in 0 .. (HybridOutputs \div lanes) - 1 |-> Broadcast(0, lanes)]
             sumOf(output) == [term \in 0 .. HybridTerms - 1 |-> [sum \in Doubles |->
                                  LET value == values[row * HybridTerms + term]
                                  IN  IF value = 0 THEN sum
                                      ELSE Plus(sum, Times(value, taps[term * HybridOutputs + output]))]]
             scalar == [c \in C |-> sumOf(lanes * c[1] + c[2])]
  <1>1. H \in Nat /\ T \in Nat /\ chunks \in Nat /\ H = lanes * chunks /\ lanes \in Nat
    <2>1. H \in Nat /\ H % 8 = 0 /\ T \in Nat
      BY SizesAssumption
    <2> HIDE DEF H
    <2>2. chunks \in Nat /\ H = lanes * chunks
      BY <2>1, Widths
    <2>3. QED
      BY <2>1, <2>2
  <1>2. start \in S /\ \A c \in C : start[c[1]][c[2]] = 0
    <2>1. Broadcast(0, lanes) \in Memory(lanes) /\ \A l \in 0 .. lanes - 1 : Broadcast(0, lanes)[l] = 0
      BY <1>1, BroadcastIs, Closed
    <2>2. QED
      BY <2>1
  <1>3. ASSUME NEW term \in 0 .. T - 1, NEW s \in S
        PROVE  /\ body[term][s] \in S
               /\ \A n \in 0 .. chunks - 1, l \in 0 .. lanes - 1 :
                      body[term][s][n][l] = sumOf(lanes * n + l)[term][s[n][l]]
    <2> DEFINE value == values[row * HybridTerms + term]
               at(n) == term * HybridOutputs + lanes * n
               v == Broadcast(value, lanes)
               w(n) == Load(taps, at(n), lanes)
               p(n) == Multiplied(v, w(n))
               a(n) == Added(s[n], p(n))
    <2>1. value \in Doubles
      <3>1. row * HybridTerms + term \in 0 .. rows * HybridTerms - 1
        BY <1>1, RowPart, HybridTerms = 1 * HybridTerms, term \in 0 .. HybridTerms - 1
      <3>2. QED
        BY <3>1 DEF Memory
    <2>2. ASSUME NEW n \in 0 .. chunks - 1
          PROVE  s[n] \in Memory(lanes) /\ \A l \in 0 .. lanes - 1 : s[n][l] \in Doubles
      BY DEF Memory
    <2>3. body[term][s] = IF value = 0 THEN s ELSE [n \in 0 .. chunks - 1 |-> a(n)]
      OBVIOUS
    <2>4. ASSUME NEW n \in 0 .. chunks - 1, NEW l \in 0 .. lanes - 1
          PROVE  sumOf(lanes * n + l)[term][s[n][l]]
                 = IF value = 0 THEN s[n][l] ELSE Plus(s[n][l], Times(value, taps[at(n) + l]))
      <3>1. term * HybridOutputs + (lanes * n + l) = at(n) + l
        BY <1>1
      <3>2. s[n][l] \in Doubles
        BY <2>2
      <3> HIDE DEF H, T, chunks, at
      <3>3. sumOf(lanes * n + l)[term][s[n][l]]
            = IF value = 0 THEN s[n][l] ELSE Plus(s[n][l], Times(value, taps[term * HybridOutputs + (lanes * n + l)]))
        BY <3>2 DEF T
      <3>4. QED
        BY <3>1, <3>3
    <2>5. ASSUME NEW n \in 0 .. chunks - 1
          PROVE  a(n) \in Memory(lanes) /\ \A l \in 0 .. lanes - 1 : a(n)[l] = Plus(s[n][l], Times(value, taps[at(n) + l]))
      <3> DEFINE size == HybridTerms * HybridOutputs
                 x == at(n)
                 y == w(n)
                 z == p(n)
      <3>1. x \in Nat /\ x + lanes <= size /\ size \in Int
        <4>1. /\ T * H \in Nat /\ term * H \in Nat /\ lanes * n \in Nat
              /\ lanes * n + lanes <= H /\ term * H + H <= T * H
          BY <1>1, RowPart
        <4>2. QED
          BY <1>1, <4>1
      <3>2. taps \in Memory(size)
        OBVIOUS
      <3> HIDE DEF x, size
      <3>3. y \in Memory(lanes) /\ \A l \in 0 .. lanes - 1 : y[l] = taps[x + l]
        BY <1>1, <3>1, <3>2, LoadIs DEF x
      <3>4. v \in Memory(lanes) /\ \A l \in 0 .. lanes - 1 : v[l] = value
        BY <1>1, <2>1, BroadcastIs
      <3> HIDE DEF v, y
      <3>5. z \in Memory(lanes) /\ \A l \in 0 .. lanes - 1 : z[l] = Times(v[l], y[l])
        BY <1>1, <3>3, <3>4, LanesAre DEF y
      <3>6. s[n] \in Memory(lanes)
        BY <2>2
      <3> HIDE DEF z
      <3>7. Added(s[n], z) \in Memory(lanes) /\ \A l \in 0 .. lanes - 1 : Added(s[n], z)[l] = Plus(s[n][l], z[l])
        BY <1>1, <3>5, <3>6, LanesAre
      <3>8. a(n) = Added(s[n], z)
        BY DEF z
      <3>9. QED
        BY <3>3, <3>4, <3>5, <3>7, <3>8 DEF x
    <2> HIDE DEF value, a, at, sumOf, body
    <2>6. CASE value = 0
      BY <2>3, <2>4, <2>6
    <2>7. CASE value # 0
      <3>1. body[term][s] = [n \in 0 .. chunks - 1 |-> a(n)]
        BY <2>3, <2>7
      <3>2. body[term][s] \in S
        BY <2>5, <3>1
      <3>3. QED
        BY <2>4, <2>5, <2>7, <3>1, <3>2
    <2>8. QED
      BY <2>6, <2>7
  <1>4. JoinSums(values, taps, row, lanes) = Loop(T, body, start)
    BY DEF JoinSums
  <1>5. \A c \in C : c[1] \in 0 .. chunks - 1 /\ c[2] \in 0 .. lanes - 1 /\ scalar[c] = sumOf(lanes * c[1] + c[2])
    OBVIOUS
  <1>6. \A s \in S, c \in C : view[s][c] = s[c[1]][c[2]]
    OBVIOUS
  <1>7. \A output : Join(values, taps, row, output) = Loop(T, sumOf(output), 0)
    BY DEF Join
  <1> HIDE DEF body, start, scalar, view, sumOf, S, T
  <1>8. Cells(S, C, view, T, body, start, scalar, 0)
    <2>1. \A c \in C : view[start][c] = 0
      BY <1>2, <1>6
    <2>2. ASSUME NEW k \in 0 .. T - 1, NEW s \in S
          PROVE  body[k][s] \in S /\ \A c \in C : view[body[k][s]][c] = scalar[c][k][view[s][c]]
      <3>1. body[k][s] \in S
        BY <1>3
      <3>2. ASSUME NEW c \in C PROVE view[body[k][s]][c] = scalar[c][k][view[s][c]]
        <4> DEFINE n == c[1]
                   l == c[2]
        <4>1. n \in 0 .. chunks - 1 /\ l \in 0 .. lanes - 1 /\ scalar[c] = sumOf(lanes * n + l)
          BY <1>5
        <4>2. view[body[k][s]][c] = body[k][s][n][l] /\ view[s][c] = s[n][l]
          BY <1>6, <3>1
        <4> HIDE DEF n, l, C
        <4>3. body[k][s][n][l] = sumOf(lanes * n + l)[k][s[n][l]]
          BY <1>3, <4>1
        <4>4. QED
          BY <4>1, <4>2, <4>3
      <3>3. QED
        BY <3>1, <3>2
    <2>3. QED
      BY <1>1, <1>2, <2>1, <2>2 DEF Cells, T
  <1>9. /\ Loop(T, body, start) \in S
        /\ \A c \in C : view[Loop(T, body, start)][c] = Loop(T, scalar[c], 0)
    <2> HIDE DEF C
    <2>1. CellsEnd(S, C, view, T, body, start, scalar, 0)
      BY <1>8, CellsLoop
    <2>2. QED
      BY <2>1, Zenon DEF CellsEnd
  <1>10. ASSUME NEW n \in 0 .. chunks - 1, NEW l \in 0 .. lanes - 1
         PROVE  Loop(T, body, start)[n][l] = Join(values, taps, row, lanes * n + l)
    <2> DEFINE c == <<n, l>>
    <2>1. c \in C /\ c[1] = n /\ c[2] = l
      OBVIOUS
    <2>2. view[Loop(T, body, start)][c] = Loop(T, scalar[c], 0)
      BY <1>9, <2>1
    <2>3. QED
      BY <1>5, <1>6, <1>7, <1>9, <2>1, <2>2
  <1>11. QED
    BY <1>4, <1>9, <1>10 DEF S

\* What the reference joins, row by row and output by output.
LEMMA HybridJoinIs ==
    ASSUME NEW rows \in Nat, NEW values \in Memory(rows * HybridTerms), NEW taps \in Memory(HybridTerms * HybridOutputs)
    PROVE  /\ HybridJoinScalar(values, taps, rows) \in Memory(rows * HybridOutputs)
           /\ \A row \in 0 .. rows - 1, output \in 0 .. HybridOutputs - 1 :
                  HybridJoinScalar(values, taps, rows)[row * HybridOutputs + output] = Join(values, taps, row, output)
  <1> DEFINE H == HybridOutputs
             size == rows * H
             to == HybridJoinScalar(values, taps, rows)
  <1>1. H \in Nat /\ size \in Nat
    BY SizesAssumption
  <1>2. to = [k \in 0 .. size - 1 |-> Join(values, taps, k \div H, k % H)]
    BY DEF HybridJoinScalar
  <1> HIDE DEF to
  <1>3. ASSUME NEW k \in 0 .. size - 1 PROVE Join(values, taps, k \div H, k % H) \in Doubles
    <2> DEFINE q == k \div H
               r == k % H
    <2>1. H # 0
      BY <1>1
    <2>2. q \in Nat /\ r \in 0 .. H - 1 /\ k = H * q + r
      <3>1. k \in Nat /\ H \in Nat
        BY <1>1
      <3> HIDE DEF H
      <3>2. QED
        BY <2>1, <3>1, DivMod
    <2> HIDE DEF q, r
    <2>3. q \in 0 .. rows - 1
      <3>1. ASSUME q >= rows PROVE FALSE
        <4>1. H * q >= H * rows
          BY <1>1, <2>2, <3>1
        <4>2. QED
          BY <1>1, <2>2, <4>1
      <3>2. QED
        BY <2>2, <3>1
    <2>4. QED
      BY <2>2, <2>3, JoinIn DEF q, r
  <1>4. to \in Memory(size)
    BY <1>2, <1>3 DEF Memory
  <1>5. ASSUME NEW row \in 0 .. rows - 1, NEW output \in 0 .. H - 1
        PROVE  to[row * H + output] = Join(values, taps, row, output)
    <2> DEFINE k == row * H + output
    <2>1. row * H + H <= size
      BY <1>1, RowPart, H = 1 * H
    <2>2. row * H \in Nat /\ row * H = H * row /\ H # 0 /\ row \in Nat
      BY <1>1
    <2>3. k \in 0 .. size - 1 /\ k = H * row + output
      BY <1>1, <2>1, <2>2
    <2> HIDE DEF k, H
    <2>4. k \div H = row /\ k % H = output
      BY <1>1, <2>2, <2>3, DivModIs
    <2>5. QED
      BY <1>2, <2>3, <2>4 DEF k
  <1>6. QED
    BY <1>4, <1>5 DEF to

\* The hybrid join in vectors of any of the units' widths has the reference's bits.
LEMMA HybridJoinIsScalar ==
    ASSUME NEW rows \in Nat, NEW out \in Memory(rows * HybridOutputs),
           NEW values \in Memory(rows * HybridTerms), NEW taps \in Memory(HybridTerms * HybridOutputs),
           NEW lanes \in {2, 4, 8}
    PROVE  HybridJoin(out, values, taps, rows, lanes) = HybridJoinScalar(values, taps, rows)
  <1> DEFINE H == HybridOutputs
             size == rows * H
             chunks == H \div lanes
             to == HybridJoinScalar(values, taps, rows)
             sums(row) == JoinSums(values, taps, row, lanes)
             inner(row) == [n \in 0 .. (HybridOutputs \div lanes) - 1 |-> [k \in Memory(rows * HybridOutputs) |->
                               Store(k, row * HybridOutputs + lanes * n, JoinSums(values, taps, row, lanes)[n])]]
             body == [row \in 0 .. rows - 1 |-> [m \in Memory(rows * HybridOutputs) |->
                         Loop(HybridOutputs \div lanes, inner(row), m)]]
  <1>1. H \in Nat /\ size \in Nat /\ chunks \in Nat /\ H = lanes * chunks /\ lanes \in Nat
    <2>1. H \in Nat /\ H % 8 = 0
      BY SizesAssumption
    <2> HIDE DEF H
    <2>2. chunks \in Nat /\ H = lanes * chunks
      BY <2>1, Widths
    <2>3. QED
      BY <2>1, <2>2
  <1>2. /\ to \in Memory(size)
        /\ \A row \in 0 .. rows - 1, output \in 0 .. H - 1 : to[row * H + output] = Join(values, taps, row, output)
    BY HybridJoinIs
  <1>3. out \in Memory(size) /\ size \in Int
    BY <1>1
  <1>4. \A n \in Int : Upto(out, to, n) \in Memory(size)
    <2> HIDE DEF to, size
    <2>1. QED
      BY <1>2, <1>3, UptoIn, Zenon
  <1>5. ASSUME NEW row \in 0 .. rows - 1, NEW n \in 0 .. chunks - 1
        PROVE  inner(row)[n][Upto(out, to, row * H + lanes * n)] = Upto(out, to, row * H + lanes * n + lanes)
    <2> DEFINE at == row * H + lanes * n
               v == JoinSums(values, taps, row, lanes)[n]
    <2>1. row * H \in Nat /\ lanes * n \in Nat /\ lanes * n + lanes <= H /\ row * H + H <= size
      BY <1>1, RowPart
    <2>2. at \in Nat /\ at + lanes <= size
      BY <1>1, <2>1
    <2>3. inner(row)[n][Upto(out, to, at)] = Store(Upto(out, to, at), at, v)
      BY <1>4, <2>2, at \in Int
    <2>4. v \in Memory(lanes) /\ \A l \in 0 .. lanes - 1 : v[l] = Join(values, taps, row, lanes * n + l)
      <3> DEFINE s == JoinSums(values, taps, row, lanes)
      <3>1. /\ s \in [0 .. chunks - 1 -> Memory(lanes)]
            /\ \A i \in 0 .. chunks - 1, l \in 0 .. lanes - 1 : s[i][l] = Join(values, taps, row, lanes * i + l)
        BY JoinSumsAre, ZenonT(40)
      <3> HIDE DEF s, chunks
      <3>2. s[n] \in Memory(lanes) /\ \A l \in 0 .. lanes - 1 : s[n][l] = Join(values, taps, row, lanes * n + l)
        BY <3>1
      <3>3. QED
        BY <3>2 DEF s
    <2>5. ASSUME NEW l \in 0 .. lanes - 1 PROVE v[l] = to[at + l]
      <3> DEFINE output == lanes * n + l
      <3>1. output \in 0 .. H - 1 /\ row * H + output = at + l
        BY <1>1, <2>1
      <3>2. v[l] = Join(values, taps, row, output)
        BY <2>4
      <3> HIDE DEF output, to, v, at
      <3>3. to[row * H + output] = Join(values, taps, row, output)
        BY <1>2, <3>1
      <3>4. QED
        BY <3>1, <3>2, <3>3
    <2> HIDE DEF v, to, size, at, inner
    <2>6. Store(Upto(out, to, at), at, v) = Upto(out, to, at + lanes)
      BY <1>1, <1>2, <1>3, <2>2, <2>4, <2>5, StoreSweeps
    <2>7. QED
      BY <2>3, <2>6 DEF at
  <1>6. ASSUME NEW row \in 0 .. rows - 1
        PROVE  body[row][Upto(out, to, 0 + H * row)] = Upto(out, to, 0 + H * row + H)
    <2> DEFINE base == row * H
               x == inner(row)
    <2>1. base \in Nat /\ 0 + H * row = base
      BY <1>1
    <2>2. body[row][Upto(out, to, base)] = Loop(chunks, x, Upto(out, to, base))
      BY <1>4, <2>1, base \in Int
    <2>3. \A j \in 0 .. chunks - 1 : x[j][Upto(out, to, base + lanes * j)] = Upto(out, to, base + lanes * j + lanes)
      BY <1>5
    <2> HIDE DEF x, base, to, chunks
    <2>4. Sweeps(x, out, to, base, lanes, chunks)
      BY <2>3 DEF Sweeps
    <2>5. Loop(chunks, x, Upto(out, to, base)) = Upto(out, to, base + lanes * chunks)
      BY <1>1, <2>1, <2>4, SweepLoop
    <2>6. QED
      BY <1>1, <2>1, <2>2, <2>5
  <1>7. HybridJoin(out, values, taps, rows, lanes) = Loop(rows, body, out)
    BY IsEvaluated DEF HybridJoin
  <1> HIDE DEF body, to, H, size
  <1>8. Sweeps(body, out, to, 0, H, rows)
    BY <1>6 DEF Sweeps
  <1>9. Loop(rows, body, Upto(out, to, 0)) = Upto(out, to, 0 + H * rows)
    BY <1>1, <1>8, SweepLoop
  <1>10. 0 + H * rows = size
    BY <1>1 DEF size
  <1>11. Upto(out, to, 0) = out /\ Upto(out, to, size) = to
    BY <1>1, <1>2, <1>3, UptoEnds
  <1>12. QED
    BY <1>7, <1>9, <1>10, <1>11 DEF to

-----------------------------------------------------------------------------
(* The synthesis.                                                          *)

\* What a tap reads.
LEMMA TapIs ==
    ASSUME NEW rows \in Nat, NEW values \in Memory(rows * SynthesisTaps),
           NEW basis \in Memory(SynthesisBands * SynthesisTaps * Ranks),
           NEW row \in 0 .. rows - 1, NEW band \in 0 .. SynthesisBands - 1, NEW tap \in 0 .. SynthesisTaps - 1
    PROVE  /\ values[row * SynthesisTaps + tap] \in Doubles
           /\ (band * SynthesisTaps + tap) * Ranks \in Nat
           /\ (band * SynthesisTaps + tap) * Ranks + 4 <= SynthesisBands * SynthesisTaps * Ranks
           /\ SynthesisBands * SynthesisTaps * Ranks \in Int
           /\ \A rank \in 0 .. 3 : basis[(band * SynthesisTaps + tap) * Ranks + rank] \in Doubles
  <1> DEFINE T == SynthesisTaps
             B == SynthesisBands
             n == band * T + tap
             size == B * T * Ranks
  <1>1. T \in Nat /\ B \in Nat
    BY SizesAssumption
  <1>2. row * T + tap \in 0 .. rows * T - 1
    BY <1>1, RowPart, T = 1 * T
  <1>3. n \in 0 .. B * T - 1 /\ B * T \in Nat
    BY <1>1, RowPart, T = 1 * T
  <1>4. values[row * T + tap] \in Doubles
    BY <1>2 DEF Memory
  <1>5. n * Ranks \in Nat /\ n * Ranks + 4 <= size /\ size \in Int
    BY <1>3 DEF Ranks
  <1>6. \A rank \in 0 .. 3 : basis[n * Ranks + rank] \in Doubles
    <2>1. basis \in Memory(size)
      OBVIOUS
    <2> HIDE DEF n, size
    <2>2. \A rank \in 0 .. 3 : n * Ranks + rank \in 0 .. size - 1
      BY <1>5
    <2>3. QED
      BY <2>1, <2>2 DEF Memory
  <1>7. QED
    BY <1>4, <1>5, <1>6

\* An output of the synthesis is a double.
LEMMA DotIn ==
    ASSUME NEW rows \in Nat, NEW values \in Memory(rows * SynthesisTaps),
           NEW basis \in Memory(SynthesisBands * SynthesisTaps * Ranks),
           NEW row \in 0 .. rows - 1, NEW band \in 0 .. SynthesisBands - 1, NEW rank \in 0 .. 3
    PROVE  Dot(values, basis, row, band, rank) \in Doubles
  <1> DEFINE body == [tap \in 0 .. SynthesisTaps - 1 |-> [sum \in Doubles |->
                         Plus(sum, Times(values[row * SynthesisTaps + tap],
                                         basis[(band * SynthesisTaps + tap) * Ranks + rank]))]]
  <1>1. SynthesisTaps \in Nat
    BY SizesAssumption
  <1>2. ASSUME NEW tap \in 0 .. SynthesisTaps - 1, NEW sum \in Doubles PROVE body[tap][sum] \in Doubles
    <2>1. values[row * SynthesisTaps + tap] \in Doubles /\ basis[(band * SynthesisTaps + tap) * Ranks + rank] \in Doubles
      BY TapIs
    <2>2. QED
      BY <2>1, Closed
  <1>3. Dot(values, basis, row, band, rank) = Loop(SynthesisTaps, body, 0)
    BY DEF Dot
  <1> HIDE DEF body
  <1>4. QED
    BY <1>1, <1>2, <1>3, LoopStays, Closed

\* Where the ranks of a band of a row are.
CellOf(row, band) == (row * SynthesisBands + band) * 4

\* The ranks of a band of a row lie in the row.
LEMMA CellIs ==
    ASSUME NEW rows \in Nat, NEW row \in 0 .. rows - 1, NEW band \in 0 .. SynthesisBands - 1
    PROVE  /\ CellOf(row, band) \in Nat
           /\ row * SynthesisBands * 4 <= CellOf(row, band)
           /\ CellOf(row, band) + 4 <= (row + 1) * SynthesisBands * 4
           /\ CellOf(row, band) + 4 <= rows * SynthesisBands * Ranks
  <1> DEFINE B == SynthesisBands
  <1>1. B \in Nat
    BY SizesAssumption
  <1>2. row * B \in Nat /\ row * B + B <= rows * B /\ (row + 1) * B = row * B + B /\ rows * B \in Nat
    BY <1>1, RowPart, B = 1 * B
  <1>3. QED
    BY <1>1, <1>2 DEF CellOf, Ranks

\* What the reference synthesizes, row by row, band by band and rank by rank.
LEMMA SynthesisIs ==
    ASSUME NEW rows \in Nat, NEW values \in Memory(rows * SynthesisTaps),
           NEW basis \in Memory(SynthesisBands * SynthesisTaps * Ranks)
    PROVE  /\ SynthesisScalar(values, basis, rows) \in Memory(rows * SynthesisBands * Ranks)
           /\ \A row \in 0 .. rows - 1, band \in 0 .. SynthesisBands - 1, rank \in 0 .. 3 :
                  SynthesisScalar(values, basis, rows)[CellOf(row, band) + rank] = Dot(values, basis, row, band, rank)
  <1> DEFINE B == SynthesisBands
             size == rows * B * Ranks
             to == SynthesisScalar(values, basis, rows)
             sum(k) == Dot(values, basis, (k \div Ranks) \div B, (k \div Ranks) % B, k % Ranks)
  <1>1. B \in Nat /\ rows * B \in Nat /\ size = 4 * (rows * B) /\ size \in Nat
    BY SizesAssumption DEF Ranks
  <1>2. to = [k \in 0 .. size - 1 |-> sum(k)]
    BY DEF SynthesisScalar
  <1> HIDE DEF to
  <1>3. ASSUME NEW k \in 0 .. size - 1 PROVE sum(k) \in Doubles
    <2> DEFINE c == k \div Ranks
               q == c \div B
               r == c % B
               l == k % Ranks
    <2>1. c \in 0 .. rows * B - 1 /\ l \in 0 .. 3
      BY <1>1 DEF Ranks
    <2> HIDE DEF c, l
    <2>2. q \in Nat /\ r \in 0 .. B - 1 /\ c = B * q + r
      <3>1. c \in Nat /\ B \in Nat /\ B # 0
        BY <1>1, <2>1
      <3> HIDE DEF B
      <3>2. QED
        BY <3>1, DivMod
    <2> HIDE DEF q, r
    <2>3. q \in 0 .. rows - 1
      <3>1. ASSUME q >= rows PROVE FALSE
        <4>1. B * q >= B * rows
          BY <1>1, <2>2, <3>1
        <4>2. QED
          BY <1>1, <2>1, <2>2, <4>1
      <3>2. QED
        BY <2>2, <3>1
    <2>4. QED
      BY <2>1, <2>2, <2>3, DotIn DEF q, r, c, l
  <1>4. to \in Memory(size)
    BY <1>2, <1>3 DEF Memory
  <1>5. ASSUME NEW row \in 0 .. rows - 1, NEW band \in 0 .. B - 1, NEW rank \in 0 .. 3
        PROVE  to[CellOf(row, band) + rank] = Dot(values, basis, row, band, rank)
    <2> DEFINE c == row * B + band
               k == CellOf(row, band) + rank
    <2>1. k \in 0 .. size - 1
      BY <1>1, CellIs
    <2>2. c \in Nat /\ c = B * row + band /\ B # 0 /\ row \in Nat
      BY <1>1
    <2>3. k = 4 * c + rank
      BY <2>2 DEF CellOf
    <2> HIDE DEF k, c, B
    <2>4. k \div Ranks = c /\ k % Ranks = rank
      BY <2>2, <2>3 DEF Ranks
    <2>5. c \div B = row /\ c % B = band
      BY <1>1, <2>2, DivModIs
    <2>6. QED
      BY <1>2, <2>1, <2>4, <2>5 DEF k
  <1>6. QED
    BY <1>4, <1>5 DEF to

\* The sums of the rows of a band, four ranks in a vector.
LEMMA BandSumsAvx2Are ==
    ASSUME NEW rows \in Nat, NEW values \in Memory(rows * SynthesisTaps),
           NEW basis \in Memory(SynthesisBands * SynthesisTaps * Ranks),
           NEW first \in Nat, NEW count \in Nat, first + count <= rows, NEW band \in 0 .. SynthesisBands - 1
    PROVE  \A row \in 0 .. count - 1 :
               /\ BandSumsAvx2(values, basis, first, count, band)[row] \in Memory(4)
               /\ \A rank \in 0 .. 3 : BandSumsAvx2(values, basis, first, count, band)[row][rank]
                                       = Dot(values, basis, first + row, band, rank)
  <1> DEFINE T == SynthesisTaps
             S == [0 .. count - 1 -> Memory(Ranks)]
             C == (0 .. count - 1) \X (0 .. 3)
             view == [s \in S |-> [c \in C |-> s[c[1]][c[2]]]]
             body == [tap \in 0 .. SynthesisTaps - 1 |-> [sums \in [0 .. count - 1 -> Memory(Ranks)] |->
                         LET weight == Load(basis, (band * SynthesisTaps + tap) * Ranks, Ranks)
                         IN  [row \in 0 .. count - 1 |->
                                 Added(sums[row],
                                       Multiplied(Broadcast(values[(first + row) * SynthesisTaps + tap], Ranks), weight))]]]
             start == [row \in 0 .. count - 1 |-> Broadcast(0, Ranks)]
             sumOf(row, rank) == [tap \in 0 .. SynthesisTaps - 1 |-> [sum \in Doubles |->
                                     Plus(sum, Times(values[row * SynthesisTaps + tap],
                                                     basis[(band * SynthesisTaps + tap) * Ranks + rank]))]]
             scalar == [c \in C |-> sumOf(first + c[1], c[2])]
  <1>1. T \in Nat /\ Ranks = 4
    BY SizesAssumption DEF Ranks
  <1>2. start \in S /\ \A c \in C : start[c[1]][c[2]] = 0
    <2>1. Broadcast(0, 4) \in Memory(4) /\ \A l \in 0 .. 3 : Broadcast(0, 4)[l] = 0
      BY BroadcastIs, Closed
    <2>2. QED
      BY <1>1, <2>1
  <1>3. ASSUME NEW tap \in 0 .. T - 1, NEW s \in S
        PROVE  /\ body[tap][s] \in S
               /\ \A row \in 0 .. count - 1, rank \in 0 .. 3 :
                      body[tap][s][row][rank] = sumOf(first + row, rank)[tap][s[row][rank]]
    <2> DEFINE at == (band * SynthesisTaps + tap) * Ranks
               size == SynthesisBands * SynthesisTaps * Ranks
               w == Load(basis, at, Ranks)
               x(row) == values[(first + row) * SynthesisTaps + tap]
               v(row) == Broadcast(x(row), Ranks)
               p(row) == Multiplied(v(row), w)
               a(row) == Added(s[row], p(row))
    <2>0. ASSUME NEW row \in 0 .. count - 1
          PROVE x(row) \in Doubles /\ at \in Nat /\ at + 4 <= size /\ size \in Int
      <3>1. first + row \in 0 .. rows - 1
        OBVIOUS
      <3>2. QED
        BY <3>1, TapIs
    <2>2. ASSUME NEW row \in 0 .. count - 1
          PROVE  s[row] \in Memory(4) /\ \A l \in 0 .. 3 : s[row][l] \in Doubles
      BY <1>1 DEF Memory
    <2>3. body[tap][s] = [row \in 0 .. count - 1 |-> a(row)]
      OBVIOUS
    <2>4. ASSUME NEW row \in 0 .. count - 1, NEW rank \in 0 .. 3
          PROVE  sumOf(first + row, rank)[tap][s[row][rank]] = Plus(s[row][rank], Times(x(row), basis[at + rank]))
      BY <2>2
    <2>5. ASSUME NEW row \in 0 .. count - 1
          PROVE  a(row) \in Memory(4) /\ \A l \in 0 .. 3 : a(row)[l] = Plus(s[row][l], Times(x(row), basis[at + l]))
      <3> DEFINE y == x(row)
                 u == v(row)
                 z == p(row)
      <3>1. y \in Doubles /\ at \in Nat /\ at + 4 <= size /\ size \in Int
        BY <2>0
      <3>2. basis \in Memory(size)
        OBVIOUS
      <3> HIDE DEF at, size, y
      <3>3. w \in Memory(4) /\ \A l \in 0 .. 3 : w[l] = basis[at + l]
        BY <1>1, <3>1, <3>2, LoadIs
      <3>4. u \in Memory(4) /\ \A l \in 0 .. 3 : u[l] = y
        BY <1>1, <3>1, BroadcastIs DEF y
      <3> HIDE DEF w, u
      <3>5. z \in Memory(4) /\ \A l \in 0 .. 3 : z[l] = Times(u[l], w[l])
        BY <3>3, <3>4, LanesAre DEF u
      <3>6. s[row] \in Memory(4)
        BY <2>2
      <3> HIDE DEF z
      <3>7. Added(s[row], z) \in Memory(4) /\ \A l \in 0 .. 3 : Added(s[row], z)[l] = Plus(s[row][l], z[l])
        BY <3>5, <3>6, LanesAre
      <3>8. a(row) = Added(s[row], z)
        BY DEF z
      <3>9. QED
        BY <3>3, <3>4, <3>5, <3>7, <3>8 DEF y
    <2> HIDE DEF a, at, sumOf, body, x
    <2>6. body[tap][s] \in S
      BY <1>1, <2>3, <2>5
    <2>7. QED
      BY <2>3, <2>4, <2>5, <2>6
  <1>4. BandSumsAvx2(values, basis, first, count, band) = Loop(T, body, start)
    BY DEF BandSumsAvx2
  <1>5. \A c \in C : c[1] \in 0 .. count - 1 /\ c[2] \in 0 .. 3 /\ scalar[c] = sumOf(first + c[1], c[2])
    OBVIOUS
  <1>6. \A s \in S, c \in C : view[s][c] = s[c[1]][c[2]]
    OBVIOUS
  <1>7. \A row, rank : Dot(values, basis, row, band, rank) = Loop(T, sumOf(row, rank), 0)
    BY DEF Dot
  <1> HIDE DEF body, start, scalar, view, sumOf, S, T
  <1>8. Cells(S, C, view, T, body, start, scalar, 0)
    <2>1. \A c \in C : view[start][c] = 0
      BY <1>2, <1>6
    <2>2. ASSUME NEW k \in 0 .. T - 1, NEW s \in S
          PROVE  body[k][s] \in S /\ \A c \in C : view[body[k][s]][c] = scalar[c][k][view[s][c]]
      <3>1. body[k][s] \in S
        BY <1>3
      <3>2. ASSUME NEW c \in C PROVE view[body[k][s]][c] = scalar[c][k][view[s][c]]
        <4> DEFINE row == c[1]
                   rank == c[2]
        <4>1. row \in 0 .. count - 1 /\ rank \in 0 .. 3 /\ scalar[c] = sumOf(first + row, rank)
          BY <1>5
        <4>2. view[body[k][s]][c] = body[k][s][row][rank] /\ view[s][c] = s[row][rank]
          BY <1>6, <3>1
        <4> HIDE DEF row, rank, C
        <4>3. body[k][s][row][rank] = sumOf(first + row, rank)[k][s[row][rank]]
          BY <1>3, <4>1
        <4>4. QED
          BY <4>1, <4>2, <4>3
      <3>3. QED
        BY <3>1, <3>2
    <2>3. QED
      BY <1>1, <1>2, <2>1, <2>2 DEF Cells, T
  <1>9. /\ Loop(T, body, start) \in S
        /\ \A c \in C : view[Loop(T, body, start)][c] = Loop(T, scalar[c], 0)
    <2> HIDE DEF C
    <2>1. CellsEnd(S, C, view, T, body, start, scalar, 0)
      BY <1>8, CellsLoop
    <2>2. QED
      BY <2>1, Zenon DEF CellsEnd
  <1>10. ASSUME NEW row \in 0 .. count - 1, NEW rank \in 0 .. 3
         PROVE  Loop(T, body, start)[row][rank] = Dot(values, basis, first + row, band, rank)
    <2> DEFINE c == <<row, rank>>
    <2>1. c \in C /\ c[1] = row /\ c[2] = rank
      OBVIOUS
    <2>2. view[Loop(T, body, start)][c] = Loop(T, scalar[c], 0)
      BY <1>9, <2>1
    <2>3. QED
      BY <1>5, <1>6, <1>7, <1>9, <2>1, <2>2
  <1>11. QED
    BY <1>1, <1>4, <1>9, <1>10 DEF S

\* The sums of the rows of a band, two ranks in a vector.
LEMMA BandSumsNeonAre ==
    ASSUME NEW rows \in Nat, NEW values \in Memory(rows * SynthesisTaps),
           NEW basis \in Memory(SynthesisBands * SynthesisTaps * Ranks),
           NEW first \in Nat, NEW count \in Nat, first + count <= rows, NEW band \in 0 .. SynthesisBands - 1
    PROVE  \A row \in 0 .. count - 1 :
               /\ BandSumsNeon(values, basis, first, count, band)[row][0] \in Memory(2)
               /\ BandSumsNeon(values, basis, first, count, band)[row][1] \in Memory(2)
               /\ \A half \in 0 .. 1, l \in 0 .. 1 :
                      BandSumsNeon(values, basis, first, count, band)[row][half][l]
                      = Dot(values, basis, first + row, band, 2 * half + l)
  <1> DEFINE T == SynthesisTaps
             S == [0 .. count - 1 -> [0 .. 1 -> Memory(2)]]
             C == (0 .. count - 1) \X (0 .. 1) \X (0 .. 1)
             view == [s \in S |-> [c \in C |-> s[c[1]][c[2]][c[3]]]]
             body == [tap \in 0 .. SynthesisTaps - 1 |-> [sums \in [0 .. count - 1 -> [0 .. 1 -> Memory(2)]] |->
                         [row \in 0 .. count - 1 |-> [half \in 0 .. 1 |->
                             LET weight == Load(basis, (band * SynthesisTaps + tap) * Ranks + 2 * half, 2)
                             IN  Added(sums[row][half],
                                       Multiplied(Broadcast(values[(first + row) * SynthesisTaps + tap], 2), weight))]]]]
             start == [row \in 0 .. count - 1 |-> [half \in 0 .. 1 |-> Broadcast(0, 2)]]
             sumOf(row, rank) == [tap \in 0 .. SynthesisTaps - 1 |-> [sum \in Doubles |->
                                     Plus(sum, Times(values[row * SynthesisTaps + tap],
                                                     basis[(band * SynthesisTaps + tap) * Ranks + rank]))]]
             scalar == [c \in C |-> sumOf(first + c[1], 2 * c[2] + c[3])]
  <1>1. T \in Nat /\ Ranks = 4
    BY SizesAssumption DEF Ranks
  <1>2. start \in S /\ \A c \in C : start[c[1]][c[2]][c[3]] = 0
    <2>1. Broadcast(0, 2) \in Memory(2) /\ \A l \in 0 .. 1 : Broadcast(0, 2)[l] = 0
      BY BroadcastIs, Closed
    <2>2. QED
      BY <1>1, <2>1
  <1>3. ASSUME NEW tap \in 0 .. T - 1, NEW s \in S
        PROVE  /\ body[tap][s] \in S
               /\ \A row \in 0 .. count - 1, half \in 0 .. 1, l \in 0 .. 1 :
                      body[tap][s][row][half][l] = sumOf(first + row, 2 * half + l)[tap][s[row][half][l]]
    <2> DEFINE at == (band * SynthesisTaps + tap) * Ranks
               size == SynthesisBands * SynthesisTaps * Ranks
               x(row) == values[(first + row) * SynthesisTaps + tap]
               w(half) == Load(basis, at + 2 * half, 2)
               v(row) == Broadcast(x(row), 2)
               p(row, half) == Multiplied(v(row), w(half))
               a(row, half) == Added(s[row][half], p(row, half))
    <2>0. ASSUME NEW row \in 0 .. count - 1
          PROVE x(row) \in Doubles /\ at \in Nat /\ at + 4 <= size /\ size \in Int
      <3>1. first + row \in 0 .. rows - 1
        OBVIOUS
      <3>2. QED
        BY <3>1, TapIs
    <2>2. ASSUME NEW row \in 0 .. count - 1, NEW half \in 0 .. 1
          PROVE  s[row][half] \in Memory(2) /\ \A l \in 0 .. 1 : s[row][half][l] \in Doubles
      <3>1. s[row][half] \in Memory(2)
        OBVIOUS
      <3>2. QED
        BY <3>1 DEF Memory
    <2>3. body[tap][s] = [row \in 0 .. count - 1 |-> [half \in 0 .. 1 |-> a(row, half)]]
      OBVIOUS
    <2>4. ASSUME NEW row \in 0 .. count - 1, NEW half \in 0 .. 1, NEW l \in 0 .. 1
          PROVE  sumOf(first + row, 2 * half + l)[tap][s[row][half][l]]
                 = Plus(s[row][half][l], Times(x(row), basis[at + (2 * half + l)]))
      BY <2>2
    <2>5. ASSUME NEW row \in 0 .. count - 1, NEW half \in 0 .. 1
          PROVE  /\ a(row, half) \in Memory(2)
                 /\ \A l \in 0 .. 1 : a(row, half)[l] = Plus(s[row][half][l], Times(x(row), basis[at + (2 * half + l)]))
      <3> DEFINE y == x(row)
                 u == v(row)
                 g == w(half)
                 z == p(row, half)
                 n == at + 2 * half
      <3>1. y \in Doubles /\ at \in Nat /\ at + 4 <= size /\ size \in Int
        BY <2>0
      <3>2. basis \in Memory(size)
        OBVIOUS
      <3> HIDE DEF at, size, y
      <3>3. n \in Nat /\ n + 2 <= size /\ \A l \in 0 .. 1 : n + l = at + (2 * half + l)
        BY <3>1
      <3>4. u \in Memory(2) /\ \A l \in 0 .. 1 : u[l] = y
        BY <3>1, BroadcastIs DEF y
      <3>5. g = Load(basis, n, 2)
        OBVIOUS
      <3> HIDE DEF n, u, g
      <3>6. g \in Memory(2) /\ \A l \in 0 .. 1 : g[l] = basis[n + l]
        <4>1. /\ Load(basis, n, 2) \in Memory(2)
              /\ \A l \in 0 .. 2 - 1 : Load(basis, n, 2)[l] = basis[n + l]
          BY <3>1, <3>2, <3>3, LoadIs, 2 \in Nat
        <4>2. 2 - 1 = 1
          OBVIOUS
        <4>3. QED
          BY <3>5, <4>1, <4>2
      <3>7. z \in Memory(2) /\ \A l \in 0 .. 1 : z[l] = Times(u[l], g[l])
        BY <3>4, <3>6, LanesAre DEF u, g
      <3>8. s[row][half] \in Memory(2)
        BY <2>2
      <3> HIDE DEF z
      <3>9. Added(s[row][half], z) \in Memory(2) /\ \A l \in 0 .. 1 : Added(s[row][half], z)[l] = Plus(s[row][half][l], z[l])
        BY <3>7, <3>8, LanesAre, SMTT(30)
      <3>10. a(row, half) = Added(s[row][half], z)
        BY DEF z
      <3>11. QED
        BY <3>3, <3>4, <3>6, <3>7, <3>9, <3>10 DEF y
    <2> HIDE DEF a, at, sumOf, body, x
    <2>6. body[tap][s] \in S
      BY <2>3, <2>5
    <2>7. QED
      BY <2>3, <2>4, <2>5, <2>6
  <1>4. BandSumsNeon(values, basis, first, count, band) = Loop(T, body, start)
    BY DEF BandSumsNeon
  <1>5. \A c \in C : c[1] \in 0 .. count - 1 /\ c[2] \in 0 .. 1 /\ c[3] \in 0 .. 1 /\ scalar[c] = sumOf(first + c[1], 2 * c[2] + c[3])
    OBVIOUS
  <1>6. \A s \in S, c \in C : view[s][c] = s[c[1]][c[2]][c[3]]
    OBVIOUS
  <1>7. \A row, rank : Dot(values, basis, row, band, rank) = Loop(T, sumOf(row, rank), 0)
    BY DEF Dot
  <1> HIDE DEF body, start, scalar, view, sumOf, S, T
  <1>8. Cells(S, C, view, T, body, start, scalar, 0)
    <2>1. \A c \in C : view[start][c] = 0
      BY <1>2, <1>6
    <2>2. ASSUME NEW k \in 0 .. T - 1, NEW s \in S
          PROVE  body[k][s] \in S /\ \A c \in C : view[body[k][s]][c] = scalar[c][k][view[s][c]]
      <3>1. body[k][s] \in S
        BY <1>3
      <3>2. ASSUME NEW c \in C PROVE view[body[k][s]][c] = scalar[c][k][view[s][c]]
        <4> DEFINE row == c[1]
                   half == c[2]
                   l == c[3]
        <4>1. row \in 0 .. count - 1 /\ half \in 0 .. 1 /\ l \in 0 .. 1 /\ scalar[c] = sumOf(first + row, 2 * half + l)
          BY <1>5
        <4>2. view[body[k][s]][c] = body[k][s][row][half][l] /\ view[s][c] = s[row][half][l]
          BY <1>6, <3>1
        <4> HIDE DEF row, half, l, C
        <4>3. body[k][s][row][half][l] = sumOf(first + row, 2 * half + l)[k][s[row][half][l]]
          BY <1>3, <4>1, ZenonT(40)
        <4>4. QED
          BY <4>1, <4>2, <4>3
      <3>3. QED
        BY <3>1, <3>2
    <2>3. QED
      BY <1>1, <1>2, <2>1, <2>2 DEF Cells, T
  <1>9. /\ Loop(T, body, start) \in S
        /\ \A c \in C : view[Loop(T, body, start)][c] = Loop(T, scalar[c], 0)
    <2> HIDE DEF C
    <2>1. CellsEnd(S, C, view, T, body, start, scalar, 0)
      BY <1>8, CellsLoop
    <2>2. QED
      BY <2>1, Zenon DEF CellsEnd
  <1>10. ASSUME NEW row \in 0 .. count - 1, NEW half \in 0 .. 1, NEW l \in 0 .. 1
         PROVE  Loop(T, body, start)[row][half][l] = Dot(values, basis, first + row, band, 2 * half + l)
    <2> DEFINE c == <<row, half, l>>
    <2>1. c \in C /\ c[1] = row /\ c[2] = half /\ c[3] = l
      OBVIOUS
    <2>2. view[Loop(T, body, start)][c] = Loop(T, scalar[c], 0)
      BY <1>9, <2>1
    <2>3. QED
      BY <1>5, <1>6, <1>7, <1>9, <2>1, <2>2
  <1>11. QED
    BY <1>1, <1>4, <1>9, <1>10 DEF S

\* What is done when so many rows of a band are, behind the bands before it.
Placed(first, count, band, n) ==
    {i \in Nat : \/ i < first * SynthesisBands * 4
                 \/ \E row \in 0 .. count - 1, b \in 0 .. band, l \in 0 .. 3 :
                        /\ i = CellOf(first + row, b) + l
                        /\ b < band \/ row < n}

\* A row placed adds its cell to what is placed.
PlacedMore(first, count, band) ==
    \A n \in 0 .. count - 1 :
        Placed(first, count, band, n + 1)
        = Placed(first, count, band, n) \cup (CellOf(first + n, band) .. (CellOf(first + n, band) + 4) - 1)

\* Placing the rows of a band goes cell by cell.
LEMMA PlacedGrows ==
    ASSUME NEW first \in Nat, NEW count \in Nat, NEW band \in 0 .. SynthesisBands - 1
    PROVE  PlacedMore(first, count, band)
  <1> SUFFICES ASSUME NEW n \in 0 .. count - 1
               PROVE  Placed(first, count, band, n + 1)
                      = Placed(first, count, band, n)
                        \cup (CellOf(first + n, band) .. (CellOf(first + n, band) + 4) - 1)
    BY DEF PlacedMore
  <1> DEFINE at == CellOf(first + n, band)
  <1>1. at \in Nat
    BY CellIs, first + n \in 0 .. (first + n + 1) - 1, first + n + 1 \in Nat
  <1>2. ASSUME NEW i \in Placed(first, count, band, n + 1)
        PROVE  i \in Placed(first, count, band, n) \/ i \in at .. (at + 4) - 1
    <2>1. CASE i < first * SynthesisBands * 4
      BY <1>2, <2>1 DEF Placed
    <2>2. ASSUME NEW row \in 0 .. count - 1, NEW b \in 0 .. band, NEW l \in 0 .. 3,
                 i = CellOf(first + row, b) + l, b < band \/ row < n + 1
          PROVE  i \in Placed(first, count, band, n) \/ i \in at .. (at + 4) - 1
      <3>1. CASE b < band \/ row < n
        BY <1>2, <2>2, <3>1 DEF Placed
      <3>2. CASE b = band /\ row = n
        BY <1>1, <2>2, <3>2
      <3>3. QED
        BY <2>2, <3>1, <3>2
    <2>3. QED
      BY <1>2, <2>1, <2>2 DEF Placed
  <1>3. ASSUME NEW i \in at .. (at + 4) - 1 PROVE i \in Placed(first, count, band, n + 1)
    <2> DEFINE l == i - at
    <2>1. l \in 0 .. 3 /\ i = at + l /\ i \in Nat
      BY <1>1
    <2> HIDE DEF l
    <2>2. QED
      BY <2>1, band \in 0 .. band, n < n + 1 DEF Placed
  <1>4. Placed(first, count, band, n) \subseteq Placed(first, count, band, n + 1)
    BY DEF Placed
  <1>5. QED
    BY <1>2, <1>3, <1>4

\* The rows of a band are done when the next band begins.
LEMMA PlacedNext ==
    ASSUME NEW first \in Nat, NEW count \in Nat, NEW band \in Nat
    PROVE  Placed(first, count, band, count) = Placed(first, count, band + 1, 0)
  <1>1. ASSUME NEW i \in Placed(first, count, band, count) PROVE i \in Placed(first, count, band + 1, 0)
    <2>1. CASE i < first * SynthesisBands * 4
      BY <1>1, <2>1 DEF Placed
    <2>2. ASSUME NEW row \in 0 .. count - 1, NEW b \in 0 .. band, NEW l \in 0 .. 3, i = CellOf(first + row, b) + l
          PROVE  i \in Placed(first, count, band + 1, 0)
      <3>1. b \in 0 .. band + 1 /\ b < band + 1
        OBVIOUS
      <3>2. QED
        BY <1>1, <2>2, <3>1 DEF Placed
    <2>3. QED
      BY <1>1, <2>1, <2>2 DEF Placed
  <1>2. ASSUME NEW i \in Placed(first, count, band + 1, 0) PROVE i \in Placed(first, count, band, count)
    <2>1. CASE i < first * SynthesisBands * 4
      BY <1>2, <2>1 DEF Placed
    <2>2. ASSUME NEW row \in 0 .. count - 1, NEW b \in 0 .. band + 1, NEW l \in 0 .. 3,
                 i = CellOf(first + row, b) + l, b < band + 1 \/ row < 0
          PROVE  i \in Placed(first, count, band, count)
      <3>1. b \in 0 .. band /\ row < count
        BY <2>2
      <3>2. QED
        BY <1>2, <2>2, <3>1 DEF Placed
    <2>3. QED
      BY <1>2, <2>1, <2>2 DEF Placed
  <1>3. QED
    BY <1>1, <1>2

\* Nothing of the rows is done at the first band, and all of them behind the last.
LEMMA PlacedEnds ==
    ASSUME NEW first \in Nat, NEW count \in Nat, NEW i \in Nat
    PROVE  /\ i \in Placed(first, count, 0, 0) <=> i < first * SynthesisBands * 4
           /\ i \in Placed(first, count, SynthesisBands, 0) <=> i < (first + count) * SynthesisBands * 4
  <1> DEFINE B == SynthesisBands
             rows == first + count
  <1>1. B \in Nat /\ first * B \in Nat /\ rows * B \in Nat /\ rows * B = first * B + count * B /\ count * B \in Nat
    BY SizesAssumption
  <1>2. i \in Placed(first, count, 0, 0) <=> i < first * B * 4
    BY DEF Placed
  <1>3. ASSUME i \in Placed(first, count, B, 0) PROVE i < rows * B * 4
    <2>1. CASE i < first * B * 4
      BY <1>1, <2>1
    <2>2. ASSUME NEW row \in 0 .. count - 1, NEW b \in 0 .. B, NEW l \in 0 .. 3,
                 i = CellOf(first + row, b) + l, b < B \/ row < 0
          PROVE  i < rows * B * 4
      <3>1. first + row \in 0 .. rows - 1 /\ b \in 0 .. B - 1
        BY <1>1, <2>2
      <3>2. CellOf(first + row, b) + 4 <= rows * B * Ranks /\ CellOf(first + row, b) \in Nat
        BY <3>1, CellIs, rows \in Nat
      <3>3. QED
        BY <1>1, <2>2, <3>2 DEF Ranks
    <2>3. QED
      BY <1>3, <2>1, <2>2 DEF Placed
  <1>4. ASSUME i < rows * B * 4 PROVE i \in Placed(first, count, B, 0)
    <2>1. CASE i < first * B * 4
      BY <2>1 DEF Placed
    <2>2. CASE ~(i < first * B * 4)
      <3> DEFINE c == i \div 4
                 q == c \div B
                 b == c % B
                 l == i % 4
                 row == q - first
      <3>1. c \in Nat /\ l \in 0 .. 3 /\ i = 4 * c + l
        OBVIOUS
      <3> HIDE DEF c, l
      <3>2. first * B <= c /\ c < rows * B
        BY <1>1, <1>4, <2>2, <3>1
      <3>3. B # 0
        BY <1>1, <3>1, <3>2
      <3>4. q \in Nat /\ b \in 0 .. B - 1 /\ c = B * q + b
        <4> HIDE DEF B
        <4>1. QED
          BY <1>1, <3>1, <3>3, DivMod
      <3> HIDE DEF q, b
      <3>5. q < rows
        <4>1. ASSUME q >= rows PROVE FALSE
          <5>1. B * q >= B * rows
            BY <1>1, <3>4, <4>1
          <5>2. QED
            BY <1>1, <3>2, <3>4, <5>1
        <4>2. QED
          BY <3>4, <4>1
      <3>6. q >= first
        <4>1. ASSUME q + 1 <= first PROVE FALSE
          <5>1. B * (q + 1) <= B * first
            BY <1>1, <3>4, <4>1
          <5>2. QED
            BY <1>1, <3>2, <3>4, <5>1
        <4>2. QED
          BY <3>4, <4>1
      <3>7. row \in 0 .. count - 1 /\ first + row = q /\ b \in 0 .. B /\ b < B
        BY <1>1, <3>4, <3>5, <3>6
      <3>8. i = CellOf(first + row, b) + l
        <4>1. q * B = B * q
          BY <1>1, <3>4
        <4>2. QED
          BY <1>1, <3>1, <3>4, <3>7, <4>1 DEF CellOf
      <3> HIDE DEF row, B
      <3>9. \E x \in 0 .. count - 1, y \in 0 .. B, z \in 0 .. 3 : i = CellOf(first + x, y) + z /\ (y < B \/ x < 0)
        BY <3>1, <3>7, <3>8
      <3>10. QED
        BY <3>9 DEF Placed, B
    <2>3. QED
      BY <2>1, <2>2
  <1>5. QED
    BY <1>2, <1>3, <1>4

\* What is done is a matter of the indices within memory only.
LEMMA DoneSame ==
    ASSUME NEW size \in Int, NEW from \in Memory(size), NEW to \in Memory(size), NEW W, NEW V,
           \A i \in 0 .. size - 1 : i \in W <=> i \in V
    PROVE  Done(from, to, W) = Done(from, to, V)
  BY DEF Done, Memory

\* The same with a set of indices that only has to agree on the memory's.
StoredTo(v, to, at, width, size) ==
    /\ at + width <= size
    /\ v \in Memory(width) /\ \A j \in 0 .. width - 1 : v[j] = to[at + j]
\* What is done grows by a vector.
Extends(V, W, at, width, size) == \A i \in 0 .. size - 1 : i \in V <=> i \in W \/ (at <= i /\ i < at + width)

\* Storing a vector of what is to come, wherever it is, does its indices.
LEMMA StoreDoneTo ==
    ASSUME NEW size \in Int, NEW from \in Memory(size), NEW to \in Memory(size), NEW W, NEW V,
           NEW at \in Nat, NEW width \in Nat, NEW v, StoredTo(v, to, at, width, size), Extends(V, W, at, width, size)
    PROVE  Store(Done(from, to, W), at, v) = Done(from, to, V)
  <1> DEFINE U == W \cup (at .. at + width - 1)
  <1>1. Store(Done(from, to, W), at, v) = Done(from, to, U)
    BY StoreDone DEF StoredTo
  <1>2. \A i \in 0 .. size - 1 : i \in V <=> i \in U
    BY DEF Extends
  <1> HIDE DEF U
  <1>3. QED
    BY <1>1, <1>2, DoneSame

\* The rows of a band, each storing the ranks of its cell.
RowStores(inner, from, to, first, count, band) ==
    \A row \in 0 .. count - 1 : \A W :
        inner[row][Done(from, to, W)]
        = Done(from, to, W \cup (CellOf(first + row, band) .. (CellOf(first + row, band) + 4) - 1))

\* Storing the rows of a band, one cell in each, does the band.
LEMMA RowLoop ==
    ASSUME NEW first \in Nat, NEW count \in Nat, NEW band \in 0 .. SynthesisBands - 1, NEW inner, NEW from, NEW to,
           RowStores(inner, from, to, first, count, band)
    PROVE  Loop(count, inner, Done(from, to, Placed(first, count, band, 0)))
           = Done(from, to, Placed(first, count, band + 1, 0))
  <1> DEFINE states == [n \in 0 .. count |-> Done(from, to, Placed(first, count, band, n))]
  <1>0. PlacedMore(first, count, band)
    BY PlacedGrows
  <1>1. /\ states[0] = Done(from, to, Placed(first, count, band, 0))
        /\ states[count] = Done(from, to, Placed(first, count, band, count))
    OBVIOUS
  <1>2. ASSUME NEW n \in 0 .. count - 1 PROVE states[n + 1] = inner[n][states[n]]
    <2>1. states[n] = Done(from, to, Placed(first, count, band, n))
          /\ states[n + 1] = Done(from, to, Placed(first, count, band, n + 1))
      OBVIOUS
    <2>2. Placed(first, count, band, n + 1)
          = Placed(first, count, band, n) \cup (CellOf(first + n, band) .. (CellOf(first + n, band) + 4) - 1)
      BY <1>0 DEF PlacedMore
    <2>3. inner[n][Done(from, to, Placed(first, count, band, n))]
          = Done(from, to, Placed(first, count, band, n) \cup (CellOf(first + n, band) .. (CellOf(first + n, band) + 4) - 1))
      BY Zenon DEF RowStores
    <2> HIDE DEF states
    <2>4. QED
      BY <2>1, <2>2, <2>3
  <1> HIDE DEF states
  <1>3. Through(states, count, inner, Done(from, to, Placed(first, count, band, 0)))
    BY <1>1, <1>2 DEF Through
  <1>4. Loop(count, inner, Done(from, to, Placed(first, count, band, 0))) = states[count]
    BY <1>3, LoopStates
  <1>5. Placed(first, count, band, count) = Placed(first, count, band + 1, 0)
    BY PlacedNext, band \in Nat
  <1>6. QED
    BY <1>1, <1>4, <1>5

\* Every band in turn.
BandStores(body, from, to, first, count) ==
    \A band \in 0 .. SynthesisBands - 1 :
        body[band][Done(from, to, Placed(first, count, band, 0))] = Done(from, to, Placed(first, count, band + 1, 0))

\* Doing the bands one after another does the rows.
LEMMA BandLoop ==
    ASSUME NEW size \in Int, NEW from \in Memory(size), NEW to \in Memory(size),
           NEW first \in Nat, NEW count \in Nat, NEW body, BandStores(body, from, to, first, count)
    PROVE  Loop(SynthesisBands, body, Upto(from, to, first * SynthesisBands * 4))
           = Upto(from, to, (first + count) * SynthesisBands * 4)
  <1> DEFINE B == SynthesisBands
             states == [band \in 0 .. B |-> Done(from, to, Placed(first, count, band, 0))]
             x == first * B * 4
             y == (first + count) * B * 4
  <1>1. B \in Nat /\ x \in Int /\ y \in Int
    BY SizesAssumption
  <1>2. /\ states[0] = Done(from, to, Placed(first, count, 0, 0))
        /\ states[B] = Done(from, to, Placed(first, count, B, 0))
    BY <1>1
  <1>3. ASSUME NEW band \in 0 .. B - 1 PROVE states[band + 1] = body[band][states[band]]
    <2>1. states[band] = Done(from, to, Placed(first, count, band, 0))
          /\ states[band + 1] = Done(from, to, Placed(first, count, band + 1, 0))
      BY <1>1
    <2> HIDE DEF states
    <2>2. QED
      BY <2>1 DEF BandStores
  <1> HIDE DEF states
  <1>4. Through(states, B, body, states[0])
    BY <1>3 DEF Through
  <1> HIDE DEF x, y, B
  <1>5. Loop(B, body, states[0]) = states[B]
    BY <1>1, <1>4, LoopStates
  <1>6. /\ \A i \in 0 .. size - 1 : i \in Placed(first, count, 0, 0) <=> i < x
        /\ \A i \in 0 .. size - 1 : i \in Placed(first, count, B, 0) <=> i < y
    <2>1. ASSUME NEW i \in 0 .. size - 1
          PROVE  /\ i \in Placed(first, count, 0, 0) <=> i < x
                 /\ i \in Placed(first, count, B, 0) <=> i < y
      <3>1. i \in Nat
        OBVIOUS
      <3>2. QED
        BY <3>1, PlacedEnds, Zenon DEF x, y, B
    <2>2. QED
      BY <2>1
  <1>7. states[0] = Upto(from, to, x)
    <2> DEFINE V == 0 .. x - 1
               W == Placed(first, count, 0, 0)
    <2>1. \A i \in 0 .. size - 1 : i \in W <=> i \in V
      BY <1>1, <1>6
    <2> HIDE DEF V, W
    <2>2. Done(from, to, W) = Done(from, to, V)
      BY <2>1, DoneSame
    <2>3. QED
      BY <1>2, <2>2 DEF V, W, Upto
  <1>8. states[B] = Upto(from, to, y)
    <2> DEFINE V == 0 .. y - 1
               W == Placed(first, count, B, 0)
    <2>1. \A i \in 0 .. size - 1 : i \in W <=> i \in V
      BY <1>1, <1>6
    <2> HIDE DEF V, W
    <2>2. Done(from, to, W) = Done(from, to, V)
      BY <2>1, DoneSame
    <2>3. QED
      BY <1>2, <2>2 DEF V, W, Upto
  <1>9. QED
    BY <1>5, <1>7, <1>8 DEF x, y, B

\* Four rows, then one.
RowsSweep(four, one, from, to, rows) ==
    /\ \A row \in 0 .. rows - 1 : row + 4 <= rows =>
           four[row][Upto(from, to, row * SynthesisBands * 4)] = Upto(from, to, (row + 4) * SynthesisBands * 4)
    /\ \A row \in 0 .. rows - 1 :
           one[row][Upto(from, to, row * SynthesisBands * 4)] = Upto(from, to, (row + 1) * SynthesisBands * 4)

\* Rows in fours and the rest one by one are all the rows.
LEMMA RowsLoop ==
    ASSUME NEW rows \in Nat, NEW from \in Memory(rows * SynthesisBands * Ranks), NEW to \in Memory(rows * SynthesisBands * Ranks),
           NEW four, NEW one, RowsSweep(four, one, from, to, rows)
    PROVE  VectorLoop(rows, 4, four, one, from) = to
  <1> DEFINE B == SynthesisBands
             size == rows * B * Ranks
             states == [k \in 0 .. rows |-> Upto(from, to, k * B * 4)]
             whole == rows \div 4
  <1>0. /\ whole \in Nat /\ 4 * whole \in Nat /\ 4 * whole <= rows
        /\ \A j \in 0 .. whole - 1 : 4 * j \in Nat /\ 4 * j + 4 <= 4 * whole
    OBVIOUS
  <1>1. B \in Nat /\ size \in Nat /\ size = rows * B * 4 /\ from \in Memory(size) /\ to \in Memory(size)
    BY SizesAssumption DEF Ranks
  <1>2. states[0] = from /\ states[rows] = to
    <2>1. states[0] = Upto(from, to, 0) /\ states[rows] = Upto(from, to, size)
      BY <1>1, 0 * B * 4 = 0
    <2> HIDE DEF size
    <2>2. QED
      BY <1>1, <2>1, UptoEnds
  <1>3. ASSUME NEW j \in 0 .. whole - 1
        PROVE  states[4 * j + 4] = four[4 * j][states[4 * j]]
    <2> DEFINE k == 4 * j
    <2>1. k \in 0 .. rows - 1 /\ k + 4 <= rows /\ k \in 0 .. rows /\ k + 4 \in 0 .. rows
      BY <1>0
    <2> HIDE DEF k
    <2>2. four[k][Upto(from, to, k * B * 4)] = Upto(from, to, (k + 4) * B * 4)
      BY <2>1 DEF RowsSweep
    <2>3. states[k + 4] = four[k][states[k]]
      BY <2>1, <2>2
    <2>4. QED
      BY <2>3 DEF k
  <1>4. ASSUME NEW k \in 4 * whole .. rows - 1
        PROVE  states[k + 1] = one[k][states[k]]
    <2>1. k \in 0 .. rows - 1 /\ k \in 0 .. rows /\ k + 1 \in 0 .. rows
      BY <1>0
    <2>2. one[k][Upto(from, to, k * B * 4)] = Upto(from, to, (k + 1) * B * 4)
      BY <2>1 DEF RowsSweep
    <2>3. QED
      BY <2>1, <2>2
  <1> HIDE DEF states
  <1>5. VectorStates(rows, 4, four, one, states)
    BY <1>3, <1>4 DEF VectorStates
  <1>6. VectorLoop(rows, 4, four, one, from) = states[rows]
    BY <1>2, <1>5, VectorLoopStates
  <1>7. QED
    BY <1>2, <1>6

\* The inputs of a synthesis.
SynthesisInputs(out, values, basis, rows) ==
    /\ rows \in Nat
    /\ out \in Memory(rows * SynthesisBands * Ranks) /\ values \in Memory(rows * SynthesisTaps)
    /\ basis \in Memory(SynthesisBands * SynthesisTaps * Ranks)

\* AVX2 synthesizes a few rows as the reference does.
LEMMA SynthesizeRowsAvx2Sweep ==
    ASSUME NEW out, NEW values, NEW basis, NEW rows, SynthesisInputs(out, values, basis, rows),
           NEW first \in Nat, NEW count \in Nat, first + count <= rows,
           NEW to, to = SynthesisScalar(values, basis, rows), NEW size, size = rows * SynthesisBands * Ranks
    PROVE  SynthesizeRowsAvx2(Upto(out, to, first * SynthesisBands * 4), size, values, basis, first, count)
           = Upto(out, to, (first + count) * SynthesisBands * 4)
  <1> DEFINE B == SynthesisBands
             sums(band) == BandSumsAvx2(values, basis, first, count, band)
             inner(band) == [row \in 0 .. count - 1 |-> [n \in Memory(size) |->
                                Store(n, ((first + row) * SynthesisBands + band) * Ranks, sums(band)[row])]]
             body == [band \in 0 .. SynthesisBands - 1 |-> [m \in Memory(size) |-> Loop(count, inner(band), m)]]
  <1>1. B \in Nat /\ size \in Int /\ rows \in Nat
    BY SizesAssumption DEF Ranks, SynthesisInputs
  <1>2. /\ out \in Memory(size) /\ to \in Memory(size)
        /\ \A row \in 0 .. rows - 1, band \in 0 .. B - 1, rank \in 0 .. 3 :
               to[CellOf(row, band) + rank] = Dot(values, basis, row, band, rank)
    BY SynthesisIs DEF SynthesisInputs
  <1>3. \A W : Done(out, to, W) \in Memory(size)
    BY <1>1, <1>2, DoneIn, Zenon
  <1>4. ASSUME NEW band \in 0 .. B - 1, NEW row \in 0 .. count - 1, NEW W
        PROVE  inner(band)[row][Done(out, to, W)]
               = Done(out, to, W \cup (CellOf(first + row, band) .. (CellOf(first + row, band) + 4) - 1))
    <2> DEFINE at == CellOf(first + row, band)
               v == sums(band)[row]
    <2>1. first + row \in 0 .. rows - 1
      BY <1>1
    <2>2. at \in Nat /\ at + 4 <= size
      BY <1>1, <2>1, CellIs
    <2>3. inner(band)[row][Done(out, to, W)] = Store(Done(out, to, W), at, v)
      BY <1>3 DEF CellOf, Ranks
    <2>4. v \in Memory(4) /\ \A rank \in 0 .. 3 : v[rank] = Dot(values, basis, first + row, band, rank)
      BY <1>1, BandSumsAvx2Are DEF SynthesisInputs
    <2> HIDE DEF v
    <2>5. \A rank \in 0 .. 3 : v[rank] = to[at + rank]
      BY <1>2, <2>1, <2>4
    <2> HIDE DEF at
    <2> DEFINE V == W \cup (at .. (at + 4) - 1)
    <2>6. Extends(V, W, at, 4, size) /\ StoredTo(v, to, at, 4, size)
      BY <2>2, <2>4, <2>5 DEF Extends, StoredTo
    <2> HIDE DEF V
    <2>7. Store(Done(out, to, W), at, v) = Done(out, to, V)
      BY <1>1, <1>2, <2>2, <2>6, StoreDoneTo, 4 \in Nat
    <2>8. QED
      BY <2>3, <2>7 DEF at, V
  <1>5. ASSUME NEW band \in 0 .. B - 1
        PROVE  body[band][Done(out, to, Placed(first, count, band, 0))] = Done(out, to, Placed(first, count, band + 1, 0))
    <2> DEFINE x == inner(band)
    <2>1. body[band][Done(out, to, Placed(first, count, band, 0))] = Loop(count, x, Done(out, to, Placed(first, count, band, 0)))
      BY <1>3
    <2>2. \A row \in 0 .. count - 1 : \A W :
              x[row][Done(out, to, W)] = Done(out, to, W \cup (CellOf(first + row, band) .. (CellOf(first + row, band) + 4) - 1))
      BY <1>4
    <2> HIDE DEF x, body
    <2>3. RowStores(x, out, to, first, count, band)
      BY <2>2 DEF RowStores
    <2>4. QED
      BY <2>1, <2>3, RowLoop
  <1>6. \A m : SynthesizeRowsAvx2(m, size, values, basis, first, count) = Loop(SynthesisBands, body, m)
    BY IsEvaluated DEF SynthesizeRowsAvx2
  <1> HIDE DEF body
  <1>7. BandStores(body, out, to, first, count)
    BY <1>5 DEF BandStores
  <1>8. QED
    BY <1>1, <1>2, <1>6, <1>7, BandLoop

\* AVX2 synthesizes with the reference's bits.
LEMMA SynthesisAvx2IsScalar ==
    ASSUME NEW out, NEW values, NEW basis, NEW rows, SynthesisInputs(out, values, basis, rows)
    PROVE  SynthesisAvx2(out, values, basis, rows) = SynthesisScalar(values, basis, rows)
  <1> DEFINE B == SynthesisBands
             size == rows * SynthesisBands * Ranks
             to == SynthesisScalar(values, basis, rows)
             four == [row \in 0 .. rows - 1 |-> [m \in Memory(size) |->
                         SynthesizeRowsAvx2(m, size, values, basis, row, 4)]]
             one == [row \in 0 .. rows - 1 |-> [m \in Memory(size) |->
                        SynthesizeRowsAvx2(m, size, values, basis, row, 1)]]
  <1>1. B \in Nat /\ size \in Int /\ rows \in Nat
    BY SizesAssumption DEF Ranks, SynthesisInputs
  <1>2. out \in Memory(size) /\ to \in Memory(size)
    BY SynthesisIs DEF SynthesisInputs
  <1>3. \A n \in Int : Upto(out, to, n) \in Memory(size)
    <2> HIDE DEF size, to
    <2>1. QED
      BY <1>1, <1>2, UptoIn, Zenon
  <1>4. SynthesisAvx2(out, values, basis, rows) = VectorLoop(rows, 4, four, one, out)
    BY DEF SynthesisAvx2
  <1>5. ASSUME NEW row \in 0 .. rows - 1
        PROVE  /\ row + 4 <= rows => four[row][Upto(out, to, row * B * 4)] = Upto(out, to, (row + 4) * B * 4)
               /\ one[row][Upto(out, to, row * B * 4)] = Upto(out, to, (row + 1) * B * 4)
    <2> DEFINE x == Upto(out, to, row * B * 4)
    <2>1. x \in Memory(size)
      <3>1. row * B * 4 \in Int
        BY <1>1
      <3>2. QED
        BY <1>3, <3>1
    <2>2. /\ four[row][x] = SynthesizeRowsAvx2(x, size, values, basis, row, 4)
          /\ one[row][x] = SynthesizeRowsAvx2(x, size, values, basis, row, 1)
      BY <2>1
    <2> HIDE DEF size, to
    <2>3. row \in Nat /\ row + 1 <= rows
      BY <1>1
    <2>4. row + 4 <= rows => SynthesizeRowsAvx2(x, size, values, basis, row, 4) = Upto(out, to, (row + 4) * B * 4)
      BY <2>3, SynthesizeRowsAvx2Sweep DEF size, to
    <2>5. SynthesizeRowsAvx2(x, size, values, basis, row, 1) = Upto(out, to, (row + 1) * B * 4)
      BY <2>3, SynthesizeRowsAvx2Sweep DEF size, to
    <2>6. QED
      BY <2>2, <2>4, <2>5
  <1> HIDE DEF four, one, to
  <1>6. RowsSweep(four, one, out, to, rows)
    BY <1>5 DEF RowsSweep
  <1>7. VectorLoop(rows, 4, four, one, out) = to
    BY <1>1, <1>2, <1>6, RowsLoop
  <1>8. QED
    BY <1>4, <1>7 DEF to

\* NEON synthesizes a few rows as the reference does.
LEMMA SynthesizeRowsNeonSweep ==
    ASSUME NEW out, NEW values, NEW basis, NEW rows, SynthesisInputs(out, values, basis, rows),
           NEW first \in Nat, NEW count \in Nat, first + count <= rows,
           NEW to, to = SynthesisScalar(values, basis, rows), NEW size, size = rows * SynthesisBands * Ranks
    PROVE  SynthesizeRowsNeon(Upto(out, to, first * SynthesisBands * 4), size, values, basis, first, count)
           = Upto(out, to, (first + count) * SynthesisBands * 4)
  <1> DEFINE B == SynthesisBands
             sums(band) == BandSumsNeon(values, basis, first, count, band)
             place(row, band) == ((first + row) * SynthesisBands + band) * Ranks
             inner(band) == [row \in 0 .. count - 1 |-> [n \in Memory(size) |->
                                Store(Store(n, place(row, band), sums(band)[row][0]),
                                      place(row, band) + 2, sums(band)[row][1])]]
             body == [band \in 0 .. SynthesisBands - 1 |-> [m \in Memory(size) |-> Loop(count, inner(band), m)]]
  <1>1. B \in Nat /\ size \in Int /\ rows \in Nat
    BY SizesAssumption DEF Ranks, SynthesisInputs
  <1>2. /\ out \in Memory(size) /\ to \in Memory(size)
        /\ \A row \in 0 .. rows - 1, band \in 0 .. B - 1, rank \in 0 .. 3 :
               to[CellOf(row, band) + rank] = Dot(values, basis, row, band, rank)
    BY SynthesisIs DEF SynthesisInputs
  <1>3. \A W : Done(out, to, W) \in Memory(size)
    BY <1>1, <1>2, DoneIn, Zenon
  <1>4. ASSUME NEW band \in 0 .. B - 1, NEW row \in 0 .. count - 1, NEW W
        PROVE  inner(band)[row][Done(out, to, W)]
               = Done(out, to, W \cup (CellOf(first + row, band) .. (CellOf(first + row, band) + 4) - 1))
    <2> DEFINE at == CellOf(first + row, band)
               high == at + 2
               u == sums(band)[row][0]
               v == sums(band)[row][1]
               U == W \cup {at, at + 1}
               V == W \cup (at .. (at + 4) - 1)
    <2>1. first + row \in 0 .. rows - 1
      BY <1>1
    <2>2. at \in Nat /\ at + 4 <= size
      BY <1>1, <2>1, CellIs
    <2>3. inner(band)[row][Done(out, to, W)] = Store(Store(Done(out, to, W), at, u), high, v)
      BY <1>3 DEF CellOf, Ranks
    <2>4. /\ u \in Memory(2) /\ v \in Memory(2)
          /\ u[0] = Dot(values, basis, first + row, band, 0) /\ u[1] = Dot(values, basis, first + row, band, 1)
          /\ v[0] = Dot(values, basis, first + row, band, 2) /\ v[1] = Dot(values, basis, first + row, band, 3)
      BY <1>1, BandSumsNeonAre DEF SynthesisInputs
    <2> HIDE DEF u, v
    <2>5. u[0] = to[at + 0] /\ u[1] = to[at + 1] /\ v[0] = to[at + 2] /\ v[1] = to[at + 3]
      BY <1>2, <2>1, <2>4
    <2> HIDE DEF at
    <2>6. high \in Nat /\ high + 2 <= size
      BY <2>2
    <2>7. \A j \in 0 .. 1 : u[j] = to[at + j] /\ v[j] = to[high + j]
      BY <2>2, <2>5
    <2>8. Extends(U, W, at, 2, size) /\ StoredTo(u, to, at, 2, size)
      BY <2>2, <2>4, <2>7 DEF Extends, StoredTo
    <2>9. Extends(V, U, high, 2, size) /\ StoredTo(v, to, high, 2, size)
      BY <2>2, <2>4, <2>6, <2>7 DEF Extends, StoredTo
    <2> HIDE DEF U, V, high
    <2>10. Store(Done(out, to, W), at, u) = Done(out, to, U)
      BY <1>1, <1>2, <2>2, <2>8, StoreDoneTo, 2 \in Nat
    <2>11. Store(Done(out, to, U), high, v) = Done(out, to, V)
      BY <1>1, <1>2, <2>6, <2>9, StoreDoneTo, 2 \in Nat
    <2>12. QED
      BY <2>3, <2>10, <2>11 DEF at, V
  <1>5. ASSUME NEW band \in 0 .. B - 1
        PROVE  body[band][Done(out, to, Placed(first, count, band, 0))] = Done(out, to, Placed(first, count, band + 1, 0))
    <2> DEFINE x == inner(band)
    <2>1. body[band][Done(out, to, Placed(first, count, band, 0))] = Loop(count, x, Done(out, to, Placed(first, count, band, 0)))
      BY <1>3
    <2>2. \A row \in 0 .. count - 1 : \A W :
              x[row][Done(out, to, W)] = Done(out, to, W \cup (CellOf(first + row, band) .. (CellOf(first + row, band) + 4) - 1))
      BY <1>4
    <2> HIDE DEF x, body
    <2>3. RowStores(x, out, to, first, count, band)
      BY <2>2 DEF RowStores
    <2>4. QED
      BY <2>1, <2>3, RowLoop
  <1>6. \A m : SynthesizeRowsNeon(m, size, values, basis, first, count) = Loop(SynthesisBands, body, m)
    BY IsEvaluated, ZenonT(40) DEF SynthesizeRowsNeon
  <1> HIDE DEF body
  <1>7. BandStores(body, out, to, first, count)
    BY <1>5 DEF BandStores
  <1>8. QED
    BY <1>1, <1>2, <1>6, <1>7, BandLoop

\* NEON synthesizes with the reference's bits.
LEMMA SynthesisNeonIsScalar ==
    ASSUME NEW out, NEW values, NEW basis, NEW rows, SynthesisInputs(out, values, basis, rows)
    PROVE  SynthesisNeon(out, values, basis, rows) = SynthesisScalar(values, basis, rows)
  <1> DEFINE B == SynthesisBands
             size == rows * SynthesisBands * Ranks
             to == SynthesisScalar(values, basis, rows)
             four == [row \in 0 .. rows - 1 |-> [m \in Memory(size) |->
                         SynthesizeRowsNeon(m, size, values, basis, row, 4)]]
             one == [row \in 0 .. rows - 1 |-> [m \in Memory(size) |->
                        SynthesizeRowsNeon(m, size, values, basis, row, 1)]]
  <1>1. B \in Nat /\ size \in Int /\ rows \in Nat
    BY SizesAssumption DEF Ranks, SynthesisInputs
  <1>2. out \in Memory(size) /\ to \in Memory(size)
    BY SynthesisIs DEF SynthesisInputs
  <1>3. \A n \in Int : Upto(out, to, n) \in Memory(size)
    <2> HIDE DEF size, to
    <2>1. QED
      BY <1>1, <1>2, UptoIn, Zenon
  <1>4. SynthesisNeon(out, values, basis, rows) = VectorLoop(rows, 4, four, one, out)
    BY DEF SynthesisNeon
  <1>5. ASSUME NEW row \in 0 .. rows - 1
        PROVE  /\ row + 4 <= rows => four[row][Upto(out, to, row * B * 4)] = Upto(out, to, (row + 4) * B * 4)
               /\ one[row][Upto(out, to, row * B * 4)] = Upto(out, to, (row + 1) * B * 4)
    <2> DEFINE x == Upto(out, to, row * B * 4)
    <2>1. x \in Memory(size)
      <3>1. row * B * 4 \in Int
        BY <1>1
      <3>2. QED
        BY <1>3, <3>1
    <2>2. /\ four[row][x] = SynthesizeRowsNeon(x, size, values, basis, row, 4)
          /\ one[row][x] = SynthesizeRowsNeon(x, size, values, basis, row, 1)
      BY <2>1
    <2> HIDE DEF size, to
    <2>3. row \in Nat /\ row + 1 <= rows
      BY <1>1
    <2>4. row + 4 <= rows => SynthesizeRowsNeon(x, size, values, basis, row, 4) = Upto(out, to, (row + 4) * B * 4)
      BY <2>3, SynthesizeRowsNeonSweep DEF size, to
    <2>5. SynthesizeRowsNeon(x, size, values, basis, row, 1) = Upto(out, to, (row + 1) * B * 4)
      BY <2>3, SynthesizeRowsNeonSweep DEF size, to
    <2>6. QED
      BY <2>2, <2>4, <2>5
  <1> HIDE DEF four, one, to
  <1>6. RowsSweep(four, one, out, to, rows)
    BY <1>5 DEF RowsSweep
  <1>7. VectorLoop(rows, 4, four, one, out) = to
    BY <1>1, <1>2, <1>6, RowsLoop
  <1>8. QED
    BY <1>4, <1>7 DEF to

-----------------------------------------------------------------------------
(* Butterflies.                                                            *)

\* What a butterfly makes of its two complexes.
Upper(m, e, half, w) == ComplexPlus(Complex(m, e), ComplexTimes(Complex(m, e + half), w))
\* The lower output of a butterfly.
Lower(m, e, half, w) == ComplexMinus(Complex(m, e), ComplexTimes(Complex(m, e + half), w))

\* The two complexes of a butterfly, as they will be.
Wing(from, to, e, half, w) ==
    /\ to[2 * e] = Upper(from, e, half, w)[1] /\ to[2 * e + 1] = Upper(from, e, half, w)[2]
    /\ to[2 * (e + half)] = Lower(from, e, half, w)[1] /\ to[2 * (e + half) + 1] = Lower(from, e, half, w)[2]

\* A weight of each butterfly of a group, and what the group makes of memory.
Weighted(weights, half) == \A o \in 0 .. half - 1 : weights[o][1] \in Doubles /\ weights[o][2] \in Doubles
\* All the butterflies of a group.
Wings(from, to, half, weights, start) == \A o \in 0 .. half - 1 : Wing(from, to, start + o, half, weights[o])

\* A group in memory.
GroupInputs(from, to, size, half, weights, start) ==
    /\ size \in Nat /\ half \in Nat /\ start \in Nat /\ start + (2 * half) <= size
    /\ from \in Memory(2 * size) /\ to \in Memory(2 * size)
    /\ Weighted(weights, half) /\ Wings(from, to, half, weights, start)

\* What is done when so many butterflies of a group are.
ButterfliesDone(start, half, n) ==
    {i \in Nat : i < 2 * (start + n) \/ (2 * (start + half) <= i /\ i < 2 * ((start + half) + n))}

\* Writing a complex of what is to come, wherever it is, does its two doubles.
LEMMA PutDoneTo ==
    ASSUME NEW size \in Int, NEW from \in Memory(size), NEW to \in Memory(size), NEW W, NEW V,
           NEW k \in Nat, 2 * k + 2 <= size,
           NEW value, value[1] = to[2 * k], value[2] = to[2 * k + 1], Extends(V, W, 2 * k, 2, size)
    PROVE  PutComplex(Done(from, to, W), k, value) = Done(from, to, V)
  <1> DEFINE U == W \cup {2 * k, 2 * k + 1}
  <1>1. PutComplex(Done(from, to, W), k, value) = Done(from, to, U)
    BY PutDone
  <1>2. \A i \in 0 .. size - 1 : i \in V <=> i \in U
    BY DEF Extends
  <1> HIDE DEF U
  <1>3. QED
    BY <1>1, <1>2, DoneSame

\* The butterflies that come are still as they were.
Untouched(m, from, start, half, n) ==
    \A c \in Nat : start + n <= c /\ c < start + half =>
        Complex(m, c) = Complex(from, c) /\ Complex(m, c + half) = Complex(from, c + half)

\* The butterflies still to be done find what the stage was given.
LEMMA WingsUntouched ==
    ASSUME NEW from, NEW to, NEW size, NEW half, NEW weights, NEW start,
           GroupInputs(from, to, size, half, weights, start), NEW n \in Nat
    PROVE  Untouched(Done(from, to, ButterfliesDone(start, half, n)), from, start, half, n)
  <1> DEFINE W == ButterfliesDone(start, half, n)
             m == Done(from, to, W)
  <1>1. /\ half \in Nat /\ start \in Nat /\ size \in Nat /\ start + (2 * half) <= size
        /\ from \in Memory(2 * size) /\ to \in Memory(2 * size)
    BY DEF GroupInputs
  <1>2. \A i \in 0 .. (2 * size) - 1 : i \notin W => m[i] = from[i]
    BY <1>1, DoneAt, 2 * size \in Int
  <1>3. ASSUME NEW e \in Nat, start + n <= e, e < start + half
        PROVE  Complex(m, e) = Complex(from, e) /\ Complex(m, e + half) = Complex(from, e + half)
    <2> DEFINE d == e + half
    <2>1. 2 * e \notin W /\ 2 * e + 1 \notin W /\ 2 * d \notin W /\ 2 * d + 1 \notin W
      BY <1>1, <1>3 DEF ButterfliesDone
    <2>2. /\ 2 * e \in 0 .. (2 * size) - 1 /\ 2 * e + 1 \in 0 .. (2 * size) - 1
          /\ 2 * d \in 0 .. (2 * size) - 1 /\ 2 * d + 1 \in 0 .. (2 * size) - 1
      BY <1>1, <1>3
    <2> HIDE DEF W, m, d
    <2>3. Complex(m, e) = Complex(from, e) /\ Complex(m, d) = Complex(from, d)
      BY <1>2, <2>1, <2>2 DEF Complex
    <2>4. QED
      BY <2>3 DEF d
  <1> HIDE DEF W, m
  <1>4. Untouched(m, from, start, half, n)
    BY <1>3 DEF Untouched
  <1>5. QED
    BY <1>4 DEF m, W

\* The scalar butterfly.
LEMMA ButterflyTurns ==
    ASSUME NEW from, NEW to, NEW size, NEW half, NEW weights, NEW start,
           GroupInputs(from, to, size, half, weights, start), NEW n \in 0 .. half - 1,
           NEW w, w[1] = weights[n][1], w[2] = weights[n][2]
    PROVE  Butterfly(Done(from, to, ButterfliesDone(start, half, n)), start + n, start + n + half, w)
           = Done(from, to, ButterfliesDone(start, half, n + 1))
  <1> DEFINE W == ButterfliesDone(start, half, n)
             U == W \cup {2 * (start + n), 2 * (start + n) + 1}
             V == ButterfliesDone(start, half, n + 1)
             m == Done(from, to, W)
             e == start + n
             d == start + n + half
  <1>1. /\ half \in Nat /\ start \in Nat /\ size \in Nat /\ start + (2 * half) <= size
        /\ from \in Memory(2 * size) /\ to \in Memory(2 * size) /\ 2 * size \in Int
    BY DEF GroupInputs
  <1>2. Complex(m, e) = Complex(from, e) /\ Complex(m, d) = Complex(from, d)
    <2>1. Untouched(m, from, start, half, n)
      BY WingsUntouched, n \in Nat
    <2>2. e \in Nat /\ start + n <= e /\ e < start + half /\ d = e + half
      BY <1>1
    <2> HIDE DEF m, e, d
    <2>3. QED
      BY <2>1, <2>2 DEF Untouched
  <1>3. Wing(from, to, e, half, weights[n])
    BY DEF GroupInputs, Wings
  <1>4. /\ e \in Nat /\ d \in Nat /\ d = e + half /\ 2 * e + 2 <= 2 * size /\ 2 * d + 2 <= 2 * size
    BY <1>1
  <1>5. Extends(U, W, 2 * e, 2, 2 * size)
    <2>1. ASSUME NEW i \in 0 .. (2 * size) - 1
          PROVE  i \in U <=> i \in W \/ (2 * e <= i /\ i < 2 * e + 2)
      BY <1>1, <1>4
    <2> HIDE DEF W, U, e
    <2>2. QED
      BY <2>1 DEF Extends
  <1>11. Extends(V, U, 2 * d, 2, 2 * size)
    <2>1. ASSUME NEW i \in 0 .. (2 * size) - 1
          PROVE  i \in V <=> i \in U \/ (2 * d <= i /\ i < 2 * d + 2)
      <3>1. i \in W <=> i < 2 * (start + n) \/ (2 * (start + half) <= i /\ i < 2 * ((start + half) + n))
        BY DEF ButterfliesDone
      <3>2. i \in V <=> i < 2 * (start + (n + 1)) \/ (2 * (start + half) <= i /\ i < 2 * ((start + half) + (n + 1)))
        BY DEF ButterfliesDone
      <3>3. i \in U <=> i \in W \/ i = 2 * (start + n) \/ i = 2 * (start + n) + 1
        OBVIOUS
      <3> HIDE DEF W, U, V
      <3>4. QED
        BY <1>1, <3>1, <3>2, <3>3
    <2> HIDE DEF U, V, d
    <2>2. QED
      BY <2>1 DEF Extends
  <1> DEFINE a == ComplexPlus(Complex(from, e), ComplexTimes(Complex(from, d), w))
             b == ComplexMinus(Complex(from, e), ComplexTimes(Complex(from, d), w))
  <1>6. Butterfly(m, e, d, w) = PutComplex(PutComplex(m, e, a), d, b)
    BY <1>2 DEF Butterfly
  <1>7. /\ a[1] = to[2 * e] /\ a[2] = to[2 * e + 1] /\ b[1] = to[2 * d] /\ b[2] = to[2 * d + 1]
    BY <1>3, <1>4 DEF Wing, Upper, Lower, ComplexPlus, ComplexMinus, ComplexTimes
  <1> HIDE DEF W, U, V, m, e, d, a, b
  <1>8. PutComplex(m, e, a) = Done(from, to, U)
    BY <1>1, <1>4, <1>5, <1>7, PutDoneTo DEF m
  <1>9. PutComplex(Done(from, to, U), d, b) = Done(from, to, V)
    BY <1>1, <1>4, <1>11, <1>7, PutDoneTo
  <1>10. QED
    BY <1>6, <1>8, <1>9 DEF m, e, d, V, W

\* Two vectors of butterflies.
WingVectors(u, v, from, half, weights, start, n, h) ==
    /\ u \in Memory(2 * h) /\ v \in Memory(2 * h)
    /\ \A p \in 0 .. h - 1 :
           /\ u[2 * p] = Upper(from, start + n + p, half, weights[n + p])[1]
           /\ u[2 * p + 1] = Upper(from, start + n + p, half, weights[n + p])[2]
           /\ v[2 * p] = Lower(from, start + n + p, half, weights[n + p])[1]
           /\ v[2 * p + 1] = Lower(from, start + n + p, half, weights[n + p])[2]

\* Storing the two vectors of some butterflies does them.
LEMMA VectorsTurn ==
    ASSUME NEW from, NEW to, NEW size, NEW half, NEW weights, NEW start,
           GroupInputs(from, to, size, half, weights, start),
           NEW n \in Nat, NEW h \in Nat, n + h <= half,
           NEW u, NEW v, WingVectors(u, v, from, half, weights, start, n, h),
           NEW e, e = 2 * (start + n), NEW d, d = e + (2 * half)
    PROVE  Store(Store(Done(from, to, ButterfliesDone(start, half, n)), e, u), d, v)
           = Done(from, to, ButterfliesDone(start, half, n + h))
  <1> DEFINE W == ButterfliesDone(start, half, n)
             U == W \cup (e .. (e + (2 * h)) - 1)
             V == ButterfliesDone(start, half, n + h)
             width == 2 * h
  <1>1. /\ half \in Nat /\ start \in Nat /\ size \in Nat /\ start + (2 * half) <= size
        /\ from \in Memory(2 * size) /\ to \in Memory(2 * size) /\ 2 * size \in Int
        /\ width \in Nat
    BY DEF GroupInputs
  <1>2. e \in Nat /\ d \in Nat /\ e + width <= 2 * size /\ d + width <= 2 * size
    BY <1>1
  <1>3. Extends(U, W, e, width, 2 * size) /\ Extends(V, U, d, width, 2 * size)
    BY <1>1 DEF Extends, ButterfliesDone
  <1>4. ASSUME NEW j \in 0 .. width - 1 PROVE u[j] = to[e + j] /\ v[j] = to[d + j]
    <2>1. PICK p \in 0 .. h - 1 : j = 2 * p \/ j = 2 * p + 1
      BY <1>4, EveryLane
    <2> DEFINE o == n + p
               c == start + n + p
    <2>2. o \in 0 .. half - 1 /\ c = start + o /\ e + (2 * p) = 2 * c /\ d + (2 * p) = 2 * (c + half)
      BY <1>1, <2>1
    <2>3. Wing(from, to, c, half, weights[o])
      BY <2>2 DEF GroupInputs, Wings
    <2>4. /\ u[2 * p] = Upper(from, c, half, weights[o])[1] /\ u[2 * p + 1] = Upper(from, c, half, weights[o])[2]
          /\ v[2 * p] = Lower(from, c, half, weights[o])[1] /\ v[2 * p + 1] = Lower(from, c, half, weights[o])[2]
      BY <2>1 DEF WingVectors
    <2> HIDE DEF o, c
    <2>5. /\ u[2 * p] = to[2 * c] /\ u[2 * p + 1] = to[2 * c + 1]
          /\ v[2 * p] = to[2 * (c + half)] /\ v[2 * p + 1] = to[2 * (c + half) + 1]
      BY <2>3, <2>4 DEF Wing
    <2>6. e + (2 * p + 1) = 2 * c + 1 /\ d + (2 * p + 1) = 2 * (c + half) + 1
      BY <1>1, <1>2, <2>1, <2>2
    <2>7. CASE j = 2 * p
      BY <2>2, <2>5, <2>7
    <2>8. CASE j = 2 * p + 1
      BY <2>5, <2>6, <2>8
    <2>9. QED
      BY <2>1, <2>7, <2>8
  <1>5. StoredTo(u, to, e, width, 2 * size) /\ StoredTo(v, to, d, width, 2 * size)
    BY <1>2, <1>4 DEF StoredTo, WingVectors
  <1> HIDE DEF W, U, V, width
  <1>6. Store(Done(from, to, W), e, u) = Done(from, to, U)
    BY <1>1, <1>2, <1>3, <1>5, StoreDoneTo
  <1>7. Store(Done(from, to, U), d, v) = Done(from, to, V)
    BY <1>1, <1>2, <1>3, <1>5, StoreDoneTo
  <1>8. QED
    BY <1>6, <1>7 DEF V, W

\* The weights of a stage, from its table.
TableWeights(table, half, begin) == [o \in 0 .. half - 1 |-> Complex(table, begin + o)]

\* A vector turned by another, as AVX2 and AVX-512 do it.
Rotates(r, b, t) == r = MulPair(b, t) \/ r = MulQuad(b, t)

\* A lane of two vectors that holds a butterfly's outputs.
SumLane(u, v, p, a, b, t) ==
    /\ u[2 * p] = ComplexPlus(a, ComplexTimes(b, t))[1] /\ u[2 * p + 1] = ComplexPlus(a, ComplexTimes(b, t))[2]
    /\ v[2 * p] = ComplexMinus(a, ComplexTimes(b, t))[1] /\ v[2 * p + 1] = ComplexMinus(a, ComplexTimes(b, t))[2]

\* Vectors turned and added are butterflies in their lanes.
LEMMA RotatedLanes ==
    ASSUME NEW h \in Nat, NEW a \in Memory(2 * h), NEW b \in Memory(2 * h), NEW t \in Memory(2 * h),
           NEW r, Rotates(r, b, t)
    PROVE  /\ Added(a, r) \in Memory(2 * h) /\ Subtracted(a, r) \in Memory(2 * h)
           /\ \A p \in 0 .. h - 1 :
                  SumLane(Added(a, r), Subtracted(a, r), p, Complex(a, p), Complex(b, p), Complex(t, p))
  <1>1. /\ r \in Memory(2 * h)
        /\ \A p \in 0 .. h - 1 : /\ r[2 * p] = ComplexTimes(Complex(b, p), Complex(t, p))[1]
                                 /\ r[2 * p + 1] = ComplexTimes(Complex(b, p), Complex(t, p))[2]
    BY MulPairIs DEF Rotates
  <1>2. /\ Added(a, r) \in Memory(2 * h) /\ Subtracted(a, r) \in Memory(2 * h)
        /\ \A i \in 0 .. (2 * h) - 1 : /\ Added(a, r)[i] = Plus(a[i], r[i])
                                       /\ Subtracted(a, r)[i] = Minus(a[i], r[i])
    BY <1>1, LanesAre, 2 * h \in Nat
  <1>3. ASSUME NEW p \in 0 .. h - 1
        PROVE  SumLane(Added(a, r), Subtracted(a, r), p, Complex(a, p), Complex(b, p), Complex(t, p))
    <2> DEFINE x == ComplexTimes(Complex(b, p), Complex(t, p))
    <2>1. r[2 * p] = x[1] /\ r[2 * p + 1] = x[2]
      BY <1>1
    <2> HIDE DEF x
    <2>2. 2 * p \in 0 .. (2 * h) - 1 /\ 2 * p + 1 \in 0 .. (2 * h) - 1
      OBVIOUS
    <2>3. Complex(a, p)[1] = a[2 * p] /\ Complex(a, p)[2] = a[2 * p + 1]
      BY DEF Complex
    <2>4. /\ ComplexPlus(Complex(a, p), x)[1] = Plus(Complex(a, p)[1], x[1])
          /\ ComplexPlus(Complex(a, p), x)[2] = Plus(Complex(a, p)[2], x[2])
          /\ ComplexMinus(Complex(a, p), x)[1] = Minus(Complex(a, p)[1], x[1])
          /\ ComplexMinus(Complex(a, p), x)[2] = Minus(Complex(a, p)[2], x[2])
      BY DEF ComplexPlus, ComplexMinus
    <2>5. /\ Added(a, r)[2 * p] = ComplexPlus(Complex(a, p), x)[1]
          /\ Added(a, r)[2 * p + 1] = ComplexPlus(Complex(a, p), x)[2]
          /\ Subtracted(a, r)[2 * p] = ComplexMinus(Complex(a, p), x)[1]
          /\ Subtracted(a, r)[2 * p + 1] = ComplexMinus(Complex(a, p), x)[2]
      BY <1>2, <2>1, <2>2, <2>3, <2>4
    <2>6. QED
      BY <2>5 DEF x, SumLane
  <1>4. QED
    BY <1>2, <1>3

\* A group whose weights are in a table.
TableInputs(table, begin, half, length) ==
    begin \in Nat /\ length \in Int /\ table \in Memory(length) /\ 2 * (begin + half) <= length

\* Factors within the table are complexes.
LEMMA TableWeighted ==
    ASSUME NEW table, NEW begin, NEW half \in Nat, NEW length, TableInputs(table, begin, half, length)
    PROVE  Weighted(TableWeights(table, half, begin), half)
  <1>1. ASSUME NEW o \in 0 .. half - 1
        PROVE  table[2 * (begin + o)] \in Doubles /\ table[2 * (begin + o) + 1] \in Doubles
    <2>1. begin + o \in Nat /\ 2 * (begin + o) + 2 <= length /\ length \in Int /\ table \in Memory(length)
      BY DEF TableInputs
    <2>2. QED
      BY <2>1, ComplexIs
  <1>2. QED
    BY <1>1 DEF Weighted, TableWeights, Complex

\* A step of AVX2 or AVX-512 in a group.
VectorStep(s, m, table, size, half, begin, start, n, h) ==
    \E r : /\ Rotates(r, Load(m, 2 * (start + n + half), 2 * h), Load(table, 2 * (begin + n), 2 * h))
           /\ s = Store(Store(m, 2 * (start + n), Added(Load(m, 2 * (start + n), 2 * h), r)),
                        2 * (start + n + half), Subtracted(Load(m, 2 * (start + n), 2 * h), r))

\* A step of a vectorized group does as many butterflies as the vector holds.
LEMMA VectorStepTurns ==
    ASSUME NEW from, NEW to, NEW size, NEW half, NEW table, NEW begin, NEW length, NEW start,
           TableInputs(table, begin, half, length),
           GroupInputs(from, to, size, half, TableWeights(table, half, begin), start),
           NEW n \in Nat, NEW h \in Nat, n + h <= half,
           NEW s, VectorStep(s, Done(from, to, ButterfliesDone(start, half, n)), table, size, half, begin, start, n, h)
    PROVE  s = Done(from, to, ButterfliesDone(start, half, n + h))
  <1> DEFINE m == Done(from, to, ButterfliesDone(start, half, n))
             weights == TableWeights(table, half, begin)
             k == start + n
             l == start + n + half
             q == begin + n
             a == Load(m, 2 * k, 2 * h)
             b == Load(m, 2 * l, 2 * h)
             t == Load(table, 2 * q, 2 * h)
  <1>1. /\ half \in Nat /\ start \in Nat /\ size \in Nat /\ start + (2 * half) <= size
        /\ from \in Memory(2 * size) /\ to \in Memory(2 * size) /\ 2 * size \in Int
        /\ begin \in Nat /\ length \in Int /\ table \in Memory(length) /\ 2 * (begin + half) <= length
    BY DEF GroupInputs, TableInputs
  <1>2. PICK r : /\ Rotates(r, b, t)
                 /\ s = Store(Store(m, 2 * k, Added(a, r)), 2 * l, Subtracted(a, r))
    BY DEF VectorStep
  <1>3. m \in Memory(2 * size)
    BY <1>1, DoneIn, Zenon
  <1>4. Untouched(m, from, start, half, n)
    BY WingsUntouched
  <1>5. /\ k \in Nat /\ l \in Nat /\ q \in Nat /\ l = k + half /\ 2 * h \in Nat
        /\ 2 * k + 2 * h <= 2 * size /\ 2 * l + 2 * h <= 2 * size /\ 2 * q + 2 * h <= length
    BY <1>1
  <1> HIDE DEF m
  <1>6. a \in Memory(2 * h) /\ b \in Memory(2 * h) /\ t \in Memory(2 * h)
    <2>1. 2 * k \in Nat /\ 2 * l \in Nat /\ 2 * q \in Nat
      BY <1>5
    <2> HIDE DEF k, l, q
    <2>2. QED
      BY <1>1, <1>3, <1>5, <2>1, LoadIn
  <1>7. ASSUME NEW p \in 0 .. h - 1
        PROVE  /\ Complex(a, p) = Complex(from, k + p) /\ Complex(b, p) = Complex(from, k + p + half)
               /\ Complex(t, p) = weights[n + p]
    <2>1. LoadedFrom(a, m, k, h) /\ LoadedFrom(b, m, l, h) /\ LoadedFrom(t, table, q, h)
      BY DEF LoadedFrom
    <2>2. /\ k + p \in Nat /\ start + n <= k + p /\ k + p < start + half
          /\ l + p = (k + p) + half /\ k + p + half = (k + p) + half
          /\ n + p \in 0 .. half - 1 /\ q + p = begin + (n + p)
      BY <1>1
    <2>3. weights[n + p] = Complex(table, q + p)
      BY <2>2 DEF TableWeights
    <2> HIDE DEF a, b, t, k, l, q, weights
    <2>4. Complex(a, p) = Complex(m, k + p) /\ Complex(b, p) = Complex(m, l + p) /\ Complex(t, p) = Complex(table, q + p)
      BY <1>1, <1>3, <1>5, <2>1, LoadedComplex
    <2>5. Complex(m, k + p) = Complex(from, k + p) /\ Complex(m, (k + p) + half) = Complex(from, (k + p) + half)
      BY <1>4, <2>2 DEF Untouched
    <2>6. QED
      BY <2>2, <2>3, <2>4, <2>5
  <1> DEFINE u == Added(a, r)
             v == Subtracted(a, r)
  <1>8. /\ u \in Memory(2 * h) /\ v \in Memory(2 * h)
        /\ \A p \in 0 .. h - 1 : SumLane(u, v, p, Complex(a, p), Complex(b, p), Complex(t, p))
    <2> HIDE DEF a, b, t
    <2>1. QED
      BY <1>2, <1>6, RotatedLanes
  <1>9. ASSUME NEW p \in 0 .. h - 1
        PROVE  /\ u[2 * p] = Upper(from, start + n + p, half, weights[n + p])[1]
               /\ u[2 * p + 1] = Upper(from, start + n + p, half, weights[n + p])[2]
               /\ v[2 * p] = Lower(from, start + n + p, half, weights[n + p])[1]
               /\ v[2 * p + 1] = Lower(from, start + n + p, half, weights[n + p])[2]
    <2>1. k + p = start + n + p /\ k + p + half = (start + n + p) + half
      BY <1>1
    <2> DEFINE c == start + n + p
    <2>2. SumLane(u, v, p, Complex(from, c), Complex(from, c + half), weights[n + p])
      BY <1>7, <1>8, <2>1
    <2> HIDE DEF u, v, weights, c
    <2>3. QED
      BY <2>2 DEF SumLane, Upper, Lower, c
  <1> HIDE DEF u, v, weights
  <1>10. WingVectors(u, v, from, half, weights, start, n, h)
    BY <1>8, <1>9 DEF WingVectors
  <1>11. 2 * k = 2 * (start + n) /\ 2 * l = 2 * k + (2 * half)
    BY <1>1
  <1>12. Store(Store(m, 2 * k, u), 2 * l, v) = Done(from, to, ButterfliesDone(start, half, n + h))
    <2> HIDE DEF k, l
    <2>1. QED
      BY <1>10, <1>11, VectorsTurn DEF m, weights
  <1>13. QED
    BY <1>2, <1>12 DEF u, v

\* The parts of two complexes woven together.
Woven(parts) == [i \in 0 .. 3 |-> parts[1 + (i % 2)][i \div 2]]

\* Two complexes stored parts apart are stored as a vector of them.
LEMMA WovenIs ==
    ASSUME NEW parts, parts[1] \in Memory(2), parts[2] \in Memory(2)
    PROVE  /\ Woven(parts) \in Memory(4)
           /\ \A p \in 0 .. 1 : Woven(parts)[2 * p] = parts[1][p] /\ Woven(parts)[2 * p + 1] = parts[2][p]
           /\ \A m, k : StoreParts(m, k, parts) = Store(m, 2 * k, Woven(parts))
  <1> DEFINE w == Woven(parts)
  <1>1. w[0] = parts[1][0] /\ w[1] = parts[2][0] /\ w[2] = parts[1][1] /\ w[3] = parts[2][1]
    BY DEF Woven
  <1>2. /\ parts[1][0] \in Doubles /\ parts[1][1] \in Doubles
        /\ parts[2][0] \in Doubles /\ parts[2][1] \in Doubles
    BY DEF Memory
  <1>3. w \in Memory(4)
    <2>1. w = [i \in 0 .. 3 |-> w[i]]
      BY DEF Woven
    <2> HIDE DEF w
    <2>2. \A i \in 0 .. 3 : w[i] \in Doubles
      BY <1>1, <1>2
    <2>3. QED
      BY <2>1, <2>2 DEF Memory
  <1>4. \A p \in 0 .. 1 : w[2 * p] = parts[1][p] /\ w[2 * p + 1] = parts[2][p]
    <2> HIDE DEF w
    <2>1. QED
      BY <1>1
  <1>5. QED
    BY <1>3, <1>4 DEF StoreParts, Woven

\* The parts of two complexes turned by the parts of two weights.
PartsTurned(a, b, t, sums, differences) ==
    \A p \in 0 .. 1 :
        LET turned == ComplexTimes(<<b[1][p], b[2][p]>>, <<t[1][p], t[2][p]>>)
        IN  /\ sums[1][p] = Plus(a[1][p], turned[1]) /\ sums[2][p] = Plus(a[2][p], turned[2])
            /\ differences[1][p] = Minus(a[1][p], turned[1]) /\ differences[2][p] = Minus(a[2][p], turned[2])

\* Parts turned and added are butterflies in their lanes.
LEMMA PartsTurn ==
    ASSUME NEW a, NEW b, NEW t, a[1] \in Memory(2), a[2] \in Memory(2),
           b[1] \in Memory(2), b[2] \in Memory(2), t[1] \in Memory(2), t[2] \in Memory(2),
           NEW r, r = ComplexMulNeon(b, t)
    PROVE  /\ Added(a[1], r[1]) \in Memory(2) /\ Added(a[2], r[2]) \in Memory(2)
           /\ Subtracted(a[1], r[1]) \in Memory(2) /\ Subtracted(a[2], r[2]) \in Memory(2)
           /\ PartsTurned(a, b, t, <<Added(a[1], r[1]), Added(a[2], r[2])>>,
                          <<Subtracted(a[1], r[1]), Subtracted(a[2], r[2])>>)
  <1>1. /\ r[1] \in Memory(2) /\ r[2] \in Memory(2)
        /\ \A p \in 0 .. 1 : /\ r[1][p] = ComplexTimes(<<b[1][p], b[2][p]>>, <<t[1][p], t[2][p]>>)[1]
                             /\ r[2][p] = ComplexTimes(<<b[1][p], b[2][p]>>, <<t[1][p], t[2][p]>>)[2]
    BY PartsProduct, SMTT(30)
  <1>2. /\ Added(a[1], r[1]) \in Memory(2) /\ Subtracted(a[1], r[1]) \in Memory(2)
        /\ \A p \in 0 .. 1 : /\ Added(a[1], r[1])[p] = Plus(a[1][p], r[1][p])
                             /\ Subtracted(a[1], r[1])[p] = Minus(a[1][p], r[1][p])
    BY <1>1, LanesAre, 2 \in Nat, 0 .. 2 - 1 = 0 .. 1
  <1>3. /\ Added(a[2], r[2]) \in Memory(2) /\ Subtracted(a[2], r[2]) \in Memory(2)
        /\ \A p \in 0 .. 1 : /\ Added(a[2], r[2])[p] = Plus(a[2][p], r[2][p])
                             /\ Subtracted(a[2], r[2])[p] = Minus(a[2][p], r[2][p])
    BY <1>1, LanesAre, 2 \in Nat, 0 .. 2 - 1 = 0 .. 1
  <1>4. QED
    BY <1>1, <1>2, <1>3 DEF PartsTurned

\* NEON's step in a group.
LEMMA NeonStepTurns ==
    ASSUME NEW from, NEW to, NEW size, NEW half, NEW table, NEW begin, NEW length, NEW start,
           TableInputs(table, begin, half, length),
           GroupInputs(from, to, size, half, TableWeights(table, half, begin), start),
           NEW n \in Nat, n + 2 <= half
    PROVE  PairNeon(Done(from, to, ButterfliesDone(start, half, n)), half, table, begin, start, n)
           = Done(from, to, ButterfliesDone(start, half, n + 2))
  <1> DEFINE m == Done(from, to, ButterfliesDone(start, half, n))
             weights == TableWeights(table, half, begin)
             k == start + n
             l == start + n + half
             q == begin + n
             a == Parts(m, k)
             b == Parts(m, l)
             t == Parts(table, q)
             r == ComplexMulNeon(b, t)
             sums == [p \in 1 .. 2 |-> Added(a[p], r[p])]
             differences == [p \in 1 .. 2 |-> Subtracted(a[p], r[p])]
  <1>1. /\ half \in Nat /\ start \in Nat /\ size \in Nat /\ start + (2 * half) <= size
        /\ from \in Memory(2 * size) /\ to \in Memory(2 * size) /\ 2 * size \in Int
        /\ begin \in Nat /\ length \in Int /\ table \in Memory(length) /\ 2 * (begin + half) <= length
    BY DEF GroupInputs, TableInputs
  <1>2. PairNeon(m, half, table, begin, start, n) = StoreParts(StoreParts(m, k, sums), l, differences)
    BY <1>1, IsEvaluated DEF PairNeon
  <1>3. m \in Memory(2 * size)
    BY <1>1, DoneIn, Zenon
  <1>4. Untouched(m, from, start, half, n)
    BY WingsUntouched
  <1>5. /\ k \in Nat /\ l \in Nat /\ q \in Nat /\ l = k + half
        /\ 2 * k + 4 <= 2 * size /\ 2 * l + 4 <= 2 * size /\ 2 * q + 4 <= length
    BY <1>1
  <1> HIDE DEF m
  <1>6. /\ a[1] \in Memory(2) /\ a[2] \in Memory(2) /\ b[1] \in Memory(2) /\ b[2] \in Memory(2)
        /\ t[1] \in Memory(2) /\ t[2] \in Memory(2)
        /\ \A p \in 0 .. 1 : /\ a[1][p] = m[2 * (k + p)] /\ a[2][p] = m[2 * (k + p) + 1]
                             /\ b[1][p] = m[2 * (l + p)] /\ b[2][p] = m[2 * (l + p) + 1]
                             /\ t[1][p] = table[2 * (q + p)] /\ t[2][p] = table[2 * (q + p) + 1]
    <2> HIDE DEF k, l, q
    <2>1. QED
      BY <1>1, <1>3, <1>5, PartsAre
  <1>7. ASSUME NEW p \in 0 .. 1
        PROVE  LET c == start + n + p
               IN  /\ <<a[1][p], a[2][p]>> = Complex(from, c) /\ <<b[1][p], b[2][p]>> = Complex(from, c + half)
                   /\ <<t[1][p], t[2][p]>> = weights[n + p]
    <2>1. /\ k + p \in Nat /\ start + n <= k + p /\ k + p < start + half
          /\ l + p = (k + p) + half /\ start + n + p = k + p
          /\ n + p \in 0 .. half - 1 /\ q + p = begin + (n + p)
      BY <1>1
    <2>2. weights[n + p] = Complex(table, q + p)
      BY <2>1 DEF TableWeights
    <2> HIDE DEF a, b, t, k, l, q, weights
    <2>3. /\ <<a[1][p], a[2][p]>> = Complex(m, k + p) /\ <<b[1][p], b[2][p]>> = Complex(m, l + p)
          /\ <<t[1][p], t[2][p]>> = Complex(table, q + p)
      BY <1>6 DEF Complex
    <2>4. Complex(m, k + p) = Complex(from, k + p) /\ Complex(m, (k + p) + half) = Complex(from, (k + p) + half)
      BY <1>4, <2>1 DEF Untouched
    <2>5. QED
      BY <2>1, <2>2, <2>3, <2>4
  <1>8. /\ sums[1] = Added(a[1], r[1]) /\ sums[2] = Added(a[2], r[2])
        /\ differences[1] = Subtracted(a[1], r[1]) /\ differences[2] = Subtracted(a[2], r[2])
    OBVIOUS
  <1>9. /\ sums[1] \in Memory(2) /\ sums[2] \in Memory(2)
        /\ differences[1] \in Memory(2) /\ differences[2] \in Memory(2)
        /\ PartsTurned(a, b, t, sums, differences)
    <2>1. /\ Added(a[1], r[1]) \in Memory(2) /\ Added(a[2], r[2]) \in Memory(2)
          /\ Subtracted(a[1], r[1]) \in Memory(2) /\ Subtracted(a[2], r[2]) \in Memory(2)
          /\ PartsTurned(a, b, t, <<Added(a[1], r[1]), Added(a[2], r[2])>>,
                         <<Subtracted(a[1], r[1]), Subtracted(a[2], r[2])>>)
      <3>1. r = ComplexMulNeon(b, t)
        OBVIOUS
      <3> HIDE DEF a, b, t, r
      <3>2. /\ a[1] \in Memory(2) /\ a[2] \in Memory(2) /\ b[1] \in Memory(2) /\ b[2] \in Memory(2)
            /\ t[1] \in Memory(2) /\ t[2] \in Memory(2)
        BY <1>6
      <3>3. QED
        BY <3>1, <3>2, PartsTurn
    <2> HIDE DEF a, b, t, r, sums, differences
    <2>2. QED
      BY <1>8, <2>1 DEF PartsTurned
  <1> DEFINE u == Woven(sums)
             v == Woven(differences)
  <1> HIDE DEF sums, differences, r
  <1>10. /\ u \in Memory(4) /\ v \in Memory(4)
         /\ \A p \in 0 .. 1 : /\ u[2 * p] = sums[1][p] /\ u[2 * p + 1] = sums[2][p]
                              /\ v[2 * p] = differences[1][p] /\ v[2 * p + 1] = differences[2][p]
         /\ StoreParts(StoreParts(m, k, sums), l, differences) = Store(Store(m, 2 * k, u), 2 * l, v)
    BY <1>9, WovenIs
  <1> HIDE DEF u, v, a, b, t
  <1>11. ASSUME NEW p \in 0 .. 1
         PROVE  /\ u[2 * p] = Upper(from, start + n + p, half, weights[n + p])[1]
                /\ u[2 * p + 1] = Upper(from, start + n + p, half, weights[n + p])[2]
                /\ v[2 * p] = Lower(from, start + n + p, half, weights[n + p])[1]
                /\ v[2 * p + 1] = Lower(from, start + n + p, half, weights[n + p])[2]
    <2> DEFINE c == start + n + p
               x == ComplexTimes(Complex(from, c + half), weights[n + p])
    <2>1. /\ <<a[1][p], a[2][p]>> = Complex(from, c)
          /\ ComplexTimes(<<b[1][p], b[2][p]>>, <<t[1][p], t[2][p]>>) = x
      BY <1>7
    <2> HIDE DEF x, c, weights
    <2>2. a[1][p] = Complex(from, c)[1] /\ a[2][p] = Complex(from, c)[2]
      BY <2>1 DEF Complex
    <2>3. /\ u[2 * p] = Plus(Complex(from, c)[1], x[1]) /\ u[2 * p + 1] = Plus(Complex(from, c)[2], x[2])
          /\ v[2 * p] = Minus(Complex(from, c)[1], x[1]) /\ v[2 * p + 1] = Minus(Complex(from, c)[2], x[2])
      BY <1>9, <1>10, <2>1, <2>2 DEF PartsTurned
    <2>4. QED
      BY <2>3 DEF x, c, Upper, Lower, ComplexPlus, ComplexMinus
  <1>12. WingVectors(u, v, from, half, weights, start, n, 2)
    <2> HIDE DEF weights
    <2>1. 2 * 2 = 4 /\ 0 .. 2 - 1 = 0 .. 1
      OBVIOUS
    <2>2. QED
      BY <1>10, <1>11, <2>1 DEF WingVectors
  <1>13. 2 * k = 2 * (start + n) /\ 2 * l = 2 * k + (2 * half)
    BY <1>1
  <1>14. Store(Store(m, 2 * k, u), 2 * l, v) = Done(from, to, ButterfliesDone(start, half, n + 2))
    <2> HIDE DEF k, l, weights
    <2>1. QED
      BY <1>12, <1>13, VectorsTurn, 2 \in Nat DEF m, weights
  <1>15. QED
    BY <1>2, <1>10, <1>14 DEF m

-----------------------------------------------------------------------------
(* Stages.                                                                 *)

\* What a stage makes of memory, whatever the order of its butterflies.
StageMeans(from, size, half, weights) ==
    [i \in 0 .. (2 * size) - 1 |->
        LET c == i \div 2
            o == c % (2 * half)
        IN  (IF o < half THEN Upper(from, c, half, weights[o])
             ELSE Lower(from, c - half, half, weights[o - half]))[(i % 2) + 1]]

\* What a stage is given: whole groups, memory and weights that are complexes.
StageInputs(from, size, half, weights, groups) ==
    /\ size \in Nat /\ half \in Nat /\ half # 0 /\ groups \in Nat /\ size = (2 * half) * groups
    /\ from \in Memory(2 * size) /\ Weighted(weights, half)

\* The outputs of a butterfly are complexes.
LEMMA WingIn ==
    ASSUME NEW size \in Nat, NEW half \in Nat, NEW from \in Memory(2 * size),
           NEW e \in Nat, e + half < size, NEW w, w[1] \in Doubles, w[2] \in Doubles
    PROVE  /\ Upper(from, e, half, w)[1] \in Doubles /\ Upper(from, e, half, w)[2] \in Doubles
           /\ Lower(from, e, half, w)[1] \in Doubles /\ Lower(from, e, half, w)[2] \in Doubles
  <1> DEFINE a == Complex(from, e)
             b == Complex(from, e + half)
             t == ComplexTimes(b, w)
  <1>1. a[1] \in Doubles /\ a[2] \in Doubles /\ b[1] \in Doubles /\ b[2] \in Doubles
    <2>1. 2 * size \in Int /\ e + half \in Nat /\ 2 * e + 2 <= 2 * size /\ 2 * (e + half) + 2 <= 2 * size
      OBVIOUS
    <2>2. QED
      BY <2>1, ComplexIs
  <1> HIDE DEF a, b
  <1>2. t[1] \in Doubles /\ t[2] \in Doubles
    BY <1>1, ComplexTimesIn
  <1> HIDE DEF t
  <1>3. /\ ComplexPlus(a, t)[1] \in Doubles /\ ComplexPlus(a, t)[2] \in Doubles
        /\ ComplexMinus(a, t)[1] \in Doubles /\ ComplexMinus(a, t)[2] \in Doubles
    BY <1>1, <1>2, Closed DEF ComplexPlus, ComplexMinus
  <1>4. QED
    BY <1>3 DEF Upper, Lower, a, b, t

\* A complex is in the upper or the lower half of a group.
LEMMA InAGroup ==
    ASSUME NEW half \in Nat, half # 0, NEW groups \in Nat, NEW size, size = (2 * half) * groups,
           NEW c \in 0 .. size - 1
    PROVE  /\ c % (2 * half) < half => c + half < size
           /\ ~(c % (2 * half) < half) => c - half \in Nat
           /\ c % (2 * half) \in 0 .. (2 * half) - 1
  <1> DEFINE d == 2 * half
             o == c % d
             q == c \div d
  <1>1. d \in Nat /\ d # 0 /\ d = 2 * half /\ size = d * groups /\ size \in Nat
    OBVIOUS
  <1>0. c \in Nat /\ c < size
    BY <1>1
  <1> HIDE DEF d
  <1>2. q \in Nat /\ o \in 0 .. d - 1 /\ c = d * q + o
    BY <1>0, <1>1, DivMod
  <1> HIDE DEF q, o
  <1>3. d * q + d <= size
    <2>1. q < groups
      <3>1. SUFFICES ASSUME q >= groups PROVE FALSE
        BY <1>2
      <3>2. d * q >= d * groups
        BY <1>1, <1>2, <3>1
      <3>3. QED
        BY <1>1, <1>2, <3>2
    <2>2. d * (q + 1) <= d * groups
      BY <1>1, <1>2, <2>1
    <2>3. QED
      BY <1>1, <1>2, <2>2
  <1>4. d * q \in Nat
    BY <1>1, <1>2
  <1>5. /\ o < half => c + half < size
        /\ ~(o < half) => c - half \in Nat
        /\ o \in 0 .. d - 1
    BY <1>0, <1>1, <1>2, <1>3, <1>4
  <1>6. QED
    BY <1>5 DEF o, d

\* What a stage makes of memory is memory.
LEMMA StageIn ==
    ASSUME NEW from, NEW size, NEW half, NEW weights, NEW groups, StageInputs(from, size, half, weights, groups)
    PROVE  StageMeans(from, size, half, weights) \in Memory(2 * size)
  <1>1. /\ size \in Nat /\ half \in Nat /\ half # 0 /\ groups \in Nat /\ size = (2 * half) * groups
        /\ from \in Memory(2 * size)
        /\ \A o \in 0 .. half - 1 : weights[o][1] \in Doubles /\ weights[o][2] \in Doubles
    BY DEF StageInputs, Weighted
  <1> DEFINE value(i) ==
                 LET c == i \div 2
                     o == c % (2 * half)
                 IN  (IF o < half THEN Upper(from, c, half, weights[o])
                      ELSE Lower(from, c - half, half, weights[o - half]))[(i % 2) + 1]
  <1>2. ASSUME NEW i \in 0 .. (2 * size) - 1 PROVE value(i) \in Doubles
    <2> DEFINE c == i \div 2
               o == c % (2 * half)
    <2>1. c \in 0 .. size - 1 /\ (i % 2 = 0 \/ i % 2 = 1)
      BY <1>1
    <2> HIDE DEF c
    <2>2. /\ o < half => c + half < size
          /\ ~(o < half) => c - half \in Nat
          /\ o \in 0 .. (2 * half) - 1
      BY <1>1, <2>1, InAGroup
    <2> HIDE DEF o
    <2>3. CASE o < half
      <3>1. o \in 0 .. half - 1 /\ c \in Nat
        BY <1>1, <2>1, <2>2, <2>3
      <3>2. /\ Upper(from, c, half, weights[o])[1] \in Doubles
            /\ Upper(from, c, half, weights[o])[2] \in Doubles
        BY <1>1, <2>2, <2>3, <3>1, WingIn
      <3>3. QED
        BY <2>1, <2>3, <3>2 DEF c, o
    <2>4. CASE ~(o < half)
      <3>1. o - half \in 0 .. half - 1 /\ (c - half) + half < size
        BY <1>1, <2>1, <2>2, <2>4
      <3>2. /\ Lower(from, c - half, half, weights[o - half])[1] \in Doubles
            /\ Lower(from, c - half, half, weights[o - half])[2] \in Doubles
        BY <1>1, <2>2, <2>4, <3>1, WingIn
      <3>3. QED
        BY <2>1, <2>4, <3>2 DEF c, o
    <2>5. QED
      BY <2>3, <2>4
  <1>3. StageMeans(from, size, half, weights) = [i \in 0 .. (2 * size) - 1 |-> value(i)]
    BY DEF StageMeans
  <1> HIDE DEF value
  <1>4. QED
    BY <1>2, <1>3 DEF Memory

\* What a stage makes of one index, its complex and its place in the group named.
StageAt(to, from, half, weights, i, c, o, p) ==
    c = i \div 2 /\ o = c % (2 * half) /\ p = (i % 2) + 1 =>
        to[i] = IF o < half THEN Upper(from, c, half, weights[o])[p]
                ELSE Lower(from, c - half, half, weights[o - half])[p]

\* What a stage means, at one index.
LEMMA StageIsAt ==
    ASSUME NEW from, NEW size, NEW half, NEW weights, NEW i \in 0 .. (2 * size) - 1, NEW c, NEW o, NEW p
    PROVE  StageAt(StageMeans(from, size, half, weights), from, half, weights, i, c, o, p)
  BY DEF StageAt, StageMeans

\* What a stage means is that each of its groups is done.
LEMMA StageGroups ==
    ASSUME NEW from, NEW size, NEW half, NEW weights, NEW groups, StageInputs(from, size, half, weights, groups),
           NEW g \in 0 .. groups - 1, NEW start, start = (2 * half) * g
    PROVE  GroupInputs(from, StageMeans(from, size, half, weights), size, half, weights, start)
  <1> DEFINE to == StageMeans(from, size, half, weights)
  <1>1. /\ size \in Nat /\ half \in Nat /\ half # 0 /\ groups \in Nat /\ size = (2 * half) * groups
        /\ from \in Memory(2 * size) /\ to \in Memory(2 * size) /\ Weighted(weights, half)
    BY StageIn DEF StageInputs
  <1>2. start \in Nat /\ start + (2 * half) <= size
    <2>1. (2 * half) * (g + 1) <= (2 * half) * groups
      BY <1>1
    <2>2. QED
      BY <1>1, <2>1
  <1>3. ASSUME NEW o \in 0 .. half - 1 PROVE Wing(from, to, start + o, half, weights[o])
    <2> DEFINE d == 2 * half
               e == start + o
               f == e + half
               r == o + half
    <2>1. d \in Nat /\ d # 0 /\ o \in 0 .. d - 1 /\ r \in 0 .. d - 1 /\ e = d * g + o /\ f = d * g + r /\ g \in Nat
      BY <1>1
    <2>2. e % d = o /\ f % d = r
      <3> HIDE DEF d, e, f, r
      <3>1. QED
        BY <2>1, DivModIs
    <2>3. /\ 2 * e \in 0 .. (2 * size) - 1 /\ 2 * e + 1 \in 0 .. (2 * size) - 1
          /\ 2 * f \in 0 .. (2 * size) - 1 /\ 2 * f + 1 \in 0 .. (2 * size) - 1
          /\ (2 * e) \div 2 = e /\ (2 * e) % 2 = 0 /\ (2 * e + 1) \div 2 = e /\ (2 * e + 1) % 2 = 1
          /\ (2 * f) \div 2 = f /\ (2 * f) % 2 = 0 /\ (2 * f + 1) \div 2 = f /\ (2 * f + 1) % 2 = 1
      BY <1>1, <1>2
    <2>4. o < half /\ ~(r < half) /\ f - half = e /\ r - half = o
      BY <1>1, <1>2
    <2> HIDE DEF e, f, r, to
    <2>5. /\ to[2 * e] = Upper(from, e, half, weights[o])[1] /\ to[2 * e + 1] = Upper(from, e, half, weights[o])[2]
      <3>1. e % (2 * half) = o /\ ((2 * e) % 2) + 1 = 1 /\ ((2 * e + 1) % 2) + 1 = 2
        BY <2>2, <2>3
      <3>2. /\ StageAt(to, from, half, weights, 2 * e, e, o, 1)
            /\ StageAt(to, from, half, weights, 2 * e + 1, e, o, 2)
        BY <2>3, StageIsAt DEF to
      <3> HIDE DEF d
      <3>3. QED
        BY <2>3, <2>4, <3>1, <3>2 DEF StageAt
    <2>6. /\ to[2 * f] = Lower(from, e, half, weights[o])[1] /\ to[2 * f + 1] = Lower(from, e, half, weights[o])[2]
      <3>1. f % (2 * half) = r /\ ((2 * f) % 2) + 1 = 1 /\ ((2 * f + 1) % 2) + 1 = 2
        BY <2>2, <2>3
      <3>2. /\ StageAt(to, from, half, weights, 2 * f, f, r, 1)
            /\ StageAt(to, from, half, weights, 2 * f + 1, f, r, 2)
        BY <2>3, StageIsAt DEF to
      <3> HIDE DEF d
      <3>3. QED
        BY <2>3, <2>4, <3>1, <3>2 DEF StageAt
    <2> HIDE DEF to
    <2>7. QED
      BY <2>5, <2>6 DEF e, f, Wing
  <1> HIDE DEF to
  <1>4. Wings(from, to, half, weights, start)
    BY <1>3 DEF Wings
  <1>5. QED
    BY <1>1, <1>2, <1>4 DEF GroupInputs, to

\* The steps of a group, so many butterflies in each.
GroupSteps(body, from, to, half, start, h, count) ==
    \A j \in 0 .. count - 1 :
        body[j][Done(from, to, ButterfliesDone(start, half, h * j))] = Done(from, to, ButterfliesDone(start, half, (h * j) + h))

\* A loop whose every step does some of a group's butterflies does the group.
LEMMA GroupLoop ==
    ASSUME NEW from, NEW to, NEW size, NEW half, NEW weights, NEW start,
           GroupInputs(from, to, size, half, weights, start),
           NEW h \in Nat, NEW count \in Nat, half = h * count, NEW body,
           GroupSteps(body, from, to, half, start, h, count)
    PROVE  Loop(count, body, Upto(from, to, 2 * start)) = Upto(from, to, (2 * start) + (4 * half))
  <1> DEFINE states == [j \in 0 .. count |-> Done(from, to, ButterfliesDone(start, half, h * j))]
             x == 2 * start
             y == (2 * start) + (4 * half)
             first == ButterfliesDone(start, half, 0)
             last == ButterfliesDone(start, half, half)
  <1>1. /\ half \in Nat /\ start \in Nat /\ size \in Nat /\ start + (2 * half) <= size
        /\ from \in Memory(2 * size) /\ to \in Memory(2 * size) /\ 2 * size \in Int
    BY DEF GroupInputs
  <1>2. states[0] = Done(from, to, first) /\ states[count] = Done(from, to, last)
    BY h * 0 = 0
  <1>3. ASSUME NEW j \in 0 .. count - 1 PROVE states[j + 1] = body[j][states[j]]
    <2>1. h * (j + 1) = (h * j) + h /\ j \in 0 .. count /\ j + 1 \in 0 .. count
      OBVIOUS
    <2>2. body[j][Done(from, to, ButterfliesDone(start, half, h * j))] = Done(from, to, ButterfliesDone(start, half, (h * j) + h))
      BY DEF GroupSteps
    <2>3. QED
      BY <2>1, <2>2
  <1> HIDE DEF states
  <1>4. Through(states, count, body, states[0])
    BY <1>3 DEF Through
  <1>5. Loop(count, body, states[0]) = states[count]
    BY <1>4, LoopStates
  <1>6. /\ \A i \in 0 .. (2 * size) - 1 : i \in first <=> i \in 0 .. x - 1
        /\ \A i \in 0 .. (2 * size) - 1 : i \in last <=> i \in 0 .. y - 1
    BY <1>1 DEF ButterfliesDone
  <1> DEFINE before == 0 .. x - 1
             behind == 0 .. y - 1
  <1>7. Upto(from, to, x) = Done(from, to, before) /\ Upto(from, to, y) = Done(from, to, behind)
    BY DEF Upto
  <1>8. /\ \A i \in 0 .. (2 * size) - 1 : i \in first <=> i \in before
        /\ \A i \in 0 .. (2 * size) - 1 : i \in last <=> i \in behind
    BY <1>6
  <1> HIDE DEF x, y, first, last, before, behind
  <1>9. Done(from, to, first) = Done(from, to, before) /\ Done(from, to, last) = Done(from, to, behind)
    BY <1>1, <1>8, DoneSame
  <1>10. QED
    BY <1>2, <1>5, <1>7, <1>9 DEF x, y

\* A stage whose every group is turned.
StageSteps(body, from, to, half, groups) ==
    \A g \in 0 .. groups - 1 :
        body[g][Upto(from, to, 2 * ((2 * half) * g))] = Upto(from, to, (2 * ((2 * half) * g)) + (4 * half))

\* A loop that does one group after another does the stage.
LEMMA StageLoop ==
    ASSUME NEW from, NEW size, NEW half, NEW weights, NEW groups, StageInputs(from, size, half, weights, groups),
           NEW body, StageSteps(body, from, StageMeans(from, size, half, weights), half, groups)
    PROVE  Loop(groups, body, from) = StageMeans(from, size, half, weights)
  <1> DEFINE to == StageMeans(from, size, half, weights)
             step == 4 * half
  <1>0. to \in Memory(2 * size)
    BY StageIn
  <1>1. /\ size \in Nat /\ half \in Nat /\ half # 0 /\ groups \in Nat /\ size = (2 * half) * groups
        /\ from \in Memory(2 * size) /\ to \in Memory(2 * size) /\ 2 * size \in Nat /\ step \in Nat
    BY <1>0 DEF StageInputs
  <1>2. Sweeps(body, from, to, 0, step, groups)
    <2>1. ASSUME NEW j \in 0 .. groups - 1
          PROVE  body[j][Upto(from, to, 0 + step * j)] = Upto(from, to, 0 + step * j + step)
      <3>1. /\ 2 * ((2 * half) * j) = 0 + step * j
            /\ (2 * ((2 * half) * j)) + (4 * half) = 0 + step * j + step
        BY <1>1
      <3>2. body[j][Upto(from, to, 2 * ((2 * half) * j))] = Upto(from, to, (2 * ((2 * half) * j)) + (4 * half))
        BY DEF StageSteps
      <3> HIDE DEF to, step
      <3>3. QED
        BY <3>1, <3>2
    <2> HIDE DEF to, step
    <2>2. QED
      BY <2>1 DEF Sweeps
  <1>3. 0 + step * groups = 2 * size
    BY <1>1
  <1> HIDE DEF to, step
  <1>4. Loop(groups, body, Upto(from, to, 0)) = Upto(from, to, 0 + step * groups)
    BY <1>1, <1>2, SweepLoop, 0 \in Nat
  <1>5. Upto(from, to, 0) = from /\ Upto(from, to, 2 * size) = to
    BY <1>1, UptoEnds
  <1>6. QED
    BY <1>3, <1>4, <1>5 DEF to

\* The groups of a stage.
LEMMA GroupsAre ==
    ASSUME NEW half \in Nat, half # 0, NEW groups \in Nat, NEW size, size = (2 * half) * groups
    PROVE  Groups(size, half) = groups
  <1> DEFINE d == 2 * half
  <1>1. d \in Nat /\ d # 0 /\ 0 \in 0 .. d - 1 /\ size = d * groups + 0
    OBVIOUS
  <1> HIDE DEF d
  <1>2. size \div d = groups
    BY <1>1, DivModIs
  <1>3. QED
    BY <1>2 DEF Groups, d

\* The scalar group, with the factors of a table or worked out.
LEMMA ScalarGroup ==
    ASSUME NEW from, NEW to, NEW size, NEW half, NEW weights, NEW start,
           GroupInputs(from, to, size, half, weights, start),
           NEW body,
           \A n \in 0 .. half - 1 : \A m \in Memory(2 * size) : \E w :
               /\ w[1] = weights[n][1] /\ w[2] = weights[n][2]
               /\ body[n][m] = Butterfly(m, start + n, start + n + half, w)
    PROVE  Loop(half, body, Upto(from, to, 2 * start)) = Upto(from, to, (2 * start) + (4 * half))
  <1>1. /\ half \in Nat /\ start \in Nat /\ size \in Nat
        /\ from \in Memory(2 * size) /\ to \in Memory(2 * size) /\ 2 * size \in Int
    BY DEF GroupInputs
  <1>2. ASSUME NEW j \in 0 .. half - 1
        PROVE  body[j][Done(from, to, ButterfliesDone(start, half, 1 * j))] = Done(from, to, ButterfliesDone(start, half, (1 * j) + 1))
    <2> DEFINE m == Done(from, to, ButterfliesDone(start, half, j))
    <2>1. m \in Memory(2 * size)
      BY <1>1, DoneIn, Zenon
    <2>2. PICK w : /\ w[1] = weights[j][1] /\ w[2] = weights[j][2]
                   /\ body[j][m] = Butterfly(m, start + j, start + j + half, w)
      BY <2>1
    <2>3. Butterfly(m, start + j, start + j + half, w) = Done(from, to, ButterfliesDone(start, half, j + 1))
      BY <2>2, ButterflyTurns
    <2>4. 1 * j = j
      OBVIOUS
    <2>5. QED
      BY <2>2, <2>3, <2>4
  <1>3. GroupSteps(body, from, to, half, start, 1, half)
    BY <1>2 DEF GroupSteps
  <1>4. half = 1 * half
    BY <1>1
  <1>5. QED
    BY <1>1, <1>3, <1>4, GroupLoop, 1 \in Nat

\* The body of a stage's loop does a group.
GroupsTurn(body, from, to, size, half, weights, groups) ==
    \A g \in 0 .. groups - 1 : \A start :
        start = (2 * half) * g /\ GroupInputs(from, to, size, half, weights, start) =>
            body[g][Upto(from, to, 2 * start)] = Upto(from, to, (2 * start) + (4 * half))

\* A stage is meant when its groups are turned.
LEMMA StageTurns ==
    ASSUME NEW from, NEW size, NEW half, NEW weights, NEW groups, StageInputs(from, size, half, weights, groups),
           NEW body, GroupsTurn(body, from, StageMeans(from, size, half, weights), size, half, weights, groups)
    PROVE  Loop(Groups(size, half), body, from) = StageMeans(from, size, half, weights)
  <1> DEFINE to == StageMeans(from, size, half, weights)
  <1>1. ASSUME NEW g \in 0 .. groups - 1
        PROVE  body[g][Upto(from, to, 2 * ((2 * half) * g))] = Upto(from, to, (2 * ((2 * half) * g)) + (4 * half))
    <2> DEFINE start == (2 * half) * g
    <2>1. GroupInputs(from, to, size, half, weights, start)
      BY StageGroups
    <2>2. start = (2 * half) * g
      OBVIOUS
    <2> HIDE DEF to, start
    <2>3. body[g][Upto(from, to, 2 * start)] = Upto(from, to, (2 * start) + (4 * half))
      BY <2>1, <2>2 DEF GroupsTurn, to
    <2>4. QED
      BY <2>3 DEF start
  <1> HIDE DEF to
  <1>2. StageSteps(body, from, to, half, groups)
    BY <1>1 DEF StageSteps
  <1>3. Loop(groups, body, from) = to
    BY <1>2, StageLoop DEF to
  <1>4. Groups(size, half) = groups
    BY GroupsAre DEF StageInputs
  <1>5. QED
    BY <1>3, <1>4 DEF to

\* The memory a group is given.
LEMMA GroupGiven ==
    ASSUME NEW from, NEW to, NEW size, NEW half, NEW weights, NEW start,
           GroupInputs(from, to, size, half, weights, start)
    PROVE  Upto(from, to, 2 * start) \in Memory(2 * size)
  <1>1. from \in Memory(2 * size) /\ to \in Memory(2 * size) /\ 2 * size \in Int /\ 2 * start \in Int
    BY DEF GroupInputs
  <1>2. QED
    BY <1>1, UptoIn, Zenon

\* A stage's weights are in its table.
TableStage(from, size, half, table, begin, length, groups) ==
    /\ StageInputs(from, size, half, TableWeights(table, half, begin), groups)
    /\ TableInputs(table, begin, half, length)

\* The reference's loop over a group does the group.
LEMMA GroupScalarTurns ==
    ASSUME NEW from, NEW to, NEW size, NEW half, NEW table, NEW begin, NEW start,
           GroupInputs(from, to, size, half, TableWeights(table, half, begin), start)
    PROVE  GroupScalar(Upto(from, to, 2 * start), size, half, table, begin, start)
           = Upto(from, to, (2 * start) + (4 * half))
  <1> DEFINE weights == TableWeights(table, half, begin)
             body == [offset \in 0 .. half - 1 |-> [m \in Memory(2 * size) |->
                         Butterfly(m, start + offset, start + offset + half, Complex(table, begin + offset))]]
  <1>1. ASSUME NEW n \in 0 .. half - 1, NEW m \in Memory(2 * size)
        PROVE  \E w : /\ w[1] = weights[n][1] /\ w[2] = weights[n][2]
                      /\ body[n][m] = Butterfly(m, start + n, start + n + half, w)
    <2> DEFINE w == Complex(table, begin + n)
    <2>1. weights[n] = w
      BY DEF TableWeights
    <2>2. body[n][m] = Butterfly(m, start + n, start + n + half, w)
      OBVIOUS
    <2> HIDE DEF w, weights, body
    <2>3. QED
      BY <2>1, <2>2
  <1>2. GroupScalar(Upto(from, to, 2 * start), size, half, table, begin, start)
        = Loop(half, body, Upto(from, to, 2 * start))
    BY DEF GroupScalar
  <1> HIDE DEF weights, body
  <1>3. Loop(half, body, Upto(from, to, 2 * start)) = Upto(from, to, (2 * start) + (4 * half))
    BY <1>1, ScalarGroup DEF weights
  <1>4. QED
    BY <1>2, <1>3

\* AVX2's loop over a group, two butterflies at a time, does the group.
LEMMA GroupAvx2Turns ==
    ASSUME NEW from, NEW to, NEW size, NEW half, NEW table, NEW begin, NEW length, NEW start,
           TableInputs(table, begin, half, length),
           GroupInputs(from, to, size, half, TableWeights(table, half, begin), start), half % 2 = 0
    PROVE  GroupAvx2(Upto(from, to, 2 * start), size, half, table, begin, start)
           = Upto(from, to, (2 * start) + (4 * half))
  <1> DEFINE weights == TableWeights(table, half, begin)
             body == [j \in 0 .. (half \div 2) - 1 |-> [m \in Memory(2 * size) |->
                         PairAvx2(m, half, table, begin, start, 2 * j)]]
             count == half \div 2
  <1>1. /\ half \in Nat /\ start \in Nat /\ size \in Nat /\ begin \in Nat
        /\ from \in Memory(2 * size) /\ to \in Memory(2 * size) /\ 2 * size \in Int
    BY DEF GroupInputs, TableInputs
  <1>2. count \in Nat /\ half = 2 * count
    BY <1>1
  <1>3. ASSUME NEW j \in 0 .. count - 1
        PROVE  body[j][Done(from, to, ButterfliesDone(start, half, 2 * j))]
               = Done(from, to, ButterfliesDone(start, half, (2 * j) + 2))
    <2> DEFINE n == 2 * j
               m == Done(from, to, ButterfliesDone(start, half, n))
    <2>1. m \in Memory(2 * size)
      BY <1>1, DoneIn, Zenon
    <2>2. n \in Nat /\ n + 2 <= half
      BY <1>2
    <2>3. body[j][m] = PairAvx2(m, half, table, begin, start, n)
      BY <2>1
    <2> HIDE DEF n, body
    <2>4. VectorStep(PairAvx2(m, half, table, begin, start, n), m, table, size, half, begin, start, n, 2)
      <3> HIDE DEF m
      <3> DEFINE k == start + n
                 l == start + n + half
                 r == MulPair(Load(m, 2 * l, 2 * 2), Load(table, 2 * (begin + n), 2 * 2))
      <3>1. (start + n) * 2 = 2 * k /\ (start + n) * 2 + half * 2 = 2 * l /\ 2 * 2 = 4
        BY <1>1, <2>2
      <3>2. PairAvx2(m, half, table, begin, start, n)
            = Store(Store(m, 2 * k, Added(Load(m, 2 * k, 2 * 2), r)), 2 * l, Subtracted(Load(m, 2 * k, 2 * 2), r))
        <4> HIDE DEF k, l
        <4>1. QED
          BY <3>1, IsEvaluated DEF PairAvx2
      <3>3. Rotates(r, Load(m, 2 * l, 2 * 2), Load(table, 2 * (begin + n), 2 * 2))
        BY DEF Rotates
      <3> HIDE DEF r
      <3>4. QED
        BY <3>2, <3>3 DEF VectorStep
    <2>5. PairAvx2(m, half, table, begin, start, n) = Done(from, to, ButterfliesDone(start, half, n + 2))
      BY <2>2, <2>4, VectorStepTurns, 2 \in Nat
    <2>6. QED
      BY <2>3, <2>5 DEF n
  <1>4. GroupAvx2(Upto(from, to, 2 * start), size, half, table, begin, start)
        = Loop(count, body, Upto(from, to, 2 * start))
    BY DEF GroupAvx2
  <1> HIDE DEF weights, body, count
  <1>5. GroupSteps(body, from, to, half, start, 2, count)
    BY <1>3 DEF GroupSteps
  <1>6. Loop(count, body, Upto(from, to, 2 * start)) = Upto(from, to, (2 * start) + (4 * half))
    BY <1>2, <1>5, GroupLoop, 2 \in Nat
  <1>7. QED
    BY <1>4, <1>6

\* AVX-512's loop over a group, four butterflies at a time, does the group.
LEMMA GroupAvx512Turns ==
    ASSUME NEW from, NEW to, NEW size, NEW half, NEW table, NEW begin, NEW length, NEW start,
           TableInputs(table, begin, half, length),
           GroupInputs(from, to, size, half, TableWeights(table, half, begin), start), half % 4 = 0
    PROVE  GroupAvx512(Upto(from, to, 2 * start), size, half, table, begin, start)
           = Upto(from, to, (2 * start) + (4 * half))
  <1> DEFINE weights == TableWeights(table, half, begin)
             body == [j \in 0 .. (half \div 4) - 1 |-> [m \in Memory(2 * size) |->
                         QuadAvx512(m, half, table, begin, start, 4 * j)]]
             count == half \div 4
  <1>1. /\ half \in Nat /\ start \in Nat /\ size \in Nat /\ begin \in Nat
        /\ from \in Memory(2 * size) /\ to \in Memory(2 * size) /\ 2 * size \in Int
    BY DEF GroupInputs, TableInputs
  <1>2. count \in Nat /\ half = 4 * count
    BY <1>1
  <1>3. ASSUME NEW j \in 0 .. count - 1
        PROVE  body[j][Done(from, to, ButterfliesDone(start, half, 4 * j))]
               = Done(from, to, ButterfliesDone(start, half, (4 * j) + 4))
    <2> DEFINE n == 4 * j
               m == Done(from, to, ButterfliesDone(start, half, n))
    <2>1. m \in Memory(2 * size)
      BY <1>1, DoneIn, Zenon
    <2>2. n \in Nat /\ n + 4 <= half
      BY <1>2
    <2>3. body[j][m] = QuadAvx512(m, half, table, begin, start, n)
      BY <2>1
    <2> HIDE DEF n, body
    <2>4. VectorStep(QuadAvx512(m, half, table, begin, start, n), m, table, size, half, begin, start, n, 4)
      <3> HIDE DEF m
      <3> DEFINE k == start + n
                 l == start + n + half
                 r == MulQuad(Load(m, 2 * l, 2 * 4), Load(table, 2 * (begin + n), 2 * 4))
      <3>1. (start + n) * 2 = 2 * k /\ (start + n) * 2 + half * 2 = 2 * l /\ 2 * 4 = 8
        BY <1>1, <2>2
      <3>2. QuadAvx512(m, half, table, begin, start, n)
            = Store(Store(m, 2 * k, Added(Load(m, 2 * k, 2 * 4), r)), 2 * l, Subtracted(Load(m, 2 * k, 2 * 4), r))
        <4> HIDE DEF k, l
        <4>1. QED
          BY <3>1, IsEvaluated DEF QuadAvx512
      <3>3. Rotates(r, Load(m, 2 * l, 2 * 4), Load(table, 2 * (begin + n), 2 * 4))
        BY DEF Rotates
      <3> HIDE DEF r
      <3>4. QED
        BY <3>2, <3>3 DEF VectorStep
    <2>5. QuadAvx512(m, half, table, begin, start, n) = Done(from, to, ButterfliesDone(start, half, n + 4))
      BY <2>2, <2>4, VectorStepTurns, 4 \in Nat
    <2>6. QED
      BY <2>3, <2>5 DEF n
  <1>4. GroupAvx512(Upto(from, to, 2 * start), size, half, table, begin, start)
        = Loop(count, body, Upto(from, to, 2 * start))
    BY DEF GroupAvx512
  <1> HIDE DEF weights, body, count
  <1>5. GroupSteps(body, from, to, half, start, 4, count)
    BY <1>3 DEF GroupSteps
  <1>6. Loop(count, body, Upto(from, to, 2 * start)) = Upto(from, to, (2 * start) + (4 * half))
    BY <1>2, <1>5, GroupLoop, 4 \in Nat
  <1>7. QED
    BY <1>4, <1>6

\* NEON's loop over a group, two butterflies at a time, does the group.
LEMMA GroupNeonTurns ==
    ASSUME NEW from, NEW to, NEW size, NEW half, NEW table, NEW begin, NEW length, NEW start,
           TableInputs(table, begin, half, length),
           GroupInputs(from, to, size, half, TableWeights(table, half, begin), start), half % 2 = 0
    PROVE  GroupNeon(Upto(from, to, 2 * start), size, half, table, begin, start)
           = Upto(from, to, (2 * start) + (4 * half))
  <1> DEFINE weights == TableWeights(table, half, begin)
             body == [j \in 0 .. (half \div 2) - 1 |-> [m \in Memory(2 * size) |->
                         PairNeon(m, half, table, begin, start, 2 * j)]]
             count == half \div 2
  <1>1. /\ half \in Nat /\ start \in Nat /\ size \in Nat /\ begin \in Nat
        /\ from \in Memory(2 * size) /\ to \in Memory(2 * size) /\ 2 * size \in Int
    BY DEF GroupInputs, TableInputs
  <1>2. count \in Nat /\ half = 2 * count
    BY <1>1
  <1>3. ASSUME NEW j \in 0 .. count - 1
        PROVE  body[j][Done(from, to, ButterfliesDone(start, half, 2 * j))]
               = Done(from, to, ButterfliesDone(start, half, (2 * j) + 2))
    <2> DEFINE n == 2 * j
               m == Done(from, to, ButterfliesDone(start, half, n))
    <2>1. m \in Memory(2 * size)
      BY <1>1, DoneIn, Zenon
    <2>2. n \in Nat /\ n + 2 <= half
      BY <1>2
    <2>3. body[j][m] = PairNeon(m, half, table, begin, start, n)
      BY <2>1
    <2> HIDE DEF n, body
    <2>5. PairNeon(m, half, table, begin, start, n) = Done(from, to, ButterfliesDone(start, half, n + 2))
      BY <2>2, NeonStepTurns
    <2>6. QED
      BY <2>3, <2>5 DEF n
  <1>4. GroupNeon(Upto(from, to, 2 * start), size, half, table, begin, start)
        = Loop(count, body, Upto(from, to, 2 * start))
    BY DEF GroupNeon
  <1> HIDE DEF weights, body, count
  <1>5. GroupSteps(body, from, to, half, start, 2, count)
    BY <1>3 DEF GroupSteps
  <1>6. Loop(count, body, Upto(from, to, 2 * start)) = Upto(from, to, (2 * start) + (4 * half))
    BY <1>2, <1>5, GroupLoop, 2 \in Nat
  <1>7. QED
    BY <1>4, <1>6

\* The reference's stage does what a stage means.
LEMMA StageScalarTurns ==
    ASSUME NEW from, NEW size, NEW half, NEW table, NEW begin, NEW length, NEW groups,
           TableStage(from, size, half, table, begin, length, groups)
    PROVE  StageScalar(from, size, half, table, begin) = StageMeans(from, size, half, TableWeights(table, half, begin))
  <1> DEFINE weights == TableWeights(table, half, begin)
             to == StageMeans(from, size, half, weights)
             body == [group \in 0 .. Groups(size, half) - 1 |-> [m \in Memory(2 * size) |->
                         GroupScalar(m, size, half, table, begin, 2 * half * group)]]
  <1>1. StageInputs(from, size, half, weights, groups) /\ TableInputs(table, begin, half, length)
    BY DEF TableStage
  <1>2. Groups(size, half) = groups /\ half \in Nat
    BY <1>1, GroupsAre DEF StageInputs
  <1>3. ASSUME NEW g \in 0 .. groups - 1, NEW start, start = (2 * half) * g,
               GroupInputs(from, to, size, half, weights, start)
        PROVE  body[g][Upto(from, to, 2 * start)] = Upto(from, to, (2 * start) + (4 * half))
    <2> DEFINE m == Upto(from, to, 2 * start)
    <2>1. m \in Memory(2 * size)
      BY <1>3, GroupGiven
    <2>2. 2 * half * g = start
      BY <1>2, <1>3
    <2> HIDE DEF m
    <2>3. body[g][m] = GroupScalar(m, size, half, table, begin, start)
      BY <1>2, <2>1, <2>2
    <2> HIDE DEF to, body
    <2>4. GroupScalar(m, size, half, table, begin, start) = Upto(from, to, (2 * start) + (4 * half))
      BY <1>1, <1>3, GroupScalarTurns DEF m
    <2>5. QED
      BY <2>3, <2>4 DEF m
  <1>4. StageScalar(from, size, half, table, begin) = Loop(Groups(size, half), body, from)
    BY DEF StageScalar
  <1> HIDE DEF body, weights
  <1>5. GroupsTurn(body, from, to, size, half, weights, groups)
    <2> HIDE DEF to
    <2>1. QED
      BY <1>3, Zenon DEF GroupsTurn
  <1>6. QED
    BY <1>1, <1>4, <1>5, StageTurns DEF weights

\* AVX2's later stages do what a stage means.
LEMMA StageAvx2Turns ==
    ASSUME NEW from, NEW size, NEW half, NEW table, NEW begin, NEW length, NEW groups,
           TableStage(from, size, half, table, begin, length, groups), half % 2 = 0
    PROVE  StageAvx2(from, size, half, table, begin) = StageMeans(from, size, half, TableWeights(table, half, begin))
  <1> DEFINE weights == TableWeights(table, half, begin)
             to == StageMeans(from, size, half, weights)
             body == [group \in 0 .. Groups(size, half) - 1 |-> [m \in Memory(2 * size) |->
                         GroupAvx2(m, size, half, table, begin, 2 * half * group)]]
  <1>1. StageInputs(from, size, half, weights, groups) /\ TableInputs(table, begin, half, length)
    BY DEF TableStage
  <1>2. Groups(size, half) = groups /\ half \in Nat
    BY <1>1, GroupsAre DEF StageInputs
  <1>3. ASSUME NEW g \in 0 .. groups - 1, NEW start, start = (2 * half) * g,
               GroupInputs(from, to, size, half, weights, start)
        PROVE  body[g][Upto(from, to, 2 * start)] = Upto(from, to, (2 * start) + (4 * half))
    <2> DEFINE m == Upto(from, to, 2 * start)
    <2>1. m \in Memory(2 * size)
      BY <1>3, GroupGiven
    <2>2. 2 * half * g = start
      BY <1>2, <1>3
    <2> HIDE DEF m
    <2>3. body[g][m] = GroupAvx2(m, size, half, table, begin, start)
      BY <1>2, <2>1, <2>2
    <2> HIDE DEF to, body
    <2>4. GroupAvx2(m, size, half, table, begin, start) = Upto(from, to, (2 * start) + (4 * half))
      BY <1>1, <1>3, GroupAvx2Turns DEF m
    <2>5. QED
      BY <2>3, <2>4 DEF m
  <1>4. StageAvx2(from, size, half, table, begin) = Loop(Groups(size, half), body, from)
    BY DEF StageAvx2
  <1> HIDE DEF body, weights
  <1>5. GroupsTurn(body, from, to, size, half, weights, groups)
    <2> HIDE DEF to
    <2>1. QED
      BY <1>3, Zenon DEF GroupsTurn
  <1>6. QED
    BY <1>1, <1>4, <1>5, StageTurns DEF weights

\* AVX-512's later stages do what a stage means.
LEMMA StageAvx512Turns ==
    ASSUME NEW from, NEW size, NEW half, NEW table, NEW begin, NEW length, NEW groups,
           TableStage(from, size, half, table, begin, length, groups), half % 4 = 0
    PROVE  StageAvx512(from, size, half, table, begin) = StageMeans(from, size, half, TableWeights(table, half, begin))
  <1> DEFINE weights == TableWeights(table, half, begin)
             to == StageMeans(from, size, half, weights)
             body == [group \in 0 .. Groups(size, half) - 1 |-> [m \in Memory(2 * size) |->
                         GroupAvx512(m, size, half, table, begin, 2 * half * group)]]
  <1>1. StageInputs(from, size, half, weights, groups) /\ TableInputs(table, begin, half, length)
    BY DEF TableStage
  <1>2. Groups(size, half) = groups /\ half \in Nat
    BY <1>1, GroupsAre DEF StageInputs
  <1>3. ASSUME NEW g \in 0 .. groups - 1, NEW start, start = (2 * half) * g,
               GroupInputs(from, to, size, half, weights, start)
        PROVE  body[g][Upto(from, to, 2 * start)] = Upto(from, to, (2 * start) + (4 * half))
    <2> DEFINE m == Upto(from, to, 2 * start)
    <2>1. m \in Memory(2 * size)
      BY <1>3, GroupGiven
    <2>2. 2 * half * g = start
      BY <1>2, <1>3
    <2> HIDE DEF m
    <2>3. body[g][m] = GroupAvx512(m, size, half, table, begin, start)
      BY <1>2, <2>1, <2>2
    <2> HIDE DEF to, body
    <2>4. GroupAvx512(m, size, half, table, begin, start) = Upto(from, to, (2 * start) + (4 * half))
      BY <1>1, <1>3, GroupAvx512Turns DEF m
    <2>5. QED
      BY <2>3, <2>4 DEF m
  <1>4. StageAvx512(from, size, half, table, begin) = Loop(Groups(size, half), body, from)
    BY DEF StageAvx512
  <1> HIDE DEF body, weights
  <1>5. GroupsTurn(body, from, to, size, half, weights, groups)
    <2> HIDE DEF to
    <2>1. QED
      BY <1>3, Zenon DEF GroupsTurn
  <1>6. QED
    BY <1>1, <1>4, <1>5, StageTurns DEF weights

\* NEON's later stages do what a stage means.
LEMMA StageNeonTurns ==
    ASSUME NEW from, NEW size, NEW half, NEW table, NEW begin, NEW length, NEW groups,
           TableStage(from, size, half, table, begin, length, groups), half % 2 = 0
    PROVE  StageNeon(from, size, half, table, begin) = StageMeans(from, size, half, TableWeights(table, half, begin))
  <1> DEFINE weights == TableWeights(table, half, begin)
             to == StageMeans(from, size, half, weights)
             body == [group \in 0 .. Groups(size, half) - 1 |-> [m \in Memory(2 * size) |->
                         GroupNeon(m, size, half, table, begin, 2 * half * group)]]
  <1>1. StageInputs(from, size, half, weights, groups) /\ TableInputs(table, begin, half, length)
    BY DEF TableStage
  <1>2. Groups(size, half) = groups /\ half \in Nat
    BY <1>1, GroupsAre DEF StageInputs
  <1>3. ASSUME NEW g \in 0 .. groups - 1, NEW start, start = (2 * half) * g,
               GroupInputs(from, to, size, half, weights, start)
        PROVE  body[g][Upto(from, to, 2 * start)] = Upto(from, to, (2 * start) + (4 * half))
    <2> DEFINE m == Upto(from, to, 2 * start)
    <2>1. m \in Memory(2 * size)
      BY <1>3, GroupGiven
    <2>2. 2 * half * g = start
      BY <1>2, <1>3
    <2> HIDE DEF m
    <2>3. body[g][m] = GroupNeon(m, size, half, table, begin, start)
      BY <1>2, <2>1, <2>2
    <2> HIDE DEF to, body
    <2>4. GroupNeon(m, size, half, table, begin, start) = Upto(from, to, (2 * start) + (4 * half))
      BY <1>1, <1>3, GroupNeonTurns DEF m
    <2>5. QED
      BY <2>3, <2>4 DEF m
  <1>4. StageNeon(from, size, half, table, begin) = Loop(Groups(size, half), body, from)
    BY DEF StageNeon
  <1> HIDE DEF body, weights
  <1>5. GroupsTurn(body, from, to, size, half, weights, groups)
    <2> HIDE DEF to
    <2>1. QED
      BY <1>3, Zenon DEF GroupsTurn
  <1>6. QED
    BY <1>1, <1>4, <1>5, StageTurns DEF weights

-----------------------------------------------------------------------------
(* The first stages, whose groups are smaller than a vector.               *)

\* A vector put together from 128-bit lanes holds their complexes.
Laned(v, a, x, p) == Complex(v, p) = Complex(a, x)

\* A vector put together from two complexes.
LEMMA TwoLanes ==
    ASSUME NEW a, NEW b, NEW x \in Nat, NEW y \in Nat,
           Complex(a, x) \in Doubles \X Doubles, Complex(b, y) \in Doubles \X Doubles,
           NEW v, v = FromLanes(<<<<a, x>>, <<b, y>>>>)
    PROVE  v \in Memory(4) /\ Laned(v, a, x, 0) /\ Laned(v, b, y, 1)
  <1>1. /\ v[0] = a[2 * x] /\ v[1] = a[2 * x + 1] /\ v[2] = b[2 * y] /\ v[3] = b[2 * y + 1]
        /\ v = [i \in 0 .. 3 |-> v[i]]
    BY DEF FromLanes
  <1>2. a[2 * x] \in Doubles /\ a[2 * x + 1] \in Doubles /\ b[2 * y] \in Doubles /\ b[2 * y + 1] \in Doubles
    BY DEF Complex
  <1>3. \A i \in 0 .. 3 : v[i] \in Doubles
    BY <1>1, <1>2
  <1>4. v \in Memory(4)
    BY <1>1, <1>3 DEF Memory
  <1>5. QED
    BY <1>1, <1>4 DEF Laned, Complex

\* A vector put together from four complexes.
LEMMA FourLanes ==
    ASSUME NEW a, NEW b, NEW c, NEW d, NEW x \in Nat, NEW y \in Nat, NEW z \in Nat, NEW w \in Nat,
           Complex(a, x) \in Doubles \X Doubles, Complex(b, y) \in Doubles \X Doubles,
           Complex(c, z) \in Doubles \X Doubles, Complex(d, w) \in Doubles \X Doubles,
           NEW v, v = FromLanes(<<<<a, x>>, <<b, y>>, <<c, z>>, <<d, w>>>>)
    PROVE  v \in Memory(8) /\ Laned(v, a, x, 0) /\ Laned(v, b, y, 1) /\ Laned(v, c, z, 2) /\ Laned(v, d, w, 3)
  <1>1. /\ v[0] = a[2 * x] /\ v[1] = a[2 * x + 1] /\ v[2] = b[2 * y] /\ v[3] = b[2 * y + 1]
        /\ v[4] = c[2 * z] /\ v[5] = c[2 * z + 1] /\ v[6] = d[2 * w] /\ v[7] = d[2 * w + 1]
        /\ v = [i \in 0 .. 7 |-> v[i]]
    BY DEF FromLanes
  <1>2. /\ a[2 * x] \in Doubles /\ a[2 * x + 1] \in Doubles /\ b[2 * y] \in Doubles /\ b[2 * y + 1] \in Doubles
        /\ c[2 * z] \in Doubles /\ c[2 * z + 1] \in Doubles /\ d[2 * w] \in Doubles /\ d[2 * w + 1] \in Doubles
    BY DEF Complex
  <1>3. \A i \in 0 .. 7 : v[i] \in Doubles
    BY <1>1, <1>2
  <1>4. v \in Memory(8)
    BY <1>1, <1>3 DEF Memory
  <1>5. QED
    BY <1>1, <1>4 DEF Laned, Complex

\* A complex of memory.
LEMMA ComplexIn ==
    ASSUME NEW size \in Int, NEW m \in Memory(size), NEW k \in Nat, 2 * k + 2 <= size
    PROVE  Complex(m, k) \in Doubles \X Doubles
  BY ComplexIs DEF Complex

\* The complexes of the vectors of a butterfly.
Rotated(u, v, a, b, t, p) ==
    /\ Complex(u, p) = ComplexPlus(Complex(a, p), ComplexTimes(Complex(b, p), Complex(t, p)))
    /\ Complex(v, p) = ComplexMinus(Complex(a, p), ComplexTimes(Complex(b, p), Complex(t, p)))

\* Vectors turned and added are the outputs of butterflies, as complexes.
LEMMA RotatedComplexes ==
    ASSUME NEW h \in Nat, NEW a \in Memory(2 * h), NEW b \in Memory(2 * h), NEW t \in Memory(2 * h),
           NEW r, Rotates(r, b, t)
    PROVE  /\ Added(a, r) \in Memory(2 * h) /\ Subtracted(a, r) \in Memory(2 * h)
           /\ \A p \in 0 .. h - 1 : Rotated(Added(a, r), Subtracted(a, r), a, b, t, p)
  <1> DEFINE u == Added(a, r)
             v == Subtracted(a, r)
  <1>1. /\ u \in Memory(2 * h) /\ v \in Memory(2 * h)
        /\ \A p \in 0 .. h - 1 : SumLane(u, v, p, Complex(a, p), Complex(b, p), Complex(t, p))
    BY RotatedLanes
  <1> HIDE DEF u, v
  <1>2. ASSUME NEW p \in 0 .. h - 1 PROVE Rotated(u, v, a, b, t, p)
    <2> DEFINE x == ComplexTimes(Complex(b, p), Complex(t, p))
    <2>1. SumLane(u, v, p, Complex(a, p), Complex(b, p), Complex(t, p))
      BY <1>1
    <2>2. /\ u[2 * p] = ComplexPlus(Complex(a, p), x)[1] /\ u[2 * p + 1] = ComplexPlus(Complex(a, p), x)[2]
          /\ v[2 * p] = ComplexMinus(Complex(a, p), x)[1] /\ v[2 * p + 1] = ComplexMinus(Complex(a, p), x)[2]
      BY <2>1 DEF SumLane
    <2> HIDE DEF x
    <2>3. /\ Complex(u, p) = ComplexPlus(Complex(a, p), x)
          /\ Complex(v, p) = ComplexMinus(Complex(a, p), x)
      BY <2>2 DEF Complex, ComplexPlus, ComplexMinus
    <2>4. QED
      BY <2>3 DEF Rotated, x
  <1>3. QED
    BY <1>1, <1>2 DEF u, v

\* A vector of complexes stored behind the others.
Behind(v, to, k, h) == v \in Memory(2 * h) /\ \A p \in 0 .. h - 1 : Complex(v, p) = Complex(to, k + p)

\* Storing the complexes that come next does memory up to their end.
LEMMA ComplexesStored ==
    ASSUME NEW size \in Int, NEW from \in Memory(size), NEW to \in Memory(size),
           NEW k \in Nat, NEW h \in Nat, 2 * k + 2 * h <= size, NEW v, Behind(v, to, k, h)
    PROVE  Store(Upto(from, to, 2 * k), 2 * k, v) = Upto(from, to, 2 * (k + h))
  <1>1. v \in Memory(2 * h)
        /\ \A p \in 0 .. h - 1 : v[2 * p] = to[2 * (k + p)] /\ v[2 * p + 1] = to[2 * (k + p) + 1]
    BY DEF Behind, Complex
  <1>2. 2 * (k + h) = 2 * k + 2 * h
    OBVIOUS
  <1>3. QED
    BY <1>1, <1>2, ComplexesSweep

\* The complexes of what a stage makes of memory.
LEMMA WingComplexes ==
    ASSUME NEW from, NEW to, NEW e, NEW half, NEW w, Wing(from, to, e, half, w)
    PROVE  /\ Complex(to, e) = ComplexPlus(Complex(from, e), ComplexTimes(Complex(from, e + half), w))
           /\ Complex(to, e + half) = ComplexMinus(Complex(from, e), ComplexTimes(Complex(from, e + half), w))
  BY DEF Wing, Upper, Lower, Complex, ComplexPlus, ComplexMinus

\* Memory behind what is done.
LEMMA UptoBehind ==
    ASSUME NEW size \in Int, NEW from \in Memory(size), NEW to \in Memory(size), NEW k \in Nat, NEW c \in Nat,
           k <= c, 2 * c + 2 <= size
    PROVE  Complex(Upto(from, to, 2 * k), c) = Complex(from, c)
  <1> DEFINE m == Upto(from, to, 2 * k)
  <1>1. \A i \in 0 .. size - 1 : 2 * k <= i => m[i] = from[i]
    BY UptoAt, 2 * k \in Int
  <1> HIDE DEF m
  <1>2. m[2 * c] = from[2 * c] /\ m[2 * c + 1] = from[2 * c + 1]
    BY <1>1
  <1>3. QED
    BY <1>2 DEF m, Complex

\* The complexes of a vector loaded from memory behind what is done.
Loaded(v, from, k, h) == v \in Memory(2 * h) /\ \A p \in 0 .. h - 1 : Complex(v, p) = Complex(from, k + p)

\* What is loaded behind the part that is done is what the stage was given.
LEMMA LoadedBehind ==
    ASSUME NEW size \in Int, NEW from \in Memory(size), NEW to \in Memory(size), NEW k \in Nat, NEW c \in Nat,
           NEW h \in Nat, k <= c, 2 * c + 2 * h <= size, NEW at, at = 2 * c, NEW width, width = 2 * h
    PROVE  Loaded(Load(Upto(from, to, 2 * k), at, width), from, c, h)
  <1> DEFINE m == Upto(from, to, 2 * k)
             v == Load(m, 2 * c, 2 * h)
  <1>1. m \in Memory(size)
    BY UptoIn, 2 * k \in Int, Zenon
  <1>2. \A q \in Nat : k <= q /\ 2 * q + 2 <= size => Complex(m, q) = Complex(from, q)
    BY UptoBehind
  <1> HIDE DEF m
  <1>3. v \in Memory(2 * h)
    BY <1>1, LoadIn, 2 * c \in Nat, 2 * h \in Nat
  <1>4. LoadedFrom(v, m, c, h)
    BY DEF LoadedFrom
  <1> HIDE DEF v
  <1>5. ASSUME NEW p \in 0 .. h - 1 PROVE Complex(v, p) = Complex(from, c + p)
    <2>1. Complex(v, p) = Complex(m, c + p)
      BY <1>1, <1>4, LoadedComplex
    <2>2. c + p \in Nat /\ k <= c + p /\ 2 * (c + p) + 2 <= size
      OBVIOUS
    <2>3. QED
      BY <1>2, <2>1, <2>2
  <1>6. QED
    BY <1>3, <1>5 DEF Loaded, v, m

\* Two groups of two complexes.
TwoGroups(from, to, size, k, w) ==
    /\ size \in Nat /\ from \in Memory(2 * size) /\ to \in Memory(2 * size)
    /\ k \in Nat /\ k + 4 <= size /\ w \in Doubles \X Doubles
    /\ Wing(from, to, k, 1, w) /\ Wing(from, to, k + 2, 1, w)

\* Two groups of one butterfly, complex by complex.
LEMMA TwoGroupsAre ==
    ASSUME NEW from, NEW to, NEW size, NEW k, NEW w, TwoGroups(from, to, size, k, w)
    PROVE  /\ Complex(to, k) = ComplexPlus(Complex(from, k), ComplexTimes(Complex(from, k + 1), w))
           /\ Complex(to, k + 1) = ComplexMinus(Complex(from, k), ComplexTimes(Complex(from, k + 1), w))
           /\ Complex(to, k + 2) = ComplexPlus(Complex(from, k + 2), ComplexTimes(Complex(from, k + 3), w))
           /\ Complex(to, k + 3) = ComplexMinus(Complex(from, k + 2), ComplexTimes(Complex(from, k + 3), w))
           /\ \A c \in k .. k + 3 : Complex(from, c) \in Doubles \X Doubles /\ Complex(to, c) \in Doubles \X Doubles
  <1>1. /\ size \in Nat /\ from \in Memory(2 * size) /\ to \in Memory(2 * size) /\ 2 * size \in Int
        /\ k \in Nat /\ k + 4 <= size
    BY DEF TwoGroups
  <1>2. Wing(from, to, k, 1, w) /\ Wing(from, to, k + 2, 1, w)
    BY DEF TwoGroups
  <1>3. (k + 2) + 1 = k + 3
    BY <1>1
  <1>4. /\ Complex(to, k) = ComplexPlus(Complex(from, k), ComplexTimes(Complex(from, k + 1), w))
        /\ Complex(to, k + 1) = ComplexMinus(Complex(from, k), ComplexTimes(Complex(from, k + 1), w))
    BY <1>2, WingComplexes
  <1>5. /\ Complex(to, k + 2) = ComplexPlus(Complex(from, k + 2), ComplexTimes(Complex(from, (k + 2) + 1), w))
        /\ Complex(to, (k + 2) + 1) = ComplexMinus(Complex(from, k + 2), ComplexTimes(Complex(from, (k + 2) + 1), w))
    BY <1>2, WingComplexes
  <1>6. ASSUME NEW c \in k .. k + 3
        PROVE  Complex(from, c) \in Doubles \X Doubles /\ Complex(to, c) \in Doubles \X Doubles
    <2>1. c \in Nat /\ 2 * c + 2 <= 2 * size
      BY <1>1
    <2>2. QED
      BY <1>1, <2>1, ComplexIn
  <1>7. QED
    BY <1>3, <1>4, <1>5, <1>6

\* AVX2's first stage does two groups in two vectors.
LEMMA PackAvx2Turns ==
    ASSUME NEW from, NEW to, NEW size, NEW k, NEW w, TwoGroups(from, to, size, k, w),
           NEW factor \in Memory(4), Complex(factor, 0) = w, Complex(factor, 1) = w
    PROVE  PackAvx2(Upto(from, to, 2 * k), factor, 2 * k) = Upto(from, to, 2 * (k + 4))
  <1> DEFINE m == Upto(from, to, 2 * k)
             low == Load(m, 2 * k, 4)
             high == Load(m, 2 * k + 4, 4)
             even == FromLanes(<<<<low, 0>>, <<high, 0>>>>)
             odd == FromLanes(<<<<low, 1>>, <<high, 1>>>>)
             r == MulPair(odd, factor)
             u == Added(even, r)
             v == Subtracted(even, r)
             s == FromLanes(<<<<u, 0>>, <<v, 0>>>>)
             t == FromLanes(<<<<u, 1>>, <<v, 1>>>>)
  <1>1. /\ size \in Nat /\ from \in Memory(2 * size) /\ to \in Memory(2 * size) /\ 2 * size \in Int
        /\ k \in Nat /\ k + 4 <= size /\ w \in Doubles \X Doubles
    BY DEF TwoGroups
  <1>2. /\ Complex(to, k) = ComplexPlus(Complex(from, k), ComplexTimes(Complex(from, k + 1), w))
        /\ Complex(to, k + 1) = ComplexMinus(Complex(from, k), ComplexTimes(Complex(from, k + 1), w))
        /\ Complex(to, k + 2) = ComplexPlus(Complex(from, k + 2), ComplexTimes(Complex(from, k + 3), w))
        /\ Complex(to, k + 3) = ComplexMinus(Complex(from, k + 2), ComplexTimes(Complex(from, k + 3), w))
        /\ \A c \in k .. k + 3 : Complex(from, c) \in Doubles \X Doubles /\ Complex(to, c) \in Doubles \X Doubles
    BY TwoGroupsAre
  <1>0. /\ \A c \in {k, k + 1, k + 2, k + 3} :
               Complex(from, c) \in Doubles \X Doubles /\ Complex(to, c) \in Doubles \X Doubles
    BY <1>1, <1>2
  <1>3. Loaded(low, from, k, 2) /\ Loaded(high, from, k + 2, 2)
    <2>1. k + 2 \in Nat /\ k <= k + 2 /\ 2 * k + 2 * 2 <= 2 * size /\ 2 * (k + 2) + 2 * 2 <= 2 * size
          /\ 2 * k + 4 = 2 * (k + 2) /\ 4 = 2 * 2
      BY <1>1
    <2>2. QED
      BY <1>1, <2>1, LoadedBehind, 2 \in Nat
  <1>4. PackAvx2(m, factor, 2 * k) = Store(Store(m, 2 * k, s), 2 * k + 4, t)
    BY IsEvaluated DEF PackAvx2
  <1> HIDE DEF m, low, high
  <1>5. /\ Complex(low, 0) = Complex(from, k) /\ Complex(low, 1) = Complex(from, k + 1)
        /\ Complex(high, 0) = Complex(from, k + 2) /\ Complex(high, 1) = Complex(from, k + 3)
    BY <1>1, <1>3, (k + 2) + 1 = k + 3 DEF Loaded
  <1>6. /\ even \in Memory(4) /\ Complex(even, 0) = Complex(from, k) /\ Complex(even, 1) = Complex(from, k + 2)
        /\ odd \in Memory(4) /\ Complex(odd, 0) = Complex(from, k + 1) /\ Complex(odd, 1) = Complex(from, k + 3)
    BY <1>0, <1>5, TwoLanes, 0 \in Nat, 1 \in Nat DEF Laned
  <1> HIDE DEF even, odd
  <1>7. /\ u \in Memory(4) /\ v \in Memory(4)
        /\ Rotated(u, v, even, odd, factor, 0) /\ Rotated(u, v, even, odd, factor, 1)
    <2>1. Rotates(r, odd, factor)
      BY DEF Rotates
    <2> HIDE DEF r
    <2>2. 2 * 2 = 4 /\ 0 \in 0 .. 2 - 1 /\ 1 \in 0 .. 2 - 1
      OBVIOUS
    <2>3. QED
      BY <1>6, <2>1, <2>2, RotatedComplexes, 2 \in Nat
  <1> HIDE DEF u, v, r
  <1>8. /\ Complex(u, 0) = Complex(to, k) /\ Complex(v, 0) = Complex(to, k + 1)
        /\ Complex(u, 1) = Complex(to, k + 2) /\ Complex(v, 1) = Complex(to, k + 3)
    BY <1>2, <1>6, <1>7 DEF Rotated
  <1>9. /\ s \in Memory(4) /\ Complex(s, 0) = Complex(to, k) /\ Complex(s, 1) = Complex(to, k + 1)
        /\ t \in Memory(4) /\ Complex(t, 0) = Complex(to, k + 2) /\ Complex(t, 1) = Complex(to, k + 3)
    BY <1>0, <1>8, TwoLanes, 0 \in Nat, 1 \in Nat DEF Laned
  <1> HIDE DEF s, t
  <1>10. Behind(s, to, k, 2) /\ Behind(t, to, k + 2, 2)
    <2>1. 2 * 2 = 4 /\ \A p \in 0 .. 2 - 1 : p = 0 \/ p = 1
      OBVIOUS
    <2>2. k + 0 = k /\ (k + 2) + 0 = k + 2 /\ (k + 2) + 1 = k + 3
      BY <1>1
    <2>3. QED
      BY <1>9, <2>1, <2>2 DEF Behind
  <1>11. Store(m, 2 * k, s) = Upto(from, to, 2 * (k + 2))
    <2>1. 2 * k + 2 * 2 <= 2 * size
      BY <1>1
    <2>2. QED
      BY <1>1, <1>10, <2>1, ComplexesStored, 2 \in Nat DEF m
  <1>12. Store(Upto(from, to, 2 * (k + 2)), 2 * (k + 2), t) = Upto(from, to, 2 * ((k + 2) + 2))
    <2>1. 2 * (k + 2) + 2 * 2 <= 2 * size /\ k + 2 \in Nat
      BY <1>1
    <2>2. QED
      BY <1>1, <1>10, <2>1, ComplexesStored, 2 \in Nat
  <1>13. 2 * k + 4 = 2 * (k + 2) /\ (k + 2) + 2 = k + 4
    BY <1>1
  <1>14. QED
    BY <1>4, <1>11, <1>12, <1>13 DEF m

\* The first, or the second, doubles of two vectors of two.
LEMMA FirstlySecondly ==
    ASSUME NEW a, NEW b, a[0] \in Doubles, a[1] \in Doubles, b[0] \in Doubles, b[1] \in Doubles
    PROVE  /\ Firstly(a, b) \in Memory(2) /\ Firstly(a, b)[0] = a[0] /\ Firstly(a, b)[1] = b[0]
           /\ Secondly(a, b) \in Memory(2) /\ Secondly(a, b)[0] = a[1] /\ Secondly(a, b)[1] = b[1]
           /\ Complex(Firstly(a, b), 0) = <<a[0], b[0]>> /\ Complex(Secondly(a, b), 0) = <<a[1], b[1]>>
  <1>1. /\ Firstly(a, b) \in Memory(2) /\ Firstly(a, b)[0] = a[0] /\ Firstly(a, b)[1] = b[0]
    BY DEF Firstly, Memory
  <1>2. /\ Secondly(a, b) \in Memory(2) /\ Secondly(a, b)[0] = a[1] /\ Secondly(a, b)[1] = b[1]
    BY DEF Secondly, Memory
  <1>3. QED
    BY <1>1, <1>2 DEF Complex

\* A weight in both lanes.
BothLanes(weight, w) ==
    /\ weight[1] \in Memory(2) /\ weight[2] \in Memory(2)
    /\ weight[1][0] = w[1] /\ weight[1][1] = w[1] /\ weight[2][0] = w[2] /\ weight[2][1] = w[2]

\* NEON's first stage does two groups in four vectors.
LEMMA PackNeonTurns ==
    ASSUME NEW from, NEW to, NEW size, NEW k, NEW w, TwoGroups(from, to, size, k, w),
           NEW weight, BothLanes(weight, w)
    PROVE  PackNeon(Upto(from, to, 2 * k), weight, 2 * k) = Upto(from, to, 2 * (k + 4))
  <1> DEFINE m == Upto(from, to, 2 * k)
             q0 == Load(m, 2 * k + 2 * 0, 2)
             q1 == Load(m, 2 * k + 2 * 1, 2)
             q2 == Load(m, 2 * k + 2 * 2, 2)
             q3 == Load(m, 2 * k + 2 * 3, 2)
             even == <<Firstly(q0, q2), Secondly(q0, q2)>>
             odd == <<Firstly(q1, q3), Secondly(q1, q3)>>
             r == ComplexMulNeon(odd, weight)
             sum == [p \in 1 .. 2 |-> Added(even[p], r[p])]
             difference == [p \in 1 .. 2 |-> Subtracted(even[p], r[p])]
             s0 == Firstly(sum[1], sum[2])
             s1 == Firstly(difference[1], difference[2])
             s2 == Secondly(sum[1], sum[2])
             s3 == Secondly(difference[1], difference[2])
  <1>1. /\ size \in Nat /\ from \in Memory(2 * size) /\ to \in Memory(2 * size) /\ 2 * size \in Int
        /\ k \in Nat /\ k + 4 <= size /\ w \in Doubles \X Doubles
    BY DEF TwoGroups
  <1>2. /\ Complex(to, k) = ComplexPlus(Complex(from, k), ComplexTimes(Complex(from, k + 1), w))
        /\ Complex(to, k + 1) = ComplexMinus(Complex(from, k), ComplexTimes(Complex(from, k + 1), w))
        /\ Complex(to, k + 2) = ComplexPlus(Complex(from, k + 2), ComplexTimes(Complex(from, k + 3), w))
        /\ Complex(to, k + 3) = ComplexMinus(Complex(from, k + 2), ComplexTimes(Complex(from, k + 3), w))
        /\ \A c \in k .. k + 3 : Complex(from, c) \in Doubles \X Doubles /\ Complex(to, c) \in Doubles \X Doubles
    BY TwoGroupsAre
  <1>3. Loaded(q0, from, k, 1) /\ Loaded(q1, from, k + 1, 1) /\ Loaded(q2, from, k + 2, 1) /\ Loaded(q3, from, k + 3, 1)
    <2>1. /\ k + 1 \in Nat /\ k + 2 \in Nat /\ k + 3 \in Nat /\ k <= k + 1 /\ k <= k + 2 /\ k <= k + 3
          /\ 2 * k + 2 * 1 <= 2 * size /\ 2 * (k + 1) + 2 * 1 <= 2 * size /\ 2 * (k + 2) + 2 * 1 <= 2 * size
          /\ 2 * (k + 3) + 2 * 1 <= 2 * size /\ 2 * k + 2 * 0 = 2 * k
          /\ 2 * k + 2 * 1 = 2 * (k + 1) /\ 2 * k + 2 * 2 = 2 * (k + 2) /\ 2 * k + 2 * 3 = 2 * (k + 3) /\ 2 = 2 * 1
      BY <1>1, SMTT(30)
    <2>2. QED
      BY <1>1, <2>1, LoadedBehind, 1 \in Nat
  <1>4. PackNeon(m, weight, 2 * k)
        = Store(Store(Store(Store(m, 2 * k, s0), 2 * k + 2, s1), 2 * k + 4, s2), 2 * k + 6, s3)
    <2> DEFINE e == Evaluated(r)
               f == [p \in 1 .. 2 |-> Added(even[p], e[p])]
               g == [p \in 1 .. 2 |-> Subtracted(even[p], e[p])]
    <2>1. PackNeon(m, weight, 2 * k)
          = Store(Store(Store(Store(m, 2 * k, Firstly(f[1], f[2])), 2 * k + 2, Firstly(g[1], g[2])),
                        2 * k + 4, Secondly(f[1], f[2])), 2 * k + 6, Secondly(g[1], g[2]))
      BY Zenon DEF PackNeon
    <2>2. e = r
      BY IsEvaluated, Zenon
    <2> HIDE DEF e, r, even
    <2>3. f = sum /\ g = difference
      BY <2>2
    <2> HIDE DEF f, g, sum, difference
    <2>4. QED
      BY <2>1, <2>3, SMTT(30)
  <1> HIDE DEF m, q0, q1, q2, q3
  <1>5. /\ <<q0[0], q0[1]>> = Complex(from, k) /\ <<q1[0], q1[1]>> = Complex(from, k + 1)
        /\ <<q2[0], q2[1]>> = Complex(from, k + 2) /\ <<q3[0], q3[1]>> = Complex(from, k + 3)
    <2>1. /\ Complex(q0, 0) = Complex(from, k) /\ Complex(q1, 0) = Complex(from, k + 1)
          /\ Complex(q2, 0) = Complex(from, k + 2) /\ Complex(q3, 0) = Complex(from, k + 3)
      BY <1>1, <1>3 DEF Loaded
    <2>2. QED
      BY <2>1 DEF Complex
  <1>6. /\ q0[0] \in Doubles /\ q0[1] \in Doubles /\ q1[0] \in Doubles /\ q1[1] \in Doubles
        /\ q2[0] \in Doubles /\ q2[1] \in Doubles /\ q3[0] \in Doubles /\ q3[1] \in Doubles
    BY <1>3 DEF Loaded, Memory
  <1>7. /\ even[1] \in Memory(2) /\ even[2] \in Memory(2) /\ odd[1] \in Memory(2) /\ odd[2] \in Memory(2)
        /\ even[1][0] = q0[0] /\ even[1][1] = q2[0] /\ even[2][0] = q0[1] /\ even[2][1] = q2[1]
        /\ odd[1][0] = q1[0] /\ odd[1][1] = q3[0] /\ odd[2][0] = q1[1] /\ odd[2][1] = q3[1]
    BY <1>6, FirstlySecondly
  <1> HIDE DEF even, odd
  <1>8. /\ sum[1] = Added(even[1], r[1]) /\ sum[2] = Added(even[2], r[2])
        /\ difference[1] = Subtracted(even[1], r[1]) /\ difference[2] = Subtracted(even[2], r[2])
    OBVIOUS
  <1>9. /\ sum[1] \in Memory(2) /\ sum[2] \in Memory(2) /\ difference[1] \in Memory(2) /\ difference[2] \in Memory(2)
        /\ PartsTurned(even, odd, weight, sum, difference)
    <2>1. r = ComplexMulNeon(odd, weight)
      OBVIOUS
    <2> HIDE DEF r
    <2>2. weight[1] \in Memory(2) /\ weight[2] \in Memory(2)
      BY DEF BothLanes
    <2>3. /\ Added(even[1], r[1]) \in Memory(2) /\ Added(even[2], r[2]) \in Memory(2)
          /\ Subtracted(even[1], r[1]) \in Memory(2) /\ Subtracted(even[2], r[2]) \in Memory(2)
          /\ PartsTurned(even, odd, weight, <<Added(even[1], r[1]), Added(even[2], r[2])>>,
                         <<Subtracted(even[1], r[1]), Subtracted(even[2], r[2])>>)
      BY <1>7, <2>1, <2>2, PartsTurn
    <2> HIDE DEF sum, difference
    <2>4. QED
      BY <1>8, <2>3 DEF PartsTurned
  <1> HIDE DEF r, sum, difference
  <1>10. /\ <<sum[1][0], sum[2][0]>> = Complex(to, k)
         /\ <<difference[1][0], difference[2][0]>> = Complex(to, k + 1)
         /\ <<sum[1][1], sum[2][1]>> = Complex(to, k + 2)
         /\ <<difference[1][1], difference[2][1]>> = Complex(to, k + 3)
    <2>1. /\ <<odd[1][0], odd[2][0]>> = Complex(from, k + 1) /\ <<odd[1][1], odd[2][1]>> = Complex(from, k + 3)
          /\ <<even[1][0], even[2][0]>> = Complex(from, k) /\ <<even[1][1], even[2][1]>> = Complex(from, k + 2)
      BY <1>5, <1>7
    <2>2. <<weight[1][0], weight[2][0]>> = w /\ <<weight[1][1], weight[2][1]>> = w
      BY <1>1 DEF BothLanes
    <2> DEFINE x == ComplexTimes(Complex(from, k + 1), w)
               y == ComplexTimes(Complex(from, k + 3), w)
    <2>3. /\ sum[1][0] = Plus(even[1][0], x[1]) /\ sum[2][0] = Plus(even[2][0], x[2])
          /\ difference[1][0] = Minus(even[1][0], x[1]) /\ difference[2][0] = Minus(even[2][0], x[2])
          /\ sum[1][1] = Plus(even[1][1], y[1]) /\ sum[2][1] = Plus(even[2][1], y[2])
          /\ difference[1][1] = Minus(even[1][1], y[1]) /\ difference[2][1] = Minus(even[2][1], y[2])
      BY <1>9, <2>1, <2>2 DEF PartsTurned
    <2> HIDE DEF x, y
    <2>4. /\ even[1][0] = Complex(from, k)[1] /\ even[2][0] = Complex(from, k)[2]
          /\ even[1][1] = Complex(from, k + 2)[1] /\ even[2][1] = Complex(from, k + 2)[2]
      BY <2>1 DEF Complex
    <2>5. /\ Complex(to, k) = ComplexPlus(Complex(from, k), x) /\ Complex(to, k + 1) = ComplexMinus(Complex(from, k), x)
          /\ Complex(to, k + 2) = ComplexPlus(Complex(from, k + 2), y)
          /\ Complex(to, k + 3) = ComplexMinus(Complex(from, k + 2), y)
      BY <1>2 DEF x, y
    <2>6. QED
      BY <2>3, <2>4, <2>5 DEF ComplexPlus, ComplexMinus
  <1>11. /\ Complex(s0, 0) = Complex(to, k) /\ Complex(s1, 0) = Complex(to, k + 1)
         /\ Complex(s2, 0) = Complex(to, k + 2) /\ Complex(s3, 0) = Complex(to, k + 3)
         /\ s0 \in Memory(2) /\ s1 \in Memory(2) /\ s2 \in Memory(2) /\ s3 \in Memory(2)
    <2>1. /\ sum[1][0] \in Doubles /\ sum[1][1] \in Doubles /\ sum[2][0] \in Doubles /\ sum[2][1] \in Doubles
          /\ difference[1][0] \in Doubles /\ difference[1][1] \in Doubles
          /\ difference[2][0] \in Doubles /\ difference[2][1] \in Doubles
      BY <1>9 DEF Memory
    <2>2. QED
      BY <1>10, <2>1, FirstlySecondly
  <1> HIDE DEF s0, s1, s2, s3
  <1>12. Behind(s0, to, k, 1) /\ Behind(s1, to, k + 1, 1) /\ Behind(s2, to, k + 2, 1) /\ Behind(s3, to, k + 3, 1)
    <2>1. 2 * 1 = 2 /\ \A p \in 0 .. 1 - 1 : p = 0
      OBVIOUS
    <2>2. k + 0 = k /\ (k + 1) + 0 = k + 1 /\ (k + 2) + 0 = k + 2 /\ (k + 3) + 0 = k + 3
      BY <1>1
    <2>3. QED
      BY <1>11, <2>1, <2>2 DEF Behind
  <1>13. ASSUME NEW j \in 0 .. 3, NEW v, Behind(v, to, k + j, 1)
         PROVE  Store(Upto(from, to, 2 * (k + j)), 2 * (k + j), v) = Upto(from, to, 2 * ((k + j) + 1))
    <2>1. k + j \in Nat /\ 2 * (k + j) + 2 * 1 <= 2 * size
      BY <1>1
    <2>2. QED
      BY <1>1, <1>13, <2>1, ComplexesStored, 1 \in Nat
  <1>14. Store(Upto(from, to, 2 * (k + 0)), 2 * (k + 0), s0) = Upto(from, to, 2 * ((k + 0) + 1))
    BY <1>1, <1>12, <1>13, k + 0 = k
  <1>15. Store(Upto(from, to, 2 * (k + 1)), 2 * (k + 1), s1) = Upto(from, to, 2 * ((k + 1) + 1))
    BY <1>12, <1>13
  <1>16. Store(Upto(from, to, 2 * (k + 2)), 2 * (k + 2), s2) = Upto(from, to, 2 * ((k + 2) + 1))
    BY <1>12, <1>13
  <1>17. Store(Upto(from, to, 2 * (k + 3)), 2 * (k + 3), s3) = Upto(from, to, 2 * ((k + 3) + 1))
    BY <1>12, <1>13
  <1>18. /\ 2 * k = 2 * (k + 0) /\ 2 * k + 2 = 2 * (k + 1) /\ 2 * k + 4 = 2 * (k + 2) /\ 2 * k + 6 = 2 * (k + 3)
         /\ (k + 0) + 1 = k + 1 /\ (k + 1) + 1 = k + 2 /\ (k + 2) + 1 = k + 3 /\ (k + 3) + 1 = k + 4
    BY <1>1
  <1>19. QED
    BY <1>4, <1>14, <1>15, <1>16, <1>17, <1>18 DEF m

\* A shuffle takes two complexes of each of two vectors.
LEMMA ShuffleIs ==
    ASSUME NEW a \in Memory(8), NEW b \in Memory(8), NEW x \in 0 .. 3, NEW y \in 0 .. 3, NEW z \in 0 .. 3, NEW w \in 0 .. 3,
           NEW lanes, lanes = <<x, y, z, w>>
    PROVE  /\ Shuffle(a, b, lanes) \in Memory(8)
           /\ Complex(Shuffle(a, b, lanes), 0) = Complex(a, x) /\ Complex(Shuffle(a, b, lanes), 1) = Complex(a, y)
           /\ Complex(Shuffle(a, b, lanes), 2) = Complex(b, z) /\ Complex(Shuffle(a, b, lanes), 3) = Complex(b, w)
  <1> DEFINE v == FromLanes(<<<<a, x>>, <<a, y>>, <<b, z>>, <<b, w>>>>)
  <1>1. Shuffle(a, b, lanes) = v
    BY DEF Shuffle
  <1>2. \A c \in 0 .. 3 : Complex(a, c) \in Doubles \X Doubles /\ Complex(b, c) \in Doubles \X Doubles
    BY ComplexIn, 8 \in Int
  <1>3. x \in Nat /\ y \in Nat /\ z \in Nat /\ w \in Nat
    OBVIOUS
  <1>4. v \in Memory(8) /\ Laned(v, a, x, 0) /\ Laned(v, a, y, 1) /\ Laned(v, b, z, 2) /\ Laned(v, b, w, 3)
    BY <1>2, <1>3, FourLanes
  <1>5. QED
    BY <1>1, <1>4 DEF Laned

\* The shuffles that part two vectors into their even and their odd complexes.
LEMMA HalvesAre ==
    ASSUME NEW a \in Memory(8), NEW b \in Memory(8)
    PROVE  /\ Shuffle(a, b, HalvesEven) \in Memory(8) /\ Shuffle(a, b, HalvesOdd) \in Memory(8)
           /\ Complex(Shuffle(a, b, HalvesEven), 0) = Complex(a, 0) /\ Complex(Shuffle(a, b, HalvesEven), 1) = Complex(a, 2)
           /\ Complex(Shuffle(a, b, HalvesEven), 2) = Complex(b, 0) /\ Complex(Shuffle(a, b, HalvesEven), 3) = Complex(b, 2)
           /\ Complex(Shuffle(a, b, HalvesOdd), 0) = Complex(a, 1) /\ Complex(Shuffle(a, b, HalvesOdd), 1) = Complex(a, 3)
           /\ Complex(Shuffle(a, b, HalvesOdd), 2) = Complex(b, 1) /\ Complex(Shuffle(a, b, HalvesOdd), 3) = Complex(b, 3)
  <1>1. 0 \in 0 .. 3 /\ 1 \in 0 .. 3 /\ 2 \in 0 .. 3 /\ 3 \in 0 .. 3
    OBVIOUS
  <1>2. HalvesEven = <<0, 2, 0, 2>> /\ HalvesOdd = <<1, 3, 1, 3>>
    BY Zenon DEF HalvesEven, HalvesOdd
  <1>3. QED
    BY <1>1, <1>2, ShuffleIs, SMTT(30)

\* The shuffles that part two vectors into their first and their last complexes.
LEMMA QuartersAre ==
    ASSUME NEW a \in Memory(8), NEW b \in Memory(8)
    PROVE  /\ Shuffle(a, b, GroupsEven) \in Memory(8) /\ Shuffle(a, b, GroupsOdd) \in Memory(8)
           /\ Complex(Shuffle(a, b, GroupsEven), 0) = Complex(a, 0) /\ Complex(Shuffle(a, b, GroupsEven), 1) = Complex(a, 1)
           /\ Complex(Shuffle(a, b, GroupsEven), 2) = Complex(b, 0) /\ Complex(Shuffle(a, b, GroupsEven), 3) = Complex(b, 1)
           /\ Complex(Shuffle(a, b, GroupsOdd), 0) = Complex(a, 2) /\ Complex(Shuffle(a, b, GroupsOdd), 1) = Complex(a, 3)
           /\ Complex(Shuffle(a, b, GroupsOdd), 2) = Complex(b, 2) /\ Complex(Shuffle(a, b, GroupsOdd), 3) = Complex(b, 3)
  <1>1. 0 \in 0 .. 3 /\ 1 \in 0 .. 3 /\ 2 \in 0 .. 3 /\ 3 \in 0 .. 3
    OBVIOUS
  <1>2. GroupsEven = <<0, 1, 0, 1>> /\ GroupsOdd = <<2, 3, 2, 3>>
    BY Zenon DEF GroupsEven, GroupsOdd
  <1>3. QED
    BY <1>1, <1>2, ShuffleIs, SMTT(30)

\* The shuffle that swaps the two complexes in the middle of a vector.
LEMMA MiddleIs ==
    ASSUME NEW a \in Memory(8)
    PROVE  /\ Shuffle(a, a, SwapMiddle) \in Memory(8)
           /\ Complex(Shuffle(a, a, SwapMiddle), 0) = Complex(a, 0) /\ Complex(Shuffle(a, a, SwapMiddle), 1) = Complex(a, 2)
           /\ Complex(Shuffle(a, a, SwapMiddle), 2) = Complex(a, 1) /\ Complex(Shuffle(a, a, SwapMiddle), 3) = Complex(a, 3)
  <1>1. 0 \in 0 .. 3 /\ 1 \in 0 .. 3 /\ 2 \in 0 .. 3 /\ 3 \in 0 .. 3
    OBVIOUS
  <1>2. SwapMiddle = <<0, 2, 1, 3>>
    BY DEF SwapMiddle
  <1>3. QED
    BY <1>1, <1>2, ShuffleIs, SMTT(30)

\* Eight complexes, four of which have a partner to be turned with.
EightComplexes(from, to, size, k) ==
    /\ size \in Nat /\ from \in Memory(2 * size) /\ to \in Memory(2 * size) /\ k \in Nat /\ k + 8 <= size
\* Two complexes that are the outputs of a butterfly of two others.
ButterflyAt(to, from, d, e, a, b, w) ==
    /\ Complex(to, d) = ComplexPlus(Complex(from, a), ComplexTimes(Complex(from, b), w))
    /\ Complex(to, e) = ComplexMinus(Complex(from, a), ComplexTimes(Complex(from, b), w))

\* Storing eight complexes in two vectors does memory up to their end.
LEMMA EightStored ==
    ASSUME NEW from, NEW to, NEW size, NEW k, EightComplexes(from, to, size, k),
           NEW s \in Memory(8), NEW t \in Memory(8),
           Complex(s, 0) = Complex(to, k), Complex(s, 1) = Complex(to, k + 1),
           Complex(s, 2) = Complex(to, k + 2), Complex(s, 3) = Complex(to, k + 3),
           Complex(t, 0) = Complex(to, k + 4), Complex(t, 1) = Complex(to, k + 5),
           Complex(t, 2) = Complex(to, k + 6), Complex(t, 3) = Complex(to, k + 7)
    PROVE  Store(Store(Upto(from, to, 2 * k), 2 * k, s), 2 * k + 8, t) = Upto(from, to, 2 * (k + 8))
  <1>1. /\ size \in Nat /\ from \in Memory(2 * size) /\ to \in Memory(2 * size) /\ 2 * size \in Int
        /\ k \in Nat /\ k + 8 <= size
    BY DEF EightComplexes
  <1>2. Behind(s, to, k, 4) /\ Behind(t, to, k + 4, 4)
    <2>1. 2 * 4 = 8 /\ \A p \in 0 .. 4 - 1 : p = 0 \/ p = 1 \/ p = 2 \/ p = 3
      OBVIOUS
    <2>2. k + 0 = k /\ (k + 4) + 0 = k + 4 /\ (k + 4) + 1 = k + 5 /\ (k + 4) + 2 = k + 6 /\ (k + 4) + 3 = k + 7
      BY <1>1
    <2>3. QED
      BY <2>1, <2>2 DEF Behind
  <1>3. Store(Upto(from, to, 2 * k), 2 * k, s) = Upto(from, to, 2 * (k + 4))
    <2>1. 2 * k + 2 * 4 <= 2 * size
      BY <1>1
    <2>2. QED
      BY <1>1, <1>2, <2>1, ComplexesStored, 4 \in Nat
  <1>4. Store(Upto(from, to, 2 * (k + 4)), 2 * (k + 4), t) = Upto(from, to, 2 * ((k + 4) + 4))
    <2>1. 2 * (k + 4) + 2 * 4 <= 2 * size /\ k + 4 \in Nat
      BY <1>1
    <2>2. QED
      BY <1>1, <1>2, <2>1, ComplexesStored, 4 \in Nat
  <1>5. 2 * k + 8 = 2 * (k + 4) /\ (k + 4) + 4 = k + 8
    BY <1>1
  <1>6. QED
    BY <1>3, <1>4, <1>5

\* Two vectors loaded behind what is done are eight of the complexes given.
LEMMA EightLoaded ==
    ASSUME NEW from, NEW to, NEW size, NEW k, EightComplexes(from, to, size, k),
           NEW low, low = Load(Upto(from, to, 2 * k), 2 * k, 8),
           NEW high, high = Load(Upto(from, to, 2 * k), 2 * k + 8, 8)
    PROVE  /\ low \in Memory(8) /\ high \in Memory(8)
           /\ Complex(low, 0) = Complex(from, k) /\ Complex(low, 1) = Complex(from, k + 1)
           /\ Complex(low, 2) = Complex(from, k + 2) /\ Complex(low, 3) = Complex(from, k + 3)
           /\ Complex(high, 0) = Complex(from, k + 4) /\ Complex(high, 1) = Complex(from, k + 5)
           /\ Complex(high, 2) = Complex(from, k + 6) /\ Complex(high, 3) = Complex(from, k + 7)
  <1>1. /\ size \in Nat /\ from \in Memory(2 * size) /\ to \in Memory(2 * size) /\ 2 * size \in Int
        /\ k \in Nat /\ k + 8 <= size
    BY DEF EightComplexes
  <1>2. Loaded(low, from, k, 4) /\ Loaded(high, from, k + 4, 4)
    <2>1. /\ k + 4 \in Nat /\ k <= k + 4 /\ 2 * k + 2 * 4 <= 2 * size /\ 2 * (k + 4) + 2 * 4 <= 2 * size
          /\ 2 * k + 8 = 2 * (k + 4) /\ 8 = 2 * 4
      BY <1>1
    <2>2. QED
      BY <1>1, <2>1, LoadedBehind, 4 \in Nat
  <1>3. /\ k + 0 = k /\ (k + 4) + 0 = k + 4 /\ (k + 4) + 1 = k + 5 /\ (k + 4) + 2 = k + 6 /\ (k + 4) + 3 = k + 7
        /\ 2 * 4 = 8 /\ 0 \in 0 .. 4 - 1 /\ 1 \in 0 .. 4 - 1 /\ 2 \in 0 .. 4 - 1 /\ 3 \in 0 .. 4 - 1
    BY <1>1
  <1>4. QED
    BY <1>2, <1>3 DEF Loaded

\* AVX-512's first stage does four groups in two vectors.
LEMMA PackHalvesTurns ==
    ASSUME NEW from, NEW to, NEW size, NEW k, EightComplexes(from, to, size, k), NEW w,
           ButterflyAt(to, from, k, k + 1, k, k + 1, w),
           ButterflyAt(to, from, k + 2, k + 3, k + 2, k + 3, w),
           ButterflyAt(to, from, k + 4, k + 5, k + 4, k + 5, w),
           ButterflyAt(to, from, k + 6, k + 7, k + 6, k + 7, w),
           NEW factor \in Memory(8), Complex(factor, 0) = w, Complex(factor, 1) = w, Complex(factor, 2) = w, Complex(factor, 3) = w
    PROVE  PackHalves(Upto(from, to, 2 * k), 2 * k, factor) = Upto(from, to, 2 * (k + 8))
  <1> DEFINE m == Upto(from, to, 2 * k)
             low == Load(m, 2 * k, 8)
             high == Load(m, 2 * k + 8, 8)
             even == Shuffle(low, high, HalvesEven)
             odd == Shuffle(low, high, HalvesOdd)
             r == MulQuad(odd, factor)
             u == Added(even, r)
             v == Subtracted(even, r)
             y == Shuffle(u, v, GroupsEven)
             z == Shuffle(u, v, GroupsOdd)
             s == Shuffle(y, y, SwapMiddle)
             t == Shuffle(z, z, SwapMiddle)
  <1>1. PackHalves(m, 2 * k, factor) = Store(Store(m, 2 * k, s), 2 * k + 8, t)
    <2> DEFINE r0 == Evaluated(r)
               u0 == Evaluated(Added(even, r0))
               v0 == Evaluated(Subtracted(even, r0))
               y0 == Evaluated(Shuffle(u0, v0, GroupsEven))
               z0 == Evaluated(Shuffle(u0, v0, GroupsOdd))
    <2>1. PackHalves(m, 2 * k, factor)
          = Store(Store(m, 2 * k, Shuffle(y0, y0, SwapMiddle)), 2 * k + 8, Shuffle(z0, z0, SwapMiddle))
      BY DEF PackHalves
    <2>2. r0 = r
      BY IsEvaluated, Zenon
    <2> HIDE DEF r0, r, even
    <2>3. u0 = u /\ v0 = v
      BY <2>2, IsEvaluated
    <2> HIDE DEF u0, v0, u, v
    <2>4. y0 = y /\ z0 = z
      BY <2>3, IsEvaluated
    <2> HIDE DEF y0, z0, y, z
    <2>5. QED
      BY <2>1, <2>4, SMTT(30)
  <1>2. /\ low \in Memory(8) /\ high \in Memory(8)
        /\ Complex(low, 0) = Complex(from, k) /\ Complex(low, 1) = Complex(from, k + 1)
        /\ Complex(low, 2) = Complex(from, k + 2) /\ Complex(low, 3) = Complex(from, k + 3)
        /\ Complex(high, 0) = Complex(from, k + 4) /\ Complex(high, 1) = Complex(from, k + 5)
        /\ Complex(high, 2) = Complex(from, k + 6) /\ Complex(high, 3) = Complex(from, k + 7)
    BY EightLoaded
  <1> HIDE DEF m, low, high
  <1>3. /\ even \in Memory(8) /\ odd \in Memory(8)
        /\ Complex(even, 0) = Complex(from, k) /\ Complex(odd, 0) = Complex(from, k + 1)
        /\ Complex(even, 1) = Complex(from, k + 2) /\ Complex(odd, 1) = Complex(from, k + 3)
        /\ Complex(even, 2) = Complex(from, k + 4) /\ Complex(odd, 2) = Complex(from, k + 5)
        /\ Complex(even, 3) = Complex(from, k + 6) /\ Complex(odd, 3) = Complex(from, k + 7)
    BY <1>2, HalvesAre
  <1> HIDE DEF even, odd
  <1>4. /\ u \in Memory(8) /\ v \in Memory(8)
        /\ Rotated(u, v, even, odd, factor, 0) /\ Rotated(u, v, even, odd, factor, 1)
        /\ Rotated(u, v, even, odd, factor, 2) /\ Rotated(u, v, even, odd, factor, 3)
    <2>1. Rotates(r, odd, factor)
      BY DEF Rotates
    <2> HIDE DEF r
    <2>2. 2 * 4 = 8 /\ 0 \in 0 .. 4 - 1 /\ 1 \in 0 .. 4 - 1 /\ 2 \in 0 .. 4 - 1 /\ 3 \in 0 .. 4 - 1
      OBVIOUS
    <2>3. QED
      BY <1>3, <2>1, <2>2, RotatedComplexes, 4 \in Nat
  <1> HIDE DEF u, v, r
  <1>5. /\ Complex(u, 0) = Complex(to, k) /\ Complex(v, 0) = Complex(to, k + 1)
        /\ Complex(u, 1) = Complex(to, k + 2) /\ Complex(v, 1) = Complex(to, k + 3)
        /\ Complex(u, 2) = Complex(to, k + 4) /\ Complex(v, 2) = Complex(to, k + 5)
        /\ Complex(u, 3) = Complex(to, k + 6) /\ Complex(v, 3) = Complex(to, k + 7)
    BY <1>3, <1>4 DEF Rotated, ButterflyAt
  <1>6. /\ y \in Memory(8) /\ z \in Memory(8)
        /\ Complex(y, 0) = Complex(to, k) /\ Complex(y, 1) = Complex(to, k + 2)
        /\ Complex(y, 2) = Complex(to, k + 1) /\ Complex(y, 3) = Complex(to, k + 3)
        /\ Complex(z, 0) = Complex(to, k + 4) /\ Complex(z, 1) = Complex(to, k + 6)
        /\ Complex(z, 2) = Complex(to, k + 5) /\ Complex(z, 3) = Complex(to, k + 7)
    BY <1>4, <1>5, QuartersAre
  <1> HIDE DEF y, z
  <1>7. /\ s \in Memory(8) /\ t \in Memory(8)
        /\ Complex(s, 0) = Complex(to, k) /\ Complex(s, 1) = Complex(to, k + 1)
        /\ Complex(s, 2) = Complex(to, k + 2) /\ Complex(s, 3) = Complex(to, k + 3)
        /\ Complex(t, 0) = Complex(to, k + 4) /\ Complex(t, 1) = Complex(to, k + 5)
        /\ Complex(t, 2) = Complex(to, k + 6) /\ Complex(t, 3) = Complex(to, k + 7)
    BY <1>6, MiddleIs
  <1> HIDE DEF s, t
  <1>8. Store(Store(m, 2 * k, s), 2 * k + 8, t) = Upto(from, to, 2 * (k + 8))
    BY <1>7, EightStored DEF m
  <1>9. QED
    BY <1>1, <1>8 DEF m

\* AVX-512's second stage does two groups in two vectors.
LEMMA PackGroupsTurns ==
    ASSUME NEW from, NEW to, NEW size, NEW k, EightComplexes(from, to, size, k), NEW w, NEW x,
           ButterflyAt(to, from, k, k + 2, k, k + 2, w),
           ButterflyAt(to, from, k + 1, k + 3, k + 1, k + 3, x),
           ButterflyAt(to, from, k + 4, k + 6, k + 4, k + 6, w),
           ButterflyAt(to, from, k + 5, k + 7, k + 5, k + 7, x),
           NEW factor \in Memory(8), Complex(factor, 0) = w, Complex(factor, 1) = x, Complex(factor, 2) = w, Complex(factor, 3) = x
    PROVE  PackGroups(Upto(from, to, 2 * k), 2 * k, factor) = Upto(from, to, 2 * (k + 8))
  <1> DEFINE m == Upto(from, to, 2 * k)
             low == Load(m, 2 * k, 8)
             high == Load(m, 2 * k + 8, 8)
             even == Shuffle(low, high, GroupsEven)
             odd == Shuffle(low, high, GroupsOdd)
             r == MulQuad(odd, factor)
             u == Added(even, r)
             v == Subtracted(even, r)
             s == Shuffle(u, v, GroupsEven)
             t == Shuffle(u, v, GroupsOdd)
  <1>1. PackGroups(m, 2 * k, factor) = Store(Store(m, 2 * k, s), 2 * k + 8, t)
    <2> DEFINE r0 == Evaluated(r)
               u0 == Evaluated(Added(even, r0))
               v0 == Evaluated(Subtracted(even, r0))
    <2>1. PackGroups(m, 2 * k, factor)
          = Store(Store(m, 2 * k, Shuffle(u0, v0, GroupsEven)), 2 * k + 8, Shuffle(u0, v0, GroupsOdd))
      BY DEF PackGroups
    <2>2. r0 = r
      BY IsEvaluated, Zenon
    <2> HIDE DEF r0, r, even
    <2>3. u0 = u /\ v0 = v
      BY <2>2, IsEvaluated
    <2> HIDE DEF u0, v0, u, v
    <2>4. QED
      BY <2>1, <2>3
  <1>2. /\ low \in Memory(8) /\ high \in Memory(8)
        /\ Complex(low, 0) = Complex(from, k) /\ Complex(low, 1) = Complex(from, k + 1)
        /\ Complex(low, 2) = Complex(from, k + 2) /\ Complex(low, 3) = Complex(from, k + 3)
        /\ Complex(high, 0) = Complex(from, k + 4) /\ Complex(high, 1) = Complex(from, k + 5)
        /\ Complex(high, 2) = Complex(from, k + 6) /\ Complex(high, 3) = Complex(from, k + 7)
    BY EightLoaded
  <1> HIDE DEF m, low, high
  <1>3. /\ even \in Memory(8) /\ odd \in Memory(8)
        /\ Complex(even, 0) = Complex(from, k) /\ Complex(odd, 0) = Complex(from, k + 2)
        /\ Complex(even, 1) = Complex(from, k + 1) /\ Complex(odd, 1) = Complex(from, k + 3)
        /\ Complex(even, 2) = Complex(from, k + 4) /\ Complex(odd, 2) = Complex(from, k + 6)
        /\ Complex(even, 3) = Complex(from, k + 5) /\ Complex(odd, 3) = Complex(from, k + 7)
    BY <1>2, QuartersAre
  <1> HIDE DEF even, odd
  <1>4. /\ u \in Memory(8) /\ v \in Memory(8)
        /\ Rotated(u, v, even, odd, factor, 0) /\ Rotated(u, v, even, odd, factor, 1)
        /\ Rotated(u, v, even, odd, factor, 2) /\ Rotated(u, v, even, odd, factor, 3)
    <2>1. Rotates(r, odd, factor)
      BY DEF Rotates
    <2> HIDE DEF r
    <2>2. 2 * 4 = 8 /\ 0 \in 0 .. 4 - 1 /\ 1 \in 0 .. 4 - 1 /\ 2 \in 0 .. 4 - 1 /\ 3 \in 0 .. 4 - 1
      OBVIOUS
    <2>3. QED
      BY <1>3, <2>1, <2>2, RotatedComplexes, 4 \in Nat
  <1> HIDE DEF u, v, r
  <1>5. /\ Complex(u, 0) = Complex(to, k) /\ Complex(v, 0) = Complex(to, k + 2)
        /\ Complex(u, 1) = Complex(to, k + 1) /\ Complex(v, 1) = Complex(to, k + 3)
        /\ Complex(u, 2) = Complex(to, k + 4) /\ Complex(v, 2) = Complex(to, k + 6)
        /\ Complex(u, 3) = Complex(to, k + 5) /\ Complex(v, 3) = Complex(to, k + 7)
    BY <1>3, <1>4, SMTT(30) DEF Rotated, ButterflyAt
  <1>7. /\ s \in Memory(8) /\ t \in Memory(8)
        /\ Complex(s, 0) = Complex(to, k) /\ Complex(s, 1) = Complex(to, k + 1)
        /\ Complex(s, 2) = Complex(to, k + 2) /\ Complex(s, 3) = Complex(to, k + 3)
        /\ Complex(t, 0) = Complex(to, k + 4) /\ Complex(t, 1) = Complex(to, k + 5)
        /\ Complex(t, 2) = Complex(to, k + 6) /\ Complex(t, 3) = Complex(to, k + 7)
    BY <1>4, <1>5, QuartersAre
  <1> HIDE DEF s, t
  <1>8. Store(Store(m, 2 * k, s), 2 * k + 8, t) = Upto(from, to, 2 * (k + 8))
    BY <1>7, EightStored DEF m
  <1>9. QED
    BY <1>1, <1>8 DEF m

\* The butterflies of a group of a stage.
LEMMA StageWing ==
    ASSUME NEW from, NEW size, NEW half, NEW weights, NEW groups, StageInputs(from, size, half, weights, groups),
           NEW g \in 0 .. groups - 1, NEW o \in 0 .. half - 1, NEW e, e = ((2 * half) * g) + o
    PROVE  Wing(from, StageMeans(from, size, half, weights), e, half, weights[o])
  <1> DEFINE start == (2 * half) * g
             to == StageMeans(from, size, half, weights)
  <1>1. GroupInputs(from, to, size, half, weights, start)
    BY StageGroups
  <1> HIDE DEF start, to
  <1>2. Wing(from, to, start + o, half, weights[o])
    BY <1>1 DEF GroupInputs, Wings
  <1>3. e = start + o
    BY DEF start
  <1>4. QED
    BY <1>2, <1>3 DEF to

\* A stage that sweeps memory, so many complexes at a time.
PacksTurn(body, from, to, h, count) ==
    \A j \in 0 .. count - 1 : \A k : k = h * j => body[j][Upto(from, to, 2 * k)] = Upto(from, to, 2 * (k + h))

\* Memory that is swept so many complexes at a time.
PackInputs(from, to, size, h, count) ==
    /\ size \in Nat /\ from \in Memory(2 * size) /\ to \in Memory(2 * size)
    /\ h \in Nat /\ count \in Nat /\ size = h * count

\* A stage that sweeps memory does all of it.
LEMMA PackLoop ==
    ASSUME NEW size, NEW from, NEW to, NEW h, NEW count, PackInputs(from, to, size, h, count),
           NEW body, PacksTurn(body, from, to, h, count)
    PROVE  Loop(count, body, from) = to
  <1>0. /\ size \in Nat /\ from \in Memory(2 * size) /\ to \in Memory(2 * size)
        /\ h \in Nat /\ count \in Nat /\ size = h * count
    BY DEF PackInputs
  <1> DEFINE step == 2 * h
  <1>1. step \in Nat /\ 0 + step * count = 2 * size /\ 2 * size \in Nat
    BY <1>0, count * h = h * count
  <1>2. ASSUME NEW j \in 0 .. count - 1
        PROVE  body[j][Upto(from, to, 0 + step * j)] = Upto(from, to, 0 + step * j + step)
    <2> DEFINE k == h * j
    <2>1. 0 + step * j = 2 * k /\ 0 + step * j + step = 2 * (k + h) /\ k = h * j
      BY <1>0
    <2> HIDE DEF k, step
    <2>2. body[j][Upto(from, to, 2 * k)] = Upto(from, to, 2 * (k + h))
      BY <2>1 DEF PacksTurn
    <2>3. QED
      BY <2>1, <2>2
  <1> HIDE DEF step
  <1>3. Sweeps(body, from, to, 0, step, count)
    BY <1>2 DEF Sweeps
  <1>4. Loop(count, body, Upto(from, to, 0)) = Upto(from, to, 0 + step * count)
    BY <1>0, <1>1, <1>3, SweepLoop, 0 \in Nat
  <1>5. Upto(from, to, 0) = from /\ Upto(from, to, 2 * size) = to
    BY <1>0, <1>1, UptoEnds
  <1>6. QED
    BY <1>1, <1>4, <1>5

\* AVX2's first stage does what a stage means.
LEMMA FirstStageAvx2Turns ==
    ASSUME NEW from, NEW size, NEW table, NEW begin, NEW length, NEW groups,
           TableStage(from, size, 1, table, begin, length, groups), size % 4 = 0
    PROVE  FirstStageAvx2(from, size, table, begin) = StageMeans(from, size, 1, TableWeights(table, 1, begin))
  <1> DEFINE weights == TableWeights(table, 1, begin)
             to == StageMeans(from, size, 1, weights)
             w == Complex(table, begin)
             pair == Load(table, 2 * begin, 2)
             factor == FromLanes(<<<<pair, 0>>, <<pair, 0>>>>)
             body == [j \in 0 .. (size \div 4) - 1 |-> [m \in Memory(2 * size) |-> PackAvx2(m, factor, 8 * j)]]
             count == size \div 4
  <1>1. StageInputs(from, size, 1, weights, groups) /\ TableInputs(table, begin, 1, length)
    BY DEF TableStage
  <1>2. to \in Memory(2 * size)
    BY <1>1, StageIn
  <1>3. /\ size \in Nat /\ groups \in Nat /\ size = (2 * 1) * groups /\ from \in Memory(2 * size)
        /\ begin \in Nat /\ length \in Int /\ table \in Memory(length) /\ 2 * (begin + 1) <= length
    BY <1>1 DEF StageInputs, TableInputs
  <1>4. count \in Nat /\ size = 4 * count
    BY <1>3
  <1>5. factor \in Memory(4) /\ Complex(factor, 0) = w /\ Complex(factor, 1) = w /\ w \in Doubles \X Doubles
    <2>1. w \in Doubles \X Doubles
      BY <1>3, ComplexIn, 2 * begin + 2 <= length
    <2>2. Complex(pair, 0) = w
      <3>1. LoadedFrom(pair, table, begin, 1) /\ 0 \in 0 .. 1 - 1 /\ 2 * begin + 2 * 1 <= length /\ begin + 0 = begin
        BY <1>3 DEF LoadedFrom
      <3> HIDE DEF pair
      <3>2. QED
        BY <1>3, <3>1, LoadedComplex, 1 \in Nat
    <2> HIDE DEF pair, w
    <2>3. QED
      BY <2>1, <2>2, TwoLanes, 0 \in Nat DEF Laned
  <1>6. ASSUME NEW j \in 0 .. count - 1, NEW k, k = 4 * j
        PROVE  body[j][Upto(from, to, 2 * k)] = Upto(from, to, 2 * (k + 4))
    <2> DEFINE m == Upto(from, to, 2 * k)
    <2>1. k \in Nat /\ k + 4 <= size /\ 2 * k = 8 * j
      BY <1>4, <1>6
    <2>2. m \in Memory(2 * size)
      BY <1>2, <1>3, <2>1, UptoIn, 2 * size \in Int, 2 * k \in Int, Zenon
    <2>3. 2 * j \in 0 .. groups - 1 /\ 2 * j + 1 \in 0 .. groups - 1
          /\ k = ((2 * 1) * (2 * j)) + 0 /\ k + 2 = ((2 * 1) * (2 * j + 1)) + 0
      BY <1>3, <1>4, <1>6
    <2>4. Wing(from, to, k, 1, w) /\ Wing(from, to, k + 2, 1, w)
      <3> HIDE DEF to, weights
      <3>1. weights[0] = w /\ 0 \in 0 .. 1 - 1
        BY <1>3, begin + 0 = begin DEF TableWeights, weights
      <3>2. Wing(from, to, k, 1, weights[0]) /\ Wing(from, to, k + 2, 1, weights[0])
        BY <1>1, <2>3, <3>1, StageWing DEF to
      <3>3. QED
        BY <3>1, <3>2
    <2>5. body[j][m] = PackAvx2(m, factor, 2 * k)
      BY <1>4, <1>6, <2>1, <2>2
    <2> HIDE DEF to, body, factor
    <2>6. TwoGroups(from, to, size, k, w)
      BY <1>2, <1>3, <1>5, <2>1, <2>4 DEF TwoGroups
    <2> HIDE DEF w
    <2>7. PackAvx2(m, factor, 2 * k) = Upto(from, to, 2 * (k + 4))
      BY <1>5, <2>6, PackAvx2Turns DEF m
    <2>9. QED
      BY <2>5, <2>7 DEF m
  <1>7. FirstStageAvx2(from, size, table, begin) = Loop(count, body, from)
    BY DEF FirstStageAvx2
  <1> HIDE DEF to, body, count, factor
  <1> DEFINE h == 4
  <1>8. PackInputs(from, to, size, h, count) /\ PacksTurn(body, from, to, h, count)
    BY <1>2, <1>3, <1>4, <1>6 DEF PacksTurn, PackInputs
  <1> HIDE DEF h
  <1>9. Loop(count, body, from) = to
    BY <1>8, PackLoop
  <1>10. QED
    BY <1>7, <1>9 DEF to

\* NEON's first stage does what a stage means.
LEMMA FirstStageNeonTurns ==
    ASSUME NEW from, NEW size, NEW table, NEW begin, NEW length, NEW groups,
           TableStage(from, size, 1, table, begin, length, groups), size % 4 = 0
    PROVE  FirstStageNeon(from, size, table, begin) = StageMeans(from, size, 1, TableWeights(table, 1, begin))
  <1> DEFINE weights == TableWeights(table, 1, begin)
             to == StageMeans(from, size, 1, weights)
             w == Complex(table, begin)
             factor == <<Broadcast(table[2 * begin], 2), Broadcast(table[2 * begin + 1], 2)>>
             body == [j \in 0 .. (size \div 4) - 1 |-> [m \in Memory(2 * size) |-> PackNeon(m, factor, 8 * j)]]
             count == size \div 4
  <1>1. StageInputs(from, size, 1, weights, groups) /\ TableInputs(table, begin, 1, length)
    BY DEF TableStage
  <1>2. to \in Memory(2 * size)
    BY <1>1, StageIn
  <1>3. /\ size \in Nat /\ groups \in Nat /\ size = (2 * 1) * groups /\ from \in Memory(2 * size)
        /\ begin \in Nat /\ length \in Int /\ table \in Memory(length) /\ 2 * (begin + 1) <= length
    BY <1>1 DEF StageInputs, TableInputs
  <1>4. count \in Nat /\ size = 4 * count
    BY <1>3
  <1>5. BothLanes(factor, w) /\ w \in Doubles \X Doubles
    <2>1. w \in Doubles \X Doubles
      BY <1>3, ComplexIn, 2 * begin + 2 <= length
    <2>2. table[2 * begin] = w[1] /\ table[2 * begin + 1] = w[2]
      BY DEF Complex
    <2> HIDE DEF w
    <2>3. table[2 * begin] \in Doubles /\ table[2 * begin + 1] \in Doubles
      BY <2>1, <2>2
    <2>4. QED
      BY <2>1, <2>2, <2>3, BroadcastIs, 2 \in Nat, 0 \in 0 .. 2 - 1, 1 \in 0 .. 2 - 1 DEF BothLanes
  <1>6. ASSUME NEW j \in 0 .. count - 1, NEW k, k = 4 * j
        PROVE  body[j][Upto(from, to, 2 * k)] = Upto(from, to, 2 * (k + 4))
    <2> DEFINE m == Upto(from, to, 2 * k)
    <2>1. k \in Nat /\ k + 4 <= size /\ 2 * k = 8 * j
      BY <1>4, <1>6
    <2>2. m \in Memory(2 * size)
      BY <1>2, <1>3, <2>1, UptoIn, 2 * size \in Int, 2 * k \in Int, Zenon
    <2>3. 2 * j \in 0 .. groups - 1 /\ 2 * j + 1 \in 0 .. groups - 1
          /\ k = ((2 * 1) * (2 * j)) + 0 /\ k + 2 = ((2 * 1) * (2 * j + 1)) + 0
      BY <1>3, <1>4, <1>6
    <2>4. Wing(from, to, k, 1, w) /\ Wing(from, to, k + 2, 1, w)
      <3> HIDE DEF to, weights
      <3>1. weights[0] = w /\ 0 \in 0 .. 1 - 1
        BY <1>3, begin + 0 = begin DEF TableWeights, weights
      <3>2. Wing(from, to, k, 1, weights[0]) /\ Wing(from, to, k + 2, 1, weights[0])
        BY <1>1, <2>3, <3>1, StageWing DEF to
      <3>3. QED
        BY <3>1, <3>2
    <2>5. body[j][m] = PackNeon(m, factor, 2 * k)
      BY <1>4, <1>6, <2>1, <2>2
    <2> HIDE DEF to, body, factor
    <2>6. TwoGroups(from, to, size, k, w)
      BY <1>2, <1>3, <1>5, <2>1, <2>4 DEF TwoGroups
    <2> HIDE DEF w
    <2>7. PackNeon(m, factor, 2 * k) = Upto(from, to, 2 * (k + 4))
      BY <1>5, <2>6, PackNeonTurns DEF m
    <2>9. QED
      BY <2>5, <2>7 DEF m
  <1>7. FirstStageNeon(from, size, table, begin) = Loop(count, body, from)
    BY DEF FirstStageNeon
  <1> HIDE DEF to, body, count, factor
  <1> DEFINE h == 4
  <1>8. PackInputs(from, to, size, h, count) /\ PacksTurn(body, from, to, h, count)
    BY <1>2, <1>3, <1>4, <1>6 DEF PacksTurn, PackInputs
  <1> HIDE DEF h
  <1>9. Loop(count, body, from) = to
    BY <1>8, PackLoop
  <1>10. QED
    BY <1>7, <1>9 DEF to

\* AVX-512's first stage does what a stage means.
LEMMA HalvesAvx512Turns ==
    ASSUME NEW from, NEW size, NEW table, NEW begin, NEW length, NEW groups,
           TableStage(from, size, 1, table, begin, length, groups), size % 8 = 0
    PROVE  HalvesAvx512(from, size, table, begin) = StageMeans(from, size, 1, TableWeights(table, 1, begin))
  <1> DEFINE weights == TableWeights(table, 1, begin)
             to == StageMeans(from, size, 1, weights)
             w == Complex(table, begin)
             pair == Load(table, 2 * begin, 2)
             factor == FromLanes(<<<<pair, 0>>, <<pair, 0>>, <<pair, 0>>, <<pair, 0>>>>)
             body == [j \in 0 .. (size \div 8) - 1 |-> [m \in Memory(2 * size) |-> PackHalves(m, 16 * j, factor)]]
             count == size \div 8
  <1>1. StageInputs(from, size, 1, weights, groups) /\ TableInputs(table, begin, 1, length)
    BY DEF TableStage
  <1>2. to \in Memory(2 * size)
    BY <1>1, StageIn
  <1>3. /\ size \in Nat /\ groups \in Nat /\ size = (2 * 1) * groups /\ from \in Memory(2 * size)
        /\ begin \in Nat /\ length \in Int /\ table \in Memory(length) /\ 2 * (begin + 1) <= length
    BY <1>1 DEF StageInputs, TableInputs
  <1>4. count \in Nat /\ size = 8 * count
    BY <1>3
  <1>5. /\ factor \in Memory(8) /\ Complex(factor, 0) = w /\ Complex(factor, 1) = w
        /\ Complex(factor, 2) = w /\ Complex(factor, 3) = w
    <2>1. w \in Doubles \X Doubles
      BY <1>3, ComplexIn, 2 * begin + 2 <= length
    <2>2. Complex(pair, 0) = w
      <3>1. LoadedFrom(pair, table, begin, 1) /\ 0 \in 0 .. 1 - 1 /\ 2 * begin + 2 * 1 <= length /\ begin + 0 = begin
        BY <1>3 DEF LoadedFrom
      <3> HIDE DEF pair
      <3>2. QED
        BY <1>3, <3>1, LoadedComplex, 1 \in Nat
    <2> HIDE DEF pair, w
    <2>3. QED
      BY <2>1, <2>2, FourLanes, 0 \in Nat DEF Laned
  <1>6. ASSUME NEW j \in 0 .. count - 1, NEW k, k = 8 * j
        PROVE  body[j][Upto(from, to, 2 * k)] = Upto(from, to, 2 * (k + 8))
    <2> DEFINE m == Upto(from, to, 2 * k)
    <2>1. k \in Nat /\ k + 8 <= size /\ 2 * k = 16 * j
      BY <1>4, <1>6
    <2>2. m \in Memory(2 * size)
      BY <1>2, <1>3, <2>1, UptoIn, 2 * size \in Int, 2 * k \in Int, Zenon
    <2>3. 4 * j \in 0 .. groups - 1 /\ 4 * j + 1 \in 0 .. groups - 1 /\ 4 * j + 2 \in 0 .. groups - 1 /\ 4 * j + 3 \in 0 .. groups - 1
          /\ k = ((2 * 1) * (4 * j)) + 0 /\ k + 2 = ((2 * 1) * (4 * j + 1)) + 0 /\ k + 4 = ((2 * 1) * (4 * j + 2)) + 0 /\ k + 6 = ((2 * 1) * (4 * j + 3)) + 0
      BY <1>3, <1>4, <1>6
    <2>4. Wing(from, to, k, 1, w) /\ Wing(from, to, k + 2, 1, w) /\ Wing(from, to, k + 4, 1, w) /\ Wing(from, to, k + 6, 1, w)
      <3> HIDE DEF to, weights
      <3>1. weights[0] = w /\ 0 \in 0 .. 1 - 1
        BY <1>3, begin + 0 = begin DEF TableWeights, weights
      <3>2. Wing(from, to, k, 1, weights[0]) /\ Wing(from, to, k + 2, 1, weights[0]) /\ Wing(from, to, k + 4, 1, weights[0]) /\ Wing(from, to, k + 6, 1, weights[0])
        BY <1>1, <2>3, <3>1, StageWing DEF to
      <3>3. QED
        BY <3>1, <3>2
    <2>5. body[j][m] = PackHalves(m, 2 * k, factor)
      BY <1>4, <1>6, <2>1, <2>2
    <2> HIDE DEF to, body, factor
    <2>6. EightComplexes(from, to, size, k)
      BY <1>2, <1>3, <2>1 DEF EightComplexes
    <2> HIDE DEF w
    <2>8. /\ ButterflyAt(to, from, k, k + 1, k, k + 1, w) /\ ButterflyAt(to, from, k + 2, k + 3, k + 2, k + 3, w)
          /\ ButterflyAt(to, from, k + 4, k + 5, k + 4, k + 5, w) /\ ButterflyAt(to, from, k + 6, k + 7, k + 6, k + 7, w)
      <3>1. (k + 2) + 1 = k + 3 /\ (k + 4) + 1 = k + 5 /\ (k + 6) + 1 = k + 7
        BY <2>1
      <3>2. QED
        BY <2>4, <3>1, WingComplexes DEF ButterflyAt
    <2>7. PackHalves(m, 2 * k, factor) = Upto(from, to, 2 * (k + 8))
      BY <1>5, <2>6, <2>8, PackHalvesTurns DEF m
    <2>9. QED
      BY <2>5, <2>7 DEF m
  <1>7. HalvesAvx512(from, size, table, begin) = Loop(count, body, from)
    BY DEF HalvesAvx512
  <1> HIDE DEF to, body, count, factor
  <1> DEFINE h == 8
  <1>8. PackInputs(from, to, size, h, count) /\ PacksTurn(body, from, to, h, count)
    BY <1>2, <1>3, <1>4, <1>6 DEF PacksTurn, PackInputs
  <1> HIDE DEF h
  <1>9. Loop(count, body, from) = to
    BY <1>8, PackLoop
  <1>10. QED
    BY <1>7, <1>9 DEF to

\* AVX-512's second stage does what a stage means.
LEMMA GroupsAvx512Turns ==
    ASSUME NEW from, NEW size, NEW table, NEW begin, NEW length, NEW groups,
           TableStage(from, size, 2, table, begin, length, groups), size % 8 = 0
    PROVE  GroupsAvx512(from, size, table, begin) = StageMeans(from, size, 2, TableWeights(table, 2, begin))
  <1> DEFINE weights == TableWeights(table, 2, begin)
             to == StageMeans(from, size, 2, weights)
             w == Complex(table, begin)
             pairs == Load(table, 2 * begin, 4)
             x == Complex(table, begin + 1)
             factor == FromLanes(<<<<pairs, 0>>, <<pairs, 1>>, <<pairs, 0>>, <<pairs, 1>>>>)
             body == [j \in 0 .. (size \div 8) - 1 |-> [m \in Memory(2 * size) |-> PackGroups(m, 16 * j, factor)]]
             count == size \div 8
  <1>1. StageInputs(from, size, 2, weights, groups) /\ TableInputs(table, begin, 2, length)
    BY DEF TableStage
  <1>2. to \in Memory(2 * size)
    BY <1>1, StageIn
  <1>3. /\ size \in Nat /\ groups \in Nat /\ size = (2 * 2) * groups /\ from \in Memory(2 * size)
        /\ begin \in Nat /\ length \in Int /\ table \in Memory(length) /\ 2 * (begin + 2) <= length
    BY <1>1 DEF StageInputs, TableInputs
  <1>4. count \in Nat /\ size = 8 * count
    BY <1>3
  <1>5. /\ factor \in Memory(8) /\ Complex(factor, 0) = w /\ Complex(factor, 1) = x
        /\ Complex(factor, 2) = w /\ Complex(factor, 3) = x
    <2>1. w \in Doubles \X Doubles /\ x \in Doubles \X Doubles
      BY <1>3, ComplexIn, 2 * begin + 2 <= length, begin + 1 \in Nat, 2 * (begin + 1) + 2 <= length
    <2>2. Complex(pairs, 0) = w /\ Complex(pairs, 1) = x
      <3>1. LoadedFrom(pairs, table, begin, 2) /\ 0 \in 0 .. 2 - 1 /\ 1 \in 0 .. 2 - 1
            /\ 2 * begin + 2 * 2 <= length /\ begin + 0 = begin
        BY <1>3 DEF LoadedFrom
      <3> HIDE DEF pairs
      <3>2. QED
        BY <1>3, <3>1, LoadedComplex, 2 \in Nat
    <2> HIDE DEF pairs, w, x
    <2>3. QED
      BY <2>1, <2>2, FourLanes, 0 \in Nat, 1 \in Nat DEF Laned
  <1>6. ASSUME NEW j \in 0 .. count - 1, NEW k, k = 8 * j
        PROVE  body[j][Upto(from, to, 2 * k)] = Upto(from, to, 2 * (k + 8))
    <2> DEFINE m == Upto(from, to, 2 * k)
    <2>1. k \in Nat /\ k + 8 <= size /\ 2 * k = 16 * j
      BY <1>4, <1>6
    <2>2. m \in Memory(2 * size)
      BY <1>2, <1>3, <2>1, UptoIn, 2 * size \in Int, 2 * k \in Int, Zenon
    <2>3. /\ 2 * j \in 0 .. groups - 1 /\ 2 * j + 1 \in 0 .. groups - 1
          /\ k = ((2 * 2) * (2 * j)) + 0 /\ k + 1 = ((2 * 2) * (2 * j)) + 1
          /\ k + 4 = ((2 * 2) * (2 * j + 1)) + 0 /\ k + 5 = ((2 * 2) * (2 * j + 1)) + 1
      BY <1>3, <1>4, <1>6
    <2>4. Wing(from, to, k, 2, w) /\ Wing(from, to, k + 1, 2, x) /\ Wing(from, to, k + 4, 2, w) /\ Wing(from, to, k + 5, 2, x)
      <3> HIDE DEF to, weights
      <3>1. weights[0] = w /\ weights[1] = x /\ 0 \in 0 .. 2 - 1 /\ 1 \in 0 .. 2 - 1
        BY <1>3, begin + 0 = begin DEF TableWeights, weights
      <3>2. /\ Wing(from, to, k, 2, weights[0]) /\ Wing(from, to, k + 1, 2, weights[1])
            /\ Wing(from, to, k + 4, 2, weights[0]) /\ Wing(from, to, k + 5, 2, weights[1])
        BY <1>1, <2>3, <3>1, StageWing DEF to
      <3>3. QED
        BY <3>1, <3>2
    <2>5. body[j][m] = PackGroups(m, 2 * k, factor)
      BY <1>4, <1>6, <2>1, <2>2
    <2> HIDE DEF to, body, factor
    <2>6. EightComplexes(from, to, size, k)
      BY <1>2, <1>3, <2>1 DEF EightComplexes
    <2> HIDE DEF w, x
    <2>8. /\ ButterflyAt(to, from, k, k + 2, k, k + 2, w) /\ ButterflyAt(to, from, k + 1, k + 3, k + 1, k + 3, x)
          /\ ButterflyAt(to, from, k + 4, k + 6, k + 4, k + 6, w) /\ ButterflyAt(to, from, k + 5, k + 7, k + 5, k + 7, x)
      <3>1. (k + 1) + 2 = k + 3 /\ (k + 4) + 2 = k + 6 /\ (k + 5) + 2 = k + 7
        BY <2>1
      <3>2. QED
        BY <2>4, <3>1, WingComplexes DEF ButterflyAt
    <2>7. PackGroups(m, 2 * k, factor) = Upto(from, to, 2 * (k + 8))
      BY <1>5, <2>6, <2>8, PackGroupsTurns DEF m
    <2>9. QED
      BY <2>5, <2>7 DEF m
  <1>7. GroupsAvx512(from, size, table, begin) = Loop(count, body, from)
    BY DEF GroupsAvx512
  <1> HIDE DEF to, body, count, factor
  <1> DEFINE h == 8
  <1>8. PackInputs(from, to, size, h, count) /\ PacksTurn(body, from, to, h, count)
    BY <1>2, <1>3, <1>4, <1>6 DEF PacksTurn, PackInputs
  <1> HIDE DEF h
  <1>9. Loop(count, body, from) = to
    BY <1>8, PackLoop
  <1>10. QED
    BY <1>7, <1>9 DEF to

-----------------------------------------------------------------------------
(* Transforms go through their stages.                                     *)

\* The states of a transform, by the length of the groups that are done.
Staged(f, size, stage, data) ==
    f = [length \in 1 .. size |->
            IF length = 1 THEN data ELSE Evaluated(stage[length \div 2][f[length \div 2]])]
\* The states a transform goes through.
StagesOf(size, stage, data) == CHOOSE f : Staged(f, size, stage, data)

\* A transform ends in the last of its states.
LEMMA StagesIsOf == \A size, stage, data : Stages(size, stage, data) = StagesOf(size, stage, data)[size]
  BY Zenon DEF Stages, StagesOf, Staged

\* There are such states, whatever the stages.
LEMMA StagedExist ==
    ASSUME NEW n \in Nat, NEW stage, NEW data
    PROVE  \E f : Staged(f, n, stage, data)
  <1> DEFINE S == {p \in 0 .. n : \E f : Staged(f, p, stage, data)}
  <1>1. 0 \in S
    <2> DEFINE f == [length \in 1 .. 0 |-> data]
    <2>1. Staged(f, 0, stage, data)
      BY DEF Staged
    <2>2. QED
      BY <2>1
  <1>2. ASSUME NEW p \in 0 .. n - 1, p \in S PROVE p + 1 \in S
    <2>1. PICK f : Staged(f, p, stage, data)
      BY <1>2
    <2>2. f = [k \in 1 .. p |-> IF k = 1 THEN data ELSE Evaluated(stage[k \div 2][f[k \div 2]])]
      BY <2>1 DEF Staged
    <2> DEFINE last == IF p + 1 = 1 THEN data ELSE Evaluated(stage[(p + 1) \div 2][f[(p + 1) \div 2]])
               g == [k \in 1 .. p + 1 |-> IF k = p + 1 THEN last ELSE f[k]]
    <2>3. ASSUME NEW k \in 1 .. p + 1
          PROVE  g[k] = IF k = 1 THEN data ELSE Evaluated(stage[k \div 2][g[k \div 2]])
      <3>0. k # 1 => k \div 2 \in 1 .. p /\ k \div 2 # p + 1 /\ k \div 2 \in 1 .. p + 1
        OBVIOUS
      <3> HIDE DEF last
      <3>1. CASE k = p + 1
        <4>1. g[k] = last /\ (k # 1 => g[k \div 2] = f[k \div 2])
          BY <3>0, <3>1
        <4>2. QED
          BY <3>1, <4>1 DEF last
      <3>2. CASE k # p + 1
        <4>1. k \in 1 .. p
          BY <3>2
        <4>2. g[k] = f[k] /\ (k # 1 => g[k \div 2] = f[k \div 2])
          BY <3>0, <3>2, <4>1
        <4>3. f[k] = IF k = 1 THEN data ELSE Evaluated(stage[k \div 2][f[k \div 2]])
          BY <2>2, <4>1
        <4>4. QED
          BY <4>2, <4>3
      <3>3. QED
        BY <3>1, <3>2
    <2>4. g = [k \in 1 .. p + 1 |-> g[k]]
      OBVIOUS
    <2> HIDE DEF g
    <2>5. Staged(g, p + 1, stage, data)
      BY <2>3, <2>4 DEF Staged
    <2>6. QED
      BY <2>5
  <1>3. n \in S
    <2> HIDE DEF S
    <2>1. QED
      BY <1>1, <1>2, Upward
  <1>4. QED
    BY <1>3

\* The state of a length is that of half the length, one stage on.
LEMMA StagesUnfold ==
    ASSUME NEW n \in Nat, NEW stage, NEW data
    PROVE  /\ n # 0 => StagesOf(n, stage, data)[1] = data
           /\ \A k \in 2 .. n :
                  StagesOf(n, stage, data)[k] = stage[k \div 2][StagesOf(n, stage, data)[k \div 2]]
  <1> DEFINE f == StagesOf(n, stage, data)
  <1>0. \E e : Staged(e, n, stage, data)
    BY StagedExist
  <1>1. Staged(f, n, stage, data)
    BY <1>0, Zenon DEF StagesOf
  <1> HIDE DEF f
  <1>2. f = [k \in 1 .. n |-> IF k = 1 THEN data ELSE Evaluated(stage[k \div 2][f[k \div 2]])]
    BY <1>1 DEF Staged
  <1>3. n # 0 => f[1] = data
    BY <1>2
  <1>4. ASSUME NEW k \in 2 .. n PROVE f[k] = stage[k \div 2][f[k \div 2]]
    <2>1. k \in 1 .. n /\ k # 1
      OBVIOUS
    <2>2. f[k] = Evaluated(stage[k \div 2][f[k \div 2]])
      BY <1>2, <2>1
    <2>3. QED
      BY <2>2, IsEvaluated
  <1>5. QED
    BY <1>3, <1>4 DEF f

\* What leaves no remainder is a multiple.
LEMMA Divides ==
    ASSUME NEW d \in Nat, d # 0, NEW x \in Nat, x % d = 0
    PROVE  x \div d \in Nat /\ x = d * (x \div d)
  <1> DEFINE q == x \div d
             r == x % d
  <1>1. q \in Nat /\ x = d * q + r /\ r = 0
    BY DivMod
  <1> HIDE DEF q, r
  <1>2. x = d * q
    BY <1>1
  <1>3. QED
    BY <1>1, <1>2 DEF q

\* The lengths on the way to a power of two halve down to one.
LEMMA Halves ==
    ASSUME NEW size \in Nat, IsPowerOfTwo(size), NEW l \in 1 .. size, size % l = 0, l # 1
    PROVE  /\ l \div 2 \in 1 .. size /\ l \div 2 < l /\ l \in 2 .. size /\ 2 * (l \div 2) = l
           /\ size % (2 * (l \div 2)) = 0 /\ size % (l \div 2) = 0
  <1>1. l % 2 = 0
    BY DEF IsPowerOfTwo
  <1> DEFINE h == l \div 2
             q == size \div l
  <1>2. h \in Nat /\ h # 0 /\ h < l /\ h <= size /\ l = 2 * h
    BY <1>1
  <1>3. q \in Nat /\ size = l * q
    BY l \in Nat, l # 0, Divides
  <1> HIDE DEF h, q
  <1>4. size = h * (2 * q) + 0 /\ 2 * q \in Nat /\ 0 \in 0 .. h - 1
    <2>1. l * q = h * (2 * q)
      BY <1>2, <1>3
    <2>2. QED
      BY <1>2, <1>3, <2>1
  <1>5. size % h = 0
    BY <1>2, <1>4, DivModIs
  <1>6. QED
    BY <1>2, <1>5 DEF h

\* Stages that take each set of states to the next.
StagesKeep(size, stage, M) ==
    \A half \in 1 .. size : size % (2 * half) = 0 =>
        \A m \in M[half] : stage[half][m] \in M[2 * half]
\* Stages that agree on each set of states.
StagesSame(size, stage, other, M) ==
    \A half \in 1 .. size : size % (2 * half) = 0 =>
        \A m \in M[half] : stage[half][m] = other[half][m]

\* The states on the way to a power of two are in their sets.
LEMMA StagesOfStay ==
    ASSUME NEW size \in Nat, IsPowerOfTwo(size), NEW stage, NEW M, NEW data \in M[1], StagesKeep(size, stage, M)
    PROVE  \A l \in 1 .. size : size % l = 0 => StagesOf(size, stage, data)[l] \in M[l]
  <1> DEFINE f == StagesOf(size, stage, data)
             T == {l \in 1 .. size : size % l = 0 /\ f[l] \notin M[l]}
  <1>0. size # 0
    BY DEF IsPowerOfTwo
  <1>1. f[1] = data /\ \A k \in 2 .. size : f[k] = stage[k \div 2][f[k \div 2]]
    BY <1>0, StagesUnfold
  <1> HIDE DEF f
  <1> SUFFICES ASSUME T # {} PROVE FALSE
    BY DEF f
  <1>2. PICK l \in T : \A k \in T : ~(k < l)
    BY HasLeast, T \in SUBSET Nat
  <1>3. l \in 1 .. size /\ size % l = 0 /\ f[l] \notin M[l] /\ l # 1
    BY <1>1, <1>2
  <1> DEFINE h == l \div 2
  <1>4. /\ h \in 1 .. size /\ h < l /\ l \in 2 .. size /\ 2 * h = l
        /\ size % (2 * h) = 0 /\ size % h = 0
    BY <1>3, Halves
  <1>5. h \notin T
    BY <1>2, <1>4
  <1>6. f[h] \in M[h] /\ f[l] = stage[h][f[h]]
    BY <1>1, <1>4, <1>5
  <1> HIDE DEF h, T
  <1>7. stage[h][f[h]] \in M[2 * h]
    BY <1>4, <1>6 DEF StagesKeep
  <1>8. QED
    BY <1>3, <1>4, <1>6, <1>7

\* A number divides itself.
LEMMA OneDivides == ASSUME NEW size \in Nat, size # 0 PROVE size \in 1 .. size /\ size % size = 0
  <1>1. size = size * 1 + 0 /\ 0 \in 0 .. size - 1 /\ 1 \in Nat
    OBVIOUS
  <1>2. QED
    BY <1>1, DivModIs

\* Stages that keep to the sets end in the last of them.
LEMMA StagesStay ==
    ASSUME NEW size \in Nat, IsPowerOfTwo(size), NEW stage, NEW M, NEW data \in M[1], StagesKeep(size, stage, M)
    PROVE  Stages(size, stage, data) \in M[size]
  <1>1. size # 0
    BY DEF IsPowerOfTwo
  <1>2. QED
    BY <1>1, OneDivides, StagesOfStay, StagesIsOf

\* Stages that agree on the sets end in the same state.
LEMMA StagesAgree ==
    ASSUME NEW size \in Nat, IsPowerOfTwo(size), NEW stage, NEW other, NEW M, NEW data \in M[1],
           StagesKeep(size, stage, M), StagesSame(size, stage, other, M)
    PROVE  Stages(size, stage, data) = Stages(size, other, data)
  <1> DEFINE f == StagesOf(size, stage, data)
             one == [l \in 1 .. size |-> {m \in M[l] : m = f[l]}]
  <1>0. size # 0
    BY DEF IsPowerOfTwo
  <1>1. f[1] = data /\ \A k \in 2 .. size : f[k] = stage[k \div 2][f[k \div 2]]
    BY <1>0, StagesUnfold
  <1>2. \A l \in 1 .. size : size % l = 0 => f[l] \in M[l]
    BY StagesOfStay
  <1>3. Stages(size, stage, data) = f[size]
    BY StagesIsOf
  <1> HIDE DEF f
  <1>4. data \in one[1]
    BY <1>0, <1>1
  <1>5. ASSUME NEW half \in 1 .. size, size % (2 * half) = 0, NEW m \in one[half]
        PROVE  other[half][m] \in one[2 * half]
    <2> DEFINE l == 2 * half
    <2>1. m \in M[half] /\ m = f[half]
      OBVIOUS
    <2>2. l \in 2 .. size /\ l \div 2 = half /\ size % l = 0 /\ l \in 1 .. size
      <3>1. l \in Nat /\ l # 0 /\ l \in 2 .. l /\ l \div 2 = half
        OBVIOUS
      <3> HIDE DEF l
      <3>2. size = l * (size \div l) /\ size \div l \in Nat
        BY <1>5, <3>1, Divides DEF l
      <3>3. l <= size
        <4> DEFINE q == size \div l
        <4>1. q \in Nat /\ q # 0
          BY <1>0, <3>1, <3>2
        <4> HIDE DEF q
        <4>2. size = l * q
          BY <3>2 DEF q
        <4>0. q - 1 \in Nat /\ q = (q - 1) + 1
          BY <4>1
        <4>3. PICK p \in Nat : q = p + 1
          BY <4>0
        <4>4. l * p \in Nat /\ l * q = l * p + l
          BY <3>1, <4>3
        <4>5. QED
          BY <3>1, <4>2, <4>4
      <3>4. QED
        BY <1>5, <3>1, <3>3 DEF l
    <2> HIDE DEF l
    <2>3. f[l] = stage[half][f[half]]
      BY <1>1, <2>2
    <2>4. stage[half][m] = other[half][m] /\ stage[half][m] \in M[l]
      BY <1>5, <2>1 DEF StagesSame, StagesKeep, l
    <2>5. other[half][m] \in one[l]
      BY <2>1, <2>2, <2>3, <2>4
    <2>6. QED
      BY <2>5 DEF l
  <1> HIDE DEF one
  <1>6. StagesKeep(size, other, one)
    BY <1>5 DEF StagesKeep
  <1>7. Stages(size, other, data) \in one[size]
    BY <1>4, <1>6, StagesStay
  <1>8. QED
    BY <1>0, <1>3, <1>7, OneDivides DEF one

\* A plan: the factors of all the stages, and where those of each start.
PlanOf(size, table, begin) ==
    /\ size \in Nat /\ IsPowerOfTwo(size) /\ table \in Memory(2 * (size - 1)) /\ begin = StageBegin(size)

\* A stage of a transform of a given size.
StageOf(size, half) == size \in Nat /\ size # 0 /\ half \in 1 .. size /\ size % (2 * half) = 0

\* The groups of a stage fill the transform.
LEMMA StageFits ==
    ASSUME NEW size, NEW half, StageOf(size, half)
    PROVE  /\ half \in Nat /\ half # 0 /\ 2 * half \in Nat /\ 2 * half # 0
           /\ 2 * half <= size /\ 2 * half \in 1 .. size
           /\ size \div (2 * half) \in Nat /\ size = (2 * half) * (size \div (2 * half))
           /\ size % half = 0
  <1> DEFINE l == 2 * half
             q == size \div l
  <1>1. size \in Nat /\ size # 0 /\ half \in Nat /\ half # 0 /\ size % l = 0 /\ l \in Nat /\ l # 0 /\ l = 2 * half
    BY DEF StageOf
  <1> HIDE DEF l
  <1>2. q \in Nat /\ size = l * q
    BY <1>1, Divides
  <1> HIDE DEF q
  <1>3. q # 0
    BY <1>1, <1>2
  <1>4. q - 1 \in Nat /\ q = (q - 1) + 1
    BY <1>2, <1>3
  <1>5. PICK p \in Nat : q = p + 1
    BY <1>4
  <1>6. l * p \in Nat /\ l * q = l * p + l
    BY <1>1, <1>5
  <1>7. l <= size /\ l \in 1 .. size
    BY <1>1, <1>2, <1>6
  <1>8. size = half * (2 * q) + 0 /\ 2 * q \in Nat /\ 0 \in 0 .. half - 1
    <2>1. l * q = half * (2 * q)
      BY <1>1, <1>2
    <2>2. QED
      BY <1>1, <1>2, <2>1
  <1>9. size % half = 0
    BY <1>1, <1>8, DivModIs
  <1>10. QED
    BY <1>1, <1>2, <1>7, <1>9 DEF l, q

\* A plan's table has the weights of each of its stages.
LEMMA PlanStage ==
    ASSUME NEW size, NEW table, NEW begin, PlanOf(size, table, begin), NEW half, StageOf(size, half),
           NEW m \in Memory(2 * size)
    PROVE  TableStage(m, size, half, table, begin[half], 2 * (size - 1), size \div (2 * half))
  <1>1. /\ size \in Nat /\ table \in Memory(2 * (size - 1)) /\ begin[half] = half - 1
        /\ half \in Nat /\ half # 0 /\ 2 * half <= size
        /\ size \div (2 * half) \in Nat /\ size = (2 * half) * (size \div (2 * half))
    BY StageFits DEF PlanOf, StageBegin, StageOf
  <1> DEFINE b == begin[half]
             length == 2 * (size - 1)
             groups == size \div (2 * half)
  <1>2. b \in Nat /\ length \in Int /\ 2 * (b + half) <= length /\ table \in Memory(length)
    BY <1>1
  <1>3. groups \in Nat /\ size = (2 * half) * groups
    BY <1>1
  <1> HIDE DEF b, length, groups
  <1>4. TableInputs(table, b, half, length)
    BY <1>2 DEF TableInputs
  <1>5. Weighted(TableWeights(table, half, b), half)
    BY <1>1, <1>4, TableWeighted
  <1>6. StageInputs(m, size, half, TableWeights(table, half, b), groups)
    BY <1>1, <1>3, <1>5 DEF StageInputs
  <1>7. TableStage(m, size, half, table, b, length, groups)
    BY <1>4, <1>6 DEF TableStage
  <1>8. QED
    BY <1>7 DEF b, length, groups

\* A power of two that is not small has stages of whole vectors.
LEMMA WholeVectors ==
    ASSUME NEW size \in Nat, IsPowerOfTwo(size), size >= 8
    PROVE  size % 8 = 0 /\ size % 4 = 0
  <1> DEFINE a == size \div 2
             b == size \div 4
  <1>1. size \in 1 .. size /\ size % size = 0
    BY OneDivides
  <1>2. size % 2 = 0
    BY <1>1 DEF IsPowerOfTwo
  <1>3. a \in Nat /\ size = a * 2 + 0 /\ a \in 1 .. size /\ a # 1 /\ 0 \in 0 .. a - 1 /\ a # 0
    BY <1>2
  <1> HIDE DEF a
  <1>4. size % a = 0
    BY <1>3, DivModIs, 2 \in Nat
  <1>5. a % 2 = 0
    BY <1>3, <1>4 DEF IsPowerOfTwo
  <1>6. b \in Nat /\ size = b * 4 + 0 /\ b \in 1 .. size /\ b # 1 /\ 0 \in 0 .. b - 1 /\ b # 0
    BY <1>3, <1>5
  <1> HIDE DEF b
  <1>7. size % b = 0
    BY <1>6, DivModIs, 4 \in Nat
  <1>8. b % 2 = 0
    BY <1>6, <1>7 DEF IsPowerOfTwo
  <1>9. QED
    BY <1>6, <1>8

\* The halves of a stage's groups are whole vectors, the first stages aside.
LEMMA WholeHalves ==
    ASSUME NEW size, IsPowerOfTwo(size), NEW half, StageOf(size, half)
    PROVE  /\ half = 1 \/ half % 2 = 0
           /\ half = 1 \/ half = 2 \/ half % 4 = 0
  <1>1. size \in Nat /\ half \in 1 .. size /\ size % half = 0
    BY StageFits DEF StageOf
  <1>2. half = 1 \/ half % 2 = 0
    BY <1>1 DEF IsPowerOfTwo
  <1>3. ASSUME half # 1, half # 2
        PROVE  half % 4 = 0
    <2> DEFINE h == half \div 2
    <2>1. h \in 1 .. size /\ size % h = 0 /\ 2 * h = half
      BY <1>1, <1>3, Halves
    <2> HIDE DEF h
    <2>2. h # 1
      BY <1>3, <2>1
    <2>3. h % 2 = 0
      BY <2>1, <2>2 DEF IsPowerOfTwo
    <2>4. QED
      BY <1>1, <2>1, <2>3
  <1>4. QED
    BY <1>2, <1>3

\* A stage of the scalar reference.
PlanStages(size, table, begin) ==
    [half \in 1 .. size |-> [m \in Memory(2 * size) |-> StageScalar(m, size, half, table, begin[half])]]
\* The states of a transform are memory.
Memories(size) == [length \in Nat |-> Memory(2 * size)]

\* The reference's stages take memory to memory.
LEMMA PlanStagesKeep ==
    ASSUME NEW size, NEW table, NEW begin, PlanOf(size, table, begin)
    PROVE  StagesKeep(size, PlanStages(size, table, begin), Memories(size))
  <1>0. size \in Nat /\ size # 0
    BY DEF PlanOf, IsPowerOfTwo
  <1>1. ASSUME NEW half \in 1 .. size, size % (2 * half) = 0, NEW m \in Memory(2 * size)
        PROVE  PlanStages(size, table, begin)[half][m] \in Memory(2 * size)
    <2> DEFINE b == begin[half]
               groups == size \div (2 * half)
    <2>1. StageOf(size, half)
      BY <1>0, <1>1 DEF StageOf
    <2>2. TableStage(m, size, half, table, b, 2 * (size - 1), groups)
      BY <2>1, PlanStage
    <2>3. PlanStages(size, table, begin)[half][m] = StageScalar(m, size, half, table, b)
      BY DEF PlanStages
    <2> HIDE DEF b, groups
    <2>4. StageScalar(m, size, half, table, b) = StageMeans(m, size, half, TableWeights(table, half, b))
      BY <2>2, StageScalarTurns
    <2>5. StageMeans(m, size, half, TableWeights(table, half, b)) \in Memory(2 * size)
      BY <2>2, StageIn DEF TableStage
    <2>6. QED
      BY <2>3, <2>4, <2>5
  <1>2. ASSUME NEW half \in 1 .. size PROVE half \in Nat /\ 2 * half \in Nat
    OBVIOUS
  <1>3. QED
    BY <1>1, <1>2 DEF StagesKeep, Memories

\* Units whose stages are those of the scalar reference.
LEMMA PlansAgree ==
    ASSUME NEW size, NEW table, NEW begin, PlanOf(size, table, begin), NEW data \in Memory(2 * size), NEW stage,
           \A half : StageOf(size, half) => \A m \in Memory(2 * size) :
               stage[half][m] = StageScalar(m, size, half, table, begin[half])
    PROVE  Stages(size, stage, data) = ButterfliesScalar(data, size, table, begin)
  <1>0. size \in Nat /\ size # 0 /\ IsPowerOfTwo(size)
    BY DEF PlanOf, IsPowerOfTwo
  <1> DEFINE scalar == PlanStages(size, table, begin)
             M == Memories(size)
  <1>1. StagesKeep(size, scalar, M)
    BY PlanStagesKeep
  <1>2. data \in M[1]
    BY DEF Memories
  <1>3. ASSUME NEW half \in 1 .. size, size % (2 * half) = 0, NEW m \in M[half]
        PROVE  scalar[half][m] = stage[half][m]
    <2>1. StageOf(size, half)
      BY <1>0, <1>3 DEF StageOf
    <2>2. m \in Memory(2 * size)
      BY <1>0, half \in Nat DEF Memories
    <2>3. QED
      BY <2>1, <2>2 DEF PlanStages
  <1> HIDE DEF M
  <1>4. StagesSame(size, scalar, stage, M)
    BY <1>3 DEF StagesSame
  <1> HIDE DEF scalar
  <1>5. Stages(size, scalar, data) = Stages(size, stage, data)
    BY <1>0, <1>1, <1>2, <1>4, StagesAgree
  <1>6. QED
    BY <1>5 DEF scalar, PlanStages, ButterfliesScalar

\* AVX2 does the butterflies of any plan with the reference's bits.
LEMMA ButterfliesAvx2AreScalar ==
    ASSUME NEW size, NEW table, NEW begin, PlanOf(size, table, begin), size >= 8, NEW data \in Memory(2 * size)
    PROVE  ButterfliesAvx2(data, size, table, begin) = ButterfliesScalar(data, size, table, begin)
  <1> DEFINE stage == [half \in 1 .. size |-> [m \in Memory(2 * size) |->
                  IF half = 1 THEN FirstStageAvx2(m, size, table, begin[1]) ELSE StageAvx2(m, size, half, table, begin[half])]]
  <1>0. size \in Nat /\ IsPowerOfTwo(size) /\ size % 8 = 0 /\ size % 4 = 0
    BY WholeVectors DEF PlanOf
  <1>1. ASSUME NEW half, StageOf(size, half), NEW m \in Memory(2 * size)
        PROVE  stage[half][m] = StageScalar(m, size, half, table, begin[half])
    <2> DEFINE b == begin[half]
               groups == size \div (2 * half)
               length == 2 * (size - 1)
    <2>1. TableStage(m, size, half, table, b, length, groups)
      BY <1>1, PlanStage
    <2>2. half = 1 \/ half % 2 = 0
      BY <1>0, <1>1, WholeHalves
    <2>3. half = 1 \/ half = 2 \/ half % 4 = 0
      BY <1>0, <1>1, WholeHalves
    <2>4. stage[half][m] = IF half = 1 THEN FirstStageAvx2(m, size, table, b) ELSE StageAvx2(m, size, half, table, b)
      BY <1>1 DEF StageOf
    <2> HIDE DEF b, groups, length, stage
    <2>5. StageScalar(m, size, half, table, b) = StageMeans(m, size, half, TableWeights(table, half, b))
      BY <2>1, StageScalarTurns
    <2>6. ASSUME half = 1
          PROVE  FirstStageAvx2(m, size, table, b) = StageMeans(m, size, half, TableWeights(table, half, b))
      <3>1. TableStage(m, size, 1, table, b, length, groups)
        BY <2>1, <2>6
      <3>2. FirstStageAvx2(m, size, table, b) = StageMeans(m, size, 1, TableWeights(table, 1, b))
        BY <1>0, <3>1, FirstStageAvx2Turns
      <3>3. QED
        BY <2>6, <3>2
    <2>7. ASSUME half # 1
          PROVE  StageAvx2(m, size, half, table, b) = StageMeans(m, size, half, TableWeights(table, half, b))
      BY <2>1, <2>2, <2>3, <2>7, StageAvx2Turns
    <2>20. stage[half][m] = StageScalar(m, size, half, table, b)
      BY <2>4, <2>5, <2>6, <2>7
    <2>21. QED
      BY <2>20 DEF b
  <1>2. ButterfliesAvx2(data, size, table, begin) = Stages(size, stage, data)
    BY DEF ButterfliesAvx2
  <1> HIDE DEF stage
  <1>3. QED
    BY <1>1, <1>2, PlansAgree

\* AVX-512 does the butterflies of any plan with the reference's bits.
LEMMA ButterfliesAvx512AreScalar ==
    ASSUME NEW size, NEW table, NEW begin, PlanOf(size, table, begin), size >= 8, NEW data \in Memory(2 * size)
    PROVE  ButterfliesAvx512(data, size, table, begin) = ButterfliesScalar(data, size, table, begin)
  <1> DEFINE stage == [half \in 1 .. size |-> [m \in Memory(2 * size) |->
                  IF half = 1 THEN HalvesAvx512(m, size, table, begin[1])
                  ELSE IF half = 2 THEN GroupsAvx512(m, size, table, begin[2])
                  ELSE StageAvx512(m, size, half, table, begin[half])]]
  <1>0. size \in Nat /\ IsPowerOfTwo(size) /\ size % 8 = 0 /\ size % 4 = 0
    BY WholeVectors DEF PlanOf
  <1>1. ASSUME NEW half, StageOf(size, half), NEW m \in Memory(2 * size)
        PROVE  stage[half][m] = StageScalar(m, size, half, table, begin[half])
    <2> DEFINE b == begin[half]
               groups == size \div (2 * half)
               length == 2 * (size - 1)
    <2>1. TableStage(m, size, half, table, b, length, groups)
      BY <1>1, PlanStage
    <2>2. half = 1 \/ half % 2 = 0
      BY <1>0, <1>1, WholeHalves
    <2>3. half = 1 \/ half = 2 \/ half % 4 = 0
      BY <1>0, <1>1, WholeHalves
    <2>4. stage[half][m] = IF half = 1 THEN HalvesAvx512(m, size, table, b)
          ELSE IF half = 2 THEN GroupsAvx512(m, size, table, b)
          ELSE StageAvx512(m, size, half, table, b)
      BY <1>1 DEF StageOf
    <2> HIDE DEF b, groups, length, stage
    <2>5. StageScalar(m, size, half, table, b) = StageMeans(m, size, half, TableWeights(table, half, b))
      BY <2>1, StageScalarTurns
    <2>6. ASSUME half = 1
          PROVE  HalvesAvx512(m, size, table, b) = StageMeans(m, size, half, TableWeights(table, half, b))
      <3>1. TableStage(m, size, 1, table, b, length, groups)
        BY <2>1, <2>6
      <3>2. HalvesAvx512(m, size, table, b) = StageMeans(m, size, 1, TableWeights(table, 1, b))
        BY <1>0, <3>1, HalvesAvx512Turns
      <3>3. QED
        BY <2>6, <3>2
    <2>7. ASSUME half = 2
          PROVE  GroupsAvx512(m, size, table, b) = StageMeans(m, size, half, TableWeights(table, half, b))
      <3>1. TableStage(m, size, 2, table, b, length, groups)
        BY <2>1, <2>7
      <3>2. GroupsAvx512(m, size, table, b) = StageMeans(m, size, 2, TableWeights(table, 2, b))
        BY <1>0, <3>1, GroupsAvx512Turns
      <3>3. QED
        BY <2>7, <3>2
    <2>8. ASSUME half # 1 /\ half # 2
          PROVE  StageAvx512(m, size, half, table, b) = StageMeans(m, size, half, TableWeights(table, half, b))
      BY <2>1, <2>2, <2>3, <2>8, StageAvx512Turns
    <2>20. stage[half][m] = StageScalar(m, size, half, table, b)
      BY <2>4, <2>5, <2>6, <2>7, <2>8
    <2>21. QED
      BY <2>20 DEF b
  <1>2. ButterfliesAvx512(data, size, table, begin) = Stages(size, stage, data)
    BY DEF ButterfliesAvx512
  <1> HIDE DEF stage
  <1>3. QED
    BY <1>1, <1>2, PlansAgree

\* NEON does the butterflies of any plan with the reference's bits.
LEMMA ButterfliesNeonAreScalar ==
    ASSUME NEW size, NEW table, NEW begin, PlanOf(size, table, begin), size >= 8, NEW data \in Memory(2 * size)
    PROVE  ButterfliesNeon(data, size, table, begin) = ButterfliesScalar(data, size, table, begin)
  <1> DEFINE stage == [half \in 1 .. size |-> [m \in Memory(2 * size) |->
                  IF half = 1 THEN FirstStageNeon(m, size, table, begin[1]) ELSE StageNeon(m, size, half, table, begin[half])]]
  <1>0. size \in Nat /\ IsPowerOfTwo(size) /\ size % 8 = 0 /\ size % 4 = 0
    BY WholeVectors DEF PlanOf
  <1>1. ASSUME NEW half, StageOf(size, half), NEW m \in Memory(2 * size)
        PROVE  stage[half][m] = StageScalar(m, size, half, table, begin[half])
    <2> DEFINE b == begin[half]
               groups == size \div (2 * half)
               length == 2 * (size - 1)
    <2>1. TableStage(m, size, half, table, b, length, groups)
      BY <1>1, PlanStage
    <2>2. half = 1 \/ half % 2 = 0
      BY <1>0, <1>1, WholeHalves
    <2>3. half = 1 \/ half = 2 \/ half % 4 = 0
      BY <1>0, <1>1, WholeHalves
    <2>4. stage[half][m] = IF half = 1 THEN FirstStageNeon(m, size, table, b) ELSE StageNeon(m, size, half, table, b)
      BY <1>1 DEF StageOf
    <2> HIDE DEF b, groups, length, stage
    <2>5. StageScalar(m, size, half, table, b) = StageMeans(m, size, half, TableWeights(table, half, b))
      BY <2>1, StageScalarTurns
    <2>6. ASSUME half = 1
          PROVE  FirstStageNeon(m, size, table, b) = StageMeans(m, size, half, TableWeights(table, half, b))
      <3>1. TableStage(m, size, 1, table, b, length, groups)
        BY <2>1, <2>6
      <3>2. FirstStageNeon(m, size, table, b) = StageMeans(m, size, 1, TableWeights(table, 1, b))
        BY <1>0, <3>1, FirstStageNeonTurns
      <3>3. QED
        BY <2>6, <3>2
    <2>7. ASSUME half # 1
          PROVE  StageNeon(m, size, half, table, b) = StageMeans(m, size, half, TableWeights(table, half, b))
      BY <2>1, <2>2, <2>3, <2>7, StageNeonTurns
    <2>20. stage[half][m] = StageScalar(m, size, half, table, b)
      BY <2>4, <2>5, <2>6, <2>7
    <2>21. QED
      BY <2>20 DEF b
  <1>2. ButterfliesNeon(data, size, table, begin) = Stages(size, stage, data)
    BY DEF ButterfliesNeon
  <1> HIDE DEF stage
  <1>3. QED
    BY <1>1, <1>2, PlansAgree

\* Two stages of a transform are at least a doubling apart.
LEMMA Doubling ==
    ASSUME NEW size \in Nat, IsPowerOfTwo(size), NEW l \in 1 .. size, size % l = 0,
           NEW h \in 1 .. size, size % h = 0, h < l
    PROVE  2 * h <= l
  <1> DEFINE T == {n \in 1 .. size : size % n = 0 /\ \E g \in 1 .. size : size % g = 0 /\ g < n /\ ~(2 * g <= n)}
  <1> SUFFICES ASSUME T # {} PROVE FALSE
    OBVIOUS
  <1>1. PICK n \in T : \A k \in T : ~(k < n)
    BY HasLeast, T \in SUBSET Nat
  <1>2. PICK g \in 1 .. size : size % g = 0 /\ g < n /\ ~(2 * g <= n)
    BY <1>1
  <1>3. n \in 1 .. size /\ size % n = 0 /\ n # 1
    BY <1>1, <1>2
  <1> DEFINE m == n \div 2
             f == g \div 2
  <1>4. m \in 1 .. size /\ m < n /\ 2 * m = n /\ size % m = 0
    BY <1>3, Halves
  <1>5. g # 1
    BY <1>2, <1>4
  <1>6. f \in 1 .. size /\ 2 * f = g /\ size % f = 0
    BY <1>2, <1>5, Halves
  <1> HIDE DEF m, f
  <1>7. f < m /\ ~(2 * f <= m)
    BY <1>2, <1>4, <1>6
  <1>8. m \in T
    BY <1>4, <1>6, <1>7
  <1>9. QED
    BY <1>1, <1>4, <1>8

\* What the unit circle has to have.
Turnable(size) == \A length \in 1 .. size, k \in {-1, 1} : Unit(k, length) \in Doubles \X Doubles

\* A factor is a complex, however often it was multiplied.
LEMMA FactorIn ==
    ASSUME NEW size \in Nat, Turnable(size), NEW length \in 1 .. size, NEW offset \in Nat, NEW inverse
    PROVE  Factor(offset, length, inverse) \in Doubles \X Doubles
  <1> DEFINE step == Unit(IF inverse THEN 1 ELSE -1, length)
             body == [k \in 0 .. offset - 1 |-> [f \in Doubles \X Doubles |-> ComplexTimes(f, step)]]
  <1>1. step \in Doubles \X Doubles
    <2>1. (IF inverse THEN 1 ELSE -1) \in {-1, 1}
      OBVIOUS
    <2>2. QED
      BY <2>1 DEF Turnable
  <1>2. <<1, 0>> \in Doubles \X Doubles
    BY Closed
  <1>3. Factor(offset, length, inverse) = Loop(offset, body, <<1, 0>>)
    BY DEF Factor
  <1> HIDE DEF step
  <1>4. ASSUME NEW k \in 0 .. offset - 1, NEW f \in Doubles \X Doubles
        PROVE  body[k][f] \in Doubles \X Doubles
    <2>1. ComplexTimes(f, step) \in Doubles \X Doubles
      BY <1>1, <1>4, ComplexTimesIn
    <2>2. QED
      BY <2>1
  <1> HIDE DEF body
  <1>5. Loop(offset, body, <<1, 0>>) \in Doubles \X Doubles
    BY <1>2, <1>4, LoopStays
  <1>6. QED
    BY <1>3, <1>5

\* The tables that hold the factors of the stages up to a length.
HoldsStage(table, half, inverse) ==
    \A o \in 0 .. half - 1 : Complex(table, (half - 1) + o) = Factor(o, 2 * half, inverse)
\* The tables that have the factors of the stages up to a length.
Tables(size, inverse) ==
    [l \in Nat |-> {t \in Memory(2 * (l - 1)) :
        \A h \in 1 .. size : size % (2 * h) = 0 /\ 2 * h <= l => HoldsStage(t, h, inverse)}]

\* Tabulating a stage keeps what the table has and adds the stage's factors.
LEMMA TabledIn ==
    ASSUME NEW size \in Nat, Turnable(size), NEW half \in 1 .. size, 2 * half <= size, NEW inverse,
           NEW table \in Memory(2 * (half - 1))
    PROVE  /\ Tabled(table, half, inverse) \in Memory(2 * ((2 * half) - 1))
           /\ \A i \in 0 .. (2 * (half - 1)) - 1 : Tabled(table, half, inverse)[i] = table[i]
           /\ HoldsStage(Tabled(table, half, inverse), half, inverse)
  <1> DEFINE begin == 2 * (half - 1)
             made == Tabled(table, half, inverse)
             value(i) == IF i < begin THEN table[i] ELSE Factor((i - begin) \div 2, 2 * half, inverse)[(i % 2) + 1]
  <1>1. begin \in Nat /\ (begin + 2 * half) - 1 = (2 * ((2 * half) - 1)) - 1
    OBVIOUS
  <1>2. made = [i \in 0 .. (2 * ((2 * half) - 1)) - 1 |-> value(i)]
    BY <1>1 DEF Tabled
  <1> HIDE DEF made
  <1>3. ASSUME NEW o \in Nat
        PROVE  Factor(o, 2 * half, inverse) \in Doubles \X Doubles
    BY FactorIn, 2 * half \in 1 .. size
  <1>4. ASSUME NEW i \in 0 .. (2 * ((2 * half) - 1)) - 1
        PROVE  value(i) \in Doubles
    <2>1. CASE i < begin
      <3>1. i \in 0 .. begin - 1
        BY <2>1, <1>1
      <3>2. table[i] \in Doubles
        BY <3>1 DEF Memory
      <3>3. QED
        BY <2>1, <3>2
    <2>2. CASE ~(i < begin)
      <3>1. (i - begin) \div 2 \in Nat /\ i % 2 \in {0, 1}
        BY <2>2, <1>1
      <3> DEFINE f == Factor((i - begin) \div 2, 2 * half, inverse)
      <3>2. f \in Doubles \X Doubles
        BY <3>1, <1>3
      <3> HIDE DEF f
      <3>3. f[1] \in Doubles /\ f[2] \in Doubles
        BY <3>2
      <3>4. f[(i % 2) + 1] \in Doubles
        BY <3>1, <3>3
      <3>5. QED
        BY <2>2, <3>4 DEF f
    <2>3. QED
      BY <2>1, <2>2
  <1>5. made \in Memory(2 * ((2 * half) - 1))
    <2> HIDE DEF begin, value
    <2>1. QED
      BY <1>2, <1>4 DEF Memory
  <1>6. ASSUME NEW i \in 0 .. begin - 1
        PROVE  made[i] = table[i]
    BY <1>1, <1>2
  <1>7. ASSUME NEW o \in 0 .. half - 1
        PROVE  Complex(made, (half - 1) + o) = Factor(o, 2 * half, inverse)
    <2> DEFINE f == Factor(o, 2 * half, inverse)
               a == 2 * ((half - 1) + o)
    <2>1. /\ a \in 0 .. (2 * ((2 * half) - 1)) - 1 /\ a + 1 \in 0 .. (2 * ((2 * half) - 1)) - 1
          /\ ~(a < begin) /\ ~(a + 1 < begin) /\ (a - begin) \div 2 = o /\ ((a + 1) - begin) \div 2 = o
          /\ a % 2 = 0 /\ (a + 1) % 2 = 1
      OBVIOUS
    <2>2. f \in Doubles \X Doubles
      BY <1>3
    <2>3. Complex(made, (half - 1) + o) = <<made[a], made[a + 1]>>
      BY DEF Complex
    <2> HIDE DEF a, begin
    <2>4. made[a] = f[1] /\ made[a + 1] = f[2]
      BY <1>2, <2>1
    <2> HIDE DEF f
    <2>5. f = <<f[1], f[2]>>
      BY <2>2
    <2>6. QED
      BY <2>3, <2>4, <2>5 DEF f
  <1>8. QED
    BY <1>5, <1>6, <1>7 DEF made, HoldsStage

\* A plan's table has the factors of all its stages.
LEMMA TwiddleHolds ==
    ASSUME NEW size \in Nat, IsPowerOfTwo(size), Turnable(size), NEW inverse
    PROVE  /\ Twiddle(size, inverse) \in Memory(2 * (size - 1))
           /\ \A half : StageOf(size, half) => HoldsStage(Twiddle(size, inverse), half, inverse)
  <1> DEFINE M == Tables(size, inverse)
             stage == [half \in 1 .. size |-> [table \in Memory(2 * (half - 1)) |-> Tabled(table, half, inverse)]]
             data == [i \in 0 .. -1 |-> 0]
  <1>0. size # 0
    BY DEF IsPowerOfTwo
  <1>1. data \in M[1]
    <2>1. 2 * (1 - 1) = 0 /\ 0 - 1 = -1
      OBVIOUS
    <2>2. data \in Memory(2 * (1 - 1))
      BY <2>1 DEF Memory
    <2>3. \A h \in 1 .. size : ~(2 * h <= 1)
      OBVIOUS
    <2>4. QED
      BY <2>2, <2>3 DEF Tables
  <1>2. ASSUME NEW half \in 1 .. size, size % (2 * half) = 0, NEW m \in M[half]
        PROVE  stage[half][m] \in M[2 * half]
    <2> DEFINE t == Tabled(m, half, inverse)
    <2>1. StageOf(size, half)
      BY <1>0, <1>2 DEF StageOf
    <2>2. half \in Nat /\ 2 * half \in Nat /\ 2 * half <= size /\ size % half = 0
      BY <2>1, StageFits
    <2>3. /\ m \in Memory(2 * (half - 1))
          /\ \A h \in 1 .. size : size % (2 * h) = 0 /\ 2 * h <= half => HoldsStage(m, h, inverse)
      BY <1>2, <2>2 DEF Tables
    <2>4. stage[half][m] = t
      BY <2>3
    <2>5. /\ t \in Memory(2 * ((2 * half) - 1)) /\ HoldsStage(t, half, inverse)
          /\ \A i \in 0 .. (2 * (half - 1)) - 1 : t[i] = m[i]
      BY <2>2, <2>3, TabledIn
    <2> HIDE DEF t, stage
    <2>6. ASSUME NEW h \in 1 .. size, size % (2 * h) = 0, 2 * h <= 2 * half, h # half
          PROVE  HoldsStage(t, h, inverse)
      <3>1. StageOf(size, h)
        BY <1>0, <2>6 DEF StageOf
      <3>2. size % h = 0 /\ h < half
        BY <2>2, <2>6, <3>1, StageFits
      <3>3. 2 * h <= half
        BY <2>2, <3>2, Doubling
      <3>4. HoldsStage(m, h, inverse)
        BY <2>3, <2>6, <3>3
      <3>5. ASSUME NEW o \in 0 .. h - 1
            PROVE  Complex(t, (h - 1) + o) = Complex(m, (h - 1) + o)
        <4> DEFINE a == 2 * ((h - 1) + o)
        <4>1. a \in 0 .. (2 * (half - 1)) - 1 /\ a + 1 \in 0 .. (2 * (half - 1)) - 1
          BY <2>2, <3>3
        <4> HIDE DEF a
        <4>2. t[a] = m[a] /\ t[a + 1] = m[a + 1]
          BY <2>5, <4>1
        <4>3. QED
          BY <4>2 DEF a, Complex
      <3>6. QED
        BY <3>4, <3>5 DEF HoldsStage
    <2>7. \A h \in 1 .. size : size % (2 * h) = 0 /\ 2 * h <= 2 * half => HoldsStage(t, h, inverse)
      BY <2>5, <2>6
    <2>8. QED
      BY <2>2, <2>4, <2>5, <2>7 DEF Tables
  <1>3. Twiddle(size, inverse) = Stages(size, stage, data)
    BY DEF Twiddle
  <1> HIDE DEF stage, M, data
  <1>4. StagesKeep(size, stage, M)
    BY <1>2 DEF StagesKeep
  <1>5. Stages(size, stage, data) \in M[size]
    BY <1>1, <1>4, StagesStay
  <1>6. ASSUME NEW half, StageOf(size, half)
        PROVE  half \in 1 .. size /\ size % (2 * half) = 0 /\ 2 * half <= size
    BY <1>6, StageFits DEF StageOf
  <1>7. QED
    BY <1>3, <1>5, <1>6 DEF M, Tables

\* What a plan tabulates is a plan.
LEMMA PlanIs ==
    ASSUME NEW size \in Nat, IsPowerOfTwo(size), Turnable(size), NEW inverse
    PROVE  PlanOf(size, Twiddle(size, inverse), StageBegin(size))
  BY TwiddleHolds DEF PlanOf

\* The remainder by a doubled divisor has one bit more.
LEMMA BitMore ==
    ASSUME NEW r \in Nat, NEW h \in Nat, h # 0
    PROVE  r % (2 * h) = (r % h) + h * ((r \div h) % 2)
  <1> DEFINE q == r \div h
             s == r % h
             p == q \div 2
             b == q % 2
             l == 2 * h
  <1>1. q \in Nat /\ s \in 0 .. h - 1 /\ r = h * q + s
    BY DivMod
  <1> HIDE DEF q, s
  <1>2. p \in Nat /\ b \in {0, 1} /\ q = 2 * p + b
    BY <1>1
  <1> HIDE DEF p, b
  <1>3. h * b \in {0, h} /\ l \in Nat /\ l # 0
    BY <1>2
  <1>4. h * q = l * p + h * b
    BY <1>2
  <1>5. r = l * p + (s + h * b) /\ s + h * b \in 0 .. l - 1
    <2> DEFINE x == h * b
               y == h * q
               z == l * p
    <2>1. x \in {0, h} /\ y = z + x /\ r = y + s /\ z \in Int
      BY <1>1, <1>2, <1>3, <1>4
    <2> HIDE DEF x, y, z
    <2>2. r = z + (s + x) /\ s + x \in 0 .. l - 1
      BY <2>1, <1>1
    <2>3. QED
      BY <2>2 DEF x, z
  <1> HIDE DEF l
  <1>6. r % l = s + h * b
    <2> DEFINE e == s + h * b
    <2>1. e \in 0 .. l - 1 /\ r = l * p + e
      BY <1>5
    <2> HIDE DEF e
    <2>2. r % l = e
      BY <1>2, <1>3, <2>1, DivModIs
    <2>3. QED
      BY <2>2 DEF e
  <1>7. QED
    BY <1>6 DEF q, s, b, l

\* What the carry may have turned keeps the counter in its range.
Carries(r, count) == [l \in Nat |-> {c \in -count .. count : 0 <= (r % l) + c /\ (r % l) + c < l}]

\* The counter whose bits are read backwards stays below its end.
LEMMA IncrementStays ==
    ASSUME NEW count \in Nat, IsPowerOfTwo(count), NEW r \in 0 .. count - 1
    PROVE  ReversedIncrement(r, count) \in 0 .. count - 1
  <1> DEFINE turned == [bit \in 1 .. count |-> [carry \in -count .. count |->
                           IF (r \div bit) % 2 = 1 THEN carry - bit ELSE bit]]
             M == Carries(r, count)
  <1>0. count # 0 /\ r \in Nat /\ r < count
    BY DEF IsPowerOfTwo
  <1>1. 0 \in M[1]
    <2>1. r % 1 = 0 /\ 0 \in -count .. count
      BY <1>0
    <2>2. QED
      BY <2>1 DEF Carries
  <1>2. ASSUME NEW half \in 1 .. count, count % (2 * half) = 0, NEW c \in M[half]
        PROVE  turned[half][c] \in M[2 * half]
    <2> DEFINE s == r % half
               b == (r \div half) % 2
               e == r % (2 * half)
               d == turned[half][c]
    <2>1. StageOf(count, half)
      BY <1>0, <1>2 DEF StageOf
    <2>2. half \in Nat /\ half # 0 /\ 2 * half \in Nat /\ 2 * half <= count
      BY <2>1, StageFits
    <2>3. c \in -count .. count /\ 0 <= s + c /\ s + c < half
      BY <1>2, <2>2 DEF Carries
    <2>4. d = IF b = 1 THEN c - half ELSE half
      BY <2>3
    <2>5. r \div half \in Nat /\ s \in 0 .. half - 1
      BY <1>0, <2>2, DivMod
    <2>6. b \in {0, 1}
      BY <2>5
    <2>7. e = s + half * b
      BY <1>0, <2>2, BitMore
    <2> HIDE DEF s, b, d, e
    <2>8. d \in -count .. count /\ 0 <= e + d /\ e + d < 2 * half
      <3>1. CASE b = 1
        <4>1. half * b = half
          BY <2>2, <3>1
        <4>2. QED
          BY <2>2, <2>3, <2>4, <2>5, <2>7, <3>1, <4>1
      <3>2. CASE b = 0
        <4>1. half * b = 0
          BY <2>2, <3>2
        <4>2. QED
          BY <2>2, <2>3, <2>4, <2>5, <2>7, <3>2, <4>1
      <3>3. QED
        BY <2>6, <3>1, <3>2
    <2>9. d \in M[2 * half]
      BY <2>2, <2>8 DEF Carries, e
    <2>10. QED
      BY <2>9 DEF d
  <1>3. ReversedIncrement(r, count) = r + Stages(count, turned, 0)
    BY DEF ReversedIncrement
  <1> HIDE DEF M, turned
  <1>4. StagesKeep(count, turned, M)
    BY <1>2 DEF StagesKeep
  <1>5. Stages(count, turned, 0) \in M[count]
    BY <1>1, <1>4, StagesStay
  <1>6. r % count = r
    <2>1. r = count * 0 + r /\ r \in 0 .. count - 1 /\ 0 \in Nat
      BY <1>0
    <2>2. QED
      BY <1>0, <2>1, DivModIs
  <1> DEFINE s == Stages(count, turned, 0)
  <1>7. s \in -count .. count /\ 0 <= r + s /\ r + s < count
    BY <1>5, <1>6 DEF M, Carries
  <1> HIDE DEF s
  <1>8. r + s \in 0 .. count - 1
    BY <1>0, <1>7
  <1>9. QED
    BY <1>3, <1>8 DEF s

\* Where an index goes is an index.
LEMMA ReversedIn ==
    ASSUME NEW count \in Nat, IsPowerOfTwo(count), NEW index \in Nat
    PROVE  Reversed(index, count) \in 0 .. count - 1
  <1> DEFINE body == [k \in 0 .. index - 1 |-> [r \in 0 .. count - 1 |-> ReversedIncrement(r, count)]]
             M == 0 .. count - 1
  <1>1. 0 \in M
    BY DEF IsPowerOfTwo
  <1>2. \A k \in 0 .. index - 1 : \A r \in M : body[k][r] \in M
    BY IncrementStays
  <1>3. Reversed(index, count) = Loop(index, body, 0)
    BY DEF Reversed
  <1> HIDE DEF body, M
  <1>4. Loop(index, body, 0) \in M
    BY <1>1, <1>2, LoopStays
  <1>5. QED
    BY <1>3, <1>4 DEF M

\* The permutation takes memory to memory.
LEMMA PermutedIn ==
    ASSUME NEW count \in Nat, IsPowerOfTwo(count), NEW data \in Memory(2 * count)
    PROVE  Permuted(data, count) \in Memory(2 * count)
  <1> DEFINE reversed == [index \in 0 .. count - 1 |-> Reversed(index, count)]
             made == Permuted(data, count)
  <1>1. made = [k \in 0 .. (2 * count) - 1 |-> data[2 * reversed[k \div 2] + (k % 2)]]
    BY IsEvaluated DEF Permuted
  <1> HIDE DEF made
  <1>2. ASSUME NEW k \in 0 .. (2 * count) - 1
        PROVE  data[2 * reversed[k \div 2] + (k % 2)] \in Doubles
    <2> DEFINE e == reversed[k \div 2]
    <2>1. k \div 2 \in 0 .. count - 1 /\ k \div 2 \in Nat /\ k % 2 \in {0, 1}
      OBVIOUS
    <2>2. e \in 0 .. count - 1
      BY <2>1, ReversedIn
    <2> HIDE DEF e
    <2>3. 2 * e + (k % 2) \in 0 .. (2 * count) - 1
      BY <2>1, <2>2
    <2>4. data[2 * e + (k % 2)] \in Doubles
      BY <2>3 DEF Memory
    <2>5. QED
      BY <2>4 DEF e
  <1> HIDE DEF reversed
  <1>3. QED
    BY <1>1, <1>2 DEF made, Memory

\* The weights of a stage that works its factors out as it goes.
FactorWeights(half, inverse) == [o \in 0 .. half - 1 |-> Factor(o, 2 * half, inverse)]

\* The transform in place does a group as a plan does.
LEMMA GroupInPlaceTurns ==
    ASSUME NEW from, NEW to, NEW size, NEW half, NEW inverse, NEW start,
           GroupInputs(from, to, size, half, FactorWeights(half, inverse), start)
    PROVE  GroupInPlace(Upto(from, to, 2 * start), size, half, inverse, start)
           = Upto(from, to, (2 * start) + (4 * half))
  <1> DEFINE weights == FactorWeights(half, inverse)
             body == [offset \in 0 .. half - 1 |-> [m \in Memory(2 * size) |->
                         Butterfly(m, start + offset, start + offset + half, Factor(offset, 2 * half, inverse))]]
  <1>1. ASSUME NEW n \in 0 .. half - 1, NEW m \in Memory(2 * size)
        PROVE  \E w : /\ w[1] = weights[n][1] /\ w[2] = weights[n][2]
                      /\ body[n][m] = Butterfly(m, start + n, start + n + half, w)
    <2> DEFINE w == Factor(n, 2 * half, inverse)
    <2>1. weights[n] = w
      BY DEF FactorWeights
    <2>2. body[n][m] = Butterfly(m, start + n, start + n + half, w)
      OBVIOUS
    <2> HIDE DEF w, weights, body
    <2>3. QED
      BY <2>1, <2>2
  <1>2. GroupInPlace(Upto(from, to, 2 * start), size, half, inverse, start)
        = Loop(half, body, Upto(from, to, 2 * start))
    BY DEF GroupInPlace
  <1> HIDE DEF weights, body
  <1>3. Loop(half, body, Upto(from, to, 2 * start)) = Upto(from, to, (2 * start) + (4 * half))
    BY <1>1, ScalarGroup DEF weights
  <1>4. QED
    BY <1>2, <1>3

\* A stage of the transform in place does what a stage means.
LEMMA StageInPlaceTurns ==
    ASSUME NEW from, NEW size, NEW half, NEW inverse, NEW groups,
           StageInputs(from, size, half, FactorWeights(half, inverse), groups)
    PROVE  StageInPlace(from, size, half, inverse) = StageMeans(from, size, half, FactorWeights(half, inverse))
  <1> DEFINE weights == FactorWeights(half, inverse)
             to == StageMeans(from, size, half, weights)
             body == [group \in 0 .. Groups(size, half) - 1 |-> [m \in Memory(2 * size) |->
                         GroupInPlace(m, size, half, inverse, 2 * half * group)]]
  <1>2. Groups(size, half) = groups /\ half \in Nat
    BY GroupsAre DEF StageInputs
  <1>3. ASSUME NEW g \in 0 .. groups - 1, NEW start, start = (2 * half) * g,
               GroupInputs(from, to, size, half, weights, start)
        PROVE  body[g][Upto(from, to, 2 * start)] = Upto(from, to, (2 * start) + (4 * half))
    <2> DEFINE m == Upto(from, to, 2 * start)
    <2>1. m \in Memory(2 * size)
      BY <1>3, GroupGiven
    <2>2. 2 * half * g = start
      BY <1>2, <1>3
    <2> HIDE DEF m
    <2>3. body[g][m] = GroupInPlace(m, size, half, inverse, start)
      BY <1>2, <2>1, <2>2
    <2> HIDE DEF to, body
    <2>4. GroupInPlace(m, size, half, inverse, start) = Upto(from, to, (2 * start) + (4 * half))
      BY <1>3, GroupInPlaceTurns DEF m
    <2>5. QED
      BY <2>3, <2>4 DEF m
  <1>4. StageInPlace(from, size, half, inverse) = Loop(Groups(size, half), body, from)
    BY DEF StageInPlace
  <1> HIDE DEF body, weights
  <1>5. GroupsTurn(body, from, to, size, half, weights, groups)
    <2> HIDE DEF to
    <2>1. QED
      BY <1>3, Zenon DEF GroupsTurn
  <1>6. QED
    BY <1>4, <1>5, StageTurns DEF weights

\* Every unit does the butterflies of a plan as the scalar reference does.
LEMMA FftUnitsAgree ==
    ASSUME NEW size, NEW table, NEW begin, PlanOf(size, table, begin), size >= 8, NEW data \in Memory(2 * size),
           NEW isa
    PROVE  fft_butterflies(isa, data, size, table, begin) = ButterfliesScalar(data, size, table, begin)
  <1>1. /\ ButterfliesAvx2(data, size, table, begin) = ButterfliesScalar(data, size, table, begin)
        /\ ButterfliesAvx512(data, size, table, begin) = ButterfliesScalar(data, size, table, begin)
        /\ ButterfliesNeon(data, size, table, begin) = ButterfliesScalar(data, size, table, begin)
    BY ButterfliesAvx2AreScalar, ButterfliesAvx512AreScalar, ButterfliesNeonAreScalar
  <1>2. QED
    BY <1>1 DEF fft_butterflies

\* A plan applied by any unit has the bits of the transform in place.
LEMMA PlanIsInPlace ==
    ASSUME NEW size \in Nat, IsPowerOfTwo(size), Turnable(size), NEW data \in Memory(2 * size),
           NEW isa, NEW inverse
    PROVE  apply(isa, data, size, inverse) = fft_in_place(data, size, inverse)
  <1> DEFINE permuted == Permuted(data, size)
             table == Twiddle(size, inverse)
             begin == StageBegin(size)
             stage == [half \in 1 .. size |-> [m \in Memory(2 * size) |-> StageInPlace(m, size, half, inverse)]]
             done == ButterfliesScalar(permuted, size, table, begin)
  <1>0. size # 0
    BY DEF IsPowerOfTwo
  <1>1. PlanOf(size, table, begin)
    BY PlanIs
  <1>2. permuted \in Memory(2 * size)
    BY PermutedIn
  <1>3. ASSUME NEW half, StageOf(size, half), NEW m \in Memory(2 * size)
        PROVE  stage[half][m] = StageScalar(m, size, half, table, begin[half])
    <2> DEFINE b == begin[half]
               groups == size \div (2 * half)
               weights == TableWeights(table, half, b)
    <2>1. TableStage(m, size, half, table, b, 2 * (size - 1), groups)
      BY <1>1, <1>3, PlanStage
    <2>2. b = half - 1 /\ half \in 1 .. size
      BY <1>3 DEF StageOf, StageBegin
    <2>3. HoldsStage(table, half, inverse)
      BY <1>3, TwiddleHolds
    <2>4. stage[half][m] = StageInPlace(m, size, half, inverse)
      BY <2>2
    <2> HIDE DEF table, begin, b, groups, stage
    <2>5. weights = FactorWeights(half, inverse)
      BY <2>2, <2>3 DEF TableWeights, FactorWeights, HoldsStage
    <2>6. StageScalar(m, size, half, table, b) = StageMeans(m, size, half, weights)
      BY <2>1, StageScalarTurns
    <2> HIDE DEF weights
    <2>7. StageInputs(m, size, half, weights, groups)
      BY <2>1 DEF TableStage, weights
    <2>8. StageInPlace(m, size, half, inverse) = StageMeans(m, size, half, weights)
      BY <2>5, <2>7, StageInPlaceTurns
    <2>9. QED
      BY <2>4, <2>6, <2>8 DEF b
  <1> HIDE DEF table, begin, permuted
  <1>4. Stages(size, stage, permuted) = done
    <2> HIDE DEF stage
    <2>1. QED
      BY <1>1, <1>2, <1>3, PlansAgree
  <1>5. fft_in_place(data, size, inverse)
        = IF size < 2 THEN data ELSE IF inverse THEN Divided(Stages(size, stage, permuted), size)
                                     ELSE Stages(size, stage, permuted)
    BY IsEvaluated DEF fft_in_place, permuted
  <1>6. (IF size >= MinVectorFftSize /\ IsPowerOfTwo(size)
         THEN fft_butterflies(isa, permuted, size, table, begin) ELSE done) = done
    <2>1. ASSUME size >= MinVectorFftSize
          PROVE  fft_butterflies(isa, permuted, size, table, begin) = done
      BY <1>1, <1>2, <2>1, FftUnitsAgree DEF MinVectorFftSize
    <2>2. QED
      BY <2>1
  <1>7. apply(isa, data, size, inverse)
        = IF size < 2 THEN data ELSE IF inverse THEN Divided(done, size) ELSE done
    <2>1. Evaluated(permuted) = permuted /\ Evaluated(table) = table
      BY IsEvaluated
    <2> HIDE DEF done
    <2>2. QED
      BY <1>6, <2>1, Zenon DEF apply, permuted, table, begin, done
  <1>8. QED
    BY <1>4, <1>5, <1>7

-----------------------------------------------------------------------------
(* The table.                                                              *)

\* What the machine may be asked to run: compiled, and found by the probe.
Able == {isa \in Isas : isa_compiled(isa) /\ isa_supported(isa)}

\* The process before and after its table is fixed.
TableFixed ==
    /\ selected = Selected
    /\ active = [kernel \in KernelNames |-> Serves(kernel, Selected)]
\* Machine and build fit together, and the table is open or fixed.
DispatchInv ==
    /\ build \in Builds /\ machine \in Machines /\ machine.arch = build.arch
    /\ request \in Isas \cup {"auto", "sse9"}
    /\ \/ selected = Unresolved /\ active = [kernel \in KernelNames |-> Unresolved]
       \/ TableFixed

\* What the probe finds in a unit's architecture is what the machine runs.
LEMMA AbleRuns ==
    ASSUME DispatchInv, NEW isa \in Isas
    PROVE  isa \in Able <=> Runs(isa)
  <1>1. /\ build.arch \in Architectures /\ build.units \subseteq UnitsFor[build.arch]
        /\ machine.arch = build.arch /\ machine.bits \subseteq {"sse2", "osxsave", "avx", "avx2", "avx512f"}
        /\ machine.leaf \in Nat
        /\ machine.leaf < 7 => machine.bits \cap {"avx2", "avx512f"} = {}
    BY MachinesAssumption, BuildsAssumption DEF DispatchInv
  <1>2. CASE build.arch = "x86"
    <2>1. build.units \subseteq {"sse2", "avx2", "avx512"} /\ probe(machine) = probe_x86(machine)
      BY <1>1, <1>2 DEF UnitsFor, probe
    <2>2. CASE isa = "avx2"
      BY <1>1, <2>1, <2>2 DEF Able, Runs, isa_compiled, isa_supported, probe_x86, Leaf7, Instructions, Registers, Isas
    <2>3. CASE isa = "avx512"
      BY <1>1, <2>1, <2>3 DEF Able, Runs, isa_compiled, isa_supported, probe_x86, Leaf7, Instructions, Registers, Isas
    <2>4. CASE isa = "sse2"
      BY <1>1, <2>1, <2>4 DEF Able, Runs, isa_compiled, isa_supported, probe_x86, Leaf7, Instructions, Registers, Isas
    <2>5. CASE isa = "neon"
      BY <1>1, <2>1, <2>5 DEF Able, Runs, isa_compiled, isa_supported, Instructions, Registers, Isas
    <2>6. CASE isa = "scalar"
      BY <2>6 DEF Able, Runs, isa_compiled, isa_supported, Instructions, Registers, Isas
    <2>7. QED
      BY <2>2, <2>3, <2>4, <2>5, <2>6 DEF Isas
  <1>3. CASE build.arch = "aarch64"
    <2>1. build.units \subseteq {"neon"} /\ probe(machine) = {"neon"}
      BY <1>1, <1>3 DEF UnitsFor, probe
    <2>2. CASE isa \in {"neon", "scalar"}
      BY <1>1, <2>1, <2>2 DEF Able, Runs, isa_compiled, isa_supported, Instructions, Registers, Isas
    <2>3. CASE isa \notin {"neon", "scalar"}
      BY <1>1, <2>1, <2>3 DEF Able, Runs, isa_compiled, isa_supported
    <2>4. QED
      BY <2>2, <2>3
  <1>4. CASE build.arch = "other"
    <2>1. build.units = {}
      BY <1>1, <1>4 DEF UnitsFor
    <2>2. CASE isa = "scalar"
      BY <2>2 DEF Able, Runs, isa_compiled, isa_supported, Instructions, Registers, Isas
    <2>3. CASE isa # "scalar"
      BY <2>1, <2>3 DEF Able, Runs, isa_compiled
    <2>4. QED
      BY <2>2, <2>3
  <1>5. QED
    BY <1>1, <1>2, <1>3, <1>4 DEF Architectures

\* The first of a ladder that is able.
LEMMA WidestIs ==
    ASSUME NEW n \in Nat, NEW ladder, DOMAIN ladder = 1 .. n, NEW able
    PROVE  \/ Widest(ladder, able) = "scalar" /\ \A i \in 1 .. n : ladder[i] \notin able
           \/ \E i \in 1 .. n : /\ Widest(ladder, able) = ladder[i] /\ ladder[i] \in able
                                /\ \A j \in 1 .. n : ladder[j] \in able => i <= j
  <1> DEFINE fit == {i \in 1 .. n : ladder[i] \in able}
  <1>1. CASE fit = {}
    BY <1>1 DEF Widest
  <1>2. CASE fit # {}
    <2>1. \E x \in fit : \A y \in fit : x <= y
      <3>1. PICK m \in fit : \A k \in fit : ~(k < m)
        BY <1>2, HasLeast, fit \in SUBSET Nat
      <3>2. QED
        BY <3>1
    <2>2. Min(fit) \in fit /\ \A y \in fit : Min(fit) <= y
      BY <2>1 DEF Min
    <2>3. Widest(ladder, able) = ladder[Min(fit)]
      BY <1>2 DEF Widest
    <2> DEFINE i == Min(fit)
    <2>4. i \in 1 .. n /\ ladder[i] \in able /\ \A j \in 1 .. n : ladder[j] \in able => i <= j
      BY <2>2
    <2> HIDE DEF i
    <2>5. QED
      BY <2>3, <2>4 DEF i
  <1>3. QED
    BY <1>1, <1>2

\* The widest of the units that are able.
LEMMA SelectedIs ==
    ASSUME DispatchInv
    PROVE  /\ Selected \in Isas /\ Runs(Selected)
           /\ Forced => Selected = request
           /\ ~Forced => \A isa \in Isas : Runs(isa) => Width[isa] <= Width[Selected]
  <1> DEFINE best == Widest(Ladder, Able)
  <1>1. Selected = IF Forced THEN request ELSE best
    BY DEF Selected, Able
  <1>2. \A isa \in Isas : isa \in Able <=> Runs(isa)
    BY AbleRuns
  <1>3. "scalar" \in Able
    BY DEF Able, Isas, isa_compiled, isa_supported
  <1>4. Forced => request \in Able
    BY DEF Forced, Able
  <1>5. /\ DOMAIN Ladder = 1 .. 4 /\ Ladder[1] = "avx512" /\ Ladder[2] = "avx2"
        /\ Ladder[3] = "sse2" /\ Ladder[4] = "neon"
    BY DEF Ladder
  <1>6. \/ best = "scalar" /\ \A i \in 1 .. 4 : Ladder[i] \notin Able
        \/ \E i \in 1 .. 4 : best = Ladder[i] /\ Ladder[i] \in Able /\ \A j \in 1 .. 4 : Ladder[j] \in Able => i <= j
    BY <1>5, WidestIs, ZenonT(40)
  <1> HIDE DEF best
  <1>7. best \in Able /\ \A isa \in Able : Width[isa] <= Width[best]
    <2>1. Able \subseteq {"scalar", "avx512", "avx2", "sse2", "neon"}
      BY DEF Able, Isas
    <2>2. CASE best = "scalar" /\ \A i \in 1 .. 4 : Ladder[i] \notin Able
      BY <1>3, <1>5, <2>1, <2>2 DEF Width
    <2>3. ASSUME NEW i \in 1 .. 4, best = Ladder[i], Ladder[i] \in Able,
                 \A j \in 1 .. 4 : Ladder[j] \in Able => i <= j
          PROVE  best \in Able /\ \A isa \in Able : Width[isa] <= Width[best]
      <3>1. /\ "avx512" \in Able => i <= 1
            /\ "avx2" \in Able => i <= 2
            /\ "sse2" \in Able => i <= 3
        BY <1>5, <2>3
      <3>2. (i = 1 /\ best = "avx512") \/ (i = 2 /\ best = "avx2") \/ (i = 3 /\ best = "sse2") \/ (i = 4 /\ best = "neon")
        <4>1. i = 1 \/ i = 2 \/ i = 3 \/ i = 4
          OBVIOUS
        <4>2. QED
          BY <1>5, <2>3, <4>1
      <3>3. QED
        BY <2>1, <2>3, <3>1, <3>2 DEF Width
    <2>4. QED
      BY <1>6, <2>2, <2>3
  <1>8. QED
    BY <1>1, <1>2, <1>4, <1>7 DEF Able

\* The widest of the units that are able, have the kernel and are not above another.
LEMMA ServesIs ==
    ASSUME NEW kernel \in KernelNames, NEW best \in Isas
    PROVE  /\ Serves(kernel, best) \in Able /\ kernel \in Implements(Serves(kernel, best))
           /\ Width[Serves(kernel, best)] <= Width[best]
           /\ \A isa \in Able : kernel \in Implements(isa) /\ Width[isa] <= Width[best]
                                => Width[isa] <= Width[Serves(kernel, best)]
  <1> DEFINE ladder == Ladder \o <<"scalar">>
             able == {isa \in Isas : /\ isa_rank(isa) <= isa_rank(best) /\ isa_compiled(isa) /\ isa_supported(isa)
                                     /\ kernel \in Implements(isa)}
             s == Widest(ladder, able)
  <1>1. Serves(kernel, best) = s
    BY DEF Serves
  <1>2. /\ DOMAIN ladder = 1 .. 5 /\ ladder[1] = "avx512" /\ ladder[2] = "avx2"
        /\ ladder[3] = "sse2" /\ ladder[4] = "neon" /\ ladder[5] = "scalar"
    BY DEF Ladder
  <1>3. \A isa \in Isas : isa_rank(isa) = Width[isa]
    BY DEF Isas, isa_rank, Width
  <1>4. \A isa : isa \in able <=> isa \in Able /\ Width[isa] <= Width[best] /\ kernel \in Implements(isa)
    BY <1>3 DEF Able
  <1>5. "scalar" \in able
    <2>1. "scalar" \in Able /\ kernel \in Implements("scalar")
      BY DEF Able, Isas, isa_compiled, isa_supported, Implements
    <2>2. Width["scalar"] <= Width[best]
      BY DEF Isas, Width
    <2>3. QED
      BY <1>4, <2>1, <2>2
  <1>6. able \subseteq {"scalar", "avx512", "avx2", "sse2", "neon"}
    BY DEF Isas
  <1> HIDE DEF ladder, able
  <1>7. PICK i \in 1 .. 5 : s = ladder[i] /\ ladder[i] \in able /\ \A j \in 1 .. 5 : ladder[j] \in able => i <= j
    <2>1. ladder[5] \in able /\ 5 \in Nat /\ 5 \in 1 .. 5
      BY <1>2, <1>5
    <2>2. \/ s = "scalar" /\ \A i \in 1 .. 5 : ladder[i] \notin able
          \/ \E i \in 1 .. 5 : s = ladder[i] /\ ladder[i] \in able /\ \A j \in 1 .. 5 : ladder[j] \in able => i <= j
      BY <1>2, <2>1, WidestIs
    <2>3. QED
      BY <2>1, <2>2
  <1> HIDE DEF s
  <1>8. /\ "avx512" \in able => i <= 1
        /\ "avx2" \in able => i <= 2
        /\ "sse2" \in able => i <= 3
        /\ "neon" \in able => i <= 4
    BY <1>2, <1>7
  <1>9. \/ (i = 1 /\ s = "avx512") \/ (i = 2 /\ s = "avx2") \/ (i = 3 /\ s = "sse2")
        \/ (i = 4 /\ s = "neon") \/ (i = 5 /\ s = "scalar")
    <2>1. i = 1 \/ i = 2 \/ i = 3 \/ i = 4 \/ i = 5
      OBVIOUS
    <2>2. QED
      BY <1>2, <1>7, <2>1
  <1>10. s \in able /\ \A isa \in able : Width[isa] <= Width[s]
    BY <1>6, <1>7, <1>8, <1>9 DEF Width
  <1>11. QED
    BY <1>1, <1>4, <1>10

\* A fixed table runs here: every entry is able, and none able is wider.
LEMMA FixedRunsHere == DispatchInv /\ TableFixed => TableRunsHere
  <1> SUFFICES ASSUME DispatchInv, TableFixed, NEW kernel \in KernelNames
               PROVE  LET allowed == {isa \in Isas :
                               /\ Runs(isa) /\ kernel \in Implements(isa)
                               /\ (request \in Isas /\ Runs(request)) => Width[isa] <= Width[request]}
                      IN  /\ active[kernel] \in allowed
                          /\ \A isa \in allowed : Width[isa] <= Width[active[kernel]]
    BY DEF TableRunsHere
  <1> DEFINE s == Serves(kernel, Selected)
  <1>1. /\ Selected \in Isas /\ Runs(Selected)
        /\ Forced => Selected = request
        /\ ~Forced => \A isa \in Isas : Runs(isa) => Width[isa] <= Width[Selected]
    BY SelectedIs
  <1>2. active[kernel] = s
    BY DEF TableFixed
  <1>3. /\ s \in Able /\ kernel \in Implements(s) /\ Width[s] <= Width[Selected]
        /\ \A isa \in Able : kernel \in Implements(isa) /\ Width[isa] <= Width[Selected] => Width[isa] <= Width[s]
    BY <1>1, ServesIs
  <1> HIDE DEF s
  <1>4. \A isa \in Isas : isa \in Able <=> Runs(isa)
    BY AbleRuns
  <1>5. Forced <=> request \in Isas /\ Runs(request)
    BY <1>4 DEF Forced, Able
  <1>6. s \in Isas
    BY <1>3 DEF Able
  <1>7. QED
    BY <1>1, <1>2, <1>3, <1>4, <1>5, <1>6

\* The dispatcher's invariant is inductive: the table is fixed once, by what is able.
LEMMA DispatchInductive ==
    /\ Init => DispatchInv
    /\ DispatchInv /\ [Next]_vars => DispatchInv'
  <1>1. Init => DispatchInv
    BY DEF Init, DispatchInit, DispatchInv
  <1>2. ASSUME DispatchInv, [Next]_vars PROVE DispatchInv'
    <2>1. CASE Resolve
      <3>1. selected' = Selected /\ active' = [kernel \in KernelNames |-> Serves(kernel, Selected)]
            /\ build' = build /\ machine' = machine /\ request' = request
        BY <2>1 DEF Resolve, resolve
      <3>2. Selected' = Selected /\ \A kernel, best : Serves(kernel, best)' = Serves(kernel, best)
        BY <3>1 DEF Selected, Serves, Forced, isa_compiled, isa_supported
      <3>3. QED
        BY <1>2, <3>1, <3>2 DEF DispatchInv, TableFixed
    <2>2. CASE UNCHANGED dispatch_vars
      <3>1. Selected' = Selected /\ \A kernel, best : Serves(kernel, best)' = Serves(kernel, best)
        BY <2>2 DEF dispatch_vars, Selected, Serves, Forced, isa_compiled, isa_supported
      <3>2. QED
        BY <1>2, <2>2, <3>1 DEF DispatchInv, TableFixed, dispatch_vars
    <2>3. QED
      BY <1>2, <2>1, <2>2 DEF Next, vars, Return, CallKernel, CallPlan, CallAny
  <1>3. QED
    BY <1>1, <1>2

\* Whatever the build, the machine and JOC_SIMD: every kernel is served by a unit of
\* this binary that has it and that the machine can execute, the widest there is.
THEOREM TableAlwaysRunsHere == Spec => []TableRunsHere
  <1>1. DispatchInv => TableRunsHere
    BY FixedRunsHere DEF DispatchInv, TableRunsHere
  <1>2. QED
    BY <1>1, DispatchInductive, PTL DEF Spec

\* Type correctness: before the table is fixed it names no unit, and after it a unit
\* for each kernel, whatever JOC_SIMD says.
THEOREM TypeCorrect == Spec => []TypeOK
  <1>1. ASSUME DispatchInv PROVE TypeOK
    <2>1. CASE selected = Unresolved /\ active = [kernel \in KernelNames |-> Unresolved]
      BY <1>1, <2>1 DEF DispatchInv, TypeOK
    <2>2. CASE TableFixed
      <3>1. Selected \in Isas
        BY <1>1, SelectedIs
      <3>2. \A kernel \in KernelNames : Serves(kernel, Selected) \in Isas
        BY <3>1, ServesIs DEF Able
      <3>3. QED
        BY <1>1, <2>2, <3>1, <3>2 DEF DispatchInv, TableFixed, TypeOK
    <2>3. QED
      BY <1>1, <2>1, <2>2 DEF DispatchInv
  <1>2. QED
    BY <1>1, DispatchInductive, PTL DEF Spec

-----------------------------------------------------------------------------
(* Calls.                                                                  *)

\* What a kernel is called with is memory.
LEMMA DataIn ==
    ASSUME NEW seed \in Nat, NEW size \in Int
    PROVE  Data(seed, size) \in Memory(size)
  <1> DEFINE n == Len(Samples)
  <1>1. n \in Nat /\ n # 0 /\ \A j \in 1 .. n : Samples[j] \in Doubles
    BY CallsAssumption
  <1> HIDE DEF n
  <1>2. ASSUME NEW k \in 0 .. size - 1
        PROVE  Samples[((101 * seed + k) % n) + 1] \in Doubles
    <2> DEFINE x == 101 * seed + k
               r == x % n
    <2>1. x \in Nat
      OBVIOUS
    <2> HIDE DEF x
    <2>2. r \in 0 .. n - 1
      BY <1>1, <2>1, DivMod
    <2> HIDE DEF r
    <2>3. r + 1 \in 1 .. n
      BY <1>1, <2>2
    <2>4. Samples[r + 1] \in Doubles
      BY <1>1, <2>3
    <2>5. QED
      BY <2>4 DEF r, x
  <1>3. Data(seed, size) = [k \in 0 .. size - 1 |-> Samples[((101 * seed + k) % n) + 1]]
    BY DEF Data, n
  <1>4. QED
    BY <1>2, <1>3 DEF Memory

\* What a kernel is called with is a double.
LEMMA ScalarIn == ASSUME NEW seed \in Nat PROVE Scalar(seed) \in Doubles
  <1>1. Data(seed, 1) \in Memory(1) /\ 0 \in 0 .. 1 - 1
    BY DataIn, 1 \in Int
  <1>2. QED
    BY <1>1 DEF Scalar, Memory

\* The transforms the process calls.
LEMMA Planned ==
    ASSUME NEW n \in FftSizes \cup PlanSizes
    PROVE  n \in Nat /\ IsPowerOfTwo(n) /\ Turnable(n)
  BY CallsAssumption, UnitAssumption DEF Turnable

\* The butterflies, called by any unit.
LEMMA FftWritten ==
    ASSUME NEW n \in FftSizes, NEW isa
    PROVE  Written(isa, "fft_butterflies", n) = Written("scalar", "fft_butterflies", n)
  <1> DEFINE data == Data(1, 2 * n)
             table == Twiddle(n, FALSE)
             begin == StageBegin(n)
  <1>1. n \in Nat /\ IsPowerOfTwo(n) /\ Turnable(n) /\ n >= 8
    BY Planned, CallsAssumption DEF MinVectorFftSize
  <1>2. PlanOf(n, table, begin)
    BY <1>1, PlanIs
  <1>3. data \in Memory(2 * n)
    BY <1>1, DataIn, 1 \in Nat, 2 * n \in Int
  <1>4. \A i : Written(i, "fft_butterflies", n) = fft_butterflies(i, data, n, table, begin)
    BY DEF Written
  <1> HIDE DEF data, table, begin
  <1>5. \A i : fft_butterflies(i, data, n, table, begin) = ButterfliesScalar(data, n, table, begin)
    BY <1>1, <1>2, <1>3, FftUnitsAgree
  <1>6. QED
    BY <1>4, <1>5

\* The synthesis, called by any unit.
LEMMA SynthesisWritten ==
    ASSUME NEW n \in 0 .. MaxCount, NEW isa
    PROVE  Written(isa, "qmf_synthesis_basis", n) = Written("scalar", "qmf_synthesis_basis", n)
  <1> DEFINE out == Data(0, n * SynthesisBands * Ranks)
             values == Data(2, n * SynthesisTaps)
             basis == Data(3, SynthesisBands * SynthesisTaps * Ranks)
  <1>1. n \in Nat /\ n * SynthesisBands * Ranks \in Int /\ n * SynthesisTaps \in Int
        /\ SynthesisBands * SynthesisTaps * Ranks \in Int
    BY CallsAssumption, SizesAssumption, SMTT(30) DEF Ranks
  <1>2. SynthesisInputs(out, values, basis, n)
    BY <1>1, DataIn, 0 \in Nat, 2 \in Nat, 3 \in Nat DEF SynthesisInputs
  <1>3. \A i : Written(i, "qmf_synthesis_basis", n) = qmf_synthesis_basis(i, out, values, basis, n)
    BY DEF Written
  <1> HIDE DEF out, values, basis
  <1>4. /\ SynthesisAvx2(out, values, basis, n) = SynthesisScalar(values, basis, n)
        /\ SynthesisNeon(out, values, basis, n) = SynthesisScalar(values, basis, n)
    BY <1>2, SynthesisAvx2IsScalar, SynthesisNeonIsScalar
  <1>5. QED
    BY <1>3, <1>4 DEF qmf_synthesis_basis

\* The hybrid join, called by any unit.
LEMMA HybridWritten ==
    ASSUME NEW n \in 0 .. MaxCount, NEW isa
    PROVE  Written(isa, "hybrid_low_join", n) = Written("scalar", "hybrid_low_join", n)
  <1> DEFINE out == Data(0, n * HybridOutputs)
             values == Data(4, n * HybridTerms)
             taps == Data(5, HybridTerms * HybridOutputs)
  <1>1. n \in Nat /\ n * HybridOutputs \in Int /\ n * HybridTerms \in Int /\ HybridTerms * HybridOutputs \in Int
    BY CallsAssumption, SizesAssumption, SMTT(30)
  <1>2. /\ out \in Memory(n * HybridOutputs) /\ values \in Memory(n * HybridTerms)
        /\ taps \in Memory(HybridTerms * HybridOutputs)
    BY <1>1, DataIn, 0 \in Nat, 4 \in Nat, 5 \in Nat
  <1>3. \A i : Written(i, "hybrid_low_join", n) = hybrid_low_join(i, out, values, taps, n)
    BY DEF Written
  <1> HIDE DEF out, values, taps
  <1>4. \A lanes \in {2, 4, 8} : HybridJoin(out, values, taps, n, lanes) = HybridJoinScalar(values, taps, n)
    BY <1>1, <1>2, HybridJoinIsScalar
  <1>5. QED
    BY <1>3, <1>4 DEF hybrid_low_join, HybridJoinAvx2, HybridJoinAvx512, HybridJoinNeon

\* A path rendered by any unit.
LEMMA PathWritten ==
    ASSUME NEW isa
    PROVE  Written(isa, "render_hybrid_path", 1) = Written("scalar", "render_hybrid_path", 1)
  <1> DEFINE out == Data(6, 4 * PathBands)
             transfer == Data(7, 4 * PathBands)
             histories == [ear \in 0 .. 1 |-> Data(8 + ear, 2 * PathBands)]
             scale == Scalar(19)
  <1>1. PathBands \in Nat /\ 4 * PathBands \in Int /\ 2 * PathBands \in Int
    BY SizesAssumption
  <1>2. PathInputs(out, transfer, histories, scale)
    <2>1. out \in Memory(4 * PathBands) /\ transfer \in Memory(4 * PathBands) /\ scale \in Doubles
      BY <1>1, DataIn, ScalarIn, 6 \in Nat, 7 \in Nat, 19 \in Nat
    <2>2. ASSUME NEW ear \in 0 .. 1
          PROVE  histories[ear] \in Memory(2 * PathBands)
      <3>1. 8 + ear \in Nat
        OBVIOUS
      <3>2. Data(8 + ear, 2 * PathBands) \in Memory(2 * PathBands)
        BY <1>1, <3>1, DataIn
      <3>3. QED
        BY <3>2
    <2> HIDE DEF out, transfer, histories, scale
    <2>3. QED
      BY <2>1, <2>2 DEF PathInputs
  <1>3. \A i : Written(i, "render_hybrid_path", 1) = render_hybrid_path(i, out, transfer, histories, scale)
    BY DEF Written
  <1> HIDE DEF out, transfer, histories, scale
  <1>4. /\ PathAvx2(out, transfer, histories, scale) = PathScalar(out, transfer, histories, scale)
        /\ PathAvx512(out, transfer, histories, scale) = PathScalar(out, transfer, histories, scale)
        /\ PathNeon(out, transfer, histories, scale) = PathScalar(out, transfer, histories, scale)
    BY <1>2, PathAvx2IsScalar, PathAvx512IsScalar, PathNeonIsScalar
  <1>5. QED
    BY <1>3, <1>4 DEF render_hybrid_path

\* The accumulation, called by any unit but NEON.
LEMMA AxpyWritten ==
    ASSUME NEW n \in 0 .. MaxCount, NEW isa, isa # "neon"
    PROVE  Written(isa, "complex_axpy", n) = Written("scalar", "complex_axpy", n)
  <1> DEFINE out == Data(10, 2 * n)
             field == Data(11, 2 * n)
             scale == Scalar(20)
  <1>1. n \in Nat /\ 2 * n \in Int
    BY CallsAssumption
  <1>2. out \in Memory(2 * n) /\ field \in Memory(2 * n) /\ scale \in Doubles
    BY <1>1, DataIn, ScalarIn, 10 \in Nat, 11 \in Nat, 20 \in Nat
  <1>3. \A i : Written(i, "complex_axpy", n) = complex_axpy(i, out, field, scale, n)
    BY DEF Written
  <1> HIDE DEF out, field, scale
  <1>4. \A c \in {2, 4} : Axpy(out, field, scale, n, c, 2 * c) = AxpyScalar(out, field, scale, n)
    BY <1>1, <1>2, AxpyIsScalar
  <1>5. 2 * 2 = 4 /\ 2 * 4 = 8
    OBVIOUS
  <1>6. /\ AxpyAvx2(out, field, scale, n) = AxpyScalar(out, field, scale, n)
        /\ AxpyAvx512(out, field, scale, n) = AxpyScalar(out, field, scale, n)
    BY <1>4, <1>5 DEF AxpyAvx2, AxpyAvx512
  <1>7. QED
    BY <1>3, <1>6 DEF complex_axpy

\* The analysis, called by any unit.
LEMMA AnalysisWritten ==
    ASSUME NEW n \in 0 .. MaxCount, NEW isa
    PROVE  Written(isa, "qmf_analysis_taps", n) = Written("scalar", "qmf_analysis_taps", n)
  <1> DEFINE out == Data(12, n * AnalysisBands)
             source == Data(13, n * AnalysisBands)
             coefficients == Data(14, AnalysisBands)
  <1>1. n \in Nat /\ n * AnalysisBands \in Int /\ AnalysisBands \in Int
    BY CallsAssumption, SizesAssumption, SMTT(30)
  <1>2. /\ out \in Memory(n * AnalysisBands) /\ source \in Memory(n * AnalysisBands)
        /\ coefficients \in Memory(AnalysisBands)
    BY <1>1, DataIn, 12 \in Nat, 13 \in Nat, 14 \in Nat
  <1>3. \A i : Written(i, "qmf_analysis_taps", n) = qmf_analysis_taps(i, out, source, coefficients, n)
    BY DEF Written
  <1> HIDE DEF out, source, coefficients
  <1>4. \A width \in {2, 4, 8} : Analysis(out, source, coefficients, n, width)
                                  = AnalysisScalar(out, source, coefficients, n)
    BY <1>1, <1>2, AnalysisIsScalar
  <1>5. QED
    BY <1>3, <1>4 DEF qmf_analysis_taps, AnalysisAvx2, AnalysisAvx512, AnalysisNeon

\* The multiplication, called by any unit.
LEMMA MultiplyWritten ==
    ASSUME NEW n \in 0 .. MaxCount, NEW isa
    PROVE  Written(isa, "complex_multiply", n) = Written("scalar", "complex_multiply", n)
  <1> DEFINE out == Data(15, 2 * n)
             left == Data(16, 2 * n)
             right == Data(17, 2 * n)
  <1>1. n \in Nat /\ 2 * n \in Int
    BY CallsAssumption
  <1>2. out \in Memory(2 * n) /\ left \in Memory(2 * n) /\ right \in Memory(2 * n)
    BY <1>1, DataIn, 15 \in Nat, 16 \in Nat, 17 \in Nat
  <1>3. \A i : Written(i, "complex_multiply", n) = complex_multiply(i, out, left, right, n)
    BY DEF Written
  <1> HIDE DEF out, left, right
  <1>4. /\ MultiplyAvx2(out, left, right, n) = MultiplyScalar(left, right, n)
        /\ MultiplyAvx512(out, left, right, n) = MultiplyScalar(left, right, n)
        /\ MultiplyNeon(out, left, right, n) = MultiplyScalar(left, right, n)
    BY <1>1, <1>2, MultiplyAvx2IsScalar, MultiplyAvx512IsScalar, MultiplyNeonIsScalar
  <1>5. QED
    BY <1>3, <1>4 DEF complex_multiply

\* Whatever unit does the work of a call, it writes what the scalar reference does.
LEMMA UnitsAgree ==
    ASSUME NEW kernel \in KernelNames, NEW n \in Counts[kernel], NEW isa, kernel = "complex_axpy" => isa # "neon"
    PROVE  Written(isa, kernel, n) = Written("scalar", kernel, n)
  <1>1. CASE kernel = "fft_butterflies"
    BY <1>1, FftWritten DEF Counts, KernelNames
  <1>2. CASE kernel = "render_hybrid_path"
    BY <1>2, PathWritten DEF Counts, KernelNames
  <1>3. CASE kernel \notin {"fft_butterflies", "render_hybrid_path"}
    <2>1. n \in 0 .. MaxCount
      BY <1>3 DEF Counts
    <2>2. QED
      BY <1>3, <2>1, SynthesisWritten, HybridWritten, AxpyWritten, AnalysisWritten, MultiplyWritten DEF KernelNames
  <1>4. QED
    BY <1>1, <1>2, <1>3

\* The transform in place does not depend on the unit: plans agree with it.
LEMMA PlansAreInPlace ==
    ASSUME NEW n \in PlanSizes, NEW isa, NEW inverse
    PROVE  PlanBits(isa, n, inverse) = InPlaceBits(n, inverse)
  <1>1. n \in Nat /\ IsPowerOfTwo(n) /\ Turnable(n)
    BY Planned
  <1>2. Data(18, 2 * n) \in Memory(2 * n)
    BY <1>1, DataIn, 18 \in Nat, 2 * n \in Int
  <1>3. QED
    BY <1>1, <1>2, PlanIsInPlace DEF PlanBits, InPlaceBits

-----------------------------------------------------------------------------
(* The process.                                                            *)

\* Calls are made through the table, with what it names for as long as it is
\* fixed: what a call wrote is what the unit in the table writes.
CallsInv ==
    /\ selected = Unresolved => call = Idle
    /\ call.name \in KernelNames =>
           /\ call.n \in Counts[call.name]
           /\ call.wrote = Written(active[call.name], call.name, call.n)
    /\ call.name = "plan" =>
           /\ call.n \in PlanSizes
           /\ call.wrote = PlanBits(active["fft_butterflies"], call.n, call.inverse)

\* The invariant of the calls is inductive: the table no longer changes after a call.
LEMMA CallsInductive ==
    /\ Init => CallsInv
    /\ CallsInv /\ [Next]_vars => CallsInv'
  <1>0. "idle" \notin KernelNames /\ "plan" \notin KernelNames /\ "any" \notin KernelNames
    BY DEF KernelNames
  <1>1. Init => CallsInv
    BY <1>0 DEF Init, DispatchInit, CallsInv, Idle
  <1>2. ASSUME CallsInv, [Next]_vars PROVE CallsInv'
    <2>1. CASE Resolve
      <3>1. call = Idle /\ call' = call
        BY <1>2, <2>1 DEF Resolve, resolve, CallsInv
      <3>2. (call').name = "idle" /\ call' = Idle
        BY <3>1, SMTT(30) DEF Idle
      <3>3. QED
        BY <1>0, <3>2 DEF CallsInv
    <2>2. CASE Return
      <3>1. call' = Idle /\ (call').name = "idle"
        BY <2>2 DEF Return, Idle
      <3>2. QED
        BY <1>0, <3>1 DEF CallsInv
    <2>3. CASE \E kernel \in KernelNames : \E n \in Counts[kernel] : CallKernel(kernel, n)
      <3>0. PICK kernel \in KernelNames : \E n \in Counts[kernel] : CallKernel(kernel, n)
        BY <2>3
      <3>1. PICK n \in Counts[kernel] : CallKernel(kernel, n)
        BY <3>0
      <3> DEFINE bits == Written(active[kernel], kernel, n)
      <3>2. /\ selected # Unresolved /\ selected' = selected /\ active' = active
            /\ call' = [name |-> kernel, n |-> n, inverse |-> FALSE, wrote |-> bits]
        BY <3>1, IsEvaluated DEF CallKernel, dispatch_vars
      <3> HIDE DEF bits
      <3>3. (call').name = kernel /\ (call').n = n /\ (call').wrote = bits
        BY <3>2
      <3>4. Written((active')[kernel], kernel, n) = bits
        BY <3>2 DEF bits
      <3>5. QED
        BY <1>0, <3>2, <3>3, <3>4 DEF CallsInv
    <2>4. CASE \E n \in PlanSizes, inverse \in BOOLEAN : CallPlan(n, inverse)
      <3>1. PICK n \in PlanSizes, inverse \in BOOLEAN : CallPlan(n, inverse)
        BY <2>4
      <3> DEFINE bits == PlanBits(active["fft_butterflies"], n, inverse)
                 field == PlanField(active["fft_butterflies"], n, inverse)
      <3>2. /\ selected # Unresolved /\ selected' = selected /\ active' = active
            /\ call' = [name |-> "plan", n |-> n, inverse |-> inverse, wrote |-> bits, exact |-> field]
        BY <3>1, IsEvaluated DEF CallPlan, dispatch_vars
      <3> HIDE DEF bits, field
      <3>3. (call').name = "plan" /\ (call').n = n /\ (call').inverse = inverse /\ (call').wrote = bits
        BY <3>2
      <3>4. PlanBits((active')["fft_butterflies"], n, inverse) = bits
        BY <3>2 DEF bits
      <3>5. QED
        BY <1>0, <3>2, <3>3, <3>4 DEF CallsInv
    <2>5. CASE \E n \in AnySizes, inverse \in BOOLEAN : CallAny(n, inverse)
      <3>1. PICK n \in AnySizes, inverse \in BOOLEAN : CallAny(n, inverse)
        BY <2>5
      <3>2. selected # Unresolved /\ selected' = selected /\ (call').name = "any"
        BY <3>1 DEF CallAny, dispatch_vars
      <3>3. QED
        BY <1>0, <3>2 DEF CallsInv
    <2>6. CASE UNCHANGED vars
      BY <1>2, <2>6 DEF CallsInv, vars, dispatch_vars
    <2>7. QED
      BY <1>2, <2>1, <2>2, <2>3, <2>4, <2>5, <2>6 DEF Next
  <1>3. QED
    BY <1>1, <1>2

\* What the invariant says of a call makes its bits the reference's.
LEMMA CallsAgree == CallsInv => BitsAreScalar
  <1> SUFFICES ASSUME CallsInv, ~NeonAxpy
               PROVE  CallIsScalar
    BY DEF BitsAreScalar
  <1>1. ASSUME call.name \in KernelNames
        PROVE  call.wrote = Written("scalar", call.name, call.n)
    <2>1. call.n \in Counts[call.name] /\ call.wrote = Written(active[call.name], call.name, call.n)
      BY <1>1 DEF CallsInv
    <2>2. call.name = "complex_axpy" => active[call.name] # "neon"
      BY DEF NeonAxpy
    <2>3. QED
      BY <1>1, <2>1, <2>2, UnitsAgree
  <1>2. ASSUME call.name = "plan"
        PROVE  call.wrote = InPlaceBits(call.n, call.inverse)
    BY <1>2, PlansAreInPlace DEF CallsInv
  <1>3. QED
    BY <1>1, <1>2 DEF CallIsScalar

\* Whatever the build and the machine, and whatever unit the table names for a
\* kernel: a call writes the bits the scalar reference writes, NEON's accumulation
\* aside, and a plan applied writes the bits of the transform in place.
THEOREM CallsAlwaysHaveScalarBits == Spec => []BitsAreScalar
  BY CallsInductive, CallsAgree, PTL DEF Spec

=============================================================================
