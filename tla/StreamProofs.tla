---------------------------- MODULE StreamProofs ----------------------------
(***************************************************************************)
(* Proofs about Stream for every configuration, every program and every    *)
(* sequence of pushes, pulls, flushes and resets.                          *)
(***************************************************************************)
EXTENDS Stream, SequenceTheorems, TLAPS

-----------------------------------------------------------------------------
(***************************************************************************)
(* Where the rendered samples are.                                         *)
(***************************************************************************)
Token == Nat \X Nat

Heard == delivered \o output \o fifo
All == Heard \o line \o staged

\* UnitsConserved, of a sequence and the number of frames rendered.
UnitsOf(n) == {<<m, u>> : m \in 1 .. n, u \in 0 .. FrameUnits - 1}
InOrder(all, n) ==
    /\ Range(all) \ {Silence} = UnitsOf(n)
    /\ \A i, j \in DOMAIN all : i < j /\ Silence \notin {all[i], all[j]} => Precedes(all[i], all[j])

\* Only silence follows silence.
TailIsLast(s) == \A i, j \in 1 .. Len(s) : i < j /\ s[i] = Silence => s[j] = Silence

SoundTypes ==
    /\ setup \in Setups
    /\ delivered \in Seq(Token) /\ output \in Seq(Token) /\ fifo \in Seq(Token)
    /\ line \in Seq(Token) /\ staged \in Seq(Token)
    /\ Len(rendered) \in Nat /\ samplesOut \in Nat /\ flushes \in Nat /\ finished \in BOOLEAN

\* A runtime holds less than a chunk, and what its delay keeps: silence, until
\* it has rendered something, and when it is finished.
Runtime ==
    /\ \E k \in 0 .. Chunk - 1 : Len(staged) = k * FrameUnits
    /\ Len(line) <= Latency
    /\ Len(line) < Latency => Range(line) \subseteq {Silence}
    /\ Output # "rosella" => staged = <<>> /\ fifo = <<>> /\ ~finished
    /\ finished => staged = <<>> /\ fifo = <<>> /\ Range(line) \subseteq {Silence}

Conserved ==
    /\ InOrder(All, Len(rendered))
    /\ samplesOut = Len(delivered) + Buffered
    /\ Output = "rosella" => IF finished THEN TailIsLast(Heard) ELSE Silence \notin Range(All)

SoundInv == SoundTypes /\ Runtime /\ Conserved /\ RenderAheadBounded

\* Where a call stands.
CallInv ==
    /\ at \in {"read", "prepare"} => input = "eac3"
    /\ at = "finish" => op = "flush" /\ (input = "objects16" \/ bedChannels # 0 => ~FrameReady)
    /\ op = "flush" => flushes > 0
    /\ FlushDrains

-----------------------------------------------------------------------------
(***************************************************************************)
(* Which frame everything belongs to.                                      *)
(***************************************************************************)
Entry == [streams : SUBSET Nat, joc : Nat, update : Nat]
Rendering == [entry : Entry, pcm : Nat, bed : BOOLEAN]

FrameTypes ==
    /\ setup \in Setups /\ input \in Inputs /\ syncframes \in Programs
    /\ taken \in 0 .. Len(syncframes)
    /\ pending \in Entry /\ metadata \in Seq(Entry) /\ rendered \in Seq(Rendering)
    /\ pcmTaken \in Nat /\ flushes \in Nat /\ pass \in Nat \ {0}
    /\ bedReady \in BOOLEAN /\ bedSet \in BOOLEAN
    /\ input = "objects16" => pending = NoEntry /\ metadata = <<>>

\* MetadataIsOwn, of one frame of a sequence of syncframes.
IsOwn(s, e) ==
    /\ {e.joc, e.update} \subseteq e.streams \cup {0}
    /\ e.update # 0 => e.joc # 0
    /\ e.joc = 0 => \A i \in e.streams : s[i].meta = "none" \/ s[i].fault = "container"

OwnInv ==
    /\ IsOwn(syncframes, pending)
    /\ \A e \in Range(metadata) : IsOwn(syncframes, e)
    /\ \A r \in Range(rendered) : IsOwn(syncframes, r.entry)

\* The syncframes of the k-th audio frame among the first n.
Among(s, k, n) == {i \in 1 .. n : s[i].frame = k}

\* The audio frames rendered, queued and under assembly follow one another.
Paired(s, n, queue, done, entry, played) ==
    /\ \A j \in 1 .. Len(queue) : queue[j].streams = Among(s, done + j, n)
    /\ \A r \in Range(played) : r.pcm <= done /\ r.entry.streams = Among(s, r.pcm, n)
    /\ entry.streams = Among(s, done + Len(queue) + 1, n)
    /\ \A i \in 1 .. n : s[i].frame <= done + Len(queue) + 1

PairInv ==
    input = "eac3" /\ "cross" \notin failures /\ (flushes = 0 \/ ~LatePush) =>
        /\ Paired(syncframes, taken, metadata, pcmTaken, pending, rendered)
        /\ flushes = 0 /\ taken = 0 => pcmTaken + Len(metadata) = 0
        /\ flushes = 0 /\ taken # 0 => syncframes[taken].frame = pcmTaken + Len(metadata) + 1

\* The beds that the frames rendered and queued declare, in this order.
Declares(s, e) == IF e.update = 0 THEN "none" ELSE s[e.update].bed
Declared(s, played, queue) ==
    [n \in 1 .. Len(played) + Len(queue) |->
        Declares(s, IF n <= Len(played) THEN played[n].entry ELSE queue[n - Len(played)])]

\* The n-th declaration is the first, and it is a bed without objects.
Settles(beds, n) == beds[n] = "only" /\ \A m \in 1 .. n - 1 : beds[m] = "none"

BedInv ==
    failures = {} /\ pass = 1 =>
        LET beds == Declared(syncframes, rendered, metadata) IN
        /\ \A n \in 1 .. Len(rendered) + Len(metadata) : Settles(beds, n) => bedSet
        /\ (\A n \in 1 .. Len(rendered) + Len(metadata) : beds[n] = "none") => ~bedReady
        /\ Output # "objects16" =>
              \A n \in 1 .. Len(rendered) :
                  Settles(beds, n) => \A m \in n .. Len(rendered) : rendered[m].bed

FrameInv == FrameTypes /\ OwnInv /\ PairInv /\ BedInv

\* Reading goes on only until the caller flushes, if it does not push after that.
ReadInv == at = "read" => input = "eac3" /\ (flushes = 0 \/ LatePush)

-----------------------------------------------------------------------------
(***************************************************************************)
(* The configuration.                                                      *)
(***************************************************************************)
LEMMA SetupTypes ==
    ASSUME setup \in Setups
    PROVE  /\ Chunk \in Nat \ {0} /\ Latency \in Nat /\ TailUnits \in Nat
           /\ Latency <= TailUnits /\ Latency < FrameUnits
           /\ Output # "rosella" => Chunk = 1
           /\ TailUnits = 0 <=> Output \in {"objects16", "speaker"}
           /\ Output \in {"objects16", "speaker", "sofa", "rosella"}
           /\ FrameUnits \in Nat \ {0} /\ Cap \in Nat \ {0} /\ MaxPush \in Nat
           /\ LatePush \in BOOLEAN
  BY StreamAssumption DEF Chunk, Latency, TailUnits, Output, MaxPush, LatePush

\* A step keeps the configuration.
LEMMA SetupStays ==
    ASSUME setup' = setup
    PROVE  /\ Chunk' = Chunk /\ Latency' = Latency /\ TailUnits' = TailUnits /\ Output' = Output
           /\ LatePush' = LatePush
  BY DEF Chunk, Latency, TailUnits, Output, LatePush

\* Nothing is in the empty sequence.
LEMMA EmptyRange == Range(<<>>) = {}
  <1>1. <<>> \in Seq(Token) /\ Len(<<>>) = 0
    BY EmptySeq
  <1>2. Range(<<>>) = {<<>>[i] : i \in 1 .. Len(<<>>)}
    BY <1>1, RangeEquality
  <1>3. 1 .. Len(<<>>) = {}
    BY <1>1
  <1>4. QED
    BY <1>2, <1>3

-----------------------------------------------------------------------------
(***************************************************************************)
(* Sequences of tokens.                                                    *)
(***************************************************************************)
\* A sequence cut in two.
LEMMA CutInTwo ==
    ASSUME NEW s \in Seq(Token), NEW c \in 0 .. Len(s)
    PROVE  /\ SubSeq(s, 1, c) \in Seq(Token) /\ SubSeq(s, c + 1, Len(s)) \in Seq(Token)
           /\ Len(SubSeq(s, 1, c)) = c /\ Len(SubSeq(s, c + 1, Len(s))) = Len(s) - c
           /\ SubSeq(s, 1, c) \o SubSeq(s, c + 1, Len(s)) = s
  <1>1. Len(s) \in Nat /\ s \in [1 .. Len(s) -> Token]
    BY LenProperties
  <1>2. \A i \in 1 .. c : s[i] \in Token
    BY <1>1
  <1>3. \A i \in c + 1 .. Len(s) : s[i] \in Token
    BY <1>1
  <1>4. SubSeq(s, 1, c) \in Seq(Token) /\ Len(SubSeq(s, 1, c)) = c
    BY <1>1, <1>2, SubSeqProperties
  <1>5. /\ SubSeq(s, c + 1, Len(s)) \in Seq(Token)
        /\ Len(SubSeq(s, c + 1, Len(s))) = Len(s) - c
    <2>1. CASE c = Len(s)
      <3>1. SubSeq(s, c + 1, Len(s)) = <<>>
        BY <1>1, <2>1, SubSeqEmpty
      <3>2. QED
        BY <1>1, <2>1, <3>1, EmptySeq
    <2>2. CASE c < Len(s)
      <3>1. c + 1 \in Int /\ Len(s) \in Int /\ c + 1 <= Len(s) /\ Len(s) - (c + 1) + 1 = Len(s) - c
        BY <1>1, <2>2
      <3>2. QED
        BY <1>3, <3>1, SubSeqProperties
    <2>3. c = Len(s) \/ c < Len(s)
      <3>1. Len(s) \in Nat
        BY <1>1
      <3>2. QED
        BY <3>1
    <2>4. QED
      BY <2>1, <2>2, <2>3
  <1>6. 1 \in 1 .. Len(s) + 1 /\ c \in 1 - 1 .. Len(s) /\ Len(s) \in c .. Len(s)
    BY <1>1
  <1>7. SubSeq(s, 1, c) \o SubSeq(s, c + 1, Len(s)) = SubSeq(s, 1, Len(s))
    BY <1>6, ConcatAdjacentSubSeq
  <1>8. QED
    BY <1>4, <1>5, <1>7, SubSeqFull

\* Concatenation.
LEMMA Associative ==
    \A x, y, z \in Seq(Token) : (x \o y) \o z = x \o (y \o z)
  BY ConcatAssociative

\* A concatenation of tokens consists of tokens.
LEMMA Closed ==
    \A x, y \in Seq(Token) : x \o y \in Seq(Token)
  BY ConcatProperties

\* What is released goes from the front of one sequence to the end of another.
LEMMA ReleaseKeeps ==
    ASSUME NEW o \in Seq(Token), NEW q \in Seq(Token), NEW c \in 0 .. Len(q)
    PROVE  /\ o \o SubSeq(q, 1, c) \in Seq(Token)
           /\ Len(o \o SubSeq(q, 1, c)) = Len(o) + c
           /\ SubSeq(q, c + 1, Len(q)) \in Seq(Token)
           /\ Len(SubSeq(q, c + 1, Len(q))) = Len(q) - c
           /\ (o \o SubSeq(q, 1, c)) \o SubSeq(q, c + 1, Len(q)) = o \o q
  <1> DEFINE a == SubSeq(q, 1, c)
             b == SubSeq(q, c + 1, Len(q))
  <1>1. a \in Seq(Token) /\ b \in Seq(Token) /\ Len(a) = c /\ Len(b) = Len(q) - c /\ a \o b = q
    BY CutInTwo
  <1> HIDE DEF a, b
  <1>2. o \o a \in Seq(Token) /\ Len(o \o a) = Len(o) + c
    BY <1>1, ConcatProperties
  <1>3. (o \o a) \o b = o \o (a \o b)
    BY <1>1, Associative
  <1>4. QED
    BY <1>1, <1>2, <1>3 DEF a, b

\* The tokens of a frame, and silence.
LEMMA NewTokens ==
    /\ Silence \in Token
    /\ \A n \in Nat : FrameTokens(n) \in Seq(Token) /\ Len(FrameTokens(n)) = FrameUnits
    /\ \A n \in Nat : /\ SilentTokens(n) \in Seq(Token) /\ Len(SilentTokens(n)) = n
                      /\ Range(SilentTokens(n)) \subseteq {Silence}
  <1>1. FrameUnits \in Nat \ {0}
    BY StreamAssumption
  <1>2. Silence \in Token
    BY DEF Silence, Token
  <1>3. ASSUME NEW n \in Nat
        PROVE  FrameTokens(n) \in Seq(Token) /\ Len(FrameTokens(n)) = FrameUnits
    <2>1. \A i \in 1 .. FrameUnits : <<n, i - 1>> \in Token
      BY <1>1 DEF Token
    <2>2. FrameTokens(n) \in [1 .. FrameUnits -> Token]
      BY <2>1 DEF FrameTokens
    <2>3. QED
      BY <1>1, <2>2
  <1>4. ASSUME NEW n \in Nat
        PROVE  /\ SilentTokens(n) \in Seq(Token) /\ Len(SilentTokens(n)) = n
               /\ Range(SilentTokens(n)) \subseteq {Silence}
    <2>1. SilentTokens(n) \in [1 .. n -> Token] /\ DOMAIN SilentTokens(n) = 1 .. n
      BY <1>2 DEF SilentTokens
    <2>2. Range(SilentTokens(n)) \subseteq {Silence}
      BY DEF SilentTokens, Range
    <2>3. QED
      BY <2>1, <2>2
  <1>5. QED
    BY <1>2, <1>3, <1>4

\* All stays in order when the next frame's tokens, or silence, come last.
LEMMA FrameInOrder ==
    ASSUME NEW s \in Seq(Token), NEW n \in Nat, InOrder(s, n)
    PROVE  InOrder(s \o FrameTokens(n + 1), n + 1)
  <1> DEFINE t == FrameTokens(n + 1)
             L == Len(s)
             a == s \o t
  <1>1. t \in Seq(Token) /\ Len(t) = FrameUnits
    <2>1. n + 1 \in Nat
      OBVIOUS
    <2>2. QED
      BY <2>1, NewTokens
  <1>2. L \in Nat /\ DOMAIN s = 1 .. L /\ s \in [1 .. L -> Token]
    BY LenProperties
  <1>3. FrameUnits \in Nat \ {0}
    BY StreamAssumption
  <1>4. /\ t \in Seq(Token) /\ Len(t) = FrameUnits /\ FrameUnits \in Nat \ {0}
        /\ L \in Nat /\ DOMAIN s = 1 .. L /\ s \in [1 .. L -> Token]
    BY <1>1, <1>2, <1>3
  <1>5. \A i \in 1 .. FrameUnits : t[i] = <<n + 1, i - 1>>
    BY DEF FrameTokens
  <1>6. DOMAIN t = 1 .. FrameUnits
    BY DEF FrameTokens
  <1> HIDE DEF t
  <1>7. /\ a \in Seq(Token) /\ DOMAIN a = 1 .. L + FrameUnits
        /\ \A i \in 1 .. L + FrameUnits : a[i] = IF i <= L THEN s[i] ELSE t[i - L]
    <2>1. /\ a \in Seq(Token) /\ Len(a) = Len(s) + Len(t)
          /\ \A i \in 1 .. Len(s) + Len(t) : a[i] = IF i <= Len(s) THEN s[i] ELSE t[i - Len(s)]
      BY <1>4, ConcatProperties
    <2>2. DOMAIN a = 1 .. Len(a)
      BY <2>1, LenProperties
    <2>3. QED
      BY <1>4, <2>1, <2>2
  <1>8. Range(a) = Range(s) \cup Range(t)
    BY <1>4, RangeConcatenation
  <1>9. Range(t) = {<<n + 1, u>> : u \in 0 .. FrameUnits - 1}
    <2>1. \A u \in 0 .. FrameUnits - 1 : u + 1 \in 1 .. FrameUnits /\ t[u + 1] = <<n + 1, u>>
      BY <1>4, <1>5
    <2>2. \A i \in 1 .. FrameUnits : i - 1 \in 0 .. FrameUnits - 1 /\ t[i] = <<n + 1, i - 1>>
      BY <1>4, <1>5
    <2>3. QED
      BY <1>6, <2>1, <2>2 DEF Range
  <1>10. Silence \notin Range(t)
    BY <1>9 DEF Silence
  <1>11. UnitsOf(n + 1) = UnitsOf(n) \cup Range(t)
    <2>1. 1 .. n + 1 = 1 .. n \cup {n + 1}
      OBVIOUS
    <2>2. QED
      BY <1>9, <2>1 DEF UnitsOf
  <1>12. Range(a) \ {Silence} = UnitsOf(n + 1)
    BY <1>8, <1>10, <1>11 DEF InOrder
  <1> HIDE DEF a
  <1>13. ASSUME NEW i \in DOMAIN a, NEW j \in DOMAIN a, i < j, Silence \notin {a[i], a[j]}
         PROVE  Precedes(a[i], a[j])
    <2>1. CASE j <= L
      <3>1. i \in DOMAIN s /\ j \in DOMAIN s /\ a[i] = s[i] /\ a[j] = s[j]
        BY <1>4, <1>7, <1>13, <2>1
      <3>2. QED
        BY <1>13, <3>1 DEF InOrder
    <2>2. CASE ~(j <= L) /\ i <= L
      <3>1. i \in DOMAIN s /\ a[i] = s[i] /\ j - L \in 1 .. FrameUnits /\ a[j] = t[j - L]
        BY <1>4, <1>7, <1>13, <2>2
      <3>2. a[i] \in UnitsOf(n)
        <4>1. s[i] \in Range(s) \ {Silence}
          BY <1>13, <3>1 DEF Range
        <4>2. QED
          BY <3>1, <4>1 DEF InOrder
      <3>3. PICK m \in 1 .. n, u \in 0 .. FrameUnits - 1 : a[i] = <<m, u>>
        BY <3>2 DEF UnitsOf
      <3>4. a[j] = <<n + 1, j - L - 1>>
        BY <1>5, <3>1
      <3>5. a[i][1] < a[j][1]
        BY <3>3, <3>4
      <3>6. QED
        BY <3>5 DEF Precedes
    <2>3. CASE ~(i <= L)
      <3>1. /\ i - L \in 1 .. FrameUnits /\ a[i] = t[i - L]
            /\ j - L \in 1 .. FrameUnits /\ a[j] = t[j - L]
        BY <1>4, <1>7, <1>13, <2>3
      <3>2. a[i] = <<n + 1, i - L - 1>> /\ a[j] = <<n + 1, j - L - 1>>
        BY <1>5, <3>1
      <3>3. a[i][1] = a[j][1] /\ a[i][2] < a[j][2]
        BY <1>4, <1>7, <1>13, <3>2
      <3>4. QED
        BY <3>3 DEF Precedes
    <2>4. QED
      BY <2>1, <2>2, <2>3
  <1>14. InOrder(a, n + 1)
    BY <1>12, <1>13 DEF InOrder
  <1>15. QED
    BY <1>14 DEF a, t

\* Silence at the end leaves the order as it is.
LEMMA SilenceInOrder ==
    ASSUME NEW s \in Seq(Token), NEW t \in Seq(Token), NEW n, InOrder(s, n), Range(t) \subseteq {Silence}
    PROVE  InOrder(s \o t, n)
  <1> DEFINE a == s \o t
             L == Len(s)
  <1>1. /\ L \in Nat /\ DOMAIN s = 1 .. L /\ Len(t) \in Nat /\ DOMAIN t = 1 .. Len(t)
    BY LenProperties
  <1>2. /\ DOMAIN a = 1 .. L + Len(t)
        /\ \A i \in 1 .. L + Len(t) : a[i] = IF i <= L THEN s[i] ELSE t[i - L]
    BY <1>1, ConcatProperties, LenProperties
  <1>3. Range(a) = Range(s) \cup Range(t)
    BY RangeConcatenation
  <1>4. Range(a) \ {Silence} = UnitsOf(n)
    BY <1>3 DEF InOrder
  <1> HIDE DEF a
  <1>5. ASSUME NEW i \in DOMAIN a, a[i] # Silence
        PROVE  i \in DOMAIN s /\ a[i] = s[i]
    <2>1. CASE i <= L
      BY <1>1, <1>2, <2>1
    <2>2. CASE ~(i <= L)
      <3>1. i - L \in DOMAIN t /\ a[i] = t[i - L]
        BY <1>1, <1>2, <2>2
      <3>2. t[i - L] \in Range(t)
        BY <3>1 DEF Range
      <3>3. QED
        BY <1>5, <3>1, <3>2
    <2>3. QED
      BY <2>1, <2>2
  <1>6. InOrder(a, n)
    BY <1>4, <1>5 DEF InOrder
  <1>7. QED
    BY <1>6 DEF a

\* Multiples of a frame.
LEMMA Frames ==
    ASSUME NEW f \in Nat \ {0}, NEW k \in Nat, NEW c \in Nat
    PROVE  /\ k * f \in Nat /\ (k + 1) * f = k * f + f
           /\ k < c => k * f + f <= c * f
           /\ k * f < c * f => k < c
  <1>1. k * f \in Nat /\ (k + 1) * f = k * f + f
    OBVIOUS
  <1>2. \A i, j \in Nat : i <= j => i * f <= j * f
    <2>1. ASSUME NEW i \in Nat, NEW j \in Nat, i <= j
          PROVE  i * f <= j * f
      <3>1. PICK e \in Nat : j = i + e
        <4>1. j - i \in Nat /\ j = i + (j - i)
          BY <2>1
        <4>2. QED
          BY <4>1
      <3>2. (i + e) * f = i * f + e * f /\ e * f \in Nat /\ i * f \in Nat
        OBVIOUS
      <3>3. j * f = i * f + e * f
        BY <3>1, <3>2
      <3>4. QED
        BY <3>2, <3>3
    <2>2. QED
      BY <2>1
  <1>3. k < c => k * f + f <= c * f
    <2>1. k < c => k + 1 <= c /\ k + 1 \in Nat
      OBVIOUS
    <2>2. k < c => (k + 1) * f <= c * f
      BY <1>2, <2>1
    <2>3. QED
      BY <1>1, <2>2
  <1>4. k * f < c * f => k < c
    <2>1. ~(k < c) => c <= k
      OBVIOUS
    <2>2. ~(k < c) => c * f <= k * f
      BY <1>2, <2>1
    <2>3. c * f \in Nat
      OBVIOUS
    <2>4. QED
      BY <1>1, <2>2, <2>3
  <1>5. QED
    BY <1>1, <1>3, <1>4

\* All is what was heard, then what the runtime holds.
LEMMA AllTypes ==
    ASSUME SoundTypes
    PROVE  /\ Heard \in Seq(Token) /\ All \in Seq(Token)
           /\ Heard = delivered \o (output \o fifo) /\ All = Heard \o (line \o staged)
  <1>1. /\ delivered \in Seq(Token) /\ output \in Seq(Token) /\ fifo \in Seq(Token)
        /\ line \in Seq(Token) /\ staged \in Seq(Token)
    BY DEF SoundTypes
  <1>2. Heard \in Seq(Token) /\ Heard = delivered \o (output \o fifo)
    BY <1>1, Closed, Associative DEF Heard
  <1>3. Heard \o line \in Seq(Token)
    BY <1>1, <1>2, Closed
  <1>4. (Heard \o line) \o staged \in Seq(Token)
    BY <1>1, <1>3, Closed
  <1>5. (Heard \o line) \o staged = Heard \o (line \o staged)
    BY <1>1, <1>2, Associative
  <1>6. QED
    BY <1>2, <1>4, <1>5 DEF All

\* A frame's tokens are none of them silence.
LEMMA FrameIsHeard ==
    ASSUME NEW n \in Nat
    PROVE  Silence \notin Range(FrameTokens(n + 1))
  <1>1. ASSUME NEW i \in 1 .. FrameUnits
        PROVE  FrameTokens(n + 1)[i] # Silence
    <2>1. FrameTokens(n + 1)[i] = <<n + 1, i - 1>>
      BY DEF FrameTokens
    <2>2. QED
      BY <2>1 DEF Silence
  <1>2. DOMAIN FrameTokens(n + 1) = 1 .. FrameUnits
    BY DEF FrameTokens
  <1>3. QED
    BY <1>1, <1>2 DEF Range

\* release_rosella_output neither loses nor reorders.
LEMMA Released ==
    ASSUME NEW limit \in Nat, NEW queue \in Seq(Token), output \in Seq(Token), ReleaseFifo(limit, queue)
    PROVE  /\ output' \in Seq(Token) /\ fifo' \in Seq(Token)
           /\ output' \o fifo' = output \o queue
           /\ Len(output') + Len(fifo') = Len(output) + Len(queue)
  <1> DEFINE count == IF limit < Len(queue) THEN limit ELSE Len(queue)
  <1>1. count \in 0 .. Len(queue)
    <2>1. Len(queue) \in Nat
      BY LenProperties
    <2>2. QED
      BY <2>1
  <1>2. output' = output \o SubSeq(queue, 1, count) /\ fifo' = SubSeq(queue, count + 1, Len(queue))
    BY DEF ReleaseFifo
  <1> HIDE DEF count
  <1>3. /\ output' \in Seq(Token) /\ Len(output') = Len(output) + count
        /\ fifo' \in Seq(Token) /\ Len(fifo') = Len(queue) - count
        /\ output' \o fifo' = output \o queue
    BY <1>1, <1>2, ReleaseKeeps
  <1>4. Len(queue) \in Nat /\ Len(output) \in Nat
    BY LenProperties
  <1>5. QED
    BY <1>1, <1>3, <1>4

\* What does not touch the rendered samples.
LEMMA KeptSound ==
    ASSUME SoundInv, setup' = setup, UNCHANGED <<staged, line, finished, fifo, output, samplesOut>>,
           delivered' = delivered, rendered' = rendered, flushes' \in Nat, flushes' = 0 => flushes = 0
    PROVE  SoundInv'
  <1>1. /\ staged' = staged /\ line' = line /\ finished' = finished /\ fifo' = fifo
        /\ output' = output /\ samplesOut' = samplesOut
    OBVIOUS
  <1>2. Heard' = Heard /\ All' = All /\ Buffered' = Buffered
    BY <1>1 DEF Heard, All, Buffered
  <1>3. SoundTypes'
    BY <1>1 DEF SoundInv, SoundTypes
  <1>4. Runtime'
    BY <1>1, SetupStays DEF SoundInv, Runtime
  <1>5. Conserved'
    BY <1>1, <1>2, SetupStays DEF SoundInv, Conserved
  <1>6. RenderAheadBounded'
    BY <1>1, SetupStays DEF SoundInv, RenderAheadBounded
  <1>7. QED
    BY <1>3, <1>4, <1>5, <1>6 DEF SoundInv

\* A frame that is collected, and one that makes the runtime render.
LEMMA CollectedSound ==
    ASSUME SoundInv, setup' = setup, ~finished, finished' = finished, delivered' = delivered,
           Len(rendered') = Len(rendered) + 1, flushes' = flushes, MayRender,
           op = "flush" => flushes > 0,
           Submit(FrameTokens(Len(rendered) + 1)),
           Len(staged) + FrameUnits < Chunk * FrameUnits
    PROVE  SoundInv'
  <1> DEFINE u == FrameTokens(Len(rendered) + 1)
  <1>1. SoundTypes /\ Runtime /\ Conserved
    BY DEF SoundInv
  <1>2. /\ setup \in Setups /\ delivered \in Seq(Token) /\ output \in Seq(Token) /\ fifo \in Seq(Token)
        /\ line \in Seq(Token) /\ staged \in Seq(Token) /\ Len(rendered) \in Nat
        /\ samplesOut \in Nat /\ flushes \in Nat
    BY <1>1 DEF SoundTypes
  <1>3. u \in Seq(Token) /\ Len(u) = FrameUnits /\ FrameUnits \in Nat \ {0} /\ Chunk \in Nat \ {0}
    BY <1>2, NewTokens, SetupTypes
  <1>4. Silence \notin Range(u)
    BY <1>2, FrameIsHeard
  <1>5. staged' = staged \o u /\ ReleaseFifo(FrameUnits, fifo) /\ line' = line /\ samplesOut' = samplesOut
    BY <1>3 DEF Submit
  <1> HIDE DEF u
  <1>6. PICK k \in 0 .. Chunk - 1 : Len(staged) = k * FrameUnits
    BY <1>1 DEF Runtime
  <1>7. k \in Nat /\ (k + 1) * FrameUnits = Len(staged) + FrameUnits
    BY <1>3, <1>6, Frames
  <1>8. k + 1 \in 0 .. Chunk - 1
    <2>1. k + 1 \in Nat /\ (k + 1) * FrameUnits < Chunk * FrameUnits
      BY <1>7
    <2>2. k + 1 < Chunk
      BY <1>3, <2>1, Frames
    <2>3. QED
      BY <1>3, <2>1, <2>2
  <1>9. Output = "rosella"
    BY <1>2, <1>3, <1>8, SetupTypes
  <1>10. /\ output' \in Seq(Token) /\ fifo' \in Seq(Token) /\ output' \o fifo' = output \o fifo
         /\ Len(output') + Len(fifo') = Len(output) + Len(fifo)
    BY <1>2, <1>3, <1>5, Released
  <1>11. staged' \in Seq(Token) /\ Len(staged') = (k + 1) * FrameUnits
    BY <1>2, <1>3, <1>5, <1>7, ConcatProperties
  <1>12. Heard' = Heard
    <2>1. Heard' = delivered \o (output' \o fifo')
      <3>1. delivered \in Seq(Token) /\ output' \in Seq(Token) /\ fifo' \in Seq(Token)
        BY <1>2, <1>10
      <3>2. QED
        BY <3>1, Associative DEF Heard
    <2>2. Heard = delivered \o (output \o fifo)
      BY <1>1, AllTypes
    <2>3. QED
      BY <1>10, <2>1, <2>2, Zenon
  <1>13. Heard \in Seq(Token) /\ All \in Seq(Token)
    BY <1>1, AllTypes
  <1>14. All' = All \o u
    <2>1. Heard \o line \in Seq(Token)
      BY <1>2, <1>13, Closed
    <2>2. \A x \in Seq(Token) : (x \o staged) \o u = x \o (staged \o u)
      <3>1. staged \in Seq(Token) /\ u \in Seq(Token)
        BY <1>2, <1>3
      <3>2. QED
        BY <3>1, Associative
    <2>3. All' = (Heard \o line) \o (staged \o u) /\ All = (Heard \o line) \o staged
      BY <1>5, <1>12 DEF All
    <2>4. QED
      BY <2>1, <2>2, <2>3, Zenon
  <1>15. SoundTypes'
    BY <1>2, <1>5, <1>10, <1>11 DEF SoundInv, SoundTypes
  <1>16. Runtime'
    <2>1. Runtime!2 /\ Runtime!3
      BY <1>1 DEF Runtime
    <2>2. /\ Chunk' = Chunk /\ Latency' = Latency /\ Output' = Output /\ Len(line') = Len(line)
          /\ Range(line') = Range(line)
      BY <1>5, SetupStays
    <2>3. QED
      BY <1>8, <1>9, <1>11, <2>1, <2>2 DEF Runtime
  <1>17. Conserved'
    <2>1. InOrder(All, Len(rendered)) /\ samplesOut = Len(delivered) + Buffered /\ Silence \notin Range(All)
      BY <1>1, <1>9 DEF Conserved
    <2>2. InOrder(All', Len(rendered'))
      <3>1. InOrder(All \o FrameTokens(Len(rendered) + 1), Len(rendered) + 1)
        BY <1>2, <1>13, <2>1, FrameInOrder
      <3>2. QED
        BY <1>14, <3>1 DEF u
    <2>3. Buffered' = Buffered
      BY <1>10 DEF Buffered
    <2>4. Silence \notin Range(All')
      <3>1. Range(All \o u) = Range(All) \cup Range(u)
        BY <1>3, <1>13, RangeConcatenation
      <3>2. QED
        BY <1>4, <1>14, <2>1, <3>1
    <2>5. QED
      BY <1>5, <1>9, <2>1, <2>2, <2>3, <2>4, SetupStays DEF Conserved
  <1>18. RenderAheadBounded'
    <2>1. ASSUME flushes' = 0
          PROVE  Len(output') + Len(fifo') < Cap + Chunk * FrameUnits
      <3>1. Len(output) + Len(fifo) < Cap
        BY <1>2, <2>1 DEF MayRender, Buffered
      <3>2. Cap \in Nat /\ Chunk * FrameUnits \in Nat
        BY <1>2, <1>3, SetupTypes
      <3>3. Len(output) \in Nat /\ Len(fifo) \in Nat
        BY <1>2, LenProperties
      <3>4. QED
        BY <1>10, <3>1, <3>2, <3>3
    <2>2. QED
      BY <2>1, SetupStays DEF RenderAheadBounded
  <1>19. QED
    BY <1>15, <1>16, <1>17, <1>18 DEF SoundInv

\* What a runtime emits and retains of the units it processes.
LEMMA EmittedRetained ==
    ASSUME setup \in Setups, NEW p \in Seq(Token), Latency <= Len(p)
    PROVE  /\ Emitted(p) \in Seq(Token) /\ Len(Emitted(p)) = Len(p) - Latency
           /\ Retained(p) \in Seq(Token) /\ Len(Retained(p)) = Latency
           /\ Emitted(p) \o Retained(p) = p
  <1> DEFINE c == Len(p) - Latency
  <1>1. Latency \in Nat /\ Len(p) \in Nat
    BY SetupTypes, LenProperties
  <1>2. c \in 0 .. Len(p) /\ Len(p) - c = Latency
    BY <1>1
  <1> HIDE DEF c
  <1>3. /\ SubSeq(p, 1, c) \in Seq(Token) /\ SubSeq(p, c + 1, Len(p)) \in Seq(Token)
        /\ Len(SubSeq(p, 1, c)) = c /\ Len(SubSeq(p, c + 1, Len(p))) = Len(p) - c
        /\ SubSeq(p, 1, c) \o SubSeq(p, c + 1, Len(p)) = p
    BY <1>2, CutInTwo
  <1>4. Emitted(p) = SubSeq(p, 1, c) /\ Retained(p) = SubSeq(p, c + 1, Len(p))
    BY DEF Emitted, Retained, c
  <1>5. QED
    BY <1>2, <1>3, <1>4 DEF c

\* A frame that completes a chunk: the runtime renders all it has collected.
LEMMA ProcessedSound ==
    ASSUME SoundInv, setup' = setup, ~finished, finished' = finished, delivered' = delivered,
           Len(rendered') = Len(rendered) + 1, flushes' = flushes, MayRender,
           op = "flush" => flushes > 0,
           Submit(FrameTokens(Len(rendered) + 1)),
           ~(Len(staged) + FrameUnits < Chunk * FrameUnits)
    PROVE  SoundInv'
  <1> DEFINE u == FrameTokens(Len(rendered) + 1)
             p == line \o staged \o u
             out == Emitted(p)
  <1>1. SoundTypes /\ Runtime /\ Conserved
    BY DEF SoundInv
  <1>2. /\ setup \in Setups /\ delivered \in Seq(Token) /\ output \in Seq(Token) /\ fifo \in Seq(Token)
        /\ line \in Seq(Token) /\ staged \in Seq(Token) /\ Len(rendered) \in Nat
        /\ samplesOut \in Nat /\ flushes \in Nat
    BY <1>1 DEF SoundTypes
  <1>3. u \in Seq(Token) /\ Len(u) = FrameUnits /\ FrameUnits \in Nat \ {0} /\ Chunk \in Nat \ {0}
    BY <1>2, NewTokens, SetupTypes
  <1>4. Silence \notin Range(u)
    BY <1>2, FrameIsHeard
  <1>5. /\ staged' = <<>> /\ line' = Retained(p) /\ samplesOut' = samplesOut + Len(out)
        /\ IF Output = "rosella" THEN ReleaseFifo(FrameUnits, fifo \o out)
           ELSE output' = output \o out /\ UNCHANGED fifo
    BY <1>3 DEF Submit
  <1> HIDE DEF u
  <1>6. PICK k \in 0 .. Chunk - 1 : Len(staged) = k * FrameUnits
    BY <1>1 DEF Runtime
  <1>7. Len(staged) \in Nat /\ Len(staged) + FrameUnits <= Chunk * FrameUnits
    <2>1. k \in Nat /\ k < Chunk
      BY <1>3, <1>6
    <2>2. QED
      BY <1>3, <1>6, <2>1, Frames
  <1>8. /\ Latency \in Nat /\ Latency < FrameUnits /\ Cap \in Nat /\ Chunk * FrameUnits \in Nat
        /\ Len(line) \in Nat /\ Len(line) <= Latency
    BY <1>1, <1>2, <1>3, SetupTypes, LenProperties DEF Runtime
  <1>9. line \o staged \in Seq(Token) /\ Len(line \o staged) = Len(line) + Len(staged)
    BY <1>2, ConcatProperties
  <1>10. p \in Seq(Token) /\ Len(p) = Len(line) + Len(staged) + FrameUnits
    <2> DEFINE q == line \o staged
    <2>1. q \in Seq(Token) /\ u \in Seq(Token) /\ Len(q) = Len(line) + Len(staged) /\ Len(u) = FrameUnits
      BY <1>3, <1>9
    <2> HIDE DEF q
    <2>2. q \o u \in Seq(Token) /\ Len(q \o u) = Len(q) + Len(u)
      BY <2>1, ConcatProperties
    <2>3. QED
      BY <2>1, <2>2 DEF q
  <1> HIDE DEF p
  <1>11. /\ out \in Seq(Token) /\ Len(out) = Len(p) - Latency
         /\ line' \in Seq(Token) /\ Len(line') = Latency /\ out \o line' = p
    <2>1. Latency <= Len(p)
      BY <1>3, <1>7, <1>8, <1>10
    <2>2. QED
      BY <1>2, <1>5, <1>10, <2>1, EmittedRetained
  <1>12. Len(out) \in Nat /\ Len(out) <= Chunk * FrameUnits
    BY <1>3, <1>7, <1>8, <1>10, <1>11
  <1> HIDE DEF out
  <1>13. /\ output' \in Seq(Token) /\ fifo' \in Seq(Token)
         /\ output' \o fifo' = (output \o fifo) \o out
         /\ Len(output') + Len(fifo') = Len(output) + Len(fifo) + Len(out)
         /\ Output # "rosella" => fifo' = <<>>
    <2>1. Len(output) \in Nat /\ Len(fifo) \in Nat
      BY <1>2, LenProperties
    <2>2. CASE Output = "rosella"
      <3>1. fifo \o out \in Seq(Token) /\ Len(fifo \o out) = Len(fifo) + Len(out)
        BY <1>2, <1>11, ConcatProperties
      <3>2. /\ output' \in Seq(Token) /\ fifo' \in Seq(Token)
            /\ output' \o fifo' = output \o (fifo \o out)
            /\ Len(output') + Len(fifo') = Len(output) + Len(fifo \o out)
        <4>1. ReleaseFifo(FrameUnits, fifo \o out)
          BY <1>5, <2>2
        <4>2. FrameUnits \in Nat /\ output \in Seq(Token) /\ fifo \o out \in Seq(Token)
          BY <1>2, <1>3, <3>1
        <4>3. QED
          BY <4>1, <4>2, Released
      <3>3. (output \o fifo) \o out = output \o (fifo \o out)
        <4>1. output \in Seq(Token) /\ fifo \in Seq(Token) /\ out \in Seq(Token)
          BY <1>2, <1>11
        <4>2. QED
          BY <4>1, Associative
      <3>4. output' \o fifo' = (output \o fifo) \o out
        BY <3>2, <3>3
      <3>5. Len(output') + Len(fifo') = Len(output) + Len(fifo) + Len(out)
        BY <1>12, <2>1, <3>1, <3>2
      <3>6. QED
        BY <2>2, <3>2, <3>4, <3>5
    <2>3. CASE Output # "rosella"
      <3>1. fifo = <<>> /\ fifo' = <<>> /\ output' = output \o out
        BY <1>1, <1>5, <2>3 DEF Runtime
      <3>2. output \o out \in Seq(Token) /\ Len(output \o out) = Len(output) + Len(out)
        BY <1>2, <1>11, ConcatProperties
      <3>3. output \o fifo = output /\ output' \o fifo' = output'
        BY <1>2, <3>1, <3>2, ConcatEmptySeq
      <3>4. Len(fifo) = 0 /\ Len(fifo') = 0 /\ fifo' \in Seq(Token)
        BY <1>2, <3>1, EmptySeq
      <3>5. QED
        BY <1>12, <2>1, <3>1, <3>2, <3>3, <3>4
    <2>4. QED
      BY <2>2, <2>3
  <1>14. Heard \in Seq(Token) /\ All \in Seq(Token)
    BY <1>1, AllTypes
  <1>15. staged' \in Seq(Token) /\ Len(staged') = 0
    BY <1>5, EmptySeq
  <1>16. All' = All \o u
    <2>1. Heard' = Heard \o out
      <3>1. Heard' = delivered \o (output' \o fifo')
        <4>1. delivered \in Seq(Token) /\ output' \in Seq(Token) /\ fifo' \in Seq(Token)
          BY <1>2, <1>13
        <4>2. QED
          BY <4>1, Associative DEF Heard
      <3>2. Heard = delivered \o (output \o fifo) /\ output \o fifo \in Seq(Token)
        BY <1>1, <1>2, AllTypes, Closed
      <3>3. \A x \in Seq(Token) : (delivered \o x) \o out = delivered \o (x \o out)
        <4>1. delivered \in Seq(Token) /\ out \in Seq(Token)
          BY <1>2, <1>11
        <4>2. QED
          BY <4>1, Associative
      <3>4. (delivered \o (output \o fifo)) \o out = delivered \o ((output \o fifo) \o out)
        BY <3>2, <3>3, Zenon
      <3>5. QED
        BY <1>13, <3>1, <3>2, <3>4, Zenon
    <2>2. Heard \o out \in Seq(Token) /\ (Heard \o out) \o line' \in Seq(Token)
      BY <1>11, <1>14, Closed
    <2>3. All' = (Heard \o out) \o line'
      <3>1. All' = ((Heard \o out) \o line') \o <<>>
        BY <1>5, <2>1 DEF All
      <3>2. QED
        BY <2>2, <3>1, ConcatEmptySeq
    <2>4. (Heard \o out) \o line' = (Heard \o (line \o staged)) \o u
      <3> DEFINE q == line \o staged
      <3>1. /\ Heard \in Seq(Token) /\ q \in Seq(Token) /\ u \in Seq(Token)
            /\ out \in Seq(Token) /\ line' \in Seq(Token) /\ out \o line' = q \o u
        BY <1>3, <1>9, <1>11, <1>14 DEF p
      <3> HIDE DEF q
      <3>2. (Heard \o out) \o line' = (Heard \o q) \o u
        <4>1. (Heard \o out) \o line' = Heard \o (out \o line')
          BY <3>1, Associative
        <4>2. (Heard \o q) \o u = Heard \o (q \o u)
          BY <3>1, Associative
        <4>3. QED
          BY <3>1, <4>1, <4>2, Zenon
      <3>3. QED
        BY <3>2 DEF q
    <2>5. All = Heard \o (line \o staged)
      BY <1>1, AllTypes
    <2>6. QED
      BY <2>3, <2>4, <2>5, Zenon
  <1>17. SoundTypes'
    <2>1. samplesOut' \in Nat
      BY <1>2, <1>5, <1>12
    <2>2. QED
      BY <1>2, <1>11, <1>13, <1>15, <2>1 DEF SoundInv, SoundTypes
  <1>18. Runtime'
    <2>1. 0 \in 0 .. Chunk - 1 /\ 0 * FrameUnits = 0
      BY <1>3
    <2>2. Chunk' = Chunk /\ Latency' = Latency /\ Output' = Output
      BY SetupStays
    <2>3. QED
      BY <1>5, <1>8, <1>11, <1>13, <1>15, <2>1, <2>2 DEF Runtime
  <1>19. Conserved'
    <2>1. /\ InOrder(All, Len(rendered)) /\ samplesOut = Len(delivered) + Buffered
          /\ Output = "rosella" => Silence \notin Range(All)
      BY <1>1 DEF Conserved
    <2>2. InOrder(All', Len(rendered'))
      <3>1. InOrder(All \o FrameTokens(Len(rendered) + 1), Len(rendered) + 1)
        BY <1>2, <1>14, <2>1, FrameInOrder
      <3>2. QED
        BY <1>16, <3>1 DEF u
    <2>3. samplesOut' = Len(delivered') + Buffered'
      <3>1. Len(output) \in Nat /\ Len(fifo) \in Nat /\ Len(delivered) \in Nat
        BY <1>2, LenProperties
      <3>2. Buffered' = Len(output) + Len(fifo) + Len(out) /\ Buffered = Len(output) + Len(fifo)
        BY <1>13 DEF Buffered
      <3>3. QED
        BY <1>5, <1>12, <2>1, <3>1, <3>2
    <2>4. Output = "rosella" => Silence \notin Range(All')
      <3>1. Range(All \o u) = Range(All) \cup Range(u)
        BY <1>3, <1>14, RangeConcatenation
      <3>2. QED
        BY <1>4, <1>16, <2>1, <3>1
    <2>5. QED
      BY <2>2, <2>3, <2>4, SetupStays DEF Conserved
  <1>20. RenderAheadBounded'
    <2>1. ASSUME flushes' = 0
          PROVE  Len(output') + Len(fifo') < Cap + Chunk * FrameUnits
      <3>1. Len(output) + Len(fifo) < Cap
        BY <1>2, <2>1 DEF MayRender, Buffered
      <3>2. Len(output) \in Nat /\ Len(fifo) \in Nat
        BY <1>2, LenProperties
      <3>3. QED
        BY <1>8, <1>12, <1>13, <3>1, <3>2
    <2>2. QED
      BY <2>1, SetupStays DEF RenderAheadBounded
  <1>21. QED
    BY <1>17, <1>18, <1>19, <1>20 DEF SoundInv

\* A pull moves samples to the caller.  It never copies from beyond the end.
LEMMA PulledSound ==
    ASSUME SoundInv, setup' = setup, NEW capacity \in Nat, Pull(capacity)
    PROVE  SoundInv'
  <1> DEFINE released == IF capacity < Len(fifo) THEN capacity ELSE Len(fifo)
             out == output \o SubSeq(fifo, 1, released)
             count == IF capacity < Buffered THEN capacity ELSE Buffered
             copied == [i \in 1 .. count |-> IF i <= Len(out) THEN out[i] ELSE Garbage]
  <1>1. SoundTypes /\ Runtime /\ Conserved /\ RenderAheadBounded
    BY DEF SoundInv
  <1>2. /\ setup \in Setups /\ delivered \in Seq(Token) /\ output \in Seq(Token) /\ fifo \in Seq(Token)
        /\ line \in Seq(Token) /\ staged \in Seq(Token) /\ Len(rendered) \in Nat
        /\ samplesOut \in Nat /\ flushes \in Nat /\ finished \in BOOLEAN
    BY <1>1 DEF SoundTypes
  <1>3. /\ delivered' = delivered \o copied /\ output' = SubSeq(out, count + 1, Len(out))
        /\ fifo' = SubSeq(fifo, released + 1, Len(fifo))
    BY DEF Pull
  <1>4. /\ staged' = staged /\ line' = line /\ finished' = finished /\ samplesOut' = samplesOut
        /\ rendered' = rendered /\ flushes' = flushes
    BY DEF Pull
  <1>5. Len(output) \in Nat /\ Len(fifo) \in Nat /\ Len(delivered) \in Nat
    BY <1>2, LenProperties
  <1>6. Buffered = Len(output) + Len(fifo)
    BY DEF Buffered
  <1>7. released \in 0 .. Len(fifo)
    BY <1>5
  <1>8. count \in Nat /\ count <= Len(output) + released
    BY <1>5, <1>6
  <1> HIDE DEF released, count
  <1>9. /\ out \in Seq(Token) /\ Len(out) = Len(output) + released
        /\ fifo' \in Seq(Token) /\ Len(fifo') = Len(fifo) - released
        /\ out \o fifo' = output \o fifo
    BY <1>2, <1>3, <1>7, ReleaseKeeps
  <1> HIDE DEF out
  <1>10. count \in 0 .. Len(out)
    BY <1>5, <1>7, <1>8, <1>9
  <1>11. copied = SubSeq(out, 1, count)
    <2>1. SubSeq(out, 1, count) \in Seq(Token) /\ Len(SubSeq(out, 1, count)) = count
      BY <1>9, <1>10, CutInTwo
    <2>2. Len(out) \in Nat /\ out \in [1 .. Len(out) -> Token]
      BY <1>9, LenProperties
    <2>3. \A i \in 1 .. count : out[i] \in Token
      BY <1>10, <2>2
    <2>4. \A i \in 1 .. count : SubSeq(out, 1, count)[i] = out[i]
      <3>1. 1 \in Int /\ count \in Int /\ count - 1 + 1 = count
        BY <1>8
      <3>2. \A i \in 1 .. count - 1 + 1 : SubSeq(out, 1, count)[i] = out[1 + i - 1]
        BY <2>3, <3>1, SubSeqProperties
      <3>3. \A i \in 1 .. count : 1 + i - 1 = i
        OBVIOUS
      <3>4. QED
        BY <3>1, <3>2, <3>3
    <2>5. \A i \in 1 .. count : copied[i] = out[i]
      BY <1>10, <2>2
    <2>6. copied \in Seq(Token) /\ Len(copied) = count
      <3>1. copied \in [1 .. count -> Token]
        BY <1>10, <2>2, <2>3
      <3>2. QED
        BY <1>8, <3>1
    <2> HIDE DEF copied
    <2>7. QED
      BY <2>1, <2>4, <2>5, <2>6, SeqEqual
  <1> HIDE DEF copied
  <1>12. /\ delivered' \in Seq(Token) /\ Len(delivered') = Len(delivered) + count
         /\ output' \in Seq(Token) /\ Len(output') = Len(out) - count
         /\ delivered' \o output' = delivered \o out
    <2> DEFINE front == SubSeq(out, 1, count)
               rest == SubSeq(out, count + 1, Len(out))
    <2>1. delivered' = delivered \o front /\ output' = rest
      BY <1>3, <1>11
    <2>2. /\ delivered \o front \in Seq(Token) /\ Len(delivered \o front) = Len(delivered) + count
          /\ rest \in Seq(Token) /\ Len(rest) = Len(out) - count
          /\ (delivered \o front) \o rest = delivered \o out
      <3>1. delivered \in Seq(Token) /\ out \in Seq(Token)
        BY <1>2, <1>9
      <3>2. QED
        BY <1>10, <3>1, ReleaseKeeps
    <2>3. QED
      BY <2>1, <2>2, Zenon
  <1>13. Heard' = Heard
    <2>1. (delivered \o out) \o fifo' = delivered \o (out \o fifo')
      <3>1. delivered \in Seq(Token) /\ out \in Seq(Token) /\ fifo' \in Seq(Token)
        BY <1>2, <1>9
      <3>2. QED
        BY <3>1, Associative
    <2>2. Heard = delivered \o (output \o fifo)
      BY <1>1, AllTypes
    <2>3. Heard' = (delivered \o out) \o fifo'
      BY <1>12 DEF Heard
    <2>4. QED
      BY <1>9, <2>1, <2>2, <2>3, Zenon
  <1>14. All' = All
    <2>1. All' = Heard' \o line' \o staged' /\ All = Heard \o line \o staged
      BY DEF All
    <2>2. QED
      BY <1>4, <1>13, <2>1, Zenon
  <1>15. SoundTypes'
    BY <1>2, <1>4, <1>9, <1>12 DEF SoundTypes
  <1>16. fifo = <<>> => fifo' = <<>>
    <2>1. fifo = <<>> => Len(fifo') = 0
      BY <1>5, <1>7, <1>9, EmptySeq
    <2>2. QED
      BY <1>9, <2>1, EmptySeq
  <1>17. Runtime'
    <2>1. Chunk' = Chunk /\ Latency' = Latency /\ Output' = Output
      BY SetupStays
    <2>2. QED
      BY <1>1, <1>4, <1>16, <2>1 DEF Runtime
  <1>18. Conserved'
    <2>1. samplesOut' = Len(delivered') + Buffered'
      <3>1. Buffered' = Len(output') + Len(fifo')
        BY DEF Buffered
      <3>2. samplesOut = Len(delivered) + Buffered
        BY <1>1 DEF Conserved
      <3>3. released \in Nat
        BY <1>7
      <3>4. QED
        BY <1>4, <1>5, <1>6, <1>8, <1>9, <1>12, <3>1, <3>2, <3>3
    <2>2. QED
      BY <1>1, <1>4, <1>13, <1>14, <2>1, SetupStays DEF Conserved
  <1>19. RenderAheadBounded'
    <2>1. ASSUME flushes' = 0
          PROVE  Len(output') + Len(fifo') < Cap + Chunk * FrameUnits
      <3>1. Len(output) + Len(fifo) < Cap + Chunk * FrameUnits
        BY <1>1, <1>4, <2>1 DEF RenderAheadBounded
      <3>2. Len(output') + Len(fifo') = Len(output) + Len(fifo) - count
        <4>1. released \in Nat
          BY <1>7
        <4>2. QED
          BY <1>5, <1>8, <1>9, <1>12, <4>1
      <3>3. Cap \in Nat /\ Chunk \in Nat /\ FrameUnits \in Nat
        BY <1>2, SetupTypes
      <3>4. Chunk * FrameUnits \in Nat
        BY <3>3
      <3>5. QED
        BY <1>5, <1>8, <3>1, <3>2, <3>3, <3>4
    <2>2. QED
      BY <2>1, SetupStays DEF RenderAheadBounded
  <1>20. QED
    BY <1>15, <1>17, <1>18, <1>19 DEF SoundInv

\* Nothing is anywhere at the start of a pass.
LEMMA NothingSounds ==
    /\ <<>> \in Seq(Token) /\ Len(<<>>) = 0 /\ <<>> \o <<>> = <<>> /\ Range(<<>>) = {}
    /\ InOrder(<<>>, 0)
  <1>1. <<>> \in Seq(Token) /\ Len(<<>>) = 0
    BY EmptySeq
  <1>2. <<>> \o <<>> = <<>>
    BY <1>1, ConcatEmptySeq
  <1>3. DOMAIN <<>> = {}
    BY <1>1, LenProperties
  <1>4. UnitsOf(0) = {}
    BY DEF UnitsOf
  <1>5. InOrder(<<>>, 0)
    BY <1>3, <1>4, EmptyRange DEF InOrder
  <1>6. QED
    BY <1>1, <1>2, <1>5, EmptyRange

\* A new stream has rendered nothing.
LEMMA InitSound ==
    ASSUME Init
    PROVE  SoundInv
  <1>1. /\ setup \in Setups /\ staged = <<>> /\ line = <<>> /\ finished = FALSE /\ fifo = <<>>
        /\ output = <<>> /\ samplesOut = 0 /\ rendered = <<>> /\ delivered = <<>> /\ flushes = 0
    BY DEF Init
  <1>2. Heard = <<>> /\ All = <<>>
    BY <1>1, NothingSounds DEF Heard, All
  <1>3. /\ Chunk \in Nat \ {0} /\ FrameUnits \in Nat \ {0} /\ Cap \in Nat \ {0} /\ Latency \in Nat
        /\ 0 \in 0 .. Chunk - 1 /\ 0 * FrameUnits = 0 /\ 0 < Cap + Chunk * FrameUnits
    <2>1. /\ Chunk \in Nat \ {0} /\ FrameUnits \in Nat \ {0} /\ Cap \in Nat \ {0} /\ Latency \in Nat
      BY <1>1, SetupTypes
    <2>2. Chunk * FrameUnits \in Nat
      BY <2>1
    <2>3. QED
      BY <2>1, <2>2
  <1>4. SoundTypes
    <2>1. finished \in BOOLEAN
      BY <1>1
    <2>2. QED
      BY <1>1, <2>1, NothingSounds DEF SoundTypes
  <1>5. Runtime
    <2>1. \E k \in 0 .. Chunk - 1 : Len(staged) = k * FrameUnits
      BY <1>1, <1>3, NothingSounds
    <2>2. Len(line) <= Latency /\ Range(line) \subseteq {Silence}
      BY <1>1, <1>3, NothingSounds
    <2>3. QED
      BY <1>1, <2>1, <2>2 DEF Runtime
  <1>6. Conserved
    <2>1. InOrder(All, Len(rendered)) /\ Silence \notin Range(All)
      BY <1>1, <1>2, NothingSounds
    <2>2. samplesOut = Len(delivered) + Buffered
      BY <1>1, NothingSounds DEF Buffered
    <2>3. QED
      BY <1>1, <2>1, <2>2 DEF Conserved
  <1>7. RenderAheadBounded
    BY <1>1, <1>3, NothingSounds DEF RenderAheadBounded
  <1>8. QED
    BY <1>4, <1>5, <1>6, <1>7 DEF SoundInv

\* Neither has one that was reset.
LEMMA ResetsSound ==
    ASSUME setup \in Setups, setup' = setup, Reset
    PROVE  SoundInv'
  <1>1. /\ setup' \in Setups /\ staged' = <<>> /\ line' = <<>> /\ finished' = FALSE /\ fifo' = <<>>
        /\ output' = <<>> /\ samplesOut' = 0 /\ rendered' = <<>> /\ delivered' = <<>> /\ flushes' = 0
    BY DEF Reset
  <1>2. Heard' = <<>> /\ All' = <<>>
    BY <1>1, NothingSounds DEF Heard, All
  <1>3. /\ Chunk \in Nat \ {0} /\ FrameUnits \in Nat \ {0} /\ Cap \in Nat \ {0} /\ Latency \in Nat
        /\ 0 \in 0 .. Chunk - 1 /\ 0 * FrameUnits = 0 /\ 0 < Cap + Chunk * FrameUnits
        /\ Chunk' = Chunk /\ Latency' = Latency /\ Output' = Output
    <2>1. /\ Chunk \in Nat \ {0} /\ FrameUnits \in Nat \ {0} /\ Cap \in Nat \ {0} /\ Latency \in Nat
      BY <1>1, SetupTypes
    <2>2. Chunk * FrameUnits \in Nat
      BY <2>1
    <2>3. QED
      BY <2>1, <2>2, SetupStays
  <1>4. SoundTypes'
    <2>1. finished' \in BOOLEAN
      BY <1>1
    <2>2. QED
      BY <1>1, <2>1, NothingSounds DEF SoundTypes
  <1>5. Runtime'
    <2>1. \E k \in 0 .. Chunk - 1 : Len(staged') = k * FrameUnits
      BY <1>1, <1>3, NothingSounds
    <2>2. Len(line') <= Latency /\ Range(line') \subseteq {Silence}
      BY <1>1, <1>3, NothingSounds
    <2>3. QED
      BY <1>1, <1>3, <2>1, <2>2 DEF Runtime
  <1>6. Conserved'
    <2>1. InOrder(All', Len(rendered')) /\ Silence \notin Range(All')
      BY <1>1, <1>2, NothingSounds
    <2>2. samplesOut' = Len(delivered') + Buffered'
      BY <1>1, NothingSounds DEF Buffered
    <2>3. QED
      BY <1>1, <2>1, <2>2 DEF Conserved
  <1>7. RenderAheadBounded'
    BY <1>1, <1>3, NothingSounds DEF RenderAheadBounded
  <1>8. QED
    BY <1>4, <1>5, <1>6, <1>7 DEF SoundInv

\* A tail of silence: what is cut off its end is silent, and what comes before
\* the cut has no silence but at its end.
LEMMA SilentRest ==
    ASSUME setup \in Setups, NEW q \in Seq(Token), NEW t \in Seq(Token),
           Range(t) \subseteq {Silence}, Latency <= Len(t)
    PROVE  Range(Retained(q \o t)) \subseteq {Silence}
  <1> DEFINE p == q \o t
             c == Len(p) - Latency
  <1>1. /\ p \in Seq(Token) /\ Len(p) = Len(q) + Len(t)
        /\ \A i \in 1 .. Len(q) + Len(t) : p[i] = IF i <= Len(q) THEN q[i] ELSE t[i - Len(q)]
    BY ConcatProperties
  <1> HIDE DEF p
  <1>2. Latency \in Nat /\ Len(q) \in Nat /\ Len(t) \in Nat /\ DOMAIN t = 1 .. Len(t)
    BY SetupTypes, LenProperties
  <1>3. c \in Nat /\ Len(q) <= c /\ c <= Len(p) /\ Len(p) - c = Latency
    BY <1>1, <1>2
  <1>4. Retained(p) = SubSeq(p, c + 1, Len(p))
    BY DEF Retained
  <1> HIDE DEF c
  <1>5. \A i \in c + 1 .. Len(p) : p[i] \in {Silence}
    <2>1. ASSUME NEW i \in c + 1 .. Len(p)
          PROVE  p[i] \in {Silence}
      <3>1. i \in 1 .. Len(q) + Len(t) /\ ~(i <= Len(q)) /\ i - Len(q) \in DOMAIN t
        BY <1>1, <1>2, <1>3
      <3>2. p[i] = t[i - Len(q)]
        BY <1>1, <3>1
      <3>3. QED
        BY <3>1, <3>2 DEF Range
    <2>2. QED
      BY <2>1
  <1>6. SubSeq(p, c + 1, Len(p)) \in Seq({Silence})
    <2>1. c + 1 \in Int /\ Len(p) \in Int
      BY <1>1, <1>2, <1>3
    <2>2. QED
      BY <1>5, <2>1, SubSeqProperties
  <1>7. Range(SubSeq(p, c + 1, Len(p))) \in SUBSET {Silence}
    BY <1>6, RangeOfSeq
  <1>8. QED
    BY <1>4, <1>7 DEF p

\* Of tokens followed by silence, any beginning is silent at most at its end.
LEMMA SilentEnd ==
    ASSUME NEW a \in Seq(Token), Silence \notin Range(a), NEW t \in Seq(Token),
           Range(t) \subseteq {Silence}, NEW h \in Seq(Token), NEW l \in Seq(Token), h \o l = a \o t
    PROVE  TailIsLast(h)
  <1>1. Len(a) \in Nat /\ Len(t) \in Nat /\ Len(h) \in Nat /\ Len(l) \in Nat
    BY LenProperties
  <1>2. DOMAIN a = 1 .. Len(a) /\ DOMAIN t = 1 .. Len(t)
    BY LenProperties
  <1>3. Len(h \o l) = Len(h) + Len(l) /\ Len(a \o t) = Len(a) + Len(t)
    BY ConcatProperties
  <1>4. Len(h) + Len(l) = Len(a) + Len(t)
    BY <1>3
  <1>5. \A i \in 1 .. Len(h) : h[i] = (a \o t)[i]
    <2>1. \A i \in 1 .. Len(h) + Len(l) : (h \o l)[i] = IF i <= Len(h) THEN h[i] ELSE l[i - Len(h)]
      BY ConcatProperties
    <2>2. \A i \in 1 .. Len(h) : (h \o l)[i] = h[i]
      BY <1>1, <2>1
    <2>3. QED
      BY <2>2
  <1>6. \A i \in 1 .. Len(a) + Len(t) : (a \o t)[i] = IF i <= Len(a) THEN a[i] ELSE t[i - Len(a)]
    BY ConcatProperties
  <1>7. ASSUME NEW i \in 1 .. Len(h), h[i] = Silence
        PROVE  Len(a) < i
    <2>1. i \in 1 .. Len(a) + Len(t)
      BY <1>1, <1>4
    <2>2. ASSUME i <= Len(a)
          PROVE  FALSE
      <3>1. a[i] = Silence /\ i \in DOMAIN a
        BY <1>2, <1>5, <1>6, <1>7, <2>1, <2>2
      <3>2. QED
        BY <3>1 DEF Range
    <2>3. QED
      BY <1>1, <2>2
  <1>8. ASSUME NEW j \in 1 .. Len(h), Len(a) < j
        PROVE  h[j] = Silence
    <2>1. j \in 1 .. Len(a) + Len(t) /\ ~(j <= Len(a)) /\ j - Len(a) \in DOMAIN t
      BY <1>1, <1>2, <1>4, <1>8
    <2>2. h[j] = t[j - Len(a)]
      BY <1>5, <1>6, <2>1
    <2>3. QED
      BY <2>1, <2>2 DEF Range
  <1>9. \A i, j \in 1 .. Len(h) : i < j /\ h[i] = Silence => h[j] = Silence
    BY <1>1, <1>7, <1>8
  <1>10. QED
    BY <1>9 DEF TailIsLast

\* A runtime that is finished, or one without a tail, has nothing left.
LEMMA NothingLeft ==
    ASSUME SoundInv, setup' = setup, finished \/ TailUnits = 0,
           output' = output \o fifo \o <<>>, line' = line, samplesOut' = samplesOut + Len(<<>>),
           fifo' = <<>>, staged' = <<>>, finished' = (Output = "rosella"),
           delivered' = delivered, rendered' = rendered, flushes' = flushes
    PROVE  SoundInv' /\ Range(line) \subseteq {Silence}
  <1>1. SoundTypes /\ Runtime
    BY DEF SoundInv
  <1>2. /\ setup \in Setups /\ output \in Seq(Token) /\ line \in Seq(Token) /\ samplesOut \in Nat
        /\ flushes \in Nat /\ finished \in BOOLEAN
    BY <1>1 DEF SoundTypes
  <1>3. staged = <<>> /\ fifo = <<>> /\ finished = (Output = "rosella") /\ Range(line) \subseteq {Silence}
    <2>1. CASE finished
      BY <1>1, <2>1 DEF Runtime
    <2>2. CASE ~finished /\ TailUnits = 0
      <3>1. Output # "rosella" /\ Latency = 0 /\ Latency \in Nat
        BY <1>2, <2>2, SetupTypes
      <3>2. line = <<>>
        <4>1. Len(line) <= 0
          BY <1>1, <3>1 DEF Runtime
        <4>2. QED
          BY <1>2, <4>1, EmptySeq
      <3>3. Range(line) = {}
        BY <3>2, EmptyRange
      <3>4. QED
        BY <1>1, <1>2, <2>2, <3>1, <3>3 DEF Runtime
    <2>3. QED
      BY <2>1, <2>2
  <1>4. output' = output /\ samplesOut' = samplesOut
    <2>1. output \o <<>> = output /\ Len(<<>>) = 0
      BY <1>2, ConcatEmptySeq, EmptySeq
    <2>2. QED
      BY <1>2, <1>3, <2>1
  <1>5. finished' = finished /\ staged' = staged /\ fifo' = fifo
    BY <1>3
  <1>6. UNCHANGED <<staged, line, finished, fifo, output, samplesOut>>
    BY <1>4, <1>5
  <1>7. SoundInv'
    BY <1>2, <1>6, KeptSound
  <1>8. QED
    BY <1>3, <1>7

\* What a runtime still holds is heard, and then its tail.
LEMMA TailSound ==
    ASSUME SoundInv, setup' = setup, ~finished, flushes > 0,
           NEW t \in Seq(Token), Range(t) \subseteq {Silence},
           NEW out \in Seq(Token), line' \in Seq(Token), out \o line' = line \o staged \o t,
           Range(line') \subseteq {Silence}, Len(line') <= Latency,
           output' = output \o fifo \o out, samplesOut' = samplesOut + Len(out),
           fifo' = <<>>, staged' = <<>>, finished' = (Output = "rosella"),
           delivered' = delivered, rendered' = rendered, flushes' = flushes
    PROVE  SoundInv'
  <1>1. SoundTypes /\ Runtime /\ Conserved
    BY DEF SoundInv
  <1>2. /\ setup \in Setups /\ delivered \in Seq(Token) /\ output \in Seq(Token) /\ fifo \in Seq(Token)
        /\ line \in Seq(Token) /\ staged \in Seq(Token) /\ Len(rendered) \in Nat
        /\ samplesOut \in Nat /\ flushes \in Nat
    BY <1>1 DEF SoundTypes
  <1>3. /\ Heard \in Seq(Token) /\ All \in Seq(Token)
        /\ Heard = delivered \o (output \o fifo) /\ All = Heard \o (line \o staged)
    BY <1>1, AllTypes
  <1>4. output \o fifo \in Seq(Token) /\ Len(output \o fifo) = Len(output) + Len(fifo)
    BY <1>2, ConcatProperties
  <1>5. output' \in Seq(Token) /\ Len(output') = Len(output) + Len(fifo) + Len(out)
    <2> DEFINE b == output \o fifo
    <2>1. b \in Seq(Token) /\ Len(b) = Len(output) + Len(fifo) /\ output' = b \o out
      BY <1>4
    <2> HIDE DEF b
    <2>2. b \o out \in Seq(Token) /\ Len(b \o out) = Len(b) + Len(out)
      BY <2>1, ConcatProperties
    <2>3. QED
      BY <2>1, <2>2
  <1>6. fifo' \in Seq(Token) /\ Len(fifo') = 0 /\ staged' \in Seq(Token) /\ Len(staged') = 0
    BY EmptySeq
  <1>7. Heard' = Heard \o out
    <2>1. \A x \in Seq(Token) : (delivered \o x) \o out = delivered \o (x \o out)
      <3>1. delivered \in Seq(Token)
        BY <1>2
      <3>2. QED
        BY <3>1, Associative, Zenon
    <2>2. (delivered \o (output \o fifo)) \o out = delivered \o ((output \o fifo) \o out)
      BY <1>4, <2>1, Zenon
    <2>3. Heard' = (delivered \o output') \o <<>> /\ delivered \o output' \in Seq(Token)
      BY <1>2, <1>5, Closed DEF Heard
    <2>4. Heard' = delivered \o output'
      BY <2>3, ConcatEmptySeq
    <2>5. QED
      BY <1>3, <2>2, <2>4, Zenon
  <1>8. Heard' \in Seq(Token) /\ Heard' \o line' \in Seq(Token)
    BY <1>3, <1>7, Closed
  <1>9. Heard' \o line' = All \o t
    <2> DEFINE q == line \o staged
    <2>1. q \in Seq(Token) /\ out \o line' = q \o t /\ All = Heard \o q
      BY <1>2, <1>3, Closed
    <2> HIDE DEF q
    <2>2. (Heard \o out) \o line' = Heard \o (out \o line')
      <3>1. Heard \in Seq(Token)
        BY <1>3
      <3>2. QED
        BY <3>1, Associative
    <2>3. (Heard \o q) \o t = Heard \o (q \o t)
      <3>1. Heard \in Seq(Token) /\ q \in Seq(Token) /\ t \in Seq(Token)
        BY <1>3, <2>1
      <3>2. QED
        BY <3>1, Associative
    <2>4. QED
      BY <1>7, <2>1, <2>2, <2>3, Zenon
  <1>10. All' = All \o t
    <2>1. All' = (Heard' \o line') \o <<>>
      BY DEF All
    <2>2. QED
      BY <1>8, <1>9, <2>1, ConcatEmptySeq
  <1>11. SoundTypes'
    <2>1. Len(out) \in Nat
      BY LenProperties
    <2>2. finished' \in BOOLEAN
      OBVIOUS
    <2>3. QED
      BY <1>2, <1>5, <1>6, <2>1, <2>2 DEF SoundTypes
  <1>12. Runtime'
    <2>1. Chunk' = Chunk /\ Latency' = Latency /\ Output' = Output
      BY SetupStays
    <2>2. 0 \in 0 .. Chunk - 1 /\ 0 * FrameUnits = 0
      <3>1. Chunk \in Nat \ {0} /\ FrameUnits \in Nat
        BY <1>2, SetupTypes
      <3>2. QED
        BY <3>1
    <2>3. \E k \in 0 .. Chunk' - 1 : Len(staged') = k * FrameUnits
      BY <1>6, <2>1, <2>2
    <2>4. Len(line') <= Latency' /\ Range(line') \subseteq {Silence} /\ staged' = <<>> /\ fifo' = <<>>
      BY <2>1
    <2>5. Output' # "rosella" => ~finished'
      BY <2>1
    <2>6. QED
      BY <2>3, <2>4, <2>5 DEF Runtime
  <1>13. Conserved'
    <2>1. /\ InOrder(All, Len(rendered)) /\ samplesOut = Len(delivered) + Buffered
          /\ Output = "rosella" => Silence \notin Range(All)
      BY <1>1 DEF Conserved
    <2>2. InOrder(All', Len(rendered'))
      BY <1>3, <1>10, <2>1, SilenceInOrder
    <2>3. samplesOut' = Len(delivered') + Buffered'
      <3>1. Len(output) \in Nat /\ Len(fifo) \in Nat /\ Len(delivered) \in Nat /\ Len(out) \in Nat
        BY <1>2, LenProperties
      <3>2. Buffered' = Len(output) + Len(fifo) + Len(out) /\ Buffered = Len(output) + Len(fifo)
        BY <1>5, <1>6, <3>1 DEF Buffered
      <3>3. QED
        BY <2>1, <3>1, <3>2
    <2>4. Output = "rosella" => TailIsLast(Heard')
      BY <1>3, <1>8, <1>9, <2>1, SilentEnd
    <2>5. QED
      BY <2>2, <2>3, <2>4, SetupStays DEF Conserved
  <1>14. RenderAheadBounded'
    BY <1>2 DEF RenderAheadBounded
  <1>15. QED
    BY <1>11, <1>12, <1>13, <1>14 DEF SoundInv

\* finish moves everything to the output.
LEMMA FinishedSound ==
    ASSUME SoundInv, setup' = setup, Finish, flushes > 0
    PROVE  SoundInv' /\ Range(line') \subseteq {Silence} /\ fifo' = <<>> /\ staged' = <<>>
  <1> DEFINE t == SilentTokens(IF NothingToFinish THEN 1 ELSE TailUnits)
             processed == line \o staged \o t
             out == IF finished \/ NothingToFinish \/ TailUnits = 0 THEN <<>> ELSE Emitted(processed)
  <1>1. SoundTypes /\ Runtime
    BY DEF SoundInv
  <1>2. /\ setup \in Setups /\ output \in Seq(Token) /\ fifo \in Seq(Token)
        /\ line \in Seq(Token) /\ staged \in Seq(Token) /\ finished \in BOOLEAN
    BY <1>1 DEF SoundTypes
  <1>3. /\ output' = output \o fifo \o out /\ samplesOut' = samplesOut + Len(out)
        /\ line' = IF finished \/ TailUnits = 0 THEN line
                   ELSE IF NothingToFinish THEN processed ELSE Retained(processed)
        /\ fifo' = <<>> /\ staged' = <<>> /\ finished' = (Output = "rosella")
        /\ delivered' = delivered /\ rendered' = rendered /\ flushes' = flushes
    BY DEF Finish
  <1>4. Latency \in Nat /\ TailUnits \in Nat /\ Latency <= TailUnits
    BY <1>2, SetupTypes
  <1>5. CASE finished \/ TailUnits = 0
    <2>1. out = <<>> /\ line' = line
      BY <1>3, <1>5
    <2> HIDE DEF out
    <2>2. SoundInv' /\ Range(line) \subseteq {Silence}
      BY <1>3, <1>5, <2>1, NothingLeft
    <2>3. QED
      BY <1>3, <2>1, <2>2
  <1>6. CASE ~(finished \/ TailUnits = 0)
    <2>1. line \o staged \in Seq(Token) /\ Len(line \o staged) = Len(line) + Len(staged)
      BY <1>2, ConcatProperties
    <2>2. t \in Seq(Token) /\ Range(t) \subseteq {Silence}
          /\ Len(t) = IF NothingToFinish THEN 1 ELSE TailUnits
      BY <1>4, NewTokens
    <2> HIDE DEF t
    <2>3. processed \in Seq(Token) /\ Len(processed) = Len(line) + Len(staged) + Len(t)
      <3> DEFINE q == line \o staged
      <3>1. q \in Seq(Token) /\ Len(q) = Len(line) + Len(staged)
        BY <2>1
      <3> HIDE DEF q
      <3>2. q \o t \in Seq(Token) /\ Len(q \o t) = Len(q) + Len(t)
        BY <2>2, <3>1, ConcatProperties
      <3>3. QED
        BY <3>1, <3>2 DEF q
    <2>4. Len(line) \in Nat /\ Len(staged) \in Nat
      BY <1>2, LenProperties
    <2>5. CASE NothingToFinish
      <3>1. Output = "sofa" /\ Len(line) < Latency
        BY <2>5 DEF NothingToFinish
      <3>2. staged = <<>> /\ Range(line) \subseteq {Silence}
        BY <1>1, <3>1 DEF Runtime
      <3>3. out = <<>> /\ line' = processed
        BY <1>3, <1>6, <2>5
      <3>4. out \in Seq(Token) /\ out \o line' = line \o staged \o t
        BY <2>3, <3>3, EmptySeq, ConcatEmptySeq
      <3>5. Len(line') <= Latency
        BY <1>4, <2>2, <2>3, <2>4, <2>5, <3>1, <3>2, <3>3, EmptySeq
      <3>6. Range(line') \subseteq {Silence}
        <4>1. line \o staged = line
          BY <1>2, <3>2, ConcatEmptySeq
        <4>2. Range(line \o t) = Range(line) \cup Range(t)
          BY <1>2, <2>2, RangeConcatenation
        <4>3. QED
          BY <2>2, <3>2, <3>3, <4>1, <4>2
      <3>7. line' \in Seq(Token)
        BY <2>3, <3>3
      <3> HIDE DEF out, processed
      <3>8. SoundInv'
        BY <1>3, <1>6, <2>2, <3>4, <3>5, <3>6, <3>7, TailSound
      <3>9. QED
        BY <1>3, <3>6, <3>8
    <2>6. CASE ~NothingToFinish
      <3>1. Latency <= Len(t) /\ Latency <= Len(processed)
        BY <1>4, <2>2, <2>3, <2>4, <2>6
      <3>2. out = Emitted(processed) /\ line' = Retained(processed)
        BY <1>3, <1>6, <2>6
      <3>3. Range(Retained(processed)) \subseteq {Silence}
        BY <1>2, <2>1, <2>2, <3>1, SilentRest
      <3> HIDE DEF out
      <3>4. /\ out \in Seq(Token) /\ line' \in Seq(Token) /\ Len(line') = Latency
            /\ out \o line' = line \o staged \o t
        BY <1>2, <2>3, <3>1, <3>2, EmittedRetained
      <3> HIDE DEF processed
      <3>5. Range(line') \subseteq {Silence} /\ Len(line') <= Latency
        BY <1>4, <3>2, <3>3, <3>4
      <3>6. SoundInv'
        BY <1>3, <1>6, <2>2, <3>4, <3>5, TailSound
      <3>7. QED
        BY <1>3, <3>5, <3>6
    <2>7. QED
      BY <2>5, <2>6
  <1>7. QED
    BY <1>5, <1>6

-----------------------------------------------------------------------------
(***************************************************************************)
(* Frames that follow one another.                                         *)
(***************************************************************************)
LEMMA RangeAppend ==
    ASSUME NEW S, NEW s \in Seq(S), NEW e \in S
    PROVE  Range(Append(s, e)) = Range(s) \cup {e}
  <1>1. <<e>> \in Seq(S) /\ Range(<<e>>) = {e}
    BY DEF Range
  <1>2. Append(s, e) = s \o <<e>>
    BY AppendIsConcat
  <1>3. Range(s \o <<e>>) = Range(s) \cup Range(<<e>>)
    BY <1>1, RangeConcatenation
  <1>4. QED
    BY <1>1, <1>2, <1>3, Zenon

\* The rest of a sequence after its first element.
LEMMA RestOf ==
    ASSUME NEW S, NEW s \in Seq(S), s # <<>>
    PROVE  /\ Head(s) \in S /\ Head(s) = s[1] /\ 1 \in 1 .. Len(s) /\ Len(s) \in Nat
           /\ SubSeq(s, 2, Len(s)) \in Seq(S) /\ Len(SubSeq(s, 2, Len(s))) = Len(s) - 1
           /\ \A i \in 1 .. Len(s) - 1 : SubSeq(s, 2, Len(s))[i] = s[i + 1]
           /\ Range(SubSeq(s, 2, Len(s))) \subseteq Range(s)
  <1>1. Len(s) \in Nat \ {0} /\ DOMAIN s = 1 .. Len(s)
    BY EmptySeq, LenProperties
  <1>2. Head(s) \in S /\ Head(s) = s[1]
    BY HeadTailProperties
  <1>3. Tail(s) = SubSeq(s, 2, Len(s))
    BY TailIsSubSeq
  <1>4. /\ Tail(s) \in Seq(S) /\ Len(Tail(s)) = Len(s) - 1
        /\ \A i \in 1 .. Len(Tail(s)) : Tail(s)[i] = s[i + 1]
    BY HeadTailProperties
  <1>5. DOMAIN Tail(s) = 1 .. Len(s) - 1
    BY <1>4, LenProperties
  <1>6. \A i \in 1 .. Len(s) - 1 : Tail(s)[i] = s[i + 1] /\ i + 1 \in DOMAIN s
    BY <1>1, <1>4
  <1>7. Range(Tail(s)) \subseteq Range(s)
    BY <1>5, <1>6 DEF Range
  <1>8. \A i \in 1 .. Len(s) - 1 : Tail(s)[i] = s[i + 1]
    BY <1>6
  <1>9. 1 \in 1 .. Len(s)
    BY <1>1
  <1> DEFINE rest == SubSeq(s, 2, Len(s))
  <1> HIDE DEF rest
  <1>10. rest = Tail(s)
    BY <1>3 DEF rest
  <1>11. /\ rest \in Seq(S) /\ Len(rest) = Len(s) - 1
         /\ (\A i \in 1 .. Len(s) - 1 : rest[i] = s[i + 1]) /\ Range(rest) \subseteq Range(s)
    BY <1>4, <1>7, <1>8, <1>10, Zenon
  <1>12. QED
    BY <1>1, <1>2, <1>9, <1>11 DEF rest

\* One more syncframe belongs to one audio frame.
LEMMA AmongNext ==
    ASSUME NEW s, NEW n \in Nat, NEW k
    PROVE  /\ s[n + 1].frame = k => Among(s, k, n + 1) = Among(s, k, n) \cup {n + 1}
           /\ s[n + 1].frame # k => Among(s, k, n + 1) = Among(s, k, n)
  <1>1. 1 .. n + 1 = 1 .. n \cup {n + 1}
    OBVIOUS
  <1>2. QED
    BY <1>1 DEF Among

\* A frame that has not started has no syncframes.
LEMMA AmongNone ==
    ASSUME NEW s, NEW n, NEW k \in Nat, \A i \in 1 .. n : s[i].frame \in Nat /\ s[i].frame < k
    PROVE  Among(s, k, n) = {}
  BY DEF Among

\* A syncframe joins the frame under assembly.
LEMMA JoinPaired ==
    ASSUME NEW s, NEW n \in Nat, NEW queue \in Seq(Entry), NEW done \in Nat, NEW entry,
           NEW played \in Seq(Rendering), NEW next, \A i \in 1 .. n : s[i].frame \in Nat,
           Paired(s, n, queue, done, entry, played),
           s[n + 1].frame = done + Len(queue) + 1, next.streams = entry.streams \cup {n + 1}
    PROVE  Paired(s, n + 1, queue, done, next, played)
  <1> DEFINE k == done + Len(queue) + 1
  <1>1. Len(queue) \in Nat /\ k \in Nat /\ k = done + Len(queue) + 1
    BY LenProperties
  <1>2. /\ \A j \in 1 .. Len(queue) : queue[j].streams = Among(s, done + j, n)
        /\ \A r \in Range(played) : r.pcm <= done /\ r.entry.streams = Among(s, r.pcm, n)
        /\ entry.streams = Among(s, k, n)
        /\ \A i \in 1 .. n : s[i].frame <= k
    BY DEF Paired
  <1> HIDE DEF k
  <1>3. s[n + 1].frame = k
    BY <1>1
  <1>4. \A j \in 1 .. Len(queue) : queue[j].streams = Among(s, done + j, n + 1)
    <2>1. ASSUME NEW j \in 1 .. Len(queue)
          PROVE  Among(s, done + j, n + 1) = Among(s, done + j, n)
      <3>1. s[n + 1].frame # done + j
        BY <1>1, <1>3
      <3>2. QED
        BY <3>1, AmongNext
    <2>2. QED
      BY <1>2, <2>1
  <1>5. \A r \in Range(played) : r.pcm <= done /\ r.entry.streams = Among(s, r.pcm, n + 1)
    <2>1. ASSUME NEW r \in Range(played)
          PROVE  r.pcm <= done /\ r.entry.streams = Among(s, r.pcm, n + 1)
      <3>1. r \in Rendering
        BY RangeOfSeq
      <3>2. r.pcm \in Nat
        BY <3>1 DEF Rendering
      <3>3. s[n + 1].frame # r.pcm
        BY <1>1, <1>2, <1>3, <3>2
      <3>4. QED
        BY <1>2, <3>3, AmongNext
    <2>2. QED
      BY <2>1
  <1>6. next.streams = Among(s, k, n + 1)
    <2>1. Among(s, k, n + 1) = Among(s, k, n) \cup {n + 1}
      BY <1>3, AmongNext
    <2>2. QED
      BY <1>2, <2>1
  <1>7. \A i \in 1 .. n + 1 : s[i].frame <= k
    <2>1. \A i \in 1 .. n + 1 : i \in 1 .. n \/ i = n + 1
      OBVIOUS
    <2>2. QED
      BY <1>1, <1>2, <1>3, <2>1
  <1>8. QED
    BY <1>4, <1>5, <1>6, <1>7 DEF Paired, k

\* The frame under assembly is closed.
LEMMA ClosePaired ==
    ASSUME NEW s, NEW n \in Nat, NEW queue \in Seq(Entry), NEW done \in Nat, NEW entry,
           NEW played, NEW e \in Entry, NEW next, \A i \in 1 .. n : s[i].frame \in Nat,
           Paired(s, n, queue, done, entry, played), e.streams = entry.streams, next.streams = {}
    PROVE  Paired(s, n, Append(queue, e), done, next, played)
  <1> DEFINE q == Append(queue, e)
             L == Len(queue)
  <1>1. /\ q \in Seq(Entry) /\ Len(q) = L + 1 /\ L \in Nat
        /\ (\A j \in 1 .. L : q[j] = queue[j]) /\ q[L + 1] = e
    BY AppendProperties, LenProperties
  <1>2. /\ \A j \in 1 .. L : queue[j].streams = Among(s, done + j, n)
        /\ \A r \in Range(played) : r.pcm <= done /\ r.entry.streams = Among(s, r.pcm, n)
        /\ entry.streams = Among(s, done + L + 1, n)
        /\ \A i \in 1 .. n : s[i].frame <= done + L + 1
    BY DEF Paired
  <1> HIDE DEF q, L
  <1>3. \A j \in 1 .. Len(q) : q[j].streams = Among(s, done + j, n)
    <2>1. \A j \in 1 .. Len(q) : j \in 1 .. L \/ j = L + 1
      BY <1>1
    <2>2. q[L + 1].streams = Among(s, done + (L + 1), n)
      BY <1>1, <1>2
    <2>3. QED
      BY <1>1, <1>2, <2>1, <2>2
  <1>4. \A i \in 1 .. n : s[i].frame < done + Len(q) + 1
    BY <1>1, <1>2
  <1>5. next.streams = Among(s, done + Len(q) + 1, n)
    <2>1. done + Len(q) + 1 \in Nat
      BY <1>1
    <2>2. QED
      BY <1>4, <2>1, AmongNone
  <1>6. \A i \in 1 .. n : s[i].frame <= done + Len(q) + 1
    BY <1>1, <1>4
  <1>7. Paired(s, n, q, done, next, played)
    BY <1>2, <1>3, <1>5, <1>6 DEF Paired
  <1>8. QED
    BY <1>7 DEF q

\* The first frame queued leaves the queue with its core PCM.
LEMMA DropPaired ==
    ASSUME NEW s, NEW n, NEW queue \in Seq(Entry), queue # <<>>, NEW done \in Nat, NEW entry,
           NEW played \in Seq(Rendering), Paired(s, n, queue, done, entry, played)
    PROVE  /\ Paired(s, n, SubSeq(queue, 2, Len(queue)), done + 1, entry, played)
           /\ Head(queue).streams = Among(s, done + 1, n)
  <1> DEFINE q == SubSeq(queue, 2, Len(queue))
             L == Len(queue)
  <1>1. /\ Head(queue) = queue[1] /\ 1 \in 1 .. L /\ L \in Nat /\ Len(q) = L - 1
        /\ \A i \in 1 .. L - 1 : q[i] = queue[i + 1]
    BY RestOf
  <1>2. /\ \A j \in 1 .. L : queue[j].streams = Among(s, done + j, n)
        /\ \A p \in Range(played) : p.pcm <= done /\ p.entry.streams = Among(s, p.pcm, n)
        /\ entry.streams = Among(s, done + L + 1, n)
        /\ \A i \in 1 .. n : s[i].frame <= done + L + 1
    BY DEF Paired
  <1> HIDE DEF q, L
  <1>3. \A j \in 1 .. Len(q) : q[j].streams = Among(s, done + 1 + j, n)
    <2>1. ASSUME NEW j \in 1 .. Len(q)
          PROVE  q[j].streams = Among(s, done + 1 + j, n)
      <3>1. j \in 1 .. L - 1 /\ j + 1 \in 1 .. L /\ done + (j + 1) = done + 1 + j
        BY <1>1
      <3>2. QED
        BY <1>1, <1>2, <3>1
    <2>2. QED
      BY <2>1
  <1>4. \A p \in Range(played) : p.pcm <= done + 1 /\ p.entry.streams = Among(s, p.pcm, n)
    <2>1. \A p \in Range(played) : p \in Rendering
      BY RangeOfSeq
    <2>2. \A p \in Range(played) : p.pcm \in Nat
      BY <2>1 DEF Rendering
    <2>3. QED
      BY <1>2, <2>2
  <1>5. done + 1 + Len(q) + 1 = done + L + 1
    BY <1>1
  <1>6. Paired(s, n, q, done + 1, entry, played)
    BY <1>2, <1>3, <1>4, <1>5 DEF Paired
  <1>7. Head(queue).streams = Among(s, done + 1, n)
    BY <1>1, <1>2
  <1>8. QED
    BY <1>6, <1>7 DEF q

\* It is rendered.
LEMMA PlayPaired ==
    ASSUME NEW s, NEW n, NEW queue, NEW done \in Nat, NEW entry, NEW played \in Seq(Rendering),
           NEW r \in Rendering, r.pcm = done, r.entry.streams = Among(s, done, n),
           Paired(s, n, queue, done, entry, played)
    PROVE  Paired(s, n, queue, done, entry, Append(played, r))
  <1>1. Range(Append(played, r)) = Range(played) \cup {r}
    BY RangeAppend
  <1>2. QED
    BY <1>1 DEF Paired

-----------------------------------------------------------------------------
(***************************************************************************)
(* Assembling frames.                                                      *)
(***************************************************************************)
LEMMA ProgramTypes ==
    ASSUME setup \in Setups, syncframes \in Programs
    PROVE  /\ syncframes \in Seq(Syncframe) /\ Numbered(syncframes) /\ Len(syncframes) \in Nat
           /\ DOMAIN syncframes = 1 .. Len(syncframes)
           /\ \A i \in 1 .. Len(syncframes) : syncframes[i].frame \in Nat
  <1>1. syncframes \in Seq(Syncframe) /\ Numbered(syncframes)
    BY StreamAssumption DEF Programs
  <1>2. Len(syncframes) \in Nat /\ DOMAIN syncframes = 1 .. Len(syncframes)
    BY <1>1, LenProperties
  <1>3. \A i \in 1 .. Len(syncframes) : syncframes[i] \in Syncframe
    BY <1>1, ElementOfSeq
  <1>4. \A i \in 1 .. Len(syncframes) : syncframes[i].frame \in Nat
    BY <1>3 DEF Syncframe
  <1>5. QED
    BY <1>1, <1>2, <1>4

\* The frame under assembly starts empty.
LEMMA NoEntryIsOwn == NoEntry \in Entry /\ IsOwn(syncframes, NoEntry) /\ NoEntry.streams = {}
  BY DEF NoEntry, Entry, IsOwn

\* A syncframe joins a frame: the frame's metadata is still its own.
LEMMA JoinedIsOwn ==
    ASSUME NEW entry \in Entry, NEW i \in Nat \ {0}, IsOwn(syncframes, entry)
    PROVE  /\ Joined(entry, i) \in Entry /\ Joined(entry, i).streams = entry.streams \cup {i}
           /\ IsOwn(syncframes, Joined(entry, i))
  <1> DEFINE f == syncframes[i]
             e == Joined(entry, i)
  <1>1. entry.streams \in SUBSET Nat /\ entry.joc \in Nat /\ entry.update \in Nat
    BY DEF Entry
  <1>2. /\ e.streams = entry.streams \cup {i}
        /\ e.joc = IF f.meta # "none" /\ f.fault # "container" THEN i ELSE entry.joc
        /\ e.update = IF f.meta = "oamd" /\ f.fault \notin {"container", "oamd"} THEN i ELSE entry.update
    BY DEF Joined
  <1>3. e \in Entry
    BY <1>1 DEF Joined, Entry
  <1> HIDE DEF e
  <1>4. /\ {entry.joc, entry.update} \subseteq entry.streams \cup {0}
        /\ entry.update # 0 => entry.joc # 0
        /\ entry.joc = 0 =>
              \A j \in entry.streams : syncframes[j].meta = "none" \/ syncframes[j].fault = "container"
    BY DEF IsOwn
  <1>5. {e.joc, e.update} \subseteq e.streams \cup {0}
    BY <1>2, <1>4
  <1>6. e.update # 0 => e.joc # 0
    BY <1>2, <1>4
  <1>7. e.joc = 0 => \A j \in e.streams : syncframes[j].meta = "none" \/ syncframes[j].fault = "container"
    BY <1>2, <1>4
  <1>8. IsOwn(syncframes, e)
    BY <1>5, <1>6, <1>7 DEF IsOwn
  <1>9. QED
    BY <1>2, <1>3, <1>8 DEF e

\* A frame that passes its checks is queued; its bed declaration was applied.
LEMMA Closing ==
    ASSUME FrameTypes, OwnInv, ClosePending, pending.streams # {}, PassesChecks(pending)
    PROVE  /\ ApplyBed(pending)
           /\ \E e \in Entry : /\ metadata' = Append(metadata, e) /\ e.streams = pending.streams
                               /\ IsOwn(syncframes, e)
                               /\ Declares(syncframes, e) = Declares(syncframes, pending)
  <1> DEFINE e == IF pending.joc = 0 THEN [pending EXCEPT !.update = 0] ELSE pending
  <1>1. pending \in Entry /\ IsOwn(syncframes, pending)
    BY DEF FrameTypes, OwnInv
  <1>2. metadata' = Append(metadata, e) /\ ApplyBed(pending)
    BY DEF ClosePending
  <1>3. CASE pending.joc = 0
    <2>1. pending.update = 0
      BY <1>1, <1>3 DEF IsOwn
    <2>2. e = pending
      BY <1>1, <1>3, <2>1 DEF Entry
    <2>3. QED
      BY <1>1, <1>2, <2>2
  <1>4. CASE pending.joc # 0
    BY <1>1, <1>2, <1>4
  <1>5. QED
    BY <1>3, <1>4

\* apply_bed_positions, of a frame that declares a bed and of one that does not.
LEMMA BedTypes ==
    ASSUME bedReady \in BOOLEAN, bedSet \in BOOLEAN, NEW entry, ApplyBed(entry)
    PROVE  /\ bedReady' \in BOOLEAN /\ bedSet' \in BOOLEAN
           /\ bedSet => bedSet'
           /\ Declares(syncframes, entry) = "none" => bedReady' = bedReady
           /\ ~bedReady /\ Declares(syncframes, entry) = "only" => bedSet'
  <1>1. CASE bedReady \/ Declares(syncframes, entry) = "none"
    <2>1. bedReady' = bedReady /\ bedSet' = bedSet
      BY <1>1 DEF ApplyBed, Declares, bedVars
    <2>2. QED
      BY <1>1, <2>1
  <1>2. CASE ~(bedReady \/ Declares(syncframes, entry) = "none")
    <2>1. bedReady' = TRUE /\ bedSet' = (bedSet \/ Declares(syncframes, entry) = "only")
      BY <1>2 DEF ApplyBed, Declares
    <2>2. QED
      BY <1>2, <2>1
  <1>3. QED
    BY <1>1, <1>2

\* What is declared when one more frame is queued, and when one is rendered.
LEMMA DeclaredMore ==
    ASSUME NEW s, NEW played \in Seq(Rendering), NEW queue \in Seq(Entry), NEW e \in Entry
    PROVE  LET L == Len(played) + Len(queue)
               old == Declared(s, played, queue)
               new == Declared(s, played, Append(queue, e))
           IN  /\ L \in Nat /\ Len(played) + Len(Append(queue, e)) = L + 1
               /\ \A n \in 1 .. L : new[n] = old[n]
               /\ new[L + 1] = Declares(s, e)
  <1> DEFINE q == Append(queue, e)
             P == Len(played)
             Q == Len(queue)
  <1>1. P \in Nat /\ Q \in Nat
    BY LenProperties
  <1>2. Len(q) = Q + 1 /\ (\A j \in 1 .. Q : q[j] = queue[j]) /\ q[Q + 1] = e
    BY AppendProperties
  <1> HIDE DEF q, P, Q
  <1>3. P + Q \in Nat /\ P + Len(q) = P + Q + 1
    BY <1>1, <1>2
  <1>4. \A n \in 1 .. P + Q :
           Declared(s, played, queue)[n] = Declares(s, IF n <= P THEN played[n].entry ELSE queue[n - P])
    BY DEF Declared, P, Q
  <1>5. \A n \in 1 .. P + Q + 1 :
           Declared(s, played, q)[n] = Declares(s, IF n <= P THEN played[n].entry ELSE q[n - P])
    BY <1>3 DEF Declared, P
  <1>6. \A n \in 1 .. P + Q : Declared(s, played, q)[n] = Declared(s, played, queue)[n]
    <2>1. ASSUME NEW n \in 1 .. P + Q
          PROVE  Declared(s, played, q)[n] = Declared(s, played, queue)[n]
      <3>1. n \in 1 .. P + Q + 1
        BY <1>1
      <3>2. ~(n <= P) => n - P \in 1 .. Q
        BY <1>1
      <3>3. QED
        BY <1>2, <1>4, <1>5, <3>1, <3>2
    <2>2. QED
      BY <2>1
  <1>7. Declared(s, played, q)[P + Q + 1] = Declares(s, e)
    <2> DEFINE n == P + Q + 1
    <2>1. n \in 1 .. P + Q + 1 /\ ~(n <= P) /\ n - P = Q + 1
      BY <1>1
    <2> HIDE DEF n
    <2>2. Declared(s, played, q)[n] = Declares(s, q[Q + 1])
      BY <1>5, <2>1
    <2>3. QED
      BY <1>2, <2>2 DEF n
  <1>8. QED
    BY <1>3, <1>6, <1>7 DEF q, P, Q

\* Rendering a frame leaves the sequence of declarations as it was.
LEMMA DeclaredMoves ==
    ASSUME NEW s, NEW played \in Seq(Rendering), NEW queue \in Seq(Entry), queue # <<>>,
           NEW r \in Rendering, r.entry = Head(queue)
    PROVE  LET rest == SubSeq(queue, 2, Len(queue)) IN
           /\ Len(Append(played, r)) + Len(rest) = Len(played) + Len(queue)
           /\ \A n \in 1 .. Len(played) + Len(queue) :
                 Declared(s, Append(played, r), rest)[n] = Declared(s, played, queue)[n]
  <1> DEFINE p == Append(played, r)
             q == SubSeq(queue, 2, Len(queue))
             P == Len(played)
             Q == Len(queue)
  <1>1. /\ Head(queue) = queue[1] /\ 1 \in 1 .. Q /\ Q \in Nat /\ Len(q) = Q - 1
        /\ \A i \in 1 .. Q - 1 : q[i] = queue[i + 1]
    BY RestOf
  <1>2. P \in Nat /\ Len(p) = P + 1 /\ (\A j \in 1 .. P : p[j] = played[j]) /\ p[P + 1] = r
    BY AppendProperties, LenProperties
  <1> HIDE DEF p, q, P, Q
  <1>3. Len(p) + Len(q) = P + Q
    BY <1>1, <1>2
  <1>4. \A n \in 1 .. P + Q :
           Declared(s, played, queue)[n] = Declares(s, IF n <= P THEN played[n].entry ELSE queue[n - P])
    BY DEF Declared, P, Q
  <1>5. \A n \in 1 .. P + Q :
           Declared(s, p, q)[n] = Declares(s, IF n <= P + 1 THEN p[n].entry ELSE q[n - (P + 1)])
    BY <1>2, <1>3 DEF Declared
  <1>6. ASSUME NEW n \in 1 .. P + Q
        PROVE  Declared(s, p, q)[n] = Declared(s, played, queue)[n]
    <2>1. CASE n <= P
      <3>1. n \in 1 .. P /\ n <= P + 1
        BY <1>2, <2>1
      <3>2. QED
        BY <1>2, <1>4, <1>5, <2>1, <3>1
    <2>2. CASE n = P + 1
      <3>1. ~(n <= P) /\ n <= P + 1 /\ n - P = 1
        BY <1>2, <2>2
      <3>2. p[n].entry = queue[1]
        BY <1>1, <1>2, <2>2
      <3>3. QED
        BY <1>4, <1>5, <3>1, <3>2
    <2>3. CASE P + 1 < n
      <3>1. n \in Int /\ n <= P + Q /\ P \in Nat /\ Q \in Nat
        BY <1>1, <1>2
      <3>2. ~(n <= P) /\ ~(n <= P + 1) /\ n - (P + 1) \in 1 .. Q - 1 /\ n - (P + 1) + 1 = n - P
        BY <2>3, <3>1
      <3>3. q[n - (P + 1)] = queue[n - P]
        BY <1>1, <3>2
      <3>4. QED
        BY <1>4, <1>5, <3>2, <3>3
    <2>4. n <= P \/ n = P + 1 \/ P + 1 < n
      BY <1>1, <1>2
    <2>5. QED
      BY <2>1, <2>2, <2>3, <2>4
  <1>7. QED
    BY <1>3, <1>6 DEF p, q, P, Q

\* What leaves the frames alone.
LEMMA OthersFrame ==
    ASSUME FrameInv, setup' = setup,
           UNCHANGED <<input, syncframes, taken, pending, metadata, pcmTaken, bedReady, bedSet, rendered,
                       flushes, pass>>,
           failures \subseteq failures'
    PROVE  FrameInv'
  <1>1. /\ input' = input /\ syncframes' = syncframes /\ taken' = taken /\ pending' = pending
        /\ metadata' = metadata /\ pcmTaken' = pcmTaken /\ bedReady' = bedReady /\ bedSet' = bedSet
        /\ rendered' = rendered /\ flushes' = flushes /\ pass' = pass
    OBVIOUS
  <1>2. LatePush' = LatePush /\ Output' = Output /\ Inputs' = Inputs /\ Programs' = Programs
    BY DEF LatePush, Output, Inputs, Programs
  <1>3. FrameTypes'
    BY <1>1, <1>2 DEF FrameInv, FrameTypes
  <1>4. OwnInv'
    BY <1>1 DEF FrameInv, OwnInv
  <1>5. PairInv'
    BY <1>1, <1>2 DEF FrameInv, PairInv
  <1>6. BedInv'
    BY <1>1, <1>2 DEF FrameInv, BedInv
  <1>7. QED
    BY <1>3, <1>4, <1>5, <1>6 DEF FrameInv

\* The declaration of the frame that is queued: the first one settles the bed.
LEMMA QueuedBed ==
    ASSUME FrameTypes, BedInv, setup' = setup, NEW e \in Entry, metadata' = Append(metadata, e),
           Declares(syncframes, e) = Declares(syncframes, pending), ApplyBed(pending),
           syncframes' = syncframes, rendered' = rendered, pass' = pass, failures \subseteq failures'
    PROVE  BedInv'
  <1> DEFINE L == Len(rendered) + Len(metadata)
             old == Declared(syncframes, rendered, metadata)
             new == Declared(syncframes, rendered, Append(metadata, e))
  <1>1. SUFFICES ASSUME failures' = {}, pass' = 1
                 PROVE  /\ \A n \in 1 .. Len(rendered) + Len(metadata') : Settles(new, n) => bedSet'
                        /\ (\A n \in 1 .. Len(rendered) + Len(metadata') : new[n] = "none") => ~bedReady'
                        /\ Output # "objects16" =>
                              \A n \in 1 .. Len(rendered) :
                                  Settles(new, n) => \A m \in n .. Len(rendered) : rendered[m].bed
    BY SetupStays DEF BedInv
  <1>2. /\ metadata \in Seq(Entry) /\ rendered \in Seq(Rendering) /\ Len(rendered) \in Nat
        /\ bedReady \in BOOLEAN /\ bedSet \in BOOLEAN
    BY LenProperties DEF FrameTypes
  <1>3. /\ L \in Nat /\ Len(rendered) + Len(metadata') = L + 1
        /\ \A n \in 1 .. L : new[n] = old[n]
        /\ new[L + 1] = Declares(syncframes, e)
    BY <1>2, DeclaredMore
  <1>4. Len(rendered) <= L
    BY <1>2, LenProperties
  <1>5. /\ \A n \in 1 .. L : Settles(old, n) => bedSet
        /\ (\A n \in 1 .. L : old[n] = "none") => ~bedReady
        /\ Output # "objects16" =>
              \A n \in 1 .. Len(rendered) :
                  Settles(old, n) => \A m \in n .. Len(rendered) : rendered[m].bed
    BY <1>1 DEF BedInv
  <1>6. /\ bedSet => bedSet'
        /\ new[L + 1] = "none" => bedReady' = bedReady
        /\ ~bedReady /\ new[L + 1] = "only" => bedSet'
    BY <1>2, <1>3, BedTypes
  <1> HIDE DEF L, old, new
  <1>7. \A n \in 1 .. L : Settles(new, n) <=> Settles(old, n)
    <2>1. \A n \in 1 .. L : 1 .. n - 1 \subseteq 1 .. L
      BY <1>3
    <2>2. QED
      BY <1>3, <2>1 DEF Settles
  <1>8. \A n \in 1 .. L + 1 : n \in 1 .. L \/ n = L + 1
    BY <1>3
  <1>9. Settles(new, L + 1) => bedSet'
    <2>1. ASSUME Settles(new, L + 1)
          PROVE  bedSet'
      <3>1. \A n \in 1 .. L : n \in 1 .. (L + 1) - 1
        BY <1>3
      <3>2. new[L + 1] = "only" /\ \A n \in 1 .. (L + 1) - 1 : new[n] = "none"
        BY <2>1 DEF Settles
      <3>3. ~bedReady
        BY <1>3, <1>5, <3>1, <3>2
      <3>4. QED
        BY <1>6, <3>2, <3>3
    <2>2. QED
      BY <2>1
  <1>10. \A n \in 1 .. L + 1 : Settles(new, n) => bedSet'
    BY <1>5, <1>6, <1>7, <1>8, <1>9
  <1>11. (\A n \in 1 .. L + 1 : new[n] = "none") => ~bedReady'
    <2>1. ASSUME \A n \in 1 .. L + 1 : new[n] = "none"
          PROVE  ~bedReady'
      <3>1. L + 1 \in 1 .. L + 1 /\ 1 .. L \subseteq 1 .. L + 1
        BY <1>3
      <3>2. new[L + 1] = "none" /\ \A n \in 1 .. L : old[n] = "none"
        BY <1>3, <2>1, <3>1
      <3>3. QED
        BY <1>5, <1>6, <3>2
    <2>2. QED
      BY <2>1
  <1>12. Output # "objects16" =>
            \A n \in 1 .. Len(rendered) :
                Settles(new, n) => \A m \in n .. Len(rendered) : rendered[m].bed
    <2>1. \A n \in 1 .. Len(rendered) : n \in 1 .. L
      BY <1>2, <1>3, <1>4
    <2>2. QED
      BY <1>5, <1>7, <2>1
  <1>13. QED
    BY <1>3, <1>10, <1>11, <1>12

\* A frame that is lost, and the bed and the pairs it takes with it.
LEMMA RejectedFrame ==
    ASSUME FrameInv, setup' = setup, UNCHANGED <<input, syncframes, pcmTaken, rendered, pass>>,
           ClosePending, pending.streams # {}, ~PassesChecks(pending), pending' = NoEntry,
           taken' \in 0 .. Len(syncframes), flushes' \in Nat, "cross" \in failures', input = "eac3"
    PROVE  FrameInv'
  <1>1. FrameTypes /\ OwnInv
    BY DEF FrameInv
  <1>2. ApplyBed(pending) /\ metadata' = metadata
    BY DEF ClosePending
  <1>3. bedReady' \in BOOLEAN /\ bedSet' \in BOOLEAN
    BY <1>1, <1>2, BedTypes DEF FrameTypes
  <1>4. FrameTypes'
    BY <1>1, <1>2, <1>3, NoEntryIsOwn DEF FrameTypes, Inputs, Programs
  <1>5. OwnInv'
    <2>1. IsOwn(syncframes, NoEntry)
      BY NoEntryIsOwn
    <2>2. QED
      BY <1>1, <1>2, <2>1 DEF OwnInv
  <1>6. PairInv'
    BY DEF PairInv
  <1>7. BedInv'
    BY DEF BedInv
  <1>8. QED
    BY <1>4, <1>5, <1>6, <1>7 DEF FrameInv

\* The same for the step that rejects a frame.
LEMMA RejectsFrame ==
    ASSUME FrameInv, ReadInv, setup' = setup, FrameRejected
    PROVE  FrameInv'
  <1>1. /\ UNCHANGED <<input, syncframes, pcmTaken, rendered, pass, flushes>>
        /\ ClosePending /\ ~PassesChecks(pending) /\ pending' = NoEntry /\ input = "eac3"
    BY DEF FrameRejected, pcmVars, ReadInv
  <1>2. pending.streams # {}
    BY DEF FrameRejected, Repeats
  <1>3. "cross" \in failures'
    BY DEF FrameRejected, Return
  <1>4. taken' \in 0 .. Len(syncframes) /\ flushes' \in Nat
    <2>1. setup \in Setups /\ syncframes \in Programs /\ taken \in 0 .. Len(syncframes) /\ flushes \in Nat
      BY DEF FrameInv, FrameTypes
    <2>2. taken < Len(syncframes) /\ taken' = taken + 1
      BY DEF FrameRejected, Complete, Readable
    <2>3. Len(syncframes) \in Nat
      BY <2>1, ProgramTypes
    <2>4. QED
      BY <1>1, <2>1, <2>2, <2>3
  <1>5. QED
    BY <1>1, <1>2, <1>3, <1>4, RejectedFrame

\* The first syncframe of a frame, or one that repeats a substream, starts the
\* next frame; the others belong to the one under assembly.
LEMMA NextFrame ==
    ASSUME FrameTypes, PairInv, input = "eac3", "cross" \notin failures, flushes = 0,
           taken < Len(syncframes)
    PROVE  syncframes[taken + 1].frame
              = IF Repeats THEN pcmTaken + Len(metadata) + 2 ELSE pcmTaken + Len(metadata) + 1
  <1> DEFINE q == pcmTaken + Len(metadata)
             i == taken + 1
  <1>1. /\ setup \in Setups /\ syncframes \in Programs /\ taken \in 0 .. Len(syncframes)
        /\ pcmTaken \in Nat /\ metadata \in Seq(Entry)
    BY DEF FrameTypes
  <1>2. /\ Len(syncframes) \in Nat /\ DOMAIN syncframes = 1 .. Len(syncframes) /\ Numbered(syncframes)
    BY <1>1, ProgramTypes
  <1>3. q \in Nat
    BY <1>1, LenProperties
  <1>4. i \in DOMAIN syncframes /\ taken \in Nat /\ i - 1 = taken
    BY <1>1, <1>2
  <1>5. /\ pending.streams = Among(syncframes, q + 1, taken)
        /\ taken = 0 => q = 0
        /\ taken # 0 => syncframes[taken].frame = q + 1
    BY DEF PairInv, Paired
  <1>6. syncframes[i].frame =
            IF i = 1 THEN 1
            ELSE LET frame == syncframes[i - 1].frame
                     repeats == \E j \in 1 .. i - 1 :
                          syncframes[j].frame = frame /\ syncframes[j].key = syncframes[i].key
                 IN  IF repeats THEN frame + 1 ELSE frame
    BY <1>2, <1>4, Zenon DEF Numbered
  <1> HIDE DEF q
  <1>7. CASE taken = 0
    <2>1. pending.streams = {}
      BY <1>5, <1>7 DEF Among
    <2>2. ~Repeats
      BY <2>1 DEF Repeats
    <2>3. syncframes[i].frame = 1
      <3>1. i = 1
        BY <1>7
      <3> HIDE DEF i
      <3>2. QED
        BY <1>6, <3>1
    <2>4. QED
      BY <1>5, <1>7, <2>2, <2>3 DEF q
  <1>8. CASE taken # 0
    <2> DEFINE again == \E j \in 1 .. taken : /\ syncframes[j].frame = q + 1
                                             /\ syncframes[j].key = syncframes[i].key
    <2>1. i # 1
      BY <1>4, <1>8
    <2>2. syncframes[i].frame = IF again THEN q + 1 + 1 ELSE q + 1
      <3>1. syncframes[i - 1].frame = q + 1
        BY <1>4, <1>5, <1>8
      <3> HIDE DEF i
      <3>2. QED
        BY <1>4, <1>6, <2>1, <3>1
    <2>3. Repeats <=> again
      <3>1. \A j : j \in pending.streams <=> j \in 1 .. taken /\ syncframes[j].frame = q + 1
        BY <1>5 DEF Among
      <3>2. QED
        BY <3>1 DEF Repeats
    <2> HIDE DEF again
    <2>4. QED
      BY <1>3, <2>2, <2>3 DEF q
  <1>9. QED
    BY <1>7, <1>8

\* A syncframe joins its frame, and a frame whose successor starts is queued.
LEMMA JoinsFrame ==
    ASSUME FrameInv, ReadInv, setup' = setup, SyncframeJoins
    PROVE  FrameInv'
  <1> DEFINE i == taken + 1
             before == IF Repeats THEN NoEntry ELSE pending
  <1>1. FrameTypes /\ OwnInv /\ PairInv /\ BedInv
    BY DEF FrameInv
  <1>2. /\ setup \in Setups /\ input \in Inputs /\ syncframes \in Programs
        /\ taken \in 0 .. Len(syncframes)
        /\ pending \in Entry /\ metadata \in Seq(Entry) /\ rendered \in Seq(Rendering)
        /\ pcmTaken \in Nat /\ flushes \in Nat /\ pass \in Nat \ {0}
        /\ bedReady \in BOOLEAN /\ bedSet \in BOOLEAN
    BY <1>1 DEF FrameTypes
  <1>3. /\ input' = input /\ syncframes' = syncframes /\ pcmTaken' = pcmTaken /\ rendered' = rendered
        /\ flushes' = flushes /\ pass' = pass /\ taken' = i /\ pending' = Joined(before, i)
        /\ failures \subseteq failures' /\ taken < Len(syncframes)
    BY DEF SyncframeJoins, pcmVars, Return, Continue, Complete, Readable
  <1>4. input = "eac3" /\ (flushes = 0 \/ LatePush)
    BY DEF SyncframeJoins, ReadInv
  <1>5. /\ Repeats => ClosePending /\ PassesChecks(pending) /\ pending.streams # {}
        /\ ~Repeats => metadata' = metadata /\ bedReady' = bedReady /\ bedSet' = bedSet
    BY DEF SyncframeJoins, Repeats, bedVars
  <1>6. Len(syncframes) \in Nat /\ taken \in Nat /\ i \in Nat \ {0} /\ i \in 0 .. Len(syncframes)
    <2>1. Len(syncframes) \in Nat
      BY <1>2, ProgramTypes
    <2>2. QED
      BY <1>2, <1>3, <2>1
  <1>7. before \in Entry /\ IsOwn(syncframes, before)
    BY <1>1, <1>2, NoEntryIsOwn DEF OwnInv
  <1>8. /\ pending' \in Entry /\ pending'.streams = before.streams \cup {i} /\ IsOwn(syncframes, pending')
    BY <1>3, <1>6, <1>7, JoinedIsOwn
  <1>9. input' # "objects16"
    BY <1>3, <1>4
  <1>10. "cross" \notin failures' /\ (flushes' = 0 \/ ~LatePush') => "cross" \notin failures /\ flushes = 0
    BY <1>3, <1>4, SetupStays
  <1>11. \A j \in 1 .. taken : syncframes[j].frame \in Nat
    BY <1>2, <1>6, ProgramTypes
  <1>12. CASE Repeats
    <2>1. /\ ApplyBed(pending)
          /\ \E e \in Entry : /\ metadata' = Append(metadata, e) /\ e.streams = pending.streams
                              /\ IsOwn(syncframes, e)
                              /\ Declares(syncframes, e) = Declares(syncframes, pending)
      BY <1>1, <1>5, <1>12, Closing
    <2>2. PICK e \in Entry : /\ metadata' = Append(metadata, e) /\ e.streams = pending.streams
                             /\ IsOwn(syncframes, e)
                             /\ Declares(syncframes, e) = Declares(syncframes, pending)
      BY <2>1
    <2>3. metadata' \in Seq(Entry) /\ Len(metadata') = Len(metadata) + 1
      BY <1>2, <2>2, AppendProperties
    <2>4. FrameTypes'
      <3>1. bedReady' \in BOOLEAN /\ bedSet' \in BOOLEAN
        BY <1>2, <2>1, BedTypes
      <3>2. QED
        BY <1>2, <1>3, <1>6, <1>8, <1>9, <2>3, <3>1 DEF FrameTypes, Inputs, Programs
    <2>5. OwnInv'
      <3>1. Range(metadata') = Range(metadata) \cup {e}
        BY <1>2, <2>2, RangeAppend
      <3>2. QED
        BY <1>1, <1>3, <1>8, <2>2, <3>1 DEF OwnInv
    <2>6. PairInv'
      <3>1. ASSUME "cross" \notin failures', flushes' = 0 \/ ~LatePush'
            PROVE  /\ Paired(syncframes, i, metadata', pcmTaken, pending', rendered)
                   /\ syncframes[i].frame = pcmTaken + Len(metadata') + 1
        <4>1. Paired(syncframes, taken, metadata, pcmTaken, pending, rendered)
          BY <1>1, <1>4, <1>10, <3>1 DEF PairInv
        <4>2. NoEntry.streams = {}
          BY NoEntryIsOwn
        <4>3. Paired(syncframes, taken, metadata', pcmTaken, NoEntry, rendered)
          BY <1>2, <1>6, <1>11, <2>2, <4>1, <4>2, ClosePaired
        <4>4. syncframes[i].frame = pcmTaken + Len(metadata) + 2
          BY <1>1, <1>3, <1>4, <1>10, <1>12, <3>1, NextFrame
        <4>5. Len(metadata) \in Nat
          BY <1>2, LenProperties
        <4>6. syncframes[taken + 1].frame = pcmTaken + Len(metadata') + 1
          BY <1>2, <2>3, <4>4, <4>5
        <4>7. pending'.streams = NoEntry.streams \cup {taken + 1}
          BY <1>8, <1>12
        <4>8. QED
          BY <1>2, <1>6, <1>11, <2>3, <4>3, <4>6, <4>7, JoinPaired
      <3>2. QED
        BY <1>3, <1>6, <3>1 DEF PairInv
    <2>7. BedInv'
      BY <1>1, <1>3, <2>1, <2>2, QueuedBed
    <2>8. QED
      BY <2>4, <2>5, <2>6, <2>7 DEF FrameInv
  <1>13. CASE ~Repeats
    <2>1. metadata' = metadata /\ bedReady' = bedReady /\ bedSet' = bedSet
      BY <1>5, <1>13
    <2>2. FrameTypes'
      BY <1>2, <1>3, <1>6, <1>8, <1>9, <2>1 DEF FrameTypes, Inputs, Programs
    <2>3. OwnInv'
      BY <1>1, <1>3, <1>8, <2>1 DEF OwnInv
    <2>4. PairInv'
      <3>1. ASSUME "cross" \notin failures', flushes' = 0 \/ ~LatePush'
            PROVE  /\ Paired(syncframes, i, metadata', pcmTaken, pending', rendered)
                   /\ syncframes[i].frame = pcmTaken + Len(metadata') + 1
        <4>1. Paired(syncframes, taken, metadata, pcmTaken, pending, rendered)
          BY <1>1, <1>4, <1>10, <3>1 DEF PairInv
        <4>2. syncframes[taken + 1].frame = pcmTaken + Len(metadata) + 1
          BY <1>1, <1>3, <1>4, <1>10, <1>13, <3>1, NextFrame
        <4>3. pending'.streams = pending.streams \cup {taken + 1}
          BY <1>8, <1>13
        <4>4. Paired(syncframes, taken + 1, metadata, pcmTaken, pending', rendered)
          BY <1>2, <1>6, <1>11, <4>1, <4>2, <4>3, JoinPaired
        <4>5. QED
          BY <2>1, <4>2, <4>4
      <3>2. QED
        BY <1>3, <1>6, <3>1 DEF PairInv
    <2>5. BedInv'
      BY <1>1, <1>3, <2>1, SetupStays DEF BedInv
    <2>6. QED
      BY <2>2, <2>3, <2>4, <2>5 DEF FrameInv
  <1>14. QED
    BY <1>12, <1>13

-----------------------------------------------------------------------------
(***************************************************************************)
(* Flushing, rendering and starting again.                                 *)
(***************************************************************************)
\* The objects16 output takes E-AC-3 only.
LEMMA InputTypes ==
    ASSUME setup \in Setups, input \in Inputs
    PROVE  /\ input \in {"eac3", "objects16"}
           /\ Output = "objects16" => input = "eac3"
  BY StreamAssumption DEF Inputs, Output

\* flush queues the frame under assembly.
LEMMA FlushesFrame ==
    ASSUME FrameInv, setup' = setup, Flush
    PROVE  FrameInv'
  <1>1. FrameTypes /\ OwnInv /\ PairInv /\ BedInv
    BY DEF FrameInv
  <1>2. /\ setup \in Setups /\ input \in Inputs /\ syncframes \in Programs
        /\ taken \in 0 .. Len(syncframes)
        /\ pending \in Entry /\ metadata \in Seq(Entry) /\ rendered \in Seq(Rendering)
        /\ pcmTaken \in Nat /\ flushes \in Nat /\ pass \in Nat \ {0}
        /\ bedReady \in BOOLEAN /\ bedSet \in BOOLEAN
        /\ input = "objects16" => pending = NoEntry /\ metadata = <<>>
    BY <1>1 DEF FrameTypes
  <1>3. /\ input' = input /\ syncframes' = syncframes /\ pcmTaken' = pcmTaken /\ rendered' = rendered
        /\ pass' = pass /\ taken' = taken /\ pending' = NoEntry /\ flushes' = flushes + 1
        /\ failures \subseteq failures' /\ ClosePending
    BY DEF Flush, pcmVars, readerVars
  <1>4. flushes' \in Nat /\ flushes' # 0
    BY <1>2, <1>3
  <1>5. NoEntry \in Entry /\ IsOwn(syncframes, NoEntry) /\ NoEntry.streams = {}
    BY NoEntryIsOwn
  <1>6. Len(syncframes) \in Nat /\ taken \in Nat /\ \A j \in 1 .. taken : syncframes[j].frame \in Nat
    <2>1. Len(syncframes) \in Nat /\ \A j \in 1 .. Len(syncframes) : syncframes[j].frame \in Nat
      BY <1>2, ProgramTypes
    <2>2. QED
      BY <1>2, <2>1
  <1>7. CASE pending.streams = {}
    <2>1. metadata' = metadata /\ bedReady' = bedReady /\ bedSet' = bedSet
      BY <1>3, <1>7 DEF ClosePending, bedVars
    <2>2. FrameTypes'
      BY <1>2, <1>3, <1>4, <1>5, <2>1 DEF FrameTypes, Inputs, Programs
    <2>3. OwnInv'
      BY <1>1, <1>3, <1>5, <2>1 DEF OwnInv
    <2>4. PairInv'
      <3>1. ASSUME input = "eac3", "cross" \notin failures', ~LatePush'
            PROVE  Paired(syncframes, taken, metadata, pcmTaken, NoEntry, rendered)
        <4>1. Paired(syncframes, taken, metadata, pcmTaken, pending, rendered)
          BY <1>1, <1>3, <3>1, SetupStays DEF PairInv
        <4>2. QED
          BY <1>5, <1>7, <4>1 DEF Paired
      <3>2. QED
        BY <1>3, <1>4, <2>1, <3>1 DEF PairInv
    <2>5. BedInv'
      BY <1>1, <1>3, <2>1, SetupStays DEF BedInv
    <2>6. QED
      BY <2>2, <2>3, <2>4, <2>5 DEF FrameInv
  <1>8. CASE pending.streams # {} /\ PassesChecks(pending)
    <2>1. /\ ApplyBed(pending)
          /\ \E e \in Entry : /\ metadata' = Append(metadata, e) /\ e.streams = pending.streams
                              /\ IsOwn(syncframes, e)
                              /\ Declares(syncframes, e) = Declares(syncframes, pending)
      BY <1>1, <1>3, <1>8, Closing
    <2>2. PICK e \in Entry : /\ metadata' = Append(metadata, e) /\ e.streams = pending.streams
                             /\ IsOwn(syncframes, e)
                             /\ Declares(syncframes, e) = Declares(syncframes, pending)
      BY <2>1
    <2>3. metadata' \in Seq(Entry) /\ bedReady' \in BOOLEAN /\ bedSet' \in BOOLEAN
      BY <1>2, <2>1, <2>2, AppendProperties, BedTypes
    <2>4. input # "objects16"
      BY <1>2, <1>5, <1>8
    <2>5. FrameTypes'
      BY <1>2, <1>3, <1>4, <1>5, <2>3, <2>4 DEF FrameTypes, Inputs, Programs
    <2>6. OwnInv'
      <3>1. Range(metadata') = Range(metadata) \cup {e}
        BY <1>2, <2>2, RangeAppend
      <3>2. QED
        BY <1>1, <1>3, <1>5, <2>2, <3>1 DEF OwnInv
    <2>7. PairInv'
      <3>1. ASSUME input = "eac3", "cross" \notin failures', ~LatePush'
            PROVE  Paired(syncframes, taken, metadata', pcmTaken, NoEntry, rendered)
        <4>1. Paired(syncframes, taken, metadata, pcmTaken, pending, rendered)
          BY <1>1, <1>3, <3>1, SetupStays DEF PairInv
        <4>2. QED
          BY <1>2, <1>5, <1>6, <2>2, <4>1, ClosePaired
      <3>2. QED
        BY <1>3, <1>4, <3>1 DEF PairInv
    <2>8. BedInv'
      BY <1>1, <1>3, <2>1, <2>2, QueuedBed
    <2>9. QED
      BY <2>5, <2>6, <2>7, <2>8 DEF FrameInv
  <1>9. CASE pending.streams # {} /\ ~PassesChecks(pending)
    <2>1. "cross" \in failures'
      BY <1>9 DEF Flush
    <2>2. input = "eac3"
      BY <1>2, <1>5, <1>9, InputTypes
    <2>3. taken' \in 0 .. Len(syncframes)
      BY <1>2, <1>3
    <2>4. QED
      BY <1>3, <1>4, <1>9, <2>1, <2>2, <2>3, RejectedFrame
  <1>10. QED
    BY <1>7, <1>8, <1>9

\* A rendered frame takes part with the bed that is settled by then.
LEMMA RenderedBed ==
    ASSUME BedInv, setup' = setup, NEW L \in Nat, NEW M \in Nat, L <= M,
           Len(rendered) \in Nat, Len(rendered) + 1 <= M, Len(rendered) <= L,
           Len(rendered) + Len(metadata) = L, Len(rendered') + Len(metadata') = M,
           \A n \in 1 .. L : Declared(syncframes, rendered', metadata')[n]
                                = Declared(syncframes, rendered, metadata)[n],
           \A n \in L + 1 .. M : Declared(syncframes, rendered', metadata')[n] = "none",
           Len(rendered') = Len(rendered) + 1,
           \A m \in 1 .. Len(rendered) : rendered'[m] = rendered[m],
           rendered'[Len(rendered) + 1].bed = (bedSet /\ Output # "objects16"),
           syncframes' = syncframes, bedReady' = bedReady, bedSet' = bedSet,
           pass' = pass, failures \subseteq failures'
    PROVE  BedInv'
  <1> DEFINE P == Len(rendered)
             old == Declared(syncframes, rendered, metadata)
             new == Declared(syncframes, rendered', metadata')
  <1>1. SUFFICES ASSUME failures' = {}, pass' = 1
                 PROVE  /\ \A n \in 1 .. M : Settles(new, n) => bedSet
                        /\ (\A n \in 1 .. M : new[n] = "none") => ~bedReady
                        /\ Output # "objects16" =>
                              \A n \in 1 .. P + 1 :
                                  Settles(new, n) => \A m \in n .. P + 1 : rendered'[m].bed
    BY SetupStays DEF BedInv
  <1>2. /\ \A n \in 1 .. L : Settles(old, n) => bedSet
        /\ (\A n \in 1 .. L : old[n] = "none") => ~bedReady
        /\ Output # "objects16" =>
              \A n \in 1 .. P : Settles(old, n) => \A m \in n .. P : rendered[m].bed
    BY <1>1 DEF BedInv
  <1>3. /\ \A n \in 1 .. L : new[n] = old[n]
        /\ \A n \in L + 1 .. M : new[n] = "none"
        /\ \A m \in 1 .. P : rendered'[m] = rendered[m]
        /\ rendered'[P + 1].bed = (bedSet /\ Output # "objects16")
        /\ P \in Nat /\ P + 1 <= M /\ P <= L
    OBVIOUS
  <1> HIDE DEF P, old, new
  <1>4. \A n \in 1 .. L : Settles(new, n) <=> Settles(old, n)
    <2>1. \A n \in 1 .. L : 1 .. n - 1 \subseteq 1 .. L
      OBVIOUS
    <2>2. QED
      BY <1>3, <2>1 DEF Settles
  <1>5. \A n \in 1 .. M : n \in 1 .. L \/ n \in L + 1 .. M
    OBVIOUS
  <1>6. \A n \in 1 .. M : Settles(new, n) => n \in 1 .. L
    BY <1>3, <1>5 DEF Settles
  <1>7. \A n \in 1 .. M : Settles(new, n) => bedSet
    BY <1>2, <1>4, <1>6
  <1>8. (\A n \in 1 .. M : new[n] = "none") => ~bedReady
    <2>1. 1 .. L \subseteq 1 .. M
      OBVIOUS
    <2>2. QED
      BY <1>2, <1>3, <2>1
  <1>9. ASSUME Output # "objects16", NEW n \in 1 .. P + 1, Settles(new, n), NEW m \in n .. P + 1
        PROVE  rendered'[m].bed
    <2>1. n \in 1 .. M
      BY <1>3
    <2>2. bedSet /\ Settles(old, n)
      BY <1>4, <1>6, <1>7, <1>9, <2>1
    <2>3. CASE m = P + 1
      BY <1>3, <1>9, <2>2, <2>3
    <2>4. CASE m \in n .. P
      <3>1. n \in 1 .. P /\ m \in 1 .. P
        BY <1>3, <2>4
      <3>2. rendered[m].bed
        BY <1>2, <1>9, <2>2, <2>4, <3>1
      <3>3. QED
        BY <1>3, <3>1, <3>2
    <2>5. m = P + 1 \/ m \in n .. P
      BY <1>3
    <2>6. QED
      BY <2>3, <2>4, <2>5
  <1>10. QED
    BY <1>7, <1>8, <1>9

\* A frame without metadata declares nothing.
LEMMA DeclaredPlays ==
    ASSUME NEW s, NEW played \in Seq(Rendering), NEW r \in Rendering, r.entry = NoEntry
    PROVE  LET P == Len(played) IN
           /\ P \in Nat /\ Len(<<>>) = 0 /\ Len(Append(played, r)) = P + 1
           /\ \A n \in 1 .. P : Declared(s, Append(played, r), <<>>)[n] = Declared(s, played, <<>>)[n]
           /\ Declared(s, Append(played, r), <<>>)[P + 1] = "none"
  <1> DEFINE p == Append(played, r)
             P == Len(played)
  <1>1. P \in Nat /\ Len(p) = P + 1 /\ (\A j \in 1 .. P : p[j] = played[j]) /\ p[P + 1] = r
    BY AppendProperties, LenProperties
  <1>2. Len(<<>>) = 0
    BY EmptySeq
  <1>3. NoEntry.update = 0
    BY DEF NoEntry
  <1> HIDE DEF p, P
  <1>4. \A n \in 1 .. P :
           Declared(s, played, <<>>)[n] = Declares(s, IF n <= P THEN played[n].entry ELSE <<>>[n - P])
    BY <1>1, <1>2 DEF Declared, P
  <1>5. \A n \in 1 .. P + 1 :
           Declared(s, p, <<>>)[n] = Declares(s, IF n <= P + 1 THEN p[n].entry ELSE <<>>[n - (P + 1)])
    BY <1>1, <1>2 DEF Declared
  <1>6. \A n \in 1 .. P : n \in 1 .. P + 1 /\ n <= P /\ n <= P + 1
    BY <1>1
  <1>7. \A n \in 1 .. P : Declared(s, p, <<>>)[n] = Declared(s, played, <<>>)[n]
    BY <1>1, <1>4, <1>5, <1>6
  <1>8. P + 1 \in 1 .. P + 1 /\ P + 1 <= P + 1
    BY <1>1
  <1>9. Declared(s, p, <<>>)[P + 1] = Declares(s, p[P + 1].entry)
    BY <1>5, <1>8
  <1>10. Declared(s, p, <<>>)[P + 1] = "none"
    BY <1>1, <1>3, <1>9 DEF Declares
  <1>11. QED
    BY <1>1, <1>2, <1>7, <1>10 DEF p, P

\* A frame is rendered with its own core PCM and metadata, or is lost with them.
LEMMA RendersFrame ==
    ASSUME FrameInv, setup' = setup, RenderFrame
    PROVE  FrameInv'
  <1> DEFINE entry == IF input = "eac3" THEN Head(metadata) ELSE NoEntry
             r == [entry |-> entry, pcm |-> pcmTaken + 1, bed |-> bedSet /\ Output # "objects16"]
             P == Len(rendered)
  <1>1. FrameTypes /\ OwnInv /\ PairInv /\ BedInv
    BY DEF FrameInv
  <1>2. /\ setup \in Setups /\ input \in Inputs /\ syncframes \in Programs
        /\ taken \in 0 .. Len(syncframes)
        /\ pending \in Entry /\ metadata \in Seq(Entry) /\ rendered \in Seq(Rendering)
        /\ pcmTaken \in Nat /\ flushes \in Nat /\ pass \in Nat \ {0}
        /\ bedReady \in BOOLEAN /\ bedSet \in BOOLEAN
        /\ input = "objects16" => pending = NoEntry /\ metadata = <<>>
    BY <1>1 DEF FrameTypes
  <1>3. /\ input' = input /\ syncframes' = syncframes /\ pending' = pending /\ taken' = taken
        /\ pass' = pass /\ flushes' = flushes /\ bedReady' = bedReady /\ bedSet' = bedSet
        /\ pcmTaken' = pcmTaken + 1 /\ failures \subseteq failures'
        /\ metadata' = IF input = "eac3" THEN SubSeq(metadata, 2, Len(metadata)) ELSE metadata
        /\ input = "eac3" => metadata # <<>>
    BY DEF RenderFrame, readerVars, bedVars, Return, Continue, FrameReady
  <1>4. \/ rendered' = rendered /\ failures' # {}
        \/ rendered' = Append(rendered, r)
    BY DEF RenderFrame, Return
  <1>5. /\ input = "eac3" => /\ metadata' \in Seq(Entry) /\ Range(metadata') \subseteq Range(metadata)
                             /\ Len(metadata') = Len(metadata) - 1
                             /\ entry \in Entry /\ entry = Head(metadata) /\ entry \in Range(metadata)
        /\ input = "objects16" => metadata' = <<>> /\ metadata = <<>> /\ entry = NoEntry
    <2>1. CASE input = "eac3"
      <3>1. /\ Head(metadata) \in Entry /\ Head(metadata) = metadata[1] /\ 1 \in 1 .. Len(metadata)
            /\ metadata' \in Seq(Entry) /\ Len(metadata') = Len(metadata) - 1
            /\ Range(metadata') \subseteq Range(metadata)
        BY <1>2, <1>3, <2>1, RestOf
      <3>2. DOMAIN metadata = 1 .. Len(metadata)
        BY <1>2, LenProperties
      <3>3. Head(metadata) \in Range(metadata)
        BY <3>1, <3>2 DEF Range
      <3>4. QED
        BY <2>1, <3>1, <3>3
    <2>2. CASE input # "eac3"
      BY <1>2, <1>3, <2>2
    <2>3. QED
      BY <2>1, <2>2
  <1>6. input \in {"eac3", "objects16"}
    BY <1>2, InputTypes
  <1>7. entry \in Entry /\ IsOwn(syncframes, entry)
    BY <1>1, <1>5, <1>6, NoEntryIsOwn DEF OwnInv
  <1> HIDE DEF entry
  <1>8. r \in Rendering /\ r.entry = entry /\ r.pcm = pcmTaken + 1 /\ r.bed = (bedSet /\ Output # "objects16")
    BY <1>2, <1>7 DEF Rendering
  <1> HIDE DEF r
  <1>9. /\ rendered' \in Seq(Rendering)
        /\ rendered' = Append(rendered, r) => Range(rendered') = Range(rendered) \cup {r}
    <2>1. /\ Append(rendered, r) \in Seq(Rendering)
          /\ Range(Append(rendered, r)) = Range(rendered) \cup {r}
      BY <1>2, <1>8, AppendProperties, RangeAppend
    <2>2. QED
      BY <1>2, <1>4, <2>1
  <1>10. metadata' \in Seq(Entry) /\ Range(metadata') \subseteq Range(metadata)
    BY <1>2, <1>5, <1>6
  <1>11. FrameTypes'
    BY <1>2, <1>3, <1>5, <1>9, <1>10 DEF FrameTypes, Inputs, Programs
  <1>12. OwnInv'
    BY <1>1, <1>3, <1>4, <1>7, <1>8, <1>9, <1>10 DEF OwnInv
  <1>13. PairInv'
    <2>1. ASSUME input = "eac3", "cross" \notin failures', flushes = 0 \/ ~LatePush
          PROVE  /\ Paired(syncframes, taken, metadata', pcmTaken + 1, pending, rendered')
                 /\ pcmTaken + 1 + Len(metadata') = pcmTaken + Len(metadata)
                 /\ flushes = 0 /\ taken = 0 => pcmTaken + Len(metadata) = 0
                 /\ flushes = 0 /\ taken # 0 =>
                       syncframes[taken].frame = pcmTaken + Len(metadata) + 1
      <3>1. /\ Paired(syncframes, taken, metadata, pcmTaken, pending, rendered)
            /\ flushes = 0 /\ taken = 0 => pcmTaken + Len(metadata) = 0
            /\ flushes = 0 /\ taken # 0 => syncframes[taken].frame = pcmTaken + Len(metadata) + 1
        BY <1>1, <1>3, <2>1 DEF PairInv
      <3>2. Len(metadata) \in Nat
        BY <1>2, LenProperties
      <3>3. pcmTaken + 1 + Len(metadata') = pcmTaken + Len(metadata)
        BY <1>2, <1>5, <2>1, <3>2
      <3>4. /\ Paired(syncframes, taken, metadata', pcmTaken + 1, pending, rendered)
            /\ entry.streams = Among(syncframes, pcmTaken + 1, taken)
        BY <1>2, <1>3, <1>5, <2>1, <3>1, DropPaired
      <3>5. pcmTaken + 1 \in Nat
        BY <1>2
      <3>6. Paired(syncframes, taken, metadata', pcmTaken + 1, pending, Append(rendered, r))
        BY <1>2, <1>8, <3>4, <3>5, PlayPaired
      <3>7. QED
        BY <1>4, <3>1, <3>3, <3>4, <3>6
    <2>2. LatePush' = LatePush
      BY SetupStays
    <2>3. QED
      BY <1>3, <2>1, <2>2 DEF PairInv
  <1>14. BedInv'
    <2>1. CASE failures' # {}
      BY <2>1 DEF BedInv
    <2>2. CASE failures' = {}
      <3>1. rendered' = Append(rendered, r)
        BY <1>4, <2>2
      <3>2. /\ P \in Nat /\ Len(rendered') = P + 1
            /\ (\A m \in 1 .. P : rendered'[m] = rendered[m]) /\ rendered'[P + 1] = r
        BY <1>2, <1>8, <3>1, AppendProperties, LenProperties
      <3>3. rendered'[P + 1].bed = (bedSet /\ Output # "objects16")
        BY <1>8, <3>2
      <3>4. CASE input = "eac3"
        <4> DEFINE L == P + Len(metadata)
        <4>1. Len(metadata) \in Nat \ {0}
          BY <1>2, <1>3, <3>4, EmptySeq
        <4>2. L \in Nat /\ P + 1 <= L /\ P <= L /\ Len(rendered) + Len(metadata) = L
          BY <3>2, <4>1
        <4>3. /\ Len(rendered') + Len(metadata') = L
              /\ \A n \in 1 .. L : Declared(syncframes, rendered', metadata')[n]
                                      = Declared(syncframes, rendered, metadata)[n]
          <5>1. metadata # <<>> /\ metadata' = SubSeq(metadata, 2, Len(metadata)) /\ r.entry = Head(metadata)
            BY <1>3, <1>5, <1>8, <3>4
          <5>2. /\ Len(Append(rendered, r)) + Len(SubSeq(metadata, 2, Len(metadata))) = P + Len(metadata)
                /\ \A n \in 1 .. P + Len(metadata) :
                      Declared(syncframes, Append(rendered, r), SubSeq(metadata, 2, Len(metadata)))[n]
                         = Declared(syncframes, rendered, metadata)[n]
            BY <1>2, <1>8, <5>1, DeclaredMoves
          <5>3. QED
            BY <3>1, <5>1, <5>2
        <4> HIDE DEF L
        <4>4. L <= L /\ \A n \in L + 1 .. L : Declared(syncframes, rendered', metadata')[n] = "none"
          BY <4>2
        <4>5. QED
          BY <1>1, <1>3, <3>2, <3>3, <4>2, <4>3, <4>4, RenderedBed
      <3>5. CASE input = "objects16"
        <4>1. metadata = <<>> /\ metadata' = <<>> /\ r.entry = NoEntry
          BY <1>5, <1>8, <3>5
        <4>2. /\ Len(<<>>) = 0
              /\ \A n \in 1 .. P : Declared(syncframes, rendered', <<>>)[n]
                                      = Declared(syncframes, rendered, <<>>)[n]
              /\ Declared(syncframes, rendered', <<>>)[P + 1] = "none"
          BY <1>2, <1>8, <3>1, <4>1, DeclaredPlays
        <4>3. /\ P + 1 \in Nat /\ P <= P + 1 /\ P + 1 <= P + 1 /\ P <= P /\ P + 1 .. P + 1 = {P + 1}
              /\ P + Len(metadata) = P /\ Len(rendered') + Len(metadata') = P + 1
          BY <3>2, <4>1, <4>2
        <4>4. \A n \in P + 1 .. P + 1 : Declared(syncframes, rendered', metadata')[n] = "none"
          BY <4>1, <4>2, <4>3
        <4>5. \A n \in 1 .. P : Declared(syncframes, rendered', metadata')[n]
                                  = Declared(syncframes, rendered, metadata)[n]
          BY <4>1, <4>2
        <4>6. QED
          BY <1>1, <1>3, <3>2, <3>3, <4>3, <4>4, <4>5, RenderedBed
      <3>6. QED
        BY <1>6, <3>4, <3>5
    <2>3. QED
      BY <2>1, <2>2
  <1>15. QED
    BY <1>11, <1>12, <1>13, <1>14 DEF FrameInv

\* The start of a pass.
LEMMA NothingPlayed ==
    /\ NoEntry \in Entry /\ \A s : IsOwn(s, NoEntry)
    /\ <<>> \in Seq(Entry) /\ <<>> \in Seq(Rendering) /\ Len(<<>>) = 0 /\ Range(<<>>) = {}
    /\ \A s : Paired(s, 0, <<>>, 0, NoEntry, <<>>)
    /\ 1 .. Len(<<>>) = {} /\ 1 .. Len(<<>>) + Len(<<>>) = {}
  <1>1. NoEntry \in Entry /\ \A s : IsOwn(s, NoEntry)
    BY DEF NoEntry, Entry, IsOwn
  <1>2. <<>> \in Seq(Entry) /\ <<>> \in Seq(Rendering) /\ Len(<<>>) = 0 /\ Range(<<>>) = {}
    BY EmptySeq, EmptyRange
  <1>3. 1 .. Len(<<>>) = {} /\ 1 .. Len(<<>>) + Len(<<>>) = {}
    BY <1>2
  <1>4. NoEntry.streams = {}
    BY DEF NoEntry
  <1>5. \A s : Paired(s, 0, <<>>, 0, NoEntry, <<>>)
    BY <1>2, <1>4 DEF Paired, Among
  <1>6. QED
    BY <1>1, <1>2, <1>3, <1>5

\* A new stream has no frames.
LEMMA InitFrame ==
    ASSUME Init
    PROVE  FrameInv /\ ReadInv
  <1>1. /\ setup \in Setups /\ input \in Inputs /\ syncframes \in Programs
        /\ taken = 0 /\ pending = NoEntry /\ metadata = <<>> /\ pcmTaken = 0
        /\ rendered = <<>> /\ flushes = 0 /\ pass = 1 /\ bedReady = FALSE /\ bedSet = FALSE
        /\ at = "idle"
    BY DEF Init
  <1>2. 0 \in 0 .. Len(syncframes)
    BY <1>1, ProgramTypes
  <1>3. FrameTypes
    <2>1. bedReady \in BOOLEAN /\ bedSet \in BOOLEAN
      <3>1. bedReady = FALSE /\ bedSet = FALSE
        BY <1>1
      <3>2. QED
        BY <3>1
    <2>2. /\ pass \in Nat \ {0}
          /\ pending \in Entry /\ metadata \in Seq(Entry) /\ rendered \in Seq(Rendering)
          /\ taken \in 0 .. Len(syncframes) /\ pcmTaken \in Nat /\ flushes \in Nat
      BY <1>1, <1>2, NothingPlayed
    <2>3. QED
      BY <1>1, <2>1, <2>2 DEF FrameTypes
  <1>4. OwnInv
    BY <1>1, NothingPlayed DEF OwnInv
  <1>5. PairInv
    <2>1. Paired(syncframes, taken, metadata, pcmTaken, pending, rendered)
      BY <1>1, NothingPlayed
    <2>2. pcmTaken + Len(metadata) = 0
      BY <1>1, NothingPlayed
    <2>3. QED
      BY <1>1, <2>1, <2>2 DEF PairInv
  <1>6. BedInv
    BY <1>1, NothingPlayed DEF BedInv
  <1>7. QED
    BY <1>1, <1>3, <1>4, <1>5, <1>6 DEF FrameInv, ReadInv

\* Another pass starts like the first, but for the bed.
LEMMA ResetsFrame ==
    ASSUME FrameInv, setup' = setup, Reset
    PROVE  FrameInv'
  <1>1. /\ setup \in Setups /\ input \in Inputs /\ pass \in Nat \ {0}
        /\ bedReady \in BOOLEAN /\ bedSet \in BOOLEAN
    BY DEF FrameInv, FrameTypes
  <1>2. /\ setup' \in Setups /\ input' \in Inputs' /\ syncframes' \in Programs'
        /\ taken' = 0 /\ pending' = NoEntry /\ metadata' = <<>> /\ pcmTaken' = 0
        /\ rendered' = <<>> /\ flushes' = 0 /\ pass' = pass + 1
        /\ bedReady' = bedReady /\ bedSet' = bedSet
    BY <1>1 DEF Reset, bedVars, Inputs, Programs
  <1>3. pass' \in Nat \ {0} /\ pass' # 1
    BY <1>1, <1>2
  <1>4. 0 \in 0 .. Len(syncframes')
    <2>1. syncframes' \in Seq(Syncframe)
      BY <1>1, <1>2, StreamAssumption DEF Programs
    <2>2. QED
      BY <2>1, LenProperties
  <1>5. FrameTypes'
    BY <1>1, <1>2, <1>3, <1>4, NothingPlayed DEF FrameTypes
  <1>6. OwnInv'
    BY <1>2, NothingPlayed DEF OwnInv
  <1>7. PairInv'
    <2>1. Paired(syncframes', taken', metadata', pcmTaken', pending', rendered')
      BY <1>2, NothingPlayed
    <2>2. pcmTaken' + Len(metadata') = 0
      BY <1>2, NothingPlayed
    <2>3. QED
      BY <1>2, <2>1, <2>2 DEF PairInv
  <1>8. BedInv'
    BY <1>3 DEF BedInv
  <1>9. QED
    BY <1>5, <1>6, <1>7, <1>8 DEF FrameInv

\* A step is one of the operations, and keeps the configuration.
LEMMA NextIsOne ==
    ASSUME Next
    PROVE  /\ setup' = setup
           /\ \/ \E n \in Nat : PushEac3(n) \/ PushObjects(n) \/ Pull(n)
              \/ \E n, channels \in Nat : PushBed(n, channels)
              \/ Flush \/ Reset \/ ReaderFails \/ FrameRejected \/ SyncframeJoins \/ ReaderIsDry
              \/ Prepare \/ RenderFrame \/ RenderStops \/ Finish
  BY DEF Next, Call, Step

\* The steps that leave the frames alone.
LEMMA OtherStep ==
    ASSUME \/ \E n \in Nat : PushEac3(n) \/ PushObjects(n) \/ Pull(n)
           \/ \E n, channels \in Nat : PushBed(n, channels)
           \/ ReaderFails \/ ReaderIsDry \/ Prepare \/ RenderStops \/ Finish
    PROVE  /\ UNCHANGED <<input, syncframes, taken, pending, metadata, pcmTaken, bedReady, bedSet,
                          rendered, flushes, pass>>
           /\ failures \subseteq failures'
  <1>1. ASSUME NEW n \in Nat, PushEac3(n) \/ PushObjects(n) \/ Pull(n)
        PROVE  /\ UNCHANGED <<input, syncframes, taken, pending, metadata, pcmTaken, bedReady, bedSet,
                              rendered, flushes, pass>>
               /\ failures \subseteq failures'
    BY <1>1 DEF PushEac3, PushObjects, Pull, readerVars, groupVars, bedVars, pcmVars, Enter
  <1>2. ASSUME NEW n \in Nat, NEW channels \in Nat, PushBed(n, channels)
        PROVE  /\ UNCHANGED <<input, syncframes, taken, pending, metadata, pcmTaken, bedReady, bedSet,
                              rendered, flushes, pass>>
               /\ failures \subseteq failures'
    BY <1>2 DEF PushBed, readerVars, groupVars, bedVars
  <1>3. CASE ReaderFails
    BY <1>3 DEF ReaderFails, Return, groupVars, bedVars, pcmVars
  <1>4. CASE ReaderIsDry
    BY <1>4 DEF ReaderIsDry, Continue, readerVars, groupVars, bedVars, pcmVars
  <1>5. CASE Prepare
    BY <1>5 DEF Prepare, Return, Continue, AfterRendering, readerVars, groupVars, bedVars, pcmVars
  <1>6. CASE RenderStops
    BY <1>6 DEF RenderStops, Return, Continue, AfterRendering, readerVars, groupVars, bedVars, pcmVars
  <1>7. CASE Finish
    BY <1>7 DEF Finish, Return, readerVars, groupVars, bedVars, pcmVars
  <1>8. QED
    BY <1>1, <1>2, <1>3, <1>4, <1>5, <1>6, <1>7

\* Only a push of E-AC-3 reads.
LEMMA ReadNext ==
    ASSUME ReadInv, Next
    PROVE  ReadInv'
  <1>1. SUFFICES ASSUME at' = "read"
                 PROVE  input' = "eac3" /\ (flushes' = 0 \/ LatePush')
    BY DEF ReadInv
  <1>2. LatePush' = LatePush
    BY NextIsOne, SetupStays
  <1>3. ASSUME NEW n \in Nat, PushEac3(n)
        PROVE  input' = "eac3" /\ (flushes' = 0 \/ LatePush)
    BY <1>3 DEF PushEac3, MayPush
  <1>4. ASSUME NEW n \in Nat, PushObjects(n) \/ Pull(n)
        PROVE  FALSE
    BY <1>1, <1>4 DEF PushObjects, Pull, Enter
  <1>5. ASSUME NEW n \in Nat, NEW channels \in Nat, PushBed(n, channels)
        PROVE  FALSE
    BY <1>1, <1>5 DEF PushBed
  <1>6. CASE Flush \/ Reset
    BY <1>1, <1>6 DEF Flush, Reset
  <1>7. CASE ReaderFails \/ FrameRejected \/ ReaderIsDry
    BY <1>1, <1>7 DEF ReaderFails, FrameRejected, ReaderIsDry, Return, Continue
  <1>8. CASE SyncframeJoins
    BY <1>2, <1>8 DEF SyncframeJoins, ReadInv
  <1>9. CASE Prepare \/ RenderStops
    BY <1>1, <1>9 DEF Prepare, RenderStops, AfterRendering, Return, Continue
  <1>10. CASE RenderFrame \/ Finish
    BY <1>1, <1>10 DEF RenderFrame, Finish, Return, Continue
  <1>11. QED
    BY <1>2, <1>3, <1>4, <1>5, <1>6, <1>7, <1>8, <1>9, <1>10, NextIsOne

\* Every step keeps the frames.
LEMMA FrameNext ==
    ASSUME FrameInv, ReadInv, Next
    PROVE  FrameInv'
  <1>1. setup' = setup
    BY NextIsOne
  <1>2. CASE FrameRejected
    BY <1>1, <1>2, RejectsFrame
  <1>3. CASE SyncframeJoins
    BY <1>1, <1>3, JoinsFrame
  <1>4. CASE RenderFrame
    BY <1>1, <1>4, RendersFrame
  <1>5. CASE Flush
    BY <1>1, <1>5, FlushesFrame
  <1>6. CASE Reset
    BY <1>1, <1>6, ResetsFrame
  <1>7. CASE ~(FrameRejected \/ SyncframeJoins \/ RenderFrame \/ Flush \/ Reset)
    BY <1>1, <1>7, NextIsOne, OtherStep, OthersFrame
  <1>8. QED
    BY <1>2, <1>3, <1>4, <1>5, <1>6, <1>7

\* The strengthening for the frames: what is queued, rendered and under
\* assembly are consecutive audio frames with their own metadata (MetadataIsOwn,
\* PairsOwnMetadata), and a bed is settled with its first declaration.
THEOREM FrameCorrect == Spec => [](FrameInv /\ ReadInv)
  <1>1. Init => FrameInv /\ ReadInv
    BY InitFrame
  <1>2. FrameInv /\ ReadInv /\ [Next]_vars => (FrameInv /\ ReadInv)'
    <2>1. ASSUME FrameInv, ReadInv, UNCHANGED vars
          PROVE  FrameInv' /\ ReadInv'
      <3>1. /\ UNCHANGED <<input, syncframes, taken, pending, metadata, pcmTaken, bedReady, bedSet,
                            rendered, flushes, pass>>
            /\ failures' = failures /\ setup' = setup /\ at' = at
        BY <2>1 DEF vars, readerVars, groupVars, pcmVars, bedVars, historyVars
      <3>2. FrameInv'
        BY <2>1, <3>1, OthersFrame
      <3>3. ReadInv'
        BY <2>1, <3>1, SetupStays DEF ReadInv
      <3>4. QED
        BY <3>2, <3>3
    <2>2. QED
      BY <2>1, FrameNext, ReadNext
  <1>3. QED
    BY <1>1, <1>2, PTL DEF Spec

\* Every rendered frame has the core PCM and the metadata of the same audio
\* frame, whatever the sizes of the pushes, the order of the two inputs, and
\* the calls that failed.  Only a frame that is rejected by its cross-layer
\* check, and pushing on after a flush, take them apart.
THEOREM FramesStayOwn == Spec => []FramesAreOwn
  <1>1. FrameInv => FramesAreOwn
    <2>1. ASSUME FrameInv
          PROVE  PairsOwnMetadata
      <3>1. ASSUME input = "eac3", "cross" \notin failures, flushes = 0 \/ ~LatePush,
                   NEW r \in Range(rendered)
            PROVE  r.entry.streams = Members(r.pcm) \cap 1 .. taken
        <4>1. r.entry.streams = Among(syncframes, r.pcm, taken)
          BY <2>1, <3>1 DEF FrameInv, PairInv, Paired
        <4>2. DOMAIN syncframes = 1 .. Len(syncframes) /\ Len(syncframes) \in Nat
          BY <2>1, ProgramTypes DEF FrameInv, FrameTypes
        <4>3. taken \in 0 .. Len(syncframes)
          BY <2>1 DEF FrameInv, FrameTypes
        <4>4. 1 .. taken \subseteq DOMAIN syncframes
          BY <4>2, <4>3
        <4>5. QED
          BY <4>1, <4>4 DEF Among, Members
      <3>2. QED
        BY <3>1 DEF PairsOwnMetadata
    <2>2. ASSUME FrameInv
          PROVE  MetadataIsOwn
      BY <2>2 DEF FrameInv, OwnInv, IsOwn, MetadataIsOwn
    <2>3. QED
      BY <2>1, <2>2 DEF FramesAreOwn
  <1>2. QED
    BY <1>1, FrameCorrect, PTL

\* In the first pass, every frame from the first bed declaration on is
\* rendered with the fixed positions, if that declaration has no objects:
\* the positions are in force before the frame that declares them is rendered.
THEOREM BedIsInTime == Spec => []BedIsNeverLate
  <1>1. FrameInv => BedIsNeverLate
    <2>1. ASSUME FrameInv, Output # "objects16", failures = {}, pass = 1,
                 NEW n \in 1 .. Len(rendered),
                 BedOf(rendered[n]) = "only", \A m \in 1 .. n - 1 : BedOf(rendered[m]) = "none"
          PROVE  \A m \in n .. Len(rendered) : rendered[m].bed
      <3> DEFINE beds == Declared(syncframes, rendered, metadata)
      <3>1. rendered \in Seq(Rendering) /\ metadata \in Seq(Entry)
        BY <2>1 DEF FrameInv, FrameTypes
      <3>2. Len(rendered) \in Nat /\ Len(metadata) \in Nat
        BY <3>1, LenProperties
      <3>3. \A m \in 1 .. Len(rendered) : beds[m] = BedOf(rendered[m])
        <4>1. ASSUME NEW m \in 1 .. Len(rendered)
              PROVE  beds[m] = BedOf(rendered[m])
          <5>1. m \in 1 .. Len(rendered) + Len(metadata) /\ m <= Len(rendered)
            BY <3>2
          <5>2. QED
            BY <5>1 DEF Declared, Declares, BedOf
        <4>2. QED
          BY <4>1
      <3>4. \A m \in 1 .. n - 1 : m \in 1 .. Len(rendered)
        BY <3>2
      <3>5. \A k \in 1 .. Len(rendered) : Settles(beds, k) => \A m \in k .. Len(rendered) : rendered[m].bed
        BY <2>1 DEF FrameInv, BedInv
      <3> HIDE DEF beds
      <3>6. Settles(beds, n)
        BY <2>1, <3>3, <3>4 DEF Settles
      <3>7. QED
        BY <3>5, <3>6
    <2>2. QED
      BY <2>1 DEF BedIsNeverLate
  <1>2. QED
    BY <1>1, FrameCorrect, PTL

-----------------------------------------------------------------------------
(***************************************************************************)
(* Every step keeps the samples.                                           *)
(***************************************************************************)
\* The steps that leave the samples alone.
LEMMA QuietStep ==
    ASSUME \/ \E n \in Nat : PushEac3(n) \/ PushObjects(n)
           \/ \E n, channels \in Nat : PushBed(n, channels)
           \/ ReaderFails \/ FrameRejected \/ SyncframeJoins \/ ReaderIsDry \/ Prepare \/ RenderStops
    PROVE  UNCHANGED <<staged, line, finished, fifo, output, samplesOut, delivered, rendered, flushes>>
  <1>1. ASSUME NEW n \in Nat, PushEac3(n) \/ PushObjects(n)
        PROVE  UNCHANGED <<staged, line, finished, fifo, output, samplesOut, delivered, rendered, flushes>>
    BY <1>1 DEF PushEac3, PushObjects, renderVars
  <1>2. ASSUME NEW n \in Nat, NEW channels \in Nat, PushBed(n, channels)
        PROVE  UNCHANGED <<staged, line, finished, fifo, output, samplesOut, delivered, rendered, flushes>>
    BY <1>2 DEF PushBed, renderVars
  <1>3. CASE ReaderFails \/ FrameRejected \/ SyncframeJoins
    BY <1>3 DEF ReaderFails, FrameRejected, SyncframeJoins, renderVars
  <1>4. CASE ReaderIsDry \/ Prepare \/ RenderStops
    BY <1>4 DEF ReaderIsDry, Prepare, RenderStops, renderVars
  <1>5. QED
    BY <1>1, <1>2, <1>3, <1>4

\* RenderFrame, whether the frame fails, is collected or completes a chunk.
LEMMA RendersSound ==
    ASSUME SoundInv, FrameInv, CallInv, setup' = setup, RenderFrame
    PROVE  SoundInv'
  <1>1. flushes \in Nat /\ finished \in BOOLEAN /\ rendered \in Seq(Rendering)
    BY DEF SoundInv, SoundTypes, FrameInv, FrameTypes
  <1>2. delivered' = delivered /\ flushes' = flushes /\ MayRender
    BY DEF RenderFrame
  <1>3. CASE UNCHANGED renderVars /\ rendered' = rendered
    BY <1>1, <1>2, <1>3, KeptSound DEF renderVars
  <1>4. CASE ~(UNCHANGED renderVars /\ rendered' = rendered)
    <2>1. /\ ~finished /\ finished' = finished
          /\ Submit(FrameTokens(Len(rendered) + 1))
          /\ \E r : rendered' = Append(rendered, r)
      BY <1>4 DEF RenderFrame
    <2>2. Len(rendered') = Len(rendered) + 1
      BY <1>1, <2>1
    <2>3. op = "flush" => flushes > 0
      BY DEF CallInv
    <2>4. QED
      BY <1>2, <2>1, <2>2, <2>3, CollectedSound, ProcessedSound
  <1>5. QED
    BY <1>3, <1>4

\* Every step keeps the samples.
LEMMA SoundNext ==
    ASSUME SoundInv, FrameInv, CallInv, Next
    PROVE  SoundInv'
  <1>1. setup' = setup /\ setup \in Setups /\ flushes \in Nat
    BY NextIsOne DEF SoundInv, SoundTypes
  <1>2. CASE \E n \in Nat : Pull(n)
    BY <1>1, <1>2, PulledSound
  <1>3. CASE Flush
    <2>1. /\ UNCHANGED <<staged, line, finished, fifo, output, samplesOut, delivered, rendered>>
          /\ flushes' = flushes + 1
      BY <1>3 DEF Flush, renderVars
    <2>2. QED
      BY <1>1, <2>1, KeptSound
  <1>4. CASE Reset
    BY <1>1, <1>4, ResetsSound
  <1>5. CASE RenderFrame
    BY <1>1, <1>5, RendersSound
  <1>6. CASE Finish
    <2>1. at = "finish"
      BY <1>6 DEF Finish
    <2>2. flushes > 0
      BY <2>1 DEF CallInv
    <2>3. QED
      BY <1>1, <1>6, <2>2, FinishedSound
  <1>7. CASE ~((\E n \in Nat : Pull(n)) \/ Flush \/ Reset \/ RenderFrame \/ Finish)
    <2>1. UNCHANGED <<staged, line, finished, fifo, output, samplesOut, delivered, rendered, flushes>>
      BY <1>7, NextIsOne, QuietStep
    <2>2. QED
      BY <1>1, <2>1, KeptSound
  <1>8. QED
    BY <1>2, <1>3, <1>4, <1>5, <1>6, <1>7

\* Where each step takes a call.
LEMMA CallNext ==
    ASSUME SoundInv, FrameInv, CallInv, Next
    PROVE  CallInv'
  <1>1. /\ at = "prepare" => input = "eac3"
        /\ at = "finish" => op = "flush" /\ (input = "objects16" \/ bedChannels # 0 => ~FrameReady)
        /\ op = "flush" => flushes > 0
        /\ FlushDrains /\ flushes \in Nat
    BY DEF CallInv, SoundInv, SoundTypes
  <1>2. setup' = setup
    BY NextIsOne
  <1>3. ASSUME NEW n \in Nat, PushEac3(n) \/ PushObjects(n) \/ Pull(n)
        PROVE  CallInv'
    BY <1>1, <1>3 DEF PushEac3, PushObjects, Pull, Enter, CallInv, FlushDrains
  <1>4. ASSUME NEW n \in Nat, NEW channels \in Nat, PushBed(n, channels)
        PROVE  CallInv'
    BY <1>1, <1>4 DEF PushBed, CallInv, FlushDrains
  <1>5. CASE Flush
    <2>1. flushes' > 0
      BY <1>1, <1>5 DEF Flush
    <2>2. QED
      BY <1>5, <2>1 DEF Flush, CallInv, FlushDrains
  <1>6. CASE Reset
    BY <1>6 DEF Reset, CallInv, FlushDrains
  <1>7. CASE ReaderFails \/ FrameRejected
    BY <1>1, <1>7 DEF ReaderFails, FrameRejected, Return, CallInv, FlushDrains
  <1>8. CASE SyncframeJoins
    BY <1>1, <1>8 DEF SyncframeJoins, Return, Continue, CallInv, FlushDrains
  <1>9. CASE ReaderIsDry
    BY <1>1, <1>9 DEF ReaderIsDry, Continue, CallInv, FlushDrains
  <1>10. CASE Prepare
    BY <1>1, <1>10 DEF Prepare, AfterRendering, Return, Continue, CallInv, FlushDrains
  <1>11. CASE RenderFrame
    <2>1. at = "render" /\ input' = input /\ flushes' = flushes
      BY <1>11 DEF RenderFrame
    <2>2. Return("render") \/ Return("finished") \/ Continue("render")
      BY <1>11 DEF RenderFrame
    <2>3. op' = op /\ (at' = "render" \/ (at' = "idle" /\ status' # "ok"))
      BY <2>2 DEF Return, Continue
    <2>4. FlushDrains'
      BY <2>3 DEF FlushDrains
    <2>5. op' = "flush" => flushes' > 0
      BY <1>1, <2>1, <2>3
    <2>6. at' \notin {"read", "prepare", "finish"}
      BY <2>3
    <2>7. QED
      BY <2>4, <2>5, <2>6 DEF CallInv
  <1>12. CASE RenderStops
    <2>1. /\ op' = op /\ flushes' = flushes /\ AfterRendering
          /\ input' = input /\ bedChannels' = bedChannels /\ FrameReady' = FrameReady
      BY <1>12 DEF RenderStops, AfterRendering, Return, Continue, FrameReady, planVars, pcmVars, groupVars
    <2>2. CASE op = "flush"
      <3>1. at' = "finish"
        BY <2>1, <2>2 DEF AfterRendering, Continue
      <3>2. ~FrameReady'
        BY <1>12, <2>1, <2>2 DEF RenderStops, MayRender
      <3>3. QED
        BY <1>1, <2>1, <2>2, <3>1, <3>2 DEF CallInv, FlushDrains
    <2>3. CASE op # "flush"
      <3>1. at' = "idle"
        BY <2>1, <2>3 DEF AfterRendering, Return
      <3>2. QED
        BY <2>1, <2>3, <3>1 DEF CallInv, FlushDrains
    <2>4. QED
      BY <2>2, <2>3
  <1>13. CASE Finish
    <2>1. at = "finish" /\ at' = "idle" /\ op' = op /\ ended' = TRUE /\ flushes' = flushes
      BY <1>13 DEF Finish, Return
    <2>2. fifo' = <<>> /\ staged' = <<>> /\ Range(line') \subseteq {Silence}
      BY <1>1, <1>2, <1>13, <2>1, FinishedSound
    <2>3. input' = input /\ bedChannels' = bedChannels /\ FrameReady' = FrameReady
      BY <1>13 DEF Finish, FrameReady, pcmVars, groupVars, planVars
    <2>4. QED
      BY <1>1, <2>1, <2>2, <2>3 DEF CallInv, FlushDrains
  <1>14. QED
    BY <1>3, <1>4, <1>5, <1>6, <1>7, <1>8, <1>9, <1>10, <1>11, <1>12, <1>13, NextIsOne

\* A beginning has no elements of its own.
LEMMA RangeGrows ==
    ASSUME NEW s \in Seq(Token), NEW t \in Seq(Token)
    PROVE  Range(s) \subseteq Range(s \o t)
  <1>1. Range(s \o t) = Range(s) \cup Range(t)
    BY RangeConcatenation
  <1>2. QED
    BY <1>1

\* The strengthening for the samples: where each rendered unit is, what a
\* runtime may hold, and what a call that is under way has done.
THEOREM SoundCorrect == Spec => [](SoundInv /\ CallInv)
  <1>1. Init => SoundInv /\ CallInv
    <2>1. Init => CallInv
      BY DEF Init, CallInv, FlushDrains
    <2>2. QED
      BY <2>1, InitSound
  <1>2. SoundInv /\ CallInv /\ FrameInv /\ [Next]_vars => (SoundInv /\ CallInv)'
    <2>1. ASSUME SoundInv, CallInv, UNCHANGED vars
          PROVE  SoundInv' /\ CallInv'
      <3>1. /\ UNCHANGED <<staged, line, finished, fifo, output, samplesOut, delivered, rendered, flushes>>
            /\ UNCHANGED <<setup, at, op, status, input, bedChannels, ended, pcmFed, pcmTaken, metadata>>
        BY <2>1 DEF vars, renderVars, historyVars, planVars, pcmVars, groupVars
      <3>2. flushes \in Nat
        BY <2>1 DEF SoundInv, SoundTypes
      <3>3. SoundInv'
        BY <2>1, <3>1, <3>2, KeptSound
      <3>4. CallInv'
        BY <2>1, <3>1 DEF CallInv, FlushDrains, FrameReady
      <3>5. QED
        BY <3>3, <3>4
    <2>2. QED
      BY <2>1, SoundNext, CallNext
  <1>3. QED
    BY <1>1, <1>2, FrameCorrect, PTL DEF Spec

\* A caller that only pushes never makes the stream render further ahead than
\* the cap, up to the chunk that crosses it.
THEOREM NeverFarAhead == Spec => []RenderAheadBounded
  <1>1. SoundInv => RenderAheadBounded
    BY DEF SoundInv
  <1>2. QED
    BY <1>1, SoundCorrect, PTL

\* A flush that succeeds leaves nothing behind.
THEOREM FlushIsComplete == Spec => []FlushDrains
  <1>1. CallInv => FlushDrains
    BY DEF CallInv
  <1>2. QED
    BY <1>1, SoundCorrect, PTL

\* Every rendered unit is in one place, in order and counted, and within
\* Rosella the tail only sounds after the whole program: pulls of any size
\* between pushes of any size never lose, repeat or reorder a sample.
THEOREM NothingIsLost == Spec => []UnitsConserved
  <1>1. SoundInv => UnitsConserved
    <2>1. ASSUME SoundInv
          PROVE  UnitsConserved
      <3>1. SoundTypes /\ Conserved
        BY <2>1 DEF SoundInv
      <3>2. /\ InOrder(All, Len(rendered)) /\ samplesOut = Len(delivered) + Buffered
            /\ Output = "rosella" => IF finished THEN TailIsLast(Heard) ELSE Silence \notin Range(All)
        BY <3>1 DEF Conserved
      <3>3. Units = UnitsOf(Len(rendered))
        BY DEF Units, UnitsOf
      <3>4. Silence \notin Range(All) => TailIsLast(Heard)
        <4>1. /\ Heard \in Seq(Token) /\ All = Heard \o (line \o staged)
              /\ line \in Seq(Token) /\ staged \in Seq(Token)
          BY <3>1, AllTypes DEF SoundTypes
        <4>2. line \o staged \in Seq(Token)
          BY <4>1, Closed
        <4>3. Range(Heard) \subseteq Range(All)
          <5>1. Range(Heard) \subseteq Range(Heard \o (line \o staged))
            BY <4>1, <4>2, RangeGrows
          <5>2. QED
            BY <4>1, <5>1
        <4>4. \A i \in 1 .. Len(Heard) : Heard[i] \in Range(Heard)
          <5>1. DOMAIN Heard = 1 .. Len(Heard)
            BY <4>1, LenProperties
          <5>2. QED
            BY <5>1 DEF Range
        <4>5. QED
          BY <4>3, <4>4 DEF TailIsLast
      <3>5. QED
        BY <3>2, <3>3, <3>4 DEF UnitsConserved, InOrder, TailIsLast, Heard, All
    <2>2. QED
      BY <2>1
  <1>2. QED
    BY <1>1, SoundCorrect, PTL

=============================================================================
