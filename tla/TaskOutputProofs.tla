-------------------------- MODULE TaskOutputProofs --------------------------
(***************************************************************************)
(* Proofs about TaskOutput for every number of frames, every size of       *)
(* frames, blocks and chunks, every latency and every tail.                *)
(***************************************************************************)
EXTENDS TaskOutput, WellFoundedInduction, TLAPS

(***************************************************************************)
(* Arithmetic.                                                             *)
(***************************************************************************)
LEMMA DivMod == ASSUME NEW x \in Nat, NEW d \in Nat \ {0}
                PROVE  /\ x \div d \in Nat /\ x % d \in 0 .. d - 1
                       /\ (x \div d) * d + (x % d) = x
                       /\ (x \div d) * d <= x
  OBVIOUS

\* Division keeps the order of numbers.
LEMMA DivIsMonotone == ASSUME NEW x \in Nat, NEW d \in Nat \ {0}
                       PROVE  x \div d <= (x + 1) \div d
  <1> DEFINE q == x \div d
             r == (x + 1) \div d
  <1>1. /\ q \in Nat /\ q * d <= x
        /\ r \in Nat /\ r * d + ((x + 1) % d) = x + 1 /\ (x + 1) % d \in 0 .. d - 1
    BY DivMod, x + 1 \in Nat
  <1> HIDE DEF q, r
  <1>2. SUFFICES ASSUME r + 1 <= q PROVE FALSE
    BY <1>1 DEF q, r
  <1>3. (r + 1) * d <= q * d
    BY <1>1, <1>2
  <1>4. (r + 1) * d = r * d + d
    BY <1>1
  <1>5. QED
    BY <1>1, <1>3, <1>4

LEMMA TimesIsMonotone == ASSUME NEW x \in Nat, NEW y \in Nat, NEW d \in Nat, x <= y
                         PROVE  x * d \in Nat /\ x * d <= y * d
  OBVIOUS

\* A nonempty set of numbers has a least element, a bounded one a greatest.
LEMMA HasLeast == ASSUME NEW T \in SUBSET Nat, T # {}
                  PROVE  \E m \in T : \A k \in T : ~(k < m)
  <1>1. PICK m \in T : \A k \in T : ~(<<k, m>> \in OpToRel(<, Nat))
    BY NatLessThanWellFounded, WFMin, Zenon
  <1>2. QED
    BY <1>1 DEF OpToRel

LEMMA MaxOfBounded ==
    ASSUME NEW S, S # {}, NEW b \in Nat, \A x \in S : x \in Nat /\ x < b
    PROVE  Max(S) \in S /\ \A x \in S : x <= Max(S)
  <1> DEFINE T == {b - x : x \in S}
  <1>1. T \in SUBSET Nat /\ T # {}
    OBVIOUS
  <1>2. PICK m \in T : \A k \in T : ~(k < m)
    BY <1>1, HasLeast
  <1>3. PICK top \in S : m = b - top
    BY <1>2
  <1>4. \A x \in S : b - x \in T
    OBVIOUS
  <1>5. \A x \in S : top >= x
    BY <1>2, <1>3, <1>4
  <1>6. \E x \in S : \A y \in S : x >= y
    BY <1>5
  <1>7. Max(S) \in S /\ \A y \in S : Max(S) >= y
    BY <1>6 DEF Max
  <1>8. QED
    BY <1>7

-----------------------------------------------------------------------------
(***************************************************************************)
(* The inductive invariant.                                                *)
(***************************************************************************)
Early == {"validate", "extract", "decode", "scan", "setup", "openAdm", "openSpool"}
Late == {"openObjects", "openInputs", "frames", "finalizeAdm", "drain", "decide",
         "openWav", "copy", "report"}
Rendered == {"finalizeAdm", "drain", "decide", "openWav", "copy", "report"}

TypeOK ==
    /\ cfg \in Config /\ before \in [Path -> {"absent", "old"}]
    /\ at \in Early \cup Late \cup {"done"}
    /\ result \in {"running", "ok", "failed", "cancelled"}
    /\ disk \in [Path -> Content] /\ open \in SUBSET Path
    /\ adm \in {"none", "named", "finalized"}
    /\ processed \in Nat /\ position \in Nat /\ lastHeard \in Nat
    /\ program \in Nat /\ keep \in Nat
    /\ used \in Nat /\ declared \in Nat /\ stored \in Nat
    /\ heard \in SUBSET Nat

\* Which task can be at which step.
Route ==
    /\ result = "running" <=> at # "done"
    /\ at \in {"openAdm", "finalizeAdm"} => cfg.op = "adm"
    /\ at \in {"openSpool", "drain", "decide", "openWav", "copy"} => cfg.op # "adm"
    /\ at \in Late \cup {"setup", "openAdm", "openSpool"} => ~cfg.metadataOnly

\* The files a step has open, and what is at the paths of the spool and the output.
Files ==
    /\ at = "done" => open = {} /\ disk.spool # "partial"
    /\ at \in Early => /\ open = {} /\ adm = "none"
                       /\ disk.spool = before.spool /\ disk.output = before.output
    /\ cfg.op = "adm" => "spool" \notin open /\ disk.spool = before.spool
    /\ cfg.op = "adm" /\ at \in Late => adm = IF at = "report" THEN "finalized" ELSE "named"
    /\ cfg.op = "adm" /\ at = "done" /\ disk.output = "partial" => adm = "finalized"
    /\ cfg.op # "adm" => adm = "none"
    /\ cfg.op # "adm" /\ at \in Late => "spool" \in open
    /\ cfg.op # "adm" /\ at \in Late \ {"copy", "report"} => disk.output = before.output
    /\ at = "report" => disk.output = "whole"

\* How much a task has rendered, spooled and stored at each step.
NothingYet ==
    at \in Early \cup {"openObjects", "openInputs"} =>
        processed = 0 /\ position = 0 /\ used = 0 /\ stored = 0
Amounts ==
    /\ NothingYet
    /\ processed <= cfg.frames
    /\ at \in Rendered => processed = cfg.frames
    /\ \A unit \in heard : unit < lastHeard
    /\ lastHeard <= position
    /\ cfg.op = "adm" =>
          /\ position = 0 /\ program = 0 /\ keep = 0
          /\ at \in Late \ {"report"} => stored + used = processed * FrameUnits
          /\ at = "report" => stored = processed * FrameUnits /\ declared = stored
    /\ cfg.op # "adm" =>
          /\ at \in Early \cup {"openObjects", "openInputs", "frames", "drain"} => position = EmittedAfter(processed)
          /\ at \in {"drain", "decide", "openWav", "copy", "report"} => program <= position
          /\ at \in {"decide", "openWav", "copy", "report"} =>
                position = IF cfg.op = "speaker" THEN cfg.frames * FrameUnits
                           ELSE cfg.frames * FrameUnits + TailUnits - Latency
          /\ at \in {"openWav", "copy", "report"} => keep = Kept
          /\ at \in Late \ {"copy", "report"} => stored = 0
          /\ at \in {"copy", "report"} => declared = keep
          /\ at = "report" => stored = keep

OutputInv == TypeOK /\ Route /\ Files /\ Amounts /\ SuccessIsWhole /\ EarlierOutputSurvives

LEMMA InitInv == Init => OutputInv
  <1> SUFFICES ASSUME Init PROVE OutputInv
    OBVIOUS
  <1>1. TypeOK
    BY DEF Init, TypeOK, Early, Content, Path
  <1>2. cfg.frames \in Nat /\ cfg.op \in {"adm", "speaker"} \cup Binaural
    BY OutputAssumption DEF Init, Config
  <1>3. cfg.op # "adm" => EmittedAfter(0) = 0
    <2>1. FrameUnits \in Nat /\ Latency \in Nat /\ Chunk \in Nat \ {0}
      BY OutputAssumption
    <2>2. 0 * FrameUnits = 0
      BY <2>1
    <2>3. 0 \div Chunk = 0
      <3>1. 0 \div Chunk \in Nat /\ (0 \div Chunk) * Chunk <= 0
        BY <2>1, DivMod
      <3>2. SUFFICES ASSUME 0 \div Chunk >= 1 PROVE FALSE
        BY <3>1
      <3>3. 1 * Chunk <= (0 \div Chunk) * Chunk
        BY <2>1, <3>1, <3>2, TimesIsMonotone
      <3>4. QED
        BY <2>1, <3>1, <3>3
    <2>4. 0 * Chunk = 0 /\ (0 \div Chunk) * Chunk * FrameUnits = 0
      BY <2>1, <2>2, <2>3
    <2>5. Greatest(0, Latency) - Latency = 0
      BY <2>1 DEF Greatest
    <2>6. QED
      BY <1>2, <2>2, <2>4, <2>5 DEF EmittedAfter, Binaural
  <1>4. Route /\ SuccessIsWhole /\ EarlierOutputSurvives
    BY DEF Init, Route, Late, SuccessIsWhole, EarlierOutputSurvives
  <1>5. Files
    BY DEF Init, Files, Early, Late
  <1>6. Amounts
    BY <1>2, <1>3 DEF Init, Amounts, NothingYet, Rendered, Late
  <1>7. QED
    BY <1>1, <1>4, <1>5, <1>6 DEF OutputInv

-----------------------------------------------------------------------------
(***************************************************************************)
(* What a runtime has emitted grows with the frames and is never ahead of  *)
(* them.                                                                   *)
(***************************************************************************)
LEMMA EmittedGrows ==
    ASSUME cfg \in Config, cfg.op # "adm", NEW n \in Nat
    PROVE  /\ EmittedAfter(n) \in Nat
           /\ EmittedAfter(n) <= n * FrameUnits
           /\ EmittedAfter(n) <= EmittedAfter(n + 1)
           /\ cfg.op = "speaker" => EmittedAfter(n) = n * FrameUnits
           /\ cfg.op \in Binaural /\ n * FrameUnits >= Latency => EmittedAfter(n) <= n * FrameUnits - Latency
  <1> DEFINE Collected(k) == (k \div Chunk) * Chunk
  <1>1. cfg.op \in {"adm", "speaker", "sofa", "rosella"}
    BY DEF Config, Binaural
  <1>2. FrameUnits \in Nat /\ Latency \in Nat /\ Chunk \in Nat \ {0}
    BY OutputAssumption
  <1>3. /\ n \div Chunk \in Nat /\ (n + 1) \div Chunk \in Nat
        /\ n \div Chunk <= (n + 1) \div Chunk
        /\ Collected(n) <= n
    BY <1>2, DivMod, DivIsMonotone, n + 1 \in Nat
  <1>4. Collected(n) \in Nat /\ Collected(n) <= Collected(n + 1) /\ Collected(n + 1) \in Nat
    BY <1>2, <1>3, TimesIsMonotone
  <1> HIDE DEF Collected
  <1>5. /\ Collected(n) * FrameUnits \in Nat /\ Collected(n) * FrameUnits <= n * FrameUnits
        /\ Collected(n) * FrameUnits <= Collected(n + 1) * FrameUnits
        /\ Collected(n + 1) * FrameUnits \in Nat
    BY <1>2, <1>3, <1>4, TimesIsMonotone
  <1>6. n * FrameUnits \in Nat /\ n * FrameUnits <= (n + 1) * FrameUnits /\ (n + 1) * FrameUnits \in Nat
    BY <1>2, TimesIsMonotone
  <1>7. CASE cfg.op = "speaker"
    BY <1>6, <1>7 DEF EmittedAfter, Binaural
  <1>8. CASE cfg.op = "sofa"
    BY <1>2, <1>6, <1>8 DEF EmittedAfter, Greatest
  <1>9. CASE cfg.op = "rosella"
    <2>1. \A k : EmittedAfter(k) = Greatest(Collected(k) * FrameUnits, Latency) - Latency
      BY <1>9 DEF EmittedAfter, Collected
    <2>2. QED
      BY <1>2, <1>5, <1>6, <1>9, <2>1 DEF Greatest
  <1>10. QED
    BY <1>1, <1>7, <1>8, <1>9

\* PcmSpool::write keeps the position, the samples heard and the last of them
\* in step.
LEMMA SpoolWriteProperties ==
    ASSUME TypeOK, NEW upTo \in Nat, position <= upTo, SpoolWrite(upTo),
           \A unit \in heard : unit < lastHeard, lastHeard <= position
    PROVE  /\ position' = upTo
           /\ heard' \in SUBSET Nat /\ lastHeard' \in Nat
           /\ \A unit \in heard' : unit < lastHeard'
           /\ lastHeard' <= upTo
  <1>1. PICK loud \in SUBSET (position .. upTo - 1) :
            /\ heard' = heard \cup loud
            /\ lastHeard' = IF loud = {} THEN lastHeard ELSE Max(loud) + 1
            /\ position' = upTo
    BY DEF SpoolWrite
  <1>2. position \in Nat /\ lastHeard \in Nat /\ heard \in SUBSET Nat
    BY DEF TypeOK
  <1>3. CASE loud = {}
    BY <1>1, <1>2, <1>3
  <1>4. CASE loud # {}
    <2>1. \A x \in loud : x \in Nat /\ x < upTo /\ position <= x
      BY <1>2
    <2>2. Max(loud) \in loud /\ \A x \in loud : x <= Max(loud)
      BY <1>4, <2>1, MaxOfBounded
    <2>3. PICK top \in loud : top = Max(loud)
      BY <2>2
    <2>4. top \in Nat /\ top < upTo /\ position <= top
      BY <2>1
    <2>5. lastHeard' = top + 1 /\ \A x \in loud : x <= top
      BY <1>1, <1>4, <2>2, <2>3
    <2>6. \A unit \in heard : unit < top + 1
      BY <1>2, <2>4
    <2>7. heard' = heard \cup loud /\ position' = upTo
      BY <1>1
    <2>8. \A x \in loud : x < top + 1
      BY <2>1, <2>4, <2>5
    <2>9. heard' \in SUBSET Nat /\ \A unit \in heard' : unit < top + 1
      BY <1>2, <2>1, <2>6, <2>7, <2>8
    <2>10. lastHeard' \in Nat /\ lastHeard' <= upTo
      BY <2>4, <2>5
    <2>11. QED
      BY <2>5, <2>7, <2>9, <2>10
  <1>5. QED
    BY <1>3, <1>4

\* What is kept is in the spool, and no sample heard or emitted before the
\* runtime was finished is beyond it.
LEMMA KeptProperties ==
    ASSUME TypeOK, program <= position, lastHeard <= position
    PROVE  Kept \in Nat /\ Kept <= position /\ program <= Kept /\ lastHeard <= Kept
  BY DEF TypeOK, Kept, Least, Greatest

-----------------------------------------------------------------------------
(***************************************************************************)
(* The ways to return early.                                               *)
(***************************************************************************)
Same == UNCHANGED <<cfg, before, adm, processed, position, heard, lastHeard, program,
                    used, declared, stored>>

LEMMA EarlyReturn ==
    ASSUME OutputInv, at # "done", Same,
           NEW verdict \in {"ok", "failed", "cancelled"}, verdict = "ok" => cfg.metadataOnly,
           NEW d \in [Path -> Content], Return(verdict, d),
           d.output = disk.output \/ at = "openWav",
           d.spool = disk.spool \/ (at = "openSpool" /\ d.spool = "absent"),
           keep' = keep \/ (at = "decide" /\ keep' = Kept)
    PROVE  OutputInv'
  <1>1. TypeOK /\ Route /\ Files /\ Amounts /\ EarlierOutputSurvives
    BY DEF OutputInv
  <1>2. /\ at' = "done" /\ result' = verdict /\ open' = {}
        /\ disk' = Destroyed(d) /\ disk' \in [Path -> Content]
        /\ disk'.spool = IF "spool" \in open THEN "absent" ELSE d.spool
        /\ disk'.output = IF adm = "named" THEN "absent" ELSE d.output
    BY DEF Return, Destroyed, Path, Content
  <1>3. before.spool \in {"absent", "old"} /\ before.output \in {"absent", "old"}
    BY <1>1 DEF TypeOK, Path
  <1>4. at \in Early \/ at \in Late
    BY <1>1 DEF TypeOK
  <1>5. /\ cfg' = cfg /\ before' = before /\ adm' = adm /\ processed' = processed
        /\ position' = position /\ heard' = heard /\ lastHeard' = lastHeard
        /\ program' = program /\ used' = used /\ declared' = declared /\ stored' = stored
    BY DEF Same
  <1>6. keep' \in Nat
    <2>1. at = "decide" => cfg.op # "adm" /\ program <= position /\ lastHeard <= position
      BY <1>1 DEF Route, Amounts
    <2>2. QED
      BY <1>1, <2>1, KeptProperties DEF TypeOK
  <1>7. TypeOK'
    BY <1>1, <1>2, <1>5, <1>6 DEF TypeOK
  <1>8. Route' /\ SuccessIsWhole'
    BY <1>2, <1>5 DEF Route, Early, Late, SuccessIsWhole
  <1>9. Files'
    <2>1. disk'.spool # "partial"
      BY <1>1, <1>2, <1>3, <1>4 DEF Files
    <2>2. cfg.op = "adm" => disk'.spool = before.spool
      BY <1>1, <1>2 DEF Files, Route
    <2>3. cfg.op = "adm" /\ disk'.output = "partial" => adm = "finalized"
      BY <1>1, <1>2, <1>3, <1>4 DEF Files, Route
    <2>4. cfg.op # "adm" => adm = "none"
      BY <1>1 DEF Files
    <2>5. QED
      BY <1>2, <1>5, <2>1, <2>2, <2>3, <2>4 DEF Files, Early, Late
  <1>10. Amounts'
    <2>1. cfg.op = "adm" => keep' = 0
      BY <1>1 DEF Amounts, Route
    <2>2. QED
      BY <1>1, <1>2, <1>5, <2>1 DEF Amounts, NothingYet, Rendered, Early, Late
  <1>11. EarlierOutputSurvives'
    <2>1. SUFFICES ASSUME cfg.op # "adm", disk'.output # before.output
                   PROVE  /\ processed = cfg.frames
                          /\ cfg.op \in Binaural => position = cfg.frames * FrameUnits + TailUnits - Latency
                          /\ keep' = Kept
      BY <1>5 DEF EarlierOutputSurvives, Kept
    <2>2. disk'.output = d.output
      BY <1>1, <1>2, <2>1 DEF Files
    <2>3. CASE at = "openWav"
      BY <1>1, <2>1, <2>3 DEF Amounts, Rendered, Binaural
    <2>4. CASE at # "openWav"
      BY <1>1, <2>1, <2>2, <2>4 DEF EarlierOutputSurvives
    <2>5. QED
      BY <2>3, <2>4
  <1>12. QED
    BY <1>7, <1>8, <1>9, <1>10, <1>11 DEF OutputInv

\* finalize_with_error at a step that has changed nothing else.
LEMMA FailingKeeps ==
    ASSUME OutputInv, at # "done", Failing, UNCHANGED <<cfg, before>>
    PROVE  OutputInv'
  <1>1. Same /\ keep' = keep /\ Return("failed", disk) /\ disk \in [Path -> Content]
    BY DEF Failing, Same, spoolVars, fileVars, OutputInv, TypeOK
  <1>2. QED
    BY <1>1, EarlyReturn

-----------------------------------------------------------------------------
(***************************************************************************)
(* The steps before the frames.                                            *)
(***************************************************************************)
\* A step before any file is open only touches the work directory.
LEMMA EarlyStep ==
    ASSUME OutputInv, Same, keep' = keep, UNCHANGED <<open, result>>,
           at \in {"validate", "extract", "decode", "scan", "setup"}, at' \in Early,
           disk' \in [Path -> Content],
           disk'.spool = disk.spool, disk'.output = disk.output,
           at' = "openAdm" => cfg.op = "adm", at' = "openSpool" => cfg.op # "adm",
           at' \in {"setup", "openAdm", "openSpool"} => ~cfg.metadataOnly
    PROVE  OutputInv'
  <1>1. TypeOK /\ Route /\ Files /\ Amounts /\ SuccessIsWhole /\ EarlierOutputSurvives
    BY DEF OutputInv
  <1>2. /\ cfg' = cfg /\ before' = before /\ adm' = adm /\ processed' = processed
        /\ position' = position /\ heard' = heard /\ lastHeard' = lastHeard
        /\ program' = program /\ used' = used /\ declared' = declared /\ stored' = stored
    BY DEF Same
  <1>3. EmittedAfter(processed)' = EmittedAfter(processed) /\ Kept' = Kept
    BY <1>2 DEF EmittedAfter, Kept
  <1>4. TypeOK'
    BY <1>1, <1>2 DEF TypeOK
  <1>5. Route' /\ SuccessIsWhole' /\ EarlierOutputSurvives'
    BY <1>1, <1>2, <1>3 DEF Route, Early, Late, SuccessIsWhole, EarlierOutputSurvives
  <1>6. Files'
    BY <1>1, <1>2 DEF Files, Early, Late
  <1>7. Amounts'
    BY <1>1, <1>2, <1>3 DEF Amounts, NothingYet, Rendered, Early, Late
  <1>8. QED
    BY <1>4, <1>5, <1>6, <1>7 DEF OutputInv

LEMMA ValidateKeeps == ASSUME OutputInv, Validate PROVE OutputInv'
  <1>1. CASE Failing
    BY <1>1, FailingKeeps DEF Validate
  <1>2. CASE ~Failing
    BY <1>2, EarlyStep DEF Validate, GoTo, Same, spoolVars, fileVars, OutputInv, TypeOK, Early
  <1>3. QED
    BY <1>1, <1>2

LEMMA ExtractKeeps == ASSUME OutputInv, Extract PROVE OutputInv'
  <1> DEFINE d == [disk EXCEPT !.work = IF cfg.container THEN "partial" ELSE @]
  <1>1. /\ d \in [Path -> Content] /\ d.spool = disk.spool /\ d.output = disk.output
    BY DEF OutputInv, TypeOK, Path, Content
  <1>2. Same /\ keep' = keep /\ at = "extract"
    BY DEF Extract, Same, spoolVars, fileVars
  <1>3. \/ Return("failed", d)
        \/ GoTo("decode") /\ disk' = d /\ UNCHANGED open
    BY DEF Extract
  <1> HIDE DEF d
  <1>4. CASE Return("failed", d)
    BY <1>1, <1>2, <1>4, EarlyReturn
  <1>5. CASE GoTo("decode") /\ disk' = d /\ UNCHANGED open
    BY <1>1, <1>2, <1>5, EarlyStep DEF GoTo, Early
  <1>6. QED
    BY <1>3, <1>4, <1>5

LEMMA DecodeKeeps == ASSUME OutputInv, Decode PROVE OutputInv'
  <1> DEFINE d == [disk EXCEPT !.work = IF cfg.bed \/ cfg.metadataOnly THEN @ ELSE "partial"]
  <1>1. /\ d \in [Path -> Content] /\ d.spool = disk.spool /\ d.output = disk.output
    BY DEF OutputInv, TypeOK, Path, Content
  <1>2. Same /\ keep' = keep /\ at = "decode"
    BY DEF Decode, Same, spoolVars, fileVars
  <1>3. \/ Return("failed", d)
        \/ GoTo("scan") /\ disk' = d /\ UNCHANGED open
    BY DEF Decode
  <1> HIDE DEF d
  <1>4. CASE Return("failed", d)
    BY <1>1, <1>2, <1>4, EarlyReturn
  <1>5. CASE GoTo("scan") /\ disk' = d /\ UNCHANGED open
    BY <1>1, <1>2, <1>5, EarlyStep DEF GoTo, Early
  <1>6. QED
    BY <1>3, <1>4, <1>5

LEMMA ScanKeeps == ASSUME OutputInv, Scan PROVE OutputInv'
  <1> DEFINE d == [disk EXCEPT !.work = "absent"]
  <1>1. /\ d \in [Path -> Content] /\ d.spool = disk.spool /\ d.output = disk.output
        /\ disk \in [Path -> Content]
    BY DEF OutputInv, TypeOK, Path, Content
  <1>2. at = "scan" /\ UNCHANGED <<cfg, before>>
    BY DEF Scan
  <1>3. \/ Failing
        \/ /\ cfg.metadataOnly /\ Return("ok", d)
           /\ UNCHANGED <<adm, processed, spoolVars, used, fileVars>>
        \/ /\ ~cfg.metadataOnly /\ GoTo("setup")
           /\ UNCHANGED <<disk, open, adm, processed, spoolVars, used, fileVars>>
    BY DEF Scan
  <1> HIDE DEF d
  <1>4. CASE Failing
    BY <1>2, <1>4, FailingKeeps
  <1>5. CASE /\ cfg.metadataOnly /\ Return("ok", d)
             /\ UNCHANGED <<adm, processed, spoolVars, used, fileVars>>
    BY <1>1, <1>2, <1>5, EarlyReturn DEF Same, spoolVars, fileVars
  <1>6. CASE /\ ~cfg.metadataOnly /\ GoTo("setup")
             /\ UNCHANGED <<disk, open, adm, processed, spoolVars, used, fileVars>>
    BY <1>1, <1>2, <1>6, EarlyStep DEF GoTo, Early, Same, spoolVars, fileVars
  <1>7. QED
    BY <1>3, <1>4, <1>5, <1>6

LEMMA SetUpKeeps == ASSUME OutputInv, SetUp PROVE OutputInv'
  <1>1. ~cfg.metadataOnly /\ at = "setup" /\ UNCHANGED <<cfg, before>> /\ disk \in [Path -> Content]
    BY DEF SetUp, OutputInv, Route, TypeOK
  <1>2. CASE Failing
    BY <1>1, <1>2, FailingKeeps
  <1>3. CASE /\ GoTo(IF cfg.op = "adm" THEN "openAdm" ELSE "openSpool")
             /\ UNCHANGED <<disk, open, adm, processed, spoolVars, used, fileVars>>
    BY <1>1, <1>3, EarlyStep DEF GoTo, Early, Same, spoolVars, fileVars
  <1>4. QED
    BY <1>2, <1>3 DEF SetUp

-----------------------------------------------------------------------------
(***************************************************************************)
(* Opening the files.                                                      *)
(***************************************************************************)
LEMMA OpenAdmKeeps == ASSUME OutputInv, OpenAdm PROVE OutputInv'
  <1>1. TypeOK /\ Route /\ Files /\ Amounts /\ SuccessIsWhole /\ EarlierOutputSurvives
    BY DEF OutputInv
  <1>2. /\ cfg' = cfg /\ before' = before /\ processed' = processed
        /\ position' = position /\ heard' = heard /\ lastHeard' = lastHeard
        /\ program' = program /\ keep' = keep /\ used' = used
        /\ declared' = declared /\ stored' = stored /\ adm' = "named" /\ at = "openAdm"
    BY DEF OpenAdm, spoolVars, fileVars
  <1>3. cfg.op = "adm" /\ ~cfg.metadataOnly /\ open = {}
    BY <1>1, <1>2 DEF Route, Files, Early
  <1>4. \/ /\ at' = "done" /\ result' = "failed" /\ open' = {}
           /\ disk' = [disk EXCEPT !.output = "absent"]
        \/ /\ at' = "openObjects" /\ result' = result /\ open' = {"output"}
           /\ disk' = [disk EXCEPT !.output = "partial"]
    BY <1>3 DEF OpenAdm, GoTo
  <1>5. /\ disk' \in [Path -> Content] /\ disk'.spool = disk.spool
        /\ at' = "done" => disk'.output = "absent"
    BY <1>1, <1>4 DEF TypeOK, Path, Content
  <1>6. TypeOK'
    BY <1>1, <1>2, <1>4, <1>5 DEF TypeOK, Late, Path
  <1>7. Route' /\ SuccessIsWhole' /\ EarlierOutputSurvives'
    BY <1>1, <1>2, <1>3, <1>4 DEF Route, Early, Late, SuccessIsWhole, EarlierOutputSurvives
  <1>8. Files'
    <2>1. before.spool # "partial" /\ disk.spool = before.spool
      BY <1>1, <1>2 DEF TypeOK, Path, Files, Early
    <2>2. QED
      BY <1>1, <1>2, <1>3, <1>4, <1>5, <2>1 DEF Files, Early, Late
  <1>9. Amounts'
    <2>1. 0 * FrameUnits = 0
      BY OutputAssumption
    <2>2. QED
      BY <1>1, <1>2, <1>3, <1>4, <2>1 DEF Amounts, NothingYet, Rendered, Early, Late
  <1>10. QED
    BY <1>6, <1>7, <1>8, <1>9 DEF OutputInv

LEMMA OpenSpoolKeeps == ASSUME OutputInv, OpenSpool PROVE OutputInv'
  <1>1. TypeOK /\ Route /\ Files /\ Amounts /\ SuccessIsWhole /\ EarlierOutputSurvives
    BY DEF OutputInv
  <1>2. Same /\ keep' = keep /\ at = "openSpool"
    BY DEF OpenSpool, Same, spoolVars, fileVars
  <1>3. CASE Return("failed", [disk EXCEPT !.spool = "absent"])
    <2> DEFINE d == [disk EXCEPT !.spool = "absent"]
    <2>1. d \in [Path -> Content] /\ d.spool = "absent" /\ d.output = disk.output
      BY <1>1 DEF TypeOK, Path, Content
    <2> HIDE DEF d
    <2>2. Return("failed", d)
      BY <1>3 DEF d
    <2>3. QED
      BY <1>2, <2>1, <2>2, EarlyReturn
  <1>4. CASE /\ GoTo("openObjects")
             /\ disk' = [disk EXCEPT !.spool = "partial"]
             /\ open' = open \cup {"spool"}
    <2>1. /\ at' = "openObjects" /\ result' = result /\ open' = {"spool"}
          /\ cfg.op # "adm" /\ ~cfg.metadataOnly
      BY <1>1, <1>2, <1>4 DEF GoTo, Route, Files, Early
    <2>2. disk' \in [Path -> Content] /\ disk'.output = disk.output
      BY <1>1, <1>4 DEF TypeOK, Path, Content
    <2>3. EmittedAfter(processed)' = EmittedAfter(processed) /\ Kept' = Kept
      BY <1>2 DEF EmittedAfter, Kept, Same
    <2>4. TypeOK'
      BY <1>1, <1>2, <2>1, <2>2 DEF TypeOK, Late, Path, Same
    <2>5. Route' /\ SuccessIsWhole' /\ EarlierOutputSurvives'
      BY <1>1, <1>2, <2>1, <2>2, <2>3 DEF Route, Early, Late, SuccessIsWhole, EarlierOutputSurvives, Same
    <2>6. Files'
      BY <1>1, <1>2, <2>1, <2>2 DEF Files, Early, Late, Same
    <2>7. Amounts'
      BY <1>1, <1>2, <2>1, <2>3 DEF Amounts, NothingYet, Rendered, Early, Late, Same
    <2>8. QED
      BY <2>4, <2>5, <2>6, <2>7 DEF OutputInv
  <1>5. QED
    BY <1>3, <1>4 DEF OpenSpool

LEMMA OpenObjectsKeeps == ASSUME OutputInv, OpenObjects PROVE OutputInv'
  <1>1. TypeOK /\ Route /\ Files /\ Amounts /\ SuccessIsWhole /\ EarlierOutputSurvives
    BY DEF OutputInv
  <1>2. Same /\ keep' = keep /\ at = "openObjects" /\ disk \in [Path -> Content]
    BY <1>1 DEF OpenObjects, Same, spoolVars, fileVars, TypeOK
  <1>3. CASE Return("failed", disk)
    BY <1>2, <1>3, EarlyReturn
  <1>4. CASE /\ GoTo("openInputs")
             /\ disk' = [disk EXCEPT !.objects = IF cfg.keepObjects THEN "partial" ELSE @]
             /\ open' = IF cfg.keepObjects THEN open \cup {"objects"} ELSE open
    <2>1. at' = "openInputs" /\ result' = result
      BY <1>4 DEF GoTo
    <2>2. /\ open' \in SUBSET Path
          /\ "spool" \in open' <=> "spool" \in open
      BY <1>1, <1>4 DEF TypeOK, Path
    <2>3. /\ disk' \in [Path -> Content]
          /\ disk'.output = disk.output /\ disk'.spool = disk.spool
      BY <1>1, <1>4 DEF TypeOK, Path, Content
    <2>4. EmittedAfter(processed)' = EmittedAfter(processed) /\ Kept' = Kept
      BY <1>2 DEF EmittedAfter, Kept, Same
    <2>5. TypeOK'
      BY <1>1, <1>2, <2>1, <2>2, <2>3 DEF TypeOK, Late, Same
    <2>6. Route' /\ SuccessIsWhole' /\ EarlierOutputSurvives'
      BY <1>1, <1>2, <2>1, <2>3, <2>4 DEF Route, Early, Late, SuccessIsWhole, EarlierOutputSurvives, Same
    <2>7. Files'
      BY <1>1, <1>2, <2>1, <2>2, <2>3 DEF Files, Early, Late, Same
    <2>8. Amounts'
      BY <1>1, <1>2, <2>1, <2>4 DEF Amounts, NothingYet, Rendered, Early, Late, Same
    <2>9. QED
      BY <2>5, <2>6, <2>7, <2>8 DEF OutputInv
  <1>5. QED
    BY <1>3, <1>4 DEF OpenObjects

LEMMA OpenInputsKeeps == ASSUME OutputInv, OpenInputs PROVE OutputInv'
  <1>1. TypeOK /\ Route /\ Files /\ Amounts /\ SuccessIsWhole /\ EarlierOutputSurvives
    BY DEF OutputInv
  <1>2. at = "openInputs" /\ UNCHANGED <<cfg, before>>
    BY DEF OpenInputs
  <1>3. CASE Failing
    BY <1>2, <1>3, FailingKeeps
  <1>4. CASE /\ GoTo("frames")
             /\ UNCHANGED <<disk, open, adm, processed, spoolVars, used, fileVars>>
    <2>1. /\ at' = "frames" /\ result' = result /\ disk' = disk /\ open' = open
          /\ keep' = keep /\ Same
      BY <1>2, <1>4 DEF GoTo, Same, spoolVars, fileVars
    <2>2. EmittedAfter(processed)' = EmittedAfter(processed) /\ Kept' = Kept
      BY <2>1 DEF EmittedAfter, Kept, Same
    <2>3. TypeOK'
      BY <1>1, <2>1 DEF TypeOK, Late, Same
    <2>4. Route' /\ SuccessIsWhole' /\ EarlierOutputSurvives'
      BY <1>1, <1>2, <2>1, <2>2 DEF Route, Early, Late, SuccessIsWhole, EarlierOutputSurvives, Same
    <2>5. Files'
      BY <1>1, <1>2, <2>1 DEF Files, Early, Late, Same
    <2>6. Amounts'
      BY <1>1, <1>2, <2>1, <2>2 DEF Amounts, NothingYet, Rendered, Early, Late, Same
    <2>7. QED
      BY <2>3, <2>4, <2>5, <2>6 DEF OutputInv
  <1>5. QED
    BY <1>3, <1>4 DEF OpenInputs

-----------------------------------------------------------------------------
(***************************************************************************)
(* The frames.                                                             *)
(***************************************************************************)
LEMMA WriteFrameKeeps == ASSUME OutputInv, WriteFrame PROVE OutputInv'
  <1>1. TypeOK /\ Route /\ Files /\ Amounts /\ SuccessIsWhole /\ EarlierOutputSurvives
    BY DEF OutputInv
  <1>2. /\ at = "frames" /\ at' = "frames" /\ result' = result
        /\ cfg' = cfg /\ before' = before /\ disk' = disk /\ open' = open /\ adm' = adm
        /\ program' = program /\ keep' = keep /\ declared' = declared
        /\ processed' = processed + 1 /\ processed < cfg.frames
    BY DEF WriteFrame
  <1>3. cfg.frames \in Nat /\ processed \in Nat /\ ~cfg.metadataOnly /\ result = "running"
    BY <1>1, <1>2 DEF TypeOK, Config, Route, Late
  <1>4. Route' /\ SuccessIsWhole' /\ Files'
    BY <1>1, <1>2, <1>3 DEF Route, Files, Early, Late, SuccessIsWhole
  <1>5. EarlierOutputSurvives'
    BY <1>1, <1>2 DEF Files, Late, EarlierOutputSurvives
  <1>6. CASE cfg.op = "adm"
    <2>1. /\ AdmWrite /\ position' = position /\ heard' = heard /\ lastHeard' = lastHeard
          /\ used \in Nat /\ stored \in Nat /\ stored + used = processed * FrameUnits
          /\ position = 0 /\ program = 0 /\ keep = 0
      BY <1>1, <1>2, <1>6 DEF WriteFrame, TypeOK, Amounts, Late
    <2>2. FrameUnits \in Nat /\ AdmBlock \in Nat \ {0} /\ used + FrameUnits \in Nat
      BY <2>1, OutputAssumption
    <2>3. PICK total \in Nat : total = used + FrameUnits
      BY <2>2
    <2> DEFINE blocks == (total \div AdmBlock) * AdmBlock
               rest == total % AdmBlock
    <2>4. blocks \in Nat /\ rest \in Nat /\ blocks + rest = total
      <3>1. total \div AdmBlock \in Nat /\ rest \in 0 .. AdmBlock - 1 /\ blocks + rest = total
        BY <2>2, <2>3, DivMod
      <3>2. QED
        BY <2>2, <3>1
    <2>5. used' = rest /\ stored' = stored + blocks
      BY <2>1, <2>3 DEF AdmWrite
    <2> HIDE DEF blocks, rest
    <2>6. (processed + 1) * FrameUnits = processed * FrameUnits + FrameUnits
      BY <1>3, <2>2
    <2>7. processed * FrameUnits \in Nat
      BY <1>3, <2>2
    <2>8. stored' + used' = processed' * FrameUnits /\ used' \in Nat /\ stored' \in Nat
      BY <1>2, <2>1, <2>2, <2>3, <2>4, <2>5, <2>6, <2>7
    <2>9. TypeOK'
      BY <1>1, <1>2, <1>3, <2>1, <2>8 DEF TypeOK
    <2>10. Amounts'
      BY <1>1, <1>2, <1>3, <1>6, <2>1, <2>8 DEF Amounts, NothingYet, Rendered, Early, Late
    <2>11. QED
      BY <1>4, <1>5, <2>9, <2>10 DEF OutputInv
  <1>7. CASE cfg.op # "adm"
    <2>1. /\ SpoolWrite(EmittedAfter(processed + 1)) /\ used' = used /\ stored' = stored
          /\ position = EmittedAfter(processed) /\ stored = 0
          /\ lastHeard <= position /\ \A unit \in heard : unit < lastHeard
      BY <1>1, <1>2, <1>7 DEF WriteFrame, Amounts, Late
    <2>2. EmittedAfter(processed)' = EmittedAfter(processed + 1)
      BY <1>2 DEF EmittedAfter, Binaural
    <2>3. EmittedAfter(processed + 1) \in Nat /\ position <= EmittedAfter(processed + 1)
      BY <1>1, <1>3, <1>7, <2>1, EmittedGrows, processed + 1 \in Nat DEF TypeOK
    <2>4. /\ position' = EmittedAfter(processed)'
          /\ heard' \in SUBSET Nat /\ lastHeard' \in Nat
          /\ \A unit \in heard' : unit < lastHeard'
          /\ lastHeard' <= position'
      BY <1>1, <2>1, <2>2, <2>3, SpoolWriteProperties
    <2>5. TypeOK'
      BY <1>1, <1>2, <1>3, <2>1, <2>2, <2>3, <2>4 DEF TypeOK
    <2>6. Amounts'
      BY <1>2, <1>3, <1>7, <2>1, <2>4 DEF Amounts, NothingYet, Rendered, Early, Late
    <2>7. QED
      BY <1>4, <1>5, <2>5, <2>6 DEF OutputInv
  <1>8. QED
    BY <1>6, <1>7

LEMMA FrameFailsKeeps == ASSUME OutputInv, FrameFails PROVE OutputInv'
  BY FailingKeeps DEF FrameFails

LEMMA CancelledKeeps == ASSUME OutputInv, Cancelled PROVE OutputInv'
  BY EarlyReturn DEF Cancelled, Same, spoolVars, fileVars, OutputInv, TypeOK

LEMMA FramesEndKeeps == ASSUME OutputInv, FramesEnd PROVE OutputInv'
  <1>1. TypeOK /\ Route /\ Files /\ Amounts /\ SuccessIsWhole /\ EarlierOutputSurvives
    BY DEF OutputInv
  <1>2. /\ at = "frames" /\ processed = cfg.frames /\ program' = position
        /\ at' = (IF cfg.op = "adm" THEN "finalizeAdm" ELSE "drain") /\ result' = result
        /\ cfg' = cfg /\ before' = before /\ disk' = disk /\ open' = open /\ adm' = adm
        /\ processed' = processed /\ position' = position /\ heard' = heard
        /\ lastHeard' = lastHeard /\ keep' = keep /\ used' = used
        /\ declared' = declared /\ stored' = stored
    BY DEF FramesEnd, GoTo, fileVars
  <1>3. EmittedAfter(processed)' = EmittedAfter(processed)
    BY <1>2 DEF EmittedAfter
  <1>4. TypeOK'
    BY <1>1, <1>2 DEF TypeOK, Late
  <1>5. Route' /\ SuccessIsWhole'
    BY <1>1, <1>2 DEF Route, Early, Late, SuccessIsWhole
  <1>6. EarlierOutputSurvives'
    BY <1>1, <1>2 DEF Files, Late, EarlierOutputSurvives
  <1>7. Files'
    BY <1>1, <1>2 DEF Files, Early, Late
  <1>8. Amounts'
    BY <1>1, <1>2, <1>3 DEF TypeOK, Amounts, NothingYet, Rendered, Early, Late
  <1>9. QED
    BY <1>4, <1>5, <1>6, <1>7, <1>8 DEF OutputInv

-----------------------------------------------------------------------------
(***************************************************************************)
(* Finalising.                                                             *)
(***************************************************************************)
LEMMA FinalizeAdmKeeps == ASSUME OutputInv, FinalizeAdm PROVE OutputInv'
  <1>1. TypeOK /\ Route /\ Files /\ Amounts /\ SuccessIsWhole /\ EarlierOutputSurvives
    BY DEF OutputInv
  <1>2. /\ at = "finalizeAdm" /\ cfg' = cfg /\ before' = before /\ processed' = processed
        /\ position' = position /\ heard' = heard /\ lastHeard' = lastHeard
        /\ program' = program /\ keep' = keep
    BY DEF FinalizeAdm, spoolVars
  <1>3. cfg.op = "adm" /\ ~cfg.metadataOnly /\ result = "running" /\ processed = cfg.frames
    BY <1>1, <1>2 DEF Route, Late, Amounts, Rendered
  <1>4. CASE Return("failed", disk) /\ UNCHANGED <<adm, used, fileVars>>
    BY <1>1, <1>2, <1>4, EarlyReturn DEF Same, fileVars, TypeOK
  <1>5. CASE /\ adm' = "finalized" /\ used' = 0
             /\ stored' = stored + used /\ declared' = processed * FrameUnits
             /\ \/ /\ GoTo("report")
                   /\ disk' = [disk EXCEPT !.output = "whole"] /\ open' = open \ {"output"}
                \/ at' = "done" /\ result' = "failed" /\ open' = {} /\ UNCHANGED disk
    <2>1. /\ stored' = processed * FrameUnits /\ declared' = processed * FrameUnits
          /\ stored' \in Nat
      BY <1>1, <1>2, <1>3, <1>5 DEF Amounts, Late, TypeOK
    <2>2. /\ disk' \in [Path -> Content] /\ disk'.spool = disk.spool
          /\ open' \in SUBSET Path /\ open' \subseteq open
          /\ at' = "report" => disk'.output = "whole"
          /\ at' = "done" => open' = {}
      BY <1>1, <1>5 DEF TypeOK, Path, Content, GoTo
    <2>3. \/ at' = "report" /\ result' = "running"
          \/ at' = "done" /\ result' = "failed"
      BY <1>3, <1>5 DEF GoTo
    <2>4. before.spool # "partial"
      BY <1>1 DEF TypeOK, Path
    <2>5. TypeOK'
      BY <1>1, <1>2, <1>5, <2>1, <2>2, <2>3 DEF TypeOK, Late
    <2>6. Route' /\ SuccessIsWhole' /\ EarlierOutputSurvives'
      BY <1>2, <1>3, <2>3 DEF Route, Early, Late, SuccessIsWhole, EarlierOutputSurvives
    <2>7. Files'
      BY <1>1, <1>2, <1>3, <1>5, <2>2, <2>3, <2>4 DEF Files, Early, Late
    <2>8. Amounts'
      BY <1>1, <1>2, <1>3, <2>1, <2>3 DEF Amounts, NothingYet, Rendered, Early, Late
    <2>9. QED
      BY <2>5, <2>6, <2>7, <2>8 DEF OutputInv
  <1>6. QED
    BY <1>4, <1>5 DEF FinalizeAdm

LEMMA DrainKeeps == ASSUME OutputInv, Drain PROVE OutputInv'
  <1>1. TypeOK /\ Route /\ Files /\ Amounts /\ SuccessIsWhole /\ EarlierOutputSurvives
    BY DEF OutputInv
  <1>2. at = "drain" /\ cfg' = cfg /\ before' = before
    BY DEF Drain
  <1>3. /\ cfg.op # "adm" /\ ~cfg.metadataOnly /\ result = "running" /\ processed = cfg.frames
        /\ position = EmittedAfter(processed) /\ program <= position
        /\ lastHeard <= position /\ \A unit \in heard : unit < lastHeard
    BY <1>1, <1>2 DEF Route, Late, Amounts, Rendered
  <1>4. CASE Failing
    BY <1>2, <1>4, FailingKeeps
  <1>5. CASE /\ GoTo("decide")
             /\ IF cfg.op \in Binaural
                THEN SpoolWrite(processed * FrameUnits + TailUnits - Latency)
                ELSE UNCHANGED <<position, heard, lastHeard>>
             /\ UNCHANGED <<disk, open, adm, processed, program, keep, used, fileVars>>
    <2> DEFINE all == processed * FrameUnits + TailUnits - Latency
    <2>1. /\ cfg.op \in {"speaker"} \cup Binaural
          /\ cfg.frames \in Nat \ {0} /\ cfg \in Config
      BY <1>1, <1>3 DEF TypeOK, Config
    <2>2. /\ FrameUnits \in Nat \ {0} /\ Latency \in Nat /\ Latency < FrameUnits
          /\ TailUnits \in Nat
      BY OutputAssumption
    <2>3. cfg.frames * FrameUnits \in Nat /\ cfg.frames * FrameUnits >= FrameUnits
      <3>1. 1 * FrameUnits <= cfg.frames * FrameUnits
        BY <2>1, <2>2, TimesIsMonotone
      <3>2. QED
        BY <2>1, <2>2, <3>1
    <2>4. /\ all \in Nat
          /\ cfg.op \in Binaural => position <= all
      <3>1. cfg.op \in Binaural => position <= cfg.frames * FrameUnits - Latency
        BY <1>3, <2>1, <2>2, <2>3, EmittedGrows
      <3>2. QED
        BY <1>1, <1>3, <2>2, <2>3, <3>1 DEF TypeOK
    <2>5. cfg.op = "speaker" => position = cfg.frames * FrameUnits
      BY <1>3, <2>1, EmittedGrows
    <2>6. /\ cfg.op \in Binaural => position' = all
          /\ cfg.op \notin Binaural => position' = position
          /\ position <= position' /\ position' \in Nat
          /\ heard' \in SUBSET Nat /\ lastHeard' \in Nat
          /\ \A unit \in heard' : unit < lastHeard'
          /\ lastHeard' <= position'
      <3> HIDE DEF all
      <3>1. CASE cfg.op \in Binaural
        <4>1. SpoolWrite(all)
          BY <1>5, <3>1 DEF all
        <4>2. /\ position' = all
              /\ heard' \in SUBSET Nat /\ lastHeard' \in Nat
              /\ \A unit \in heard' : unit < lastHeard'
              /\ lastHeard' <= all
          BY <1>1, <1>3, <2>4, <3>1, <4>1, SpoolWriteProperties
        <4>3. QED
          BY <2>4, <3>1, <4>2
      <3>2. CASE cfg.op \notin Binaural
        <4>1. position' = position /\ heard' = heard /\ lastHeard' = lastHeard
          BY <1>5, <3>2
        <4>2. QED
          BY <1>1, <1>3, <3>2, <4>1 DEF TypeOK
      <3>3. QED
        BY <3>1, <3>2
    <2>7. /\ at' = "decide" /\ result' = result /\ disk' = disk /\ open' = open
          /\ adm' = adm /\ processed' = processed /\ program' = program /\ keep' = keep
          /\ used' = used /\ declared' = declared /\ stored' = stored
      BY <1>5 DEF GoTo, fileVars
    <2> HIDE DEF all
    <2>8. TypeOK'
      BY <1>1, <1>2, <2>6, <2>7 DEF TypeOK, Late
    <2>9. Route' /\ SuccessIsWhole'
      BY <1>2, <1>3, <2>7 DEF Route, Early, Late, SuccessIsWhole
    <2>10. EarlierOutputSurvives'
      BY <1>1, <1>2, <2>7 DEF Files, Late, EarlierOutputSurvives
    <2>11. Files'
      BY <1>1, <1>2, <2>7 DEF Files, Early, Late
    <2>12. Amounts'
      <3>1. position' = IF cfg.op = "speaker" THEN cfg.frames * FrameUnits
                        ELSE cfg.frames * FrameUnits + TailUnits - Latency
        BY <1>3, <2>1, <2>5, <2>6 DEF all, Binaural
      <3>2. program <= position'
        BY <1>1, <1>3, <2>6 DEF TypeOK
      <3>3. stored = 0
        BY <1>1, <1>2, <1>3 DEF Amounts, Late
      <3>4. QED
        BY <1>2, <1>3, <2>1, <2>6, <2>7, <3>1, <3>2, <3>3 DEF Amounts, NothingYet, Rendered, Early, Late
    <2>13. QED
      BY <2>8, <2>9, <2>10, <2>11, <2>12 DEF OutputInv
  <1>6. QED
    BY <1>4, <1>5 DEF Drain

LEMMA DecideKeeps == ASSUME OutputInv, Decide PROVE OutputInv'
  <1>1. TypeOK /\ Route /\ Files /\ Amounts /\ SuccessIsWhole /\ EarlierOutputSurvives
    BY DEF OutputInv
  <1>2. Same /\ at = "decide" /\ keep' = Kept /\ disk \in [Path -> Content]
    BY <1>1 DEF Decide, Same, fileVars, TypeOK
  <1>3. CASE Return("failed", disk)
    BY <1>2, <1>3, EarlyReturn
  <1>4. CASE GoTo("openWav") /\ UNCHANGED <<disk, open>>
    <2>1. at' = "openWav" /\ result' = result /\ disk' = disk /\ open' = open
      BY <1>4 DEF GoTo
    <2>2. cfg.op # "adm" /\ ~cfg.metadataOnly /\ processed = cfg.frames /\ disk.output = before.output
      BY <1>1, <1>2 DEF Route, Late, Amounts, Rendered, Files
    <2>3. Kept' = Kept /\ Kept \in Nat
      BY <1>1, <1>2, <2>2, KeptProperties DEF Amounts, Kept, Same
    <2>4. TypeOK'
      BY <1>1, <1>2, <2>1, <2>3 DEF TypeOK, Late, Same
    <2>5. Route' /\ SuccessIsWhole' /\ EarlierOutputSurvives'
      BY <1>1, <1>2, <2>1, <2>2 DEF Route, Early, Late, SuccessIsWhole, EarlierOutputSurvives, Same
    <2>6. Files'
      BY <1>1, <1>2, <2>1, <2>2 DEF Files, Early, Late, Same
    <2>7. Amounts'
      BY <1>1, <1>2, <2>1, <2>2, <2>3 DEF Amounts, NothingYet, Rendered, Early, Late, Same
    <2>8. QED
      BY <2>4, <2>5, <2>6, <2>7 DEF OutputInv
  <1>5. QED
    BY <1>3, <1>4 DEF Decide

LEMMA OpenWavKeeps == ASSUME OutputInv, OpenWav PROVE OutputInv'
  <1> DEFINE d == [disk EXCEPT !.output = "partial"]
  <1>1. TypeOK /\ Route /\ Files /\ Amounts /\ SuccessIsWhole /\ EarlierOutputSurvives
    BY DEF OutputInv
  <1>2. /\ d \in [Path -> Content] /\ d.spool = disk.spool /\ d.output = "partial"
        /\ disk \in [Path -> Content]
    BY <1>1 DEF TypeOK, Path, Content
  <1>3. /\ at = "openWav" /\ keep' = keep
        /\ UNCHANGED <<cfg, before, adm, processed, position, heard, lastHeard, program,
                       used, stored>>
    BY DEF OpenWav, spoolVars
  <1>4. \/ Return("failed", disk) /\ UNCHANGED declared
        \/ Return("failed", d) /\ UNCHANGED declared
        \/ /\ GoTo("copy") /\ declared' = keep
           /\ disk' = d /\ open' = open \cup {"output"}
    BY DEF OpenWav
  <1> HIDE DEF d
  <1>5. CASE Return("failed", disk) /\ UNCHANGED declared
    BY <1>2, <1>3, <1>5, EarlyReturn DEF Same
  <1>6. CASE Return("failed", d) /\ UNCHANGED declared
    BY <1>2, <1>3, <1>6, EarlyReturn DEF Same
  <1>7. CASE /\ GoTo("copy") /\ declared' = keep
             /\ disk' = d /\ open' = open \cup {"output"}
    <2>1. at' = "copy" /\ result' = result
      BY <1>7 DEF GoTo
    <2>2. /\ cfg.op # "adm" /\ ~cfg.metadataOnly /\ processed = cfg.frames /\ keep = Kept
          /\ position = IF cfg.op = "speaker" THEN cfg.frames * FrameUnits
                        ELSE cfg.frames * FrameUnits + TailUnits - Latency
      BY <1>1, <1>3 DEF Route, Late, Amounts, Rendered
    <2>3. Kept' = Kept
      BY <1>3 DEF Kept
    <2>4. /\ open' \in SUBSET Path
          /\ "spool" \in open => "spool" \in open'
      BY <1>1, <1>7 DEF TypeOK, Path
    <2>5. TypeOK'
      BY <1>1, <1>2, <1>3, <1>7, <2>1, <2>4 DEF TypeOK, Late
    <2>6. Route' /\ SuccessIsWhole'
      BY <1>1, <1>3, <2>1, <2>2 DEF Route, Early, Late, SuccessIsWhole
    <2>7. EarlierOutputSurvives'
      BY <1>3, <2>2, <2>3 DEF EarlierOutputSurvives, Binaural
    <2>8. Files'
      BY <1>1, <1>2, <1>3, <1>7, <2>1, <2>2, <2>4 DEF Files, Early, Late
    <2>9. Amounts'
      BY <1>1, <1>3, <1>7, <2>1, <2>2, <2>3 DEF Amounts, NothingYet, Rendered, Early, Late
    <2>10. QED
      BY <2>5, <2>6, <2>7, <2>8, <2>9 DEF OutputInv
  <1>8. QED
    BY <1>4, <1>5, <1>6, <1>7

LEMMA CopyKeeps == ASSUME OutputInv, Copy PROVE OutputInv'
  <1>1. TypeOK /\ Route /\ Files /\ Amounts /\ SuccessIsWhole /\ EarlierOutputSurvives
    BY DEF OutputInv
  <1>2. at = "copy" /\ UNCHANGED <<cfg, before>>
    BY DEF Copy
  <1>3. CASE Failing
    BY <1>2, <1>3, FailingKeeps
  <1>4. CASE ~Failing
    <2>1. /\ at' = at /\ result' = result /\ disk' = disk /\ open' = open /\ keep' = keep
          /\ adm' = adm /\ processed' = processed /\ position' = position /\ heard' = heard
          /\ lastHeard' = lastHeard /\ program' = program /\ used' = used
          /\ declared' = declared /\ cfg' = cfg /\ before' = before
          /\ stored' = Least(keep, stored + CopyBlock)
      BY <1>4 DEF Copy, spoolVars
    <2>2. cfg.op # "adm" /\ stored' \in Nat
      BY <1>1, <1>2, <2>1, OutputAssumption DEF Route, TypeOK, Least
    <2>3. Kept' = Kept
      BY <2>1 DEF Kept
    <2>4. TypeOK'
      BY <1>1, <2>1, <2>2 DEF TypeOK
    <2>5. Route' /\ SuccessIsWhole' /\ EarlierOutputSurvives'
      BY <1>1, <1>2, <2>1, <2>3 DEF Route, SuccessIsWhole, EarlierOutputSurvives
    <2>6. Files'
      BY <1>1, <2>1 DEF Files
    <2>7. Amounts'
      BY <1>1, <1>2, <2>1, <2>2, <2>3 DEF Amounts, NothingYet, Early, Late, Rendered
    <2>8. QED
      BY <2>4, <2>5, <2>6, <2>7 DEF OutputInv
  <1>5. QED
    BY <1>3, <1>4

LEMMA FinishWavKeeps == ASSUME OutputInv, FinishWav PROVE OutputInv'
  <1>1. TypeOK /\ Route /\ Files /\ Amounts /\ SuccessIsWhole /\ EarlierOutputSurvives
    BY DEF OutputInv
  <1>2. at = "copy" /\ stored = keep /\ UNCHANGED <<cfg, before>>
    BY DEF FinishWav
  <1>3. CASE Failing
    BY <1>2, <1>3, FailingKeeps
  <1>4. CASE ~Failing
    <2>1. /\ at' = "report" /\ result' = result /\ keep' = keep /\ Same
          /\ disk' = [disk EXCEPT !.output = "whole"] /\ open' = open \ {"output"}
      BY <1>2, <1>4 DEF FinishWav, GoTo, Same, spoolVars, fileVars
    <2>2. /\ cfg.op # "adm" /\ ~cfg.metadataOnly /\ processed = cfg.frames /\ keep = Kept
          /\ position = IF cfg.op = "speaker" THEN cfg.frames * FrameUnits
                        ELSE cfg.frames * FrameUnits + TailUnits - Latency
      BY <1>1, <1>2 DEF Route, Late, Amounts, Rendered
    <2>3. Kept' = Kept
      BY <2>1 DEF Kept, Same
    <2>4. /\ open' \in SUBSET Path
          /\ "spool" \in open => "spool" \in open'
      BY <1>1, <2>1 DEF TypeOK, Path
    <2>5. disk' \in [Path -> Content] /\ disk'.output = "whole"
      BY <1>1, <2>1 DEF TypeOK, Path, Content
    <2>6. TypeOK'
      BY <1>1, <2>1, <2>4, <2>5 DEF TypeOK, Late, Same
    <2>7. Route' /\ SuccessIsWhole'
      BY <1>1, <1>2, <2>1, <2>2 DEF Route, Early, Late, SuccessIsWhole, Same
    <2>8. EarlierOutputSurvives'
      BY <2>1, <2>2, <2>3 DEF EarlierOutputSurvives, Binaural, Same
    <2>9. Files'
      BY <1>1, <1>2, <2>1, <2>2, <2>4, <2>5 DEF Files, Early, Late, Same
    <2>10. Amounts'
      BY <1>1, <1>2, <2>1, <2>2, <2>3 DEF Amounts, NothingYet, Rendered, Early, Late, Same
    <2>11. QED
      BY <2>6, <2>7, <2>8, <2>9, <2>10 DEF OutputInv
  <1>5. QED
    BY <1>3, <1>4

\* The only way to succeed with an output.
LEMMA ReportKeeps == ASSUME OutputInv, Report PROVE OutputInv'
  <1>1. TypeOK /\ Route /\ Files /\ Amounts /\ SuccessIsWhole /\ EarlierOutputSurvives
    BY DEF OutputInv
  <1>0. PICK left \in {"partial", "whole"} :
            Return("ok", [disk EXCEPT !.work = "absent",
                                      !.objects = IF "objects" \in open THEN left ELSE @])
    BY DEF Report
  <1> DEFINE d == [disk EXCEPT !.work = "absent",
                               !.objects = IF "objects" \in open THEN left ELSE @]
  <1>2. /\ at = "report" /\ Return("ok", d) /\ keep' = keep /\ Same
    BY <1>0 DEF Report, Same, spoolVars, fileVars
  <1>3. /\ d \in [Path -> Content] /\ d.output = disk.output /\ d.spool = disk.spool
        /\ d.work = "absent"
    BY <1>1 DEF TypeOK, Path, Content
  <1> HIDE DEF d
  <1>4. /\ at' = "done" /\ result' = "ok" /\ open' = {} /\ disk' \in [Path -> Content]
        /\ disk'.spool = (IF "spool" \in open THEN "absent" ELSE d.spool)
        /\ disk'.output = (IF adm = "named" THEN "absent" ELSE d.output)
        /\ disk'.work = d.work
    BY <1>2, <1>3 DEF Return, Destroyed, Path, Content
  <1>5. /\ adm # "named" /\ disk.output = "whole" /\ ~cfg.metadataOnly
        /\ cfg.op # "adm" => "spool" \in open
        /\ cfg.op = "adm" => disk.spool = before.spool
        /\ before.spool # "partial"
    BY <1>1, <1>2 DEF Files, Late, Route, TypeOK, Path
  <1>6. /\ processed = cfg.frames /\ declared = stored
        /\ cfg.op = "adm" => stored = cfg.frames * FrameUnits
        /\ cfg.op # "adm" => keep = Kept
        /\ cfg.op # "adm" => stored = keep
        /\ cfg.op # "adm" => position = IF cfg.op = "speaker" THEN cfg.frames * FrameUnits
                             ELSE cfg.frames * FrameUnits + TailUnits - Latency
    BY <1>1, <1>2 DEF Amounts, Rendered, Late
  <1>7. cfg.op = "speaker" => stored = cfg.frames * FrameUnits
    BY <1>6 DEF Kept
  <1>8. TypeOK'
    BY <1>1, <1>2, <1>4 DEF TypeOK, Same
  <1>9. Route'
    BY <1>4 DEF Route, Early, Late
  <1>10. Files'
    BY <1>1, <1>2, <1>3, <1>4, <1>5 DEF Files, Early, Late, Same
  <1>11. Amounts'
    BY <1>1, <1>2, <1>4 DEF Amounts, NothingYet, Rendered, Early, Late, Same
  <1>12. SuccessIsWhole'
    BY <1>2, <1>3, <1>4, <1>5, <1>6, <1>7 DEF SuccessIsWhole, Same
  <1>13. EarlierOutputSurvives'
    <2>1. Kept' = Kept
      BY <1>2 DEF Kept, Same
    <2>2. QED
      BY <1>2, <1>4, <1>6, <2>1 DEF EarlierOutputSurvives, Binaural, Same
  <1>14. QED
    BY <1>8, <1>9, <1>10, <1>11, <1>12, <1>13 DEF OutputInv

-----------------------------------------------------------------------------
(***************************************************************************)
(* Every step, and the theorems.                                           *)
(***************************************************************************)
LEMMA StutterKeeps == ASSUME OutputInv, UNCHANGED vars PROVE OutputInv'
  <1>1. Same /\ UNCHANGED <<at, result, disk, open, keep>>
    BY DEF vars, spoolVars, fileVars, Same
  <1>2. EmittedAfter(processed)' = EmittedAfter(processed) /\ Kept' = Kept
    BY <1>1 DEF EmittedAfter, Kept, Same
  <1>3. TypeOK' /\ Route' /\ Files'
    BY <1>1 DEF OutputInv, TypeOK, Route, Files, Same
  <1>4. Amounts'
    BY <1>1, <1>2 DEF OutputInv, Amounts, NothingYet, Same
  <1>5. SuccessIsWhole' /\ EarlierOutputSurvives'
    BY <1>1, <1>2 DEF OutputInv, SuccessIsWhole, EarlierOutputSurvives, Same
  <1>6. QED
    BY <1>3, <1>4, <1>5 DEF OutputInv

LEMMA NextKeeps == ASSUME OutputInv, [Next]_vars PROVE OutputInv'
  <1>1. CASE Validate \/ Extract \/ Decode \/ Scan \/ SetUp
    BY <1>1, ValidateKeeps, ExtractKeeps, DecodeKeeps, ScanKeeps, SetUpKeeps
  <1>2. CASE OpenAdm \/ OpenSpool \/ OpenObjects \/ OpenInputs
    BY <1>2, OpenAdmKeeps, OpenSpoolKeeps, OpenObjectsKeeps, OpenInputsKeeps
  <1>3. CASE WriteFrame \/ FrameFails \/ Cancelled \/ FramesEnd
    BY <1>3, WriteFrameKeeps, FrameFailsKeeps, CancelledKeeps, FramesEndKeeps
  <1>4. CASE FinalizeAdm \/ Drain \/ Decide \/ OpenWav \/ Copy \/ FinishWav \/ Report
    BY <1>4, FinalizeAdmKeeps, DrainKeeps, DecideKeeps, OpenWavKeeps, CopyKeeps,
       FinishWavKeeps, ReportKeeps
  <1>5. CASE Returned \/ UNCHANGED vars
    BY <1>5, StutterKeeps DEF Returned
  <1>6. QED
    BY <1>1, <1>2, <1>3, <1>4, <1>5 DEF Next

\* The type invariant and its strengthening hold in every state of a task,
\* whatever the sizes and whichever step fails.
THEOREM OutputInvHolds == Spec => []OutputInv
  <1>1. Init => OutputInv
    BY InitInv
  <1>2. OutputInv /\ [Next]_vars => OutputInv'
    BY NextKeeps
  <1>3. QED
    BY <1>1, <1>2, PTL DEF Spec

\* run only reports success for an output whose header declares the samples in
\* it, with every frame of the input and without a spool or a work directory
\* left.
THEOREM SuccessWhole == Spec => []SuccessIsWhole
  <1>1. OutputInv => SuccessIsWhole
    BY DEF OutputInv
  <1>2. QED
    BY <1>1, OutputInvHolds, PTL

\* Whichever step fails, or when the task is cancelled, its return path closes
\* and removes what it should, and a PCM task has not touched an earlier output
\* before everything was rendered.
THEOREM FilesSafe == Spec => []FilesEndWell
  <1>1. OutputInv => FilesEndWell
    <2> SUFFICES ASSUME OutputInv PROVE NothingLeftBehind
      BY DEF OutputInv, FilesEndWell
    <2>1. Files /\ EarlierOutputSurvives /\ before.output # "partial"
      BY DEF OutputInv, TypeOK, Path
    <2>2. QED
      BY <2>1 DEF Files, EarlierOutputSurvives, NothingLeftBehind
  <1>2. QED
    BY <1>1, OutputInvHolds, PTL

\* PcmSpool::kept drops no sample above the threshold and none emitted before
\* the runtime was finished, for every latency, chunk and tail, and every
\* pattern of silence.
THEOREM HeardSurvives == Spec => []HeardIsKept
  <1>1. OutputInv => HeardIsKept
    <2> SUFFICES ASSUME OutputInv, at \in {"openWav", "copy", "report"}
                 PROVE  /\ \A unit \in heard : unit < keep
                        /\ program <= keep /\ keep <= position
      BY DEF HeardIsKept
    <2>1. /\ TypeOK /\ heard \in SUBSET Nat /\ lastHeard \in Nat /\ position \in Nat
          /\ \A unit \in heard : unit < lastHeard
          /\ lastHeard <= position
      BY DEF OutputInv, TypeOK, Amounts
    <2>2. CASE cfg.op = "adm"
      BY <2>1, <2>2 DEF OutputInv, Amounts
    <2>3. CASE cfg.op # "adm"
      <3>1. keep = Kept /\ program <= position
        BY <2>3 DEF OutputInv, Amounts
      <3>2. keep \in Nat /\ keep <= position /\ program <= keep /\ lastHeard <= keep
        BY <2>1, <3>1, KeptProperties
      <3>3. QED
        BY <2>1, <3>2
    <2>4. QED
      BY <2>2, <2>3
  <1>2. QED
    BY <1>1, OutputInvHolds, PTL

=============================================================================
