------------------------------ MODULE Binaural ------------------------------
(***************************************************************************)
(* The binaural renderers under their callers: sources that move, blocks   *)
(* and frames of any cut the calls allow, resets and reconfigurations in   *)
(* between, the end of the programme.  One renderer a behaviour:           *)
(*   "jochrtf"   the C functions ejoc_jochrtf_*                            *)
(*   "runtime"   JochrtfRuntime as the pipelines drive it                  *)
(*   "public", "captured"   RosellaRuntime with either of its banks        *)
(*   "native"    the C functions ejoc_binaural_renderer_*                  *)
(* What is heard is compared with what the sound since the last reset      *)
(* means: a definition that knows nothing of blocks, chunks, rings and     *)
(* memories.                                                               *)
(***************************************************************************)
EXTENDS RosellaRenderer

CONSTANTS
    TailSamples, \* tail_samples_: 61200
    FilterTail,  \* the 2048 samples finish_capacity grants the filterbanks
    Kinds,      \* the kinds of renderer
    FirstField, FirstRoom, \* what jochrtf is configured with
    Fields, Rooms,         \* what it may be configured with later
    Places,
    Inputs,     \* signals: a sample number -> Sources -> Int
    Motions,    \* what the timeline answers: a sample number from 0 -> place
    Cuts,       \* samples of a process or finish call of jochrtf
    Chunks,     \* chunk_frames
    Tails,      \* flush lengths of a Rosella finish, whole blocks
    MaxCalls,   \* bound: calls of a behaviour
    MaxUpdates, \* bound: set_source calls since a reset
    MaxSamples, \* bound: samples since a reset
    MaxResets   \* bound: resets and reconfigurations

VARIABLES
    kind, input, motion,
    r,        \* the renderer
    heard,    \* what its caller got since the last reset
    log,      \* what it was given since the last reset
    calls, resets
vars == <<kind, input, motion, r, heard, log, calls, resets>>

NoLog == [fed |-> <<>>, updates |-> <<>>, places |-> <<>>, flush |-> 0, finished |-> FALSE]
AFrame == [i \in 1 .. FrameSamples |-> input[Len(log.fed) + i]]
InputBlock(n) == [i \in 1 .. n |-> input[Len(log.fed) + i]]

-----------------------------------------------------------------------------
(***************************************************************************)
(* JochrtfRuntime: the wrapper the pipelines drive.  It stages frames into *)
(* blocks of 512 samples, sets every source before a block, with a fade,   *)
(* and collects what the renderer hands out.  What the timeline answers is *)
(* a motion: a place for every sample.                                     *)
(***************************************************************************)
\* open: kernels, field and room are configured, in that order.
OpenJochrtf(field, room) ==
    [renderer |-> NewRenderer(field, room), staging |-> <<>>, output |-> <<>>,
     input |-> 0, processed |-> 0]

LfeKey == [place |-> FrontPlace, gain |-> 1, lfe |-> TRUE]
ObjectKey(place) == [place |-> place, gain |-> 1, lfe |-> FALSE]
KeyOfSource(source, place) == IF source \in Objects THEN ObjectKey(place) ELSE LfeKey
AllSet(renderer, place) ==
    FoldSet(LAMBDA source, acc : SetSource(acc, source, KeyOfSource(source, place), TRUE), renderer, Sources)

\* process_block: the positions are those of the first sample of the block.
BlockDone(w, done) ==
    [w EXCEPT !.renderer = done.r, !.output = @ \o done.out, !.staging = <<>>, !.processed = @ + BlockSamples]
ProcessBlock(w, moves) == BlockDone(w, Process(AllSet(w.renderer, moves[w.processed]), w.staging))

\* submit_frame: staging may be cut anywhere, a full one is processed.
Staged(w, sample, moves) ==
    IF Len(w.staging) + 1 = BlockSamples
    THEN ProcessBlock([w EXCEPT !.staging = Append(@, sample)], moves)
    ELSE [w EXCEPT !.staging = Append(@, sample)]
SubmitJochrtf(w, frame, moves) ==
    [Run(LAMBDA acc, sample : Staged(acc, sample, moves), w, frame) EXCEPT !.input = @ + FrameSamples]

Greater(a, b) == IF a > b THEN a ELSE b

\* Mutant: the reflections are forgotten.
FinishCapacity_FieldOnly(w) ==
    Greater(TailSamples, LongestDelay(w.renderer.field) + FilterTail) + Latency

FinishCapacity(w) ==
    Greater(TailSamples, LongestDelay(w.renderer.field) + FilterTail + EarlyHistory) + Latency

\* finish: a request that produces nothing ends it.
FinishRequest(acc, done) ==
    IF done.out = <<>> THEN [acc EXCEPT !.renderer = done.r, !.remaining = 0]
    ELSE [acc EXCEPT !.renderer = done.r, !.out = @ \o done.out,
                     !.remaining = @ - Lesser(@, Len(done.out))]
FinishStep(acc, request) ==
    IF acc.remaining = 0 THEN acc
    ELSE FinishRequest(acc, Finish(acc.renderer, Lesser(acc.remaining, BlockSamples)))
FinishJochrtf(w, flush) ==
    Run(FinishStep, [renderer |-> w.renderer, out |-> <<>>, remaining |-> flush], [i \in 1 .. flush |-> i])

TakenFromJochrtf(w) == [w EXCEPT !.output = <<>>]
ResetJochrtf(w) ==
    [w EXCEPT !.renderer = ResetRenderer(@), !.staging = <<>>, !.output = <<>>, !.input = 0, !.processed = 0]

-----------------------------------------------------------------------------
\* The Renderer of binaural_renderer.cpp: its caller hands it the gains.

FreshNative == [analysis |-> [s \in Sources |-> FreshAnalysis("shifted")],
                synthesis |-> [ear \in Ears |-> FreshSynthesis("shifted")], room |-> FreshRoom]
NativeSlots(place, analysed) ==
    [i \in 1 .. BlockSamples |-> DirectSlot([direct |-> [s \in Sources |-> DirectAndSend(KeyAt(s, place))]],
                                            [s \in Sources |-> analysed[s].hybrid[i]])]
NativeOut(n, slots, room) ==
    Evaluated([ear \in Ears |-> Synthesise("shifted", n.synthesis[ear],
        [i \in DOMAIN slots |-> [slots[i].direct[ear] EXCEPT !.low = @ + room.out[i][ear]]])])
NativeAfter(analysed, room, played) ==
    [r |-> [analysis |-> [s \in Sources |-> analysed[s].bank], room |-> room.room,
            synthesis |-> [ear \in Ears |-> played[ear].bank]],
     out |-> Stereo(played)]
NativeRoomed(n, analysed, slots, room) == NativeAfter(analysed, room, NativeOut(n, slots, room))
NativeSounds(n, analysed, slots) ==
    NativeRoomed(n, analysed, slots,
                 Run(BinauralRoom, [room |-> n.room, out |-> <<>>], [i \in DOMAIN slots |-> slots[i].send]))
NativeAnalysed(n, place, analysed) == NativeSounds(n, analysed, Evaluated(NativeSlots(place, analysed)))
ProcessNative(n, xs, place) ==
    NativeAnalysed(n, place,
        Evaluated([s \in Sources |-> Analyse("shifted", n.analysis[s], [i \in DOMAIN xs |-> xs[i][s]])]))

-----------------------------------------------------------------------------
Init ==
    /\ kind \in Kinds /\ input \in Inputs
    /\ heard = <<>> /\ log = NoLog /\ calls = 0 /\ resets = 0
    /\ \/ kind \in {"jochrtf", "native"} /\ motion = <<>>
       \/ kind \in {"runtime", "public", "captured"} /\ motion \in Motions
    /\ \/ kind = "jochrtf" /\ r = NewRenderer(FirstField, FirstRoom)
       \/ kind = "runtime" /\ r = OpenJochrtf(FirstField, FirstRoom)
       \/ kind \in {"public", "captured"} /\ \E chunk \in Chunks : r = NewRuntime(kind, chunk)
       \/ kind = "native" /\ r = FreshNative

Call ==
    /\ calls < MaxCalls /\ calls' = calls + 1
    /\ UNCHANGED <<kind, input, motion>>
Fits(n) == Len(log.fed) + n <= MaxSamples

-----------------------------------------------------------------------------
\* The C functions of jochrtf.

\* Every source is set in turn; the sources never meet before they are mixed.
SetSourcesCall(place, fade) ==
    /\ kind = "jochrtf" /\ Call /\ Len(log.updates) < MaxUpdates
    /\ r' = FoldSet(LAMBDA s, acc : SetSource(acc, s, KeyOfSource(s, place), fade), r, Sources)
    /\ log' = [log EXCEPT !.updates = Append(@, [at |-> Len(log.fed), place |-> place, fade |-> fade])]
    /\ UNCHANGED <<heard, resets>>

\* The sizes process accepts are any number of hops up to a block.
ProcessCall(n) ==
    /\ kind = "jochrtf" /\ Call /\ Fits(n)
    /\ \E done \in {Process(r, InputBlock(n))} :
           /\ r' = done.r
           /\ heard' = heard \o done.out
    /\ log' = [log EXCEPT !.fed = @ \o InputBlock(n)]
    /\ UNCHANGED resets

\* finish may come at any time; the programme may even go on.
FinishCall(n) ==
    /\ kind = "jochrtf" /\ Call /\ Fits(n)
    /\ \E done \in {Finish(r, n)} :
           /\ r' = done.r
           /\ heard' = heard \o done.out
    /\ log' = [log EXCEPT !.fed = @ \o NoInput(n)]
    /\ UNCHANGED resets

StartAgain == /\ resets < MaxResets /\ resets' = resets + 1
              /\ log' = NoLog /\ heard' = <<>>
ConfigureFieldCall(field) == kind = "jochrtf" /\ Call /\ StartAgain /\ r' = ConfigureField(r, field)
ConfigureRoomCall(room) == kind = "jochrtf" /\ Call /\ StartAgain /\ r' = ConfigureRoom(r, room)
ResetCall == kind = "jochrtf" /\ Call /\ StartAgain /\ r' = ResetRenderer(r)

-----------------------------------------------------------------------------
\* The C functions of binaural_renderer.

NativeProcess(place) ==
    /\ kind = "native" /\ Call /\ Fits(BlockSamples)
    /\ \E done \in {ProcessNative(r, InputBlock(BlockSamples), place)} :
           /\ r' = done.r
           /\ heard' = heard \o done.out
    /\ log' = [log EXCEPT !.fed = @ \o InputBlock(BlockSamples), !.places = Append(@, place)]
    /\ UNCHANGED resets
NativeReset == kind = "native" /\ Call /\ StartAgain /\ r' = FreshNative

-----------------------------------------------------------------------------
\* The runtimes.  Their callers take the output after every frame, and never
\* after finish.

SubmitFrame ==
    /\ kind \in {"runtime", "public", "captured"} /\ Call /\ Fits(FrameSamples) /\ ~log.finished
    /\ r' = IF kind = "runtime" THEN SubmitJochrtf(r, AFrame, motion) ELSE SubmitRosella(r, AFrame, motion)
    /\ log' = [log EXCEPT !.fed = @ \o AFrame]
    /\ UNCHANGED <<heard, resets>>

TakeOutput ==
    /\ kind \in {"runtime", "public", "captured"} /\ ~log.finished /\ r.output # <<>>
    /\ heard' = heard \o r.output
    /\ r' = IF kind = "runtime" THEN TakenFromJochrtf(r) ELSE TakenFrom(r)
    /\ UNCHANGED <<kind, input, motion, log, calls, resets>>

FinishRuntime ==
    /\ kind = "runtime" /\ ~log.finished /\ r.output = <<>> /\ Call
    /\ \E done \in {FinishJochrtf(r, FinishCapacity(r))} :
           /\ r' = [r EXCEPT !.renderer = done.renderer]
           /\ heard' = heard \o done.out
           /\ log' = [log EXCEPT !.finished = TRUE, !.flush = IF done.out = <<>> THEN 0 ELSE FinishCapacity(r),
                                 !.fed = IF done.out = <<>> THEN @ ELSE @ \o NoInput(FinishCapacity(r))]
    /\ UNCHANGED resets

FinishRosellaCall(flush) ==
    /\ kind \in {"public", "captured"} /\ ~log.finished /\ r.output = <<>> /\ Call
    /\ \E next \in {FinishRosella(r, flush, motion)} :
           /\ r' = next
           /\ heard' = heard \o TailOf(r, next)
    /\ log' = [log EXCEPT !.finished = TRUE, !.fed = @ \o NoInput(flush)]
    /\ UNCHANGED resets

ResetRuntime ==
    /\ kind \in {"runtime", "public", "captured"} /\ Call /\ StartAgain
    /\ r' = IF kind = "runtime" THEN ResetJochrtf(r) ELSE ResetRosella(r)

Next ==
    \/ \E place \in Places, fade \in BOOLEAN : SetSourcesCall(place, fade)
    \/ \E n \in Cuts : ProcessCall(n)
    \/ FinishCall(BlockSamples)
    \/ \E field \in Fields : ConfigureFieldCall(field)
    \/ \E room \in Rooms : ConfigureRoomCall(room)
    \/ ResetCall
    \/ \E place \in Places : NativeProcess(place)
    \/ NativeReset
    \/ SubmitFrame
    \/ TakeOutput
    \/ FinishRuntime
    \/ \E flush \in Tails : FinishRosellaCall(flush)
    \/ ResetRuntime

Spec == Init /\ [][Next]_vars

-----------------------------------------------------------------------------
\* What the sound fed since the last reset means.

Stream(fed, s) == [n \in DOMAIN fed |-> fed[n][s]]
BankOf == CASE kind \in {"jochrtf", "runtime"} -> "jochrtf"
            [] kind = "native" -> "shifted"
            [] OTHER -> kind

\* The updates of one source, in order: those of the calls, or one a block.
\* finish sets none.
UpdatesOf(s) ==
    IF kind = "jochrtf"
    THEN [k \in DOMAIN log.updates |-> [at |-> log.updates[k].at, fade |-> log.updates[k].fade,
                                        key |-> KeyOfSource(s, log.updates[k].place)]]
    ELSE [b \in 1 .. (Len(log.fed) - log.flush) \div BlockSamples |->
             [at |-> (b - 1) * BlockSamples, fade |-> TRUE,
              key |-> KeyOfSource(s, motion[(b - 1) * BlockSamples])]]
Configured == IF kind = "runtime" THEN r.renderer ELSE r
PathsOf(u) == PathsFor(Configured.field, Configured.room, u.key)
SendOfUpdate(u) == LateSend(Configured.room, u.key)

\* The last update before sample n, and how far its fade has come.
LastOf(updates, n) == Cardinality({k \in DOMAIN updates : updates[k].at < n})
Come(u, n) == IF u.fade /\ u.at > 0 THEN Lesser(n - u.at, FadeSlots) ELSE FadeSlots

PathsAt(hybrid, paths, ear, n, band) ==
    Total([i \in DOMAIN paths |->
        IF n > paths[i][ear].delay THEN hybrid[n - paths[i][ear].delay][band] * paths[i][ear].gain ELSE 0])
Blend(hybrid, updates, k, ear, n, band) ==
    IF k = 0 THEN 0
    ELSE (Come(updates[k], n) * Scale * PathsAt(hybrid, PathsOf(updates[k]), ear, n, band)) \div FadeSlots
         + (IF k = 1 \/ Come(updates[k], n) = FadeSlots THEN 0
            ELSE ((FadeSlots - Come(updates[k], n)) * Scale
                     * PathsAt(hybrid, PathsOf(updates[k - 1]), ear, n, band)) \div FadeSlots)
MovedDirect(hybrids, updates, ear, N) ==
    Evaluated([n \in 1 .. N |-> [band \in {"low", "high"} |->
        Total([s \in Sources |-> Blend(hybrids[s], updates[s], LastOf(updates[s], n), ear, n, band)])]])

\* The late send moves in a straight line from where it was at the update.
LevelFrom(start, u, n) == (start * (FadeSlots - Come(u, n)) + SendOfUpdate(u) * Come(u, n)) \div FadeSlots
StartsOf(updates) ==
    Run(LAMBDA starts, k :
                 Append(starts, IF k = 1 THEN 0 ELSE LevelFrom(starts[k - 1], updates[k - 1], updates[k].at)),
             <<>>, [k \in DOMAIN updates |-> k])
LevelAt(updates, starts, k, n) == IF k = 0 THEN 0 ELSE LevelFrom(starts[k], updates[k], n)
SentOf(xs, updates, starts) == [n \in DOMAIN xs |-> xs[n] * LevelAt(updates, starts, LastOf(updates, n), n)]
MixedSends(sent, N) == Evaluated([n \in 1 .. N |-> Total([s \in Sources |-> sent[s][n]])])
MonoOf(fed, updates) ==
    MixedSends(Evaluated([s \in Sources |-> SentOf(Stream(fed, s), updates[s], StartsOf(updates[s]))]), Len(fed))

\* y(n) = b(n-d) - g x(n), b(n) = x(n) + g y(n)
LatePassOf(xs, pass) ==
    Run(LAMBDA acc, x : [b |-> Append(acc.b, x + pass.gain * (Back(acc.b, pass.delay - 1) - pass.gain * x)),
                              y |-> Append(acc.y, Back(acc.b, pass.delay - 1) - pass.gain * x)],
             [b |-> <<>>, y |-> <<>>], xs).y
LinesOf(acc, line) == [n \in DOMAIN acc |-> acc[n].written[line]]
DampedOf(acc) ==
    [line \in Lines |-> Keep * (IF acc = <<>> THEN 0 ELSE Last(acc).damped[line])
                            + Pass * Back(LinesOf(acc, line), LineDelays[line] - 1)]
NetworkStep(acc, x, damped) ==
    Append(acc, [damped |-> damped,
                 written |-> [line \in Lines |-> InputSign(line) * x + FedBack(damped, line)]])
NetworkOf(xs) == Run(LAMBDA acc, x : NetworkStep(acc, x, Evaluated(DampedOf(acc))), <<>>, xs)
LateOfNetwork(network, ear) ==
    Delayed([n \in DOMAIN network |-> FdnOut(network[n].damped)[ear]], Latency)
LateOf(mono) == NetworkOf(Run(LatePassOf, mono, LatePasses))

JochrtfEar(fed, hybrids, updates, network, ear) ==
    LET played == SamplesOf(MovedDirect(hybrids, updates, ear, Len(fed)))
        late == Evaluated(LateOfNetwork(network, ear))
    IN [n \in DOMAIN fed |-> played[n] + (IF Configured.room.late THEN late[n] ELSE 0)]
JochrtfSound(fed, hybrids, updates) ==
    LET network == LateOf(MonoOf(fed, updates))
    IN [ear \in Ears |-> JochrtfEar(fed, hybrids, updates, network, ear)]

\* Rosella and the native renderer: the gains of a block, and a room.
PlaceAt(n) == IF kind = "native" THEN log.places[(n - 1) \div BlockSamples + 1]
                                 ELSE motion[((n - 1) \div BlockSamples) * BlockSamples]
MeantFor(s, n) == DirectAndSend(KeyAt(s, PlaceAt(n)))
BlockDirect(hybrids, ear, n, band) ==
    Total([s \in Sources |-> hybrids[s][n][band] * MeantFor(s, n).gains[ear]])
BlockSends(hybrids, N) ==
    Evaluated([n \in 1 .. N |-> Total([s \in Sources |-> hybrids[s][n].low * MeantFor(s, n).send])])
Roomed(fed, hybrids, room) ==
    [ear \in Ears |-> SamplesOf([n \in DOMAIN fed |->
        [low |-> BlockDirect(hybrids, ear, n, "low") + room[n][ear],
         high |-> BlockDirect(hybrids, ear, n, "high")]])]
BlockSound(fed, hybrids) ==
    Roomed(fed, hybrids, Evaluated(IF kind = "native" THEN RoomOf(BlockSends(hybrids, Len(fed)))
                                                      ELSE FirOf(BlockSends(hybrids, Len(fed)))))

SoundOf(fed) ==
    LET hybrids == Evaluated([s \in Sources |-> HybridOf(BankOf, Stream(fed, s))])
    IN IF kind \in {"jochrtf", "runtime"}
       THEN JochrtfSound(fed, hybrids, Evaluated([s \in Sources |-> UpdatesOf(s)]))
       ELSE BlockSound(fed, hybrids)

LatencyOf == CASE kind \in {"jochrtf", "runtime"} -> Latency
               [] kind = "native" -> 0
               [] OTHER -> BankLatency(kind)
\* What was processed: all but what waits for a chunk.
ProcessedOf == IF kind \in {"public", "captured"} /\ ~log.finished
               THEN Len(log.fed) - (Len(log.fed) % r.chunk) ELSE Len(log.fed)
Waiting == IF kind \in {"runtime", "public", "captured"} /\ ~log.finished THEN r.output ELSE <<>>
Meant(sound, n) == [i \in 1 .. (IF n > LatencyOf THEN n - LatencyOf ELSE 0) |->
                       [ear \in Ears |-> sound[ear][i + LatencyOf]]]

-----------------------------------------------------------------------------
(***************************************************************************)
(* What was heard, and what waits to be taken, is what the sound since the *)
(* last reset means, sample for sample: the latency is dropped once,       *)
(* however short the first calls were, no block, chunk, wrap of a ring or  *)
(* broken off fade shows, and a reset leaves nothing behind (process,      *)
(* finish, submit_frame and reset of the three renderers).                 *)
(***************************************************************************)
HeardIsDefined ==
    \E sound \in {SoundOf(SubSeq(log.fed, 1, ProcessedOf))} : heard \o Waiting = Meant(sound, ProcessedOf)

(***************************************************************************)
(* The paths a source keeps are those of its key under the field and the   *)
(* room configured now, and the direct gains of a Rosella source are those *)
(* of its key, whatever was configured, set and reset before (set_source   *)
(* of both, and the comment at jochrtf_renderer.cpp:1270).                 *)
(***************************************************************************)
MemoIsFresh ==
    /\ kind \in {"jochrtf", "runtime"} =>
           \A s \in Sources : Configured.sources[s].memo.valid =>
               Configured.sources[s].memo.paths = PathsFor(Configured.field, Configured.room, Configured.sources[s].memo.key)
    /\ kind \in {"public", "captured"} =>
           \A s \in Sources : r.core.direct[s] = DirectAndSend(r.core.keys[s])

(***************************************************************************)
(* After finish nothing of the direct sound and of the early reflections   *)
(* is still to come: had the renderer been fed silence for as long as the  *)
(* filters and the longest path remember, it would have stayed silent but  *)
(* for the late room (finish_capacity).                                    *)
(***************************************************************************)
Forever == EarlyHistory + FilterTail + LongestDelay(r.renderer.field)
DirectOnly(fed) ==
    LET hybrids == Evaluated([s \in Sources |-> HybridOf(BankOf, Stream(fed, s))])
        updates == [s \in Sources |-> UpdatesOf(s)]
    IN [ear \in Ears |-> SamplesOf(MovedDirect(hybrids, updates, ear, Len(fed)))]
TailIsHeard ==
    kind = "runtime" /\ log.finished /\ log.fed # <<>> =>
        \E direct \in {DirectOnly(log.fed \o NoInput(Forever))} :
            \A ear \in Ears : \A n \in DOMAIN direct[ear] : n > Len(heard) + Latency => direct[ear][n] = 0
=============================================================================
