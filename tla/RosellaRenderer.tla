--------------------------- MODULE RosellaRenderer ---------------------------
(***************************************************************************)
(* RosellaRuntime: frames are collected into chunks, a chunk is analysed   *)
(* at once, every block of it gets the positions of its first sample, the  *)
(* room runs once over the chunk, and the latency of the chosen bank is    *)
(* taken off the start.  A hop is one sample; the low hybrid band stands   *)
(* for the bands the room has, the high one for those above kRoomBands.    *)
(* What the timeline answers is a motion: a place for every sample.        *)
(***************************************************************************)
EXTENDS JochrtfRenderer

CONSTANTS
    Objects,       \* the sources that move: all but the LFE
    BlockSamples,  \* kBlockSamples: 512
    FrameSamples,  \* kFrameSamples: 1536, a multiple of it
    RingLatency,   \* RosellaFilterbank::kLatencySamples: 448
    FrontPlace,         \* the place every source is configured with
    DirectOfPlace, \* place -> Ears -> gain: direct_and_room_send
    RoomSendOf     \* place -> its room send

ASSUME RosellaAssumption ==
    /\ Objects \subseteq Sources
    /\ BlockSamples > 0 /\ FrameSamples % BlockSamples = 0

\* rosella_bank_latency
BankLatency(kind) == IF kind = "captured" THEN RingLatency ELSE Latency

-----------------------------------------------------------------------------
\* Core: gains by source, computed again when the key has changed.

LfeDirect == [gains |-> [ear \in Ears |-> LfeGain], send |-> 0]
DirectAndSend(key) ==
    IF key.lfe THEN LfeDirect ELSE [gains |-> DirectOfPlace[key.place], send |-> RoomSendOf[key.place]]

SetCoreSource(core, source, key) ==
    IF core.keys[source] = key THEN core
    ELSE [core EXCEPT !.direct[source] = DirectAndSend(key), !.keys[source] = key]

KeyAt(source, place) == [lfe |-> source \notin Objects, place |-> IF source \in Objects THEN place ELSE FrontPlace]
\* configure
FreshCore ==
    [keys |-> [s \in Sources |-> [lfe |-> FALSE, place |-> FrontPlace]],
     direct |-> [s \in Sources |-> DirectAndSend([lfe |-> FALSE, place |-> FrontPlace])],
     tail |-> FreshTail]

\* set_block_parameters
SetBlockParameters(core, place) ==
    FoldSet(LAMBDA source, acc : SetCoreSource(acc, source, KeyAt(source, place)), core, Sources)

\* direct_and_send_static, for one slot
DirectSlot(core, slot) ==
    [direct |-> [ear \in Ears |->
        [low |-> Total([s \in Sources |-> slot[s].low * core.direct[s].gains[ear]]),
         high |-> Total([s \in Sources |-> slot[s].high * core.direct[s].gains[ear]])]],
     send |-> Total([s \in Sources |-> slot[s].low * core.direct[s].send])]

-----------------------------------------------------------------------------
\* process_samples

NewRuntime(kind, frames) ==
    [bank |-> kind, chunk |-> frames * FrameSamples, core |-> FreshCore,
     analysis |-> [s \in Sources |-> FreshAnalysis(kind)],
     synthesis |-> [ear \in Ears |-> FreshSynthesis(kind)],
     buffer |-> <<>>, input |-> 0, processed |-> 0, raw |-> 0, output |-> <<>>, finished |-> FALSE]

BlocksOf(n) == [b \in 1 .. n \div BlockSamples |-> b - 1]
\* One block: the parameters of its first sample, then its slots.
BlockStep(acc, hybrid, first, motion, processed) ==
    LET core == SetBlockParameters(acc.core, motion[processed + first])
    IN [core |-> core, out |-> acc.out \o [i \in 1 .. BlockSamples |-> DirectSlot(core, hybrid[first + i])]]
Rendered(r, hybrid, motion, n) ==
    Run(LAMBDA acc, b : BlockStep(acc, hybrid, b * BlockSamples, motion, r.processed),
             [core |-> r.core, out |-> <<>>], BlocksOf(n))

\* append_output
Appended(r, samples) ==
    LET remaining == BankLatency(r.bank) - r.raw
        skip == IF remaining < 0 THEN 0 ELSE Lesser(remaining, Len(samples))
    IN [r EXCEPT !.raw = @ + Len(samples), !.output = @ \o SubSeq(samples, skip + 1, Len(samples))]

WithRoom(rendered, room, ear) ==
    [n \in DOMAIN rendered |->
        [rendered[n].direct[ear] EXCEPT !.low = @ + room[n][ear]]]
Stereo(played) == [n \in DOMAIN played["left"].out |-> [ear \in Ears |-> played[ear].out[n]]]
Played(r, played) ==
    Appended([r EXCEPT !.synthesis = [ear \in Ears |-> played[ear].bank]], Stereo(played))
AfterRoom(r, rendered, room) ==
    Played([r EXCEPT !.core = [rendered.core EXCEPT !.tail = room.tail]],
           Evaluated([ear \in Ears |-> Synthesise(r.bank, r.synthesis[ear], WithRoom(rendered.out, room.out, ear))]))
AfterBlocks(r, rendered) ==
    AfterRoom(r, rendered,
              Evaluated(FirChunk(Kernel, r.core.tail, [n \in DOMAIN rendered.out |-> rendered.out[n].send])))
HybridSlots(analysed, n) == [i \in 1 .. n |-> [s \in Sources |-> analysed[s].hybrid[i]]]
AfterRuntimeAnalysis(r, analysed, motion, n) ==
    AfterBlocks([r EXCEPT !.analysis = [s \in Sources |-> analysed[s].bank]],
                Rendered(r, HybridSlots(analysed, n), motion, n))
ProcessSamples(r, xs, motion) ==
    [AfterRuntimeAnalysis(r,
        Evaluated([s \in Sources |-> Analyse(r.bank, r.analysis[s], [i \in DOMAIN xs |-> xs[i][s]])]),
        motion, Len(xs)) EXCEPT !.processed = @ + Len(xs)]

-----------------------------------------------------------------------------
\* The calls of the runtime.

Buffered(r, frame) == [r EXCEPT !.buffer = @ \o frame]
\* A chunk is a whole number of frames, so a frame never straddles two.
FullChunk(r, motion) ==
    IF Len(r.buffer) = r.chunk THEN [ProcessSamples(r, r.buffer, motion) EXCEPT !.buffer = <<>>] ELSE r
SubmitRosella(r, frame, motion) == [FullChunk(Buffered(r, frame), motion) EXCEPT !.input = @ + FrameSamples]

Drained(r, motion) ==
    IF r.buffer = <<>> THEN r ELSE [ProcessSamples(r, r.buffer, motion) EXCEPT !.buffer = <<>>]
Requests(flush, chunk) ==
    [k \in 1 .. (flush + chunk - 1) \div chunk |-> Lesser(chunk, flush - (k - 1) * chunk)]
Flushed(r, flush, motion) ==
    Run(LAMBDA acc, n : ProcessSamples(acc, NoInput(n), motion), r, Requests(flush, r.chunk))
\* finish hands out the tail; what is in the output stays there.
FinishRosella(r, flush, motion) ==
    IF r.finished THEN r ELSE [Flushed(Drained(r, motion), flush, motion) EXCEPT !.finished = TRUE]
TailOf(before, after) == SubSeq(after.output, Len(before.output) + 1, Len(after.output))

TakenFrom(r) == [r EXCEPT !.output = <<>>]

\* reset: the gains stay with their keys, the room and the banks are silent.
ResetRosella(r) ==
    [r EXCEPT !.core.tail = FreshTail, !.analysis = [s \in Sources |-> FreshAnalysis(r.bank)],
              !.synthesis = [ear \in Ears |-> FreshSynthesis(r.bank)],
              !.buffer = <<>>, !.input = 0, !.processed = 0, !.raw = 0, !.output = <<>>, !.finished = FALSE]
=============================================================================
