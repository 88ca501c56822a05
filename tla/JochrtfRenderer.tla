--------------------------- MODULE JochrtfRenderer ---------------------------
(***************************************************************************)
(* The Renderer of jochrtf_renderer.cpp as a record and the operators its  *)
(* calls are: paths from a source to the ears, crossfades between the      *)
(* paths of two positions, the late send with an envelope of its own, the  *)
(* feedback delay network, and the latency taken off the start.            *)
(*                                                                         *)
(* A hop is one sample and one slot.  A "place" is a position with its     *)
(* profile; what the geometry and the spherical harmonics make of it is a  *)
(* table.  Sound is counted in units of 1/Scale, so that the fractions of  *)
(* a fade are whole numbers.                                               *)
(***************************************************************************)
EXTENDS BinauralRoom

CONSTANTS
    Sources,      \* the input channels; the first one is the LFE of a runtime
    Scale,        \* what a whole gain is: 2^k for fades broken off k times
    FadeSlots,    \* kTransitionSlots: 8
    Latency,      \* kLatency: 961
    EarlyHistory, \* kEarlyHistory: 256 slots
    SendOf,       \* place -> kLateSend, with the radius in it
    LevelOf,      \* place -> direct_level_gain
    ImagesOf,     \* place -> sequence of [direction, extra, gain]: the six walls
    LfeGain,
    LatePasses,   \* sequence of [delay, gain]: allpass_delays_, allpass_gains_
    LineDelays,   \* 0 .. 3 -> fdn_delays_
    LineGains,    \* 0 .. 3 -> fdn_feedback_
    Keep, Pass,   \* damping_ and 1 - damping_
    FdnGain

Lines == 0 .. 3

\* configure_room refuses a line without a delay.
ASSUME JochrtfAssumption ==
    /\ \A i \in DOMAIN LatePasses : LatePasses[i].delay > 0
    /\ \A line \in Lines : LineDelays[line] > 0
    /\ FadeSlots > 0 /\ Latency > 0

ClampTo(x, bounds) == IF x < bounds[1] THEN bounds[1] ELSE IF x > bounds[2] THEN bounds[2] ELSE x
Lesser(a, b) == IF a < b THEN a ELSE b

-----------------------------------------------------------------------------
\* Paths.

MakePath(field, direction, extra, amplitude) ==
    [ear \in Ears |-> [delay |-> ClampTo(field.delay[direction][ear], field.bounds[ear]) + extra,
                       gain |-> field.gain[direction][ear] * amplitude]]
LfePath(gain) == [ear \in Ears |-> [delay |-> 0, gain |-> LfeGain * gain]]
Reflected(field, image, gain) == MakePath(field, image.direction, image.extra, gain * image.gain)
OrdinaryPaths(field, room, place, gain) ==
    <<MakePath(field, place, 0, gain * LevelOf[place])>>
        \o (IF room.early THEN [i \in DOMAIN ImagesOf[place] |-> Reflected(field, ImagesOf[place][i], gain)]
                          ELSE <<>>)
PathsFor(field, room, key) ==
    IF key.lfe THEN <<LfePath(key.gain)>> ELSE OrdinaryPaths(field, room, key.place, key.gain)

-----------------------------------------------------------------------------
\* reset_state, and what configures it.

NoMemo == [valid |-> FALSE]
FreshSource ==
    [current |-> <<>>, target |-> <<>>, position |-> 0, total |-> 0, memo |-> NoMemo,
     late |-> 0, lateStart |-> 0, lateTarget |-> 0, latePosition |-> 0, lateTotal |-> 0]
FreshLate ==
    [passes |-> FreshAllpasses(LatePasses), damped |-> [line \in Lines |-> 0],
     lines |-> [line \in Lines |-> FreshRing(LineDelays[line])],
     ring |-> [memory |-> [p \in 0 .. Latency - 1 |-> [ear \in Ears |-> 0]], position |-> 0]]

LongestDelay(field) == CHOOSE d \in {field.bounds[ear][2] : ear \in Ears} :
                           \A ear \in Ears : field.bounds[ear][2] <= d
HistorySlots(field) == EarlyHistory + LongestDelay(field)
NoSlot == [low |-> 0, high |-> 0]

\* Mutant: the sources are reset in place and the memo is forgotten.
FreshRenderer_KeepsMemo(field, room, sources) ==
    [field |-> field, room |-> room, latency |-> Latency, samples |-> 0, slots |-> 0, position |-> 0,
     analysis |-> [s \in Sources |-> FreshAnalysis("jochrtf")],
     synthesis |-> [ear \in Ears |-> FreshSynthesis("jochrtf")], late |-> FreshLate,
     history |-> [s \in Sources |-> [p \in 0 .. HistorySlots(field) - 1 |-> NoSlot]],
     sources |-> [s \in Sources |-> [FreshSource EXCEPT !.memo = sources[s].memo]]]

\* The sources as they were are thrown away, their memo with them.
FreshRenderer(field, room, sources) ==
    [field |-> field, room |-> room, latency |-> Latency, samples |-> 0, slots |-> 0, position |-> 0,
     analysis |-> [s \in Sources |-> FreshAnalysis("jochrtf")],
     synthesis |-> [ear \in Ears |-> FreshSynthesis("jochrtf")], late |-> FreshLate,
     history |-> [s \in Sources |-> [p \in 0 .. HistorySlots(field) - 1 |-> NoSlot]],
     sources |-> [s \in Sources |-> FreshSource]]

NewRenderer(field, room) == FreshRenderer(field, room, [s \in Sources |-> FreshSource])
ConfigureField(r, field) == FreshRenderer(field, r.room, r.sources)
ConfigureRoom(r, room) == FreshRenderer(r.field, room, r.sources)
ResetRenderer(r) == FreshRenderer(r.field, r.room, r.sources)

-----------------------------------------------------------------------------
\* set_source

Memoised(state, field, room, key) ==
    IF state.memo.valid /\ state.memo.key = key
    THEN state
    ELSE [state EXCEPT !.memo = [valid |-> TRUE, key |-> key, paths |-> PathsFor(field, room, key)]]

LateSend(room, key) == IF ~key.lfe /\ room.late THEN key.gain * SendOf[key.place] * Scale ELSE 0

\* set_late_target: the envelope starts from where the last one has come to.
SetLateTarget(state, value, fading) ==
    IF fading
    THEN [state EXCEPT !.lateStart = state.late, !.lateTarget = value, !.latePosition = 0,
                       !.lateTotal = FadeSlots]
    ELSE [state EXCEPT !.late = value, !.lateStart = value, !.lateTarget = value,
                       !.latePosition = 0, !.lateTotal = 0]

\* A fade that is not over jumps to its end.
Settled(state) == IF state.target = <<>> THEN state.current ELSE state.target
SetPaths(state, fading) ==
    IF fading
    THEN [state EXCEPT !.current = Settled(state), !.target = state.memo.paths,
                       !.position = 0, !.total = FadeSlots]
    ELSE [state EXCEPT !.current = state.memo.paths, !.target = <<>>, !.position = 0, !.total = 0]

SetSource(r, source, key, fade) ==
    [r EXCEPT !.sources[source] =
        SetPaths(SetLateTarget(Memoised(@, r.field, r.room, key),
                               LateSend(r.room, key), fade /\ r.samples > 0),
                 fade /\ r.slots > 0)]

-----------------------------------------------------------------------------
\* The late room.

EnvelopeAt(state, i) ==
    IF state.lateTotal = 0 THEN state.late
    ELSE LET a == Lesser(state.latePosition + i, state.lateTotal)
         IN (state.lateStart * (state.lateTotal - a) + state.lateTarget * a) \div state.lateTotal
EnvelopeAfter(state, n) ==
    IF state.lateTotal = 0 THEN state
    ELSE IF state.latePosition + n >= state.lateTotal
    THEN [state EXCEPT !.late = state.lateTarget, !.lateStart = state.lateTarget,
                       !.latePosition = 0, !.lateTotal = 0]
    ELSE [state EXCEPT !.late = EnvelopeAt(state, n), !.latePosition = @ + n]
Mono(sources, xs) ==
    Evaluated([i \in DOMAIN xs |-> Total([s \in Sources |-> xs[i][s] * EnvelopeAt(sources[s], i)])])

\* allpass
LateResult(ring, gain, x) == ring.memory[ring.position] - gain * x
LatePassStep(acc, i) ==
    LET result == LateResult(acc.rings[i], LatePasses[i].gain, acc.x)
    IN [x |-> result, rings |-> [acc.rings EXCEPT ![i] = Written(@, acc.x + LatePasses[i].gain * result)]]
LatePassed(rings, x) == Run(LatePassStep, [x |-> x, rings |-> rings], [i \in DOMAIN LatePasses |-> i])

Damped(late) ==
    [line \in Lines |-> Keep * late.damped[line]
                            + Pass * late.lines[line].memory[late.lines[line].position]]
LineSign(ear, line) == IF line = 0 \/ (ear = "left" /\ line = 1) \/ (ear = "right" /\ line = 2) THEN 1 ELSE -1
FdnOut(damped) == [ear \in Ears |-> FdnGain * Total([line \in Lines |-> LineSign(ear, line) * damped[line]])]
\* The Hadamard matrix: minus where an odd number of bits is set in both.
Hadamard(i, j) == IF ((i % 2) * (j % 2) + (i \div 2) * (j \div 2)) % 2 = 1 THEN -1 ELSE 1
FedBack(damped, line) == Total([source \in Lines |-> Hadamard(line, source) * damped[source] * LineGains[source]])
InputSign(line) == IF line = 1 THEN -1 ELSE 1

\* The network writes into the ring what it reads from it a latency later.
LateWritten(late, passed, damped) ==
    [passes |-> passed.rings, damped |-> damped,
     lines |-> [line \in Lines |-> Written(late.lines[line], InputSign(line) * passed.x + FedBack(damped, line))],
     ring |-> Written(late.ring, FdnOut(damped))]
LateStep(acc, x) ==
    [late |-> LateWritten(acc.late, LatePassed(acc.late.passes, x), Damped(acc.late)),
     out |-> Append(acc.out, acc.late.ring.memory[acc.late.ring.position])]
LateRoom(r, xs) ==
    IF r.room.late THEN Run(LateStep, [late |-> r.late, out |-> <<>>], Mono(r.sources, xs))
    ELSE [late |-> r.late, out |-> [i \in DOMAIN xs |-> [ear \in Ears |-> 0]]]

-----------------------------------------------------------------------------
\* The direct sound and the early reflections.

\* render_paths: wrapped once, which reaches every slot of the history.
Wrapped(position, slots, delay) ==
    LET raw == position + slots - delay
    IN IF raw >= slots THEN raw - slots ELSE IF raw < 0 THEN raw + slots ELSE raw
PathSlot(r, source, path, ear) ==
    r.history[source][Wrapped(r.position, Cardinality(DOMAIN r.history[source]), path[ear].delay)]
PathBand(r, source, paths, ear, band) ==
    Total([i \in DOMAIN paths |-> PathSlot(r, source, paths[i], ear)[band] * paths[i][ear].gain])
Amount(state) == (Scale * Lesser(state.position + 1, state.total)) \div state.total
SourceBand(r, source, ear, band) ==
    IF r.sources[source].target = <<>>
    THEN Scale * PathBand(r, source, r.sources[source].current, ear, band)
    ELSE (Scale - Amount(r.sources[source])) * PathBand(r, source, r.sources[source].current, ear, band)
             + Amount(r.sources[source]) * PathBand(r, source, r.sources[source].target, ear, band)
EarBand(r, ear, band) == Total([s \in Sources |-> SourceBand(r, s, ear, band)])
EarsOf(r) == Evaluated([ear \in Ears |-> [low |-> EarBand(r, ear, "low"), high |-> EarBand(r, ear, "high")]])

Faded(state) ==
    IF state.target = <<>> THEN state
    ELSE IF state.position + 1 >= state.total
    THEN [state EXCEPT !.current = state.target, !.target = <<>>, !.position = 0, !.total = 0]
    ELSE [state EXCEPT !.position = @ + 1]

\* One slot: the history is written first, so a path without a delay hears it.
SlotRemembered(r, slots) ==
    [r EXCEPT !.history = Evaluated([s \in Sources |-> [r.history[s] EXCEPT ![r.position] = slots[s]]])]
SlotDone(r) ==
    [r EXCEPT !.sources = [s \in Sources |-> Faded(r.sources[s])], !.slots = @ + 1,
              !.position = (@ + 1) % HistorySlots(r.field)]
DirectOf(acc, r) == [r |-> SlotDone(r), out |-> Append(acc.out, EarsOf(r))]
DirectStep(acc, slots) == DirectOf(acc, SlotRemembered(acc.r, slots))

-----------------------------------------------------------------------------
\* process_internal, and what process and finish hand out.

EarStream(out, ear) == [n \in DOMAIN out |-> out[n][ear]]
Synthesised(direct) ==
    Evaluated([ear \in Ears |-> Synthesise("jochrtf", direct.r.synthesis[ear], EarStream(direct.out, ear))])
MixedOut(played, late) ==
    [n \in DOMAIN late |-> [ear \in Ears |-> played[ear].out[n] + late[n][ear]]]
Assembled(r, late, direct, played) ==
    [r |-> [direct.r EXCEPT !.late = late.late, !.synthesis = [ear \in Ears |-> played[ear].bank]],
     out |-> MixedOut(played, late.out)]
AfterDirect(r, late, direct) == Assembled(r, late, direct, Synthesised(direct))
AfterAnalysis(r, analysed, late, n) ==
    AfterDirect(r, late,
        Run(DirectStep,
                 [r |-> [r EXCEPT !.analysis = [s \in Sources |-> analysed[s].bank],
                                  !.sources = [s \in Sources |-> EnvelopeAfter(r.sources[s], n)]],
                  out |-> <<>>],
                 [i \in 1 .. n |-> [s \in Sources |-> analysed[s].hybrid[i]]]))
ProcessInternal(r, xs) ==
    AfterAnalysis(r, Evaluated([s \in Sources |-> Analyse("jochrtf", r.analysis[s], [i \in DOMAIN xs |-> xs[i][s]])]),
                  LateRoom(r, xs), Len(xs))

Skipped(done, n) ==
    LET skip == Lesser(done.r.latency, n)
    IN [r |-> [done.r EXCEPT !.latency = @ - skip, !.samples = @ + n],
        out |-> SubSeq(done.out, skip + 1, n)]

Process(r, xs) == Skipped(ProcessInternal(r, xs), Len(xs))
NoInput(n) == [i \in 1 .. n |-> [s \in Sources |-> 0]]
Finish(r, n) == Skipped(ProcessInternal(r, NoInput(n)), n)
=============================================================================
