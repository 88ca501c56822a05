---------------------------- MODULE BinauralRoom ----------------------------
(***************************************************************************)
(* The rooms of the binaural renderers.  Renderer::process_room and the    *)
(* RoomState of Rosella run the same recursion in the hybrid domain, a     *)
(* slot at a time, and differ in how they find a slot of their ring.       *)
(* Rosella never runs it on the programme: RoomFir takes the start of its  *)
(* impulse response and convolves chunks with it.  The late room of        *)
(* jochrtf_renderer.cpp works on samples.                                  *)
(*                                                                         *)
(* One band stands for the bands, which never meet in a room; gains are    *)
(* integers, and a complex gain is one of them.                            *)
(***************************************************************************)
EXTENDS Filterbank

CONSTANTS
    Ears,         \* {"left", "right"}
    Branches,     \* branches of the recursion: 4 (1 .. 4)
    Allpasses,    \* sequence of [delay, gain]
    RoomDelays,   \* Branches -> delay in slots
    RoomMatrix,   \* Branches -> Branches -> gain
    Feedback,     \* Branches -> gain
    TapDelay,     \* output_tap_delay_
    TapGain,      \* Branches -> gain
    Extras,       \* sequence of [delay, mix]: the extra taps, a matrix each
    RoomEars,     \* Ears -> Branches -> gain
    ImpulseSlots  \* room_impulse_slots of RoomFir

Capacity == CHOOSE d \in Range(RoomDelays) : \A b \in Branches : RoomDelays[b] <= d

\* What configure_room and the checks of a model leave to the caller: a tap
\* that is in the ring.
ASSUME RoomAssumption ==
    /\ \A i \in DOMAIN Allpasses : Allpasses[i].delay > 0
    /\ \A b \in Branches : RoomDelays[b] \in 1 .. Capacity
    /\ TapDelay \in 1 .. Capacity
    /\ \A i \in DOMAIN Extras : Extras[i].delay \in 0 .. Capacity - 1
    /\ ImpulseSlots > 0

-----------------------------------------------------------------------------
\* The recursion.

FreshAllpasses(passes) == [i \in DOMAIN passes |-> FreshRing(passes[i].delay)]
FreshRoom ==
    [allpass |-> FreshAllpasses(Allpasses), position |-> 0,
     memory |-> [p \in 0 .. Capacity - 1 |-> [b \in Branches |-> 0]]]

\* The all-passes in front of a room: what leaves one is what enters the next.
Residual(ring, gain, x) == x - gain * ring.memory[ring.position]
PassOut(ring, gain, x) == Residual(ring, gain, x) * gain + ring.memory[ring.position]
PassStep(acc, i) ==
    [x |-> PassOut(acc.rings[i], Allpasses[i].gain, acc.x),
     rings |-> [acc.rings EXCEPT ![i] = Written(@, Residual(@, Allpasses[i].gain, acc.x))]]
Passed(rings, x) == Run(PassStep, [x |-> x, rings |-> rings], [i \in DOMAIN Allpasses |-> i])

\* Where process_room of binaural_renderer.cpp finds a slot: unsigned, so the
\* capacity is added before anything is taken away.
BinauralBranchSlot(position, b) == (position + Capacity - RoomDelays[b]) % Capacity
BinauralTapSlot(position) == (position + Capacity - (TapDelay % Capacity)) % Capacity
BinauralExtraSlot(position, i) == (position + Capacity - ((Extras[i].delay + 1) % Capacity)) % Capacity

\* Where RoomState::process_slot does.
RosellaBranchSlot(position, b) == (position - RoomDelays[b] + Capacity) % Capacity
RosellaTapSlot(position) == (position - TapDelay + Capacity) % Capacity
RosellaExtraSlot(position, i) == (position - Extras[i].delay - 1 + 2 * Capacity) % Capacity

\* A branch hears the slot and the delayed branches.
Heard(memory, slots, filtered) ==
    [b \in Branches |-> filtered + Total([s \in Branches |-> memory[slots[s]][s] * RoomMatrix[b][s]])]
Fed(memory, position, branches) == [memory EXCEPT ![position] = [b \in Branches |-> branches[b] * Feedback[b]]]
ExtraOf(memory, slots, b) ==
    Total([i \in DOMAIN Extras |-> Total([s \in Branches |-> memory[slots[i]][s] * Extras[i].mix[b][s]])])
Mix(ear, tap, extra) == Total([b \in Branches |-> (tap[b] * TapGain[b] + extra[b]) * RoomEars[ear][b]])

RoomOut(tap, memory, extraSlots) ==
    [ear \in Ears |-> Mix(ear, tap, [b \in Branches |-> ExtraOf(memory, extraSlots, b)])]
RoomAfter(room, passed, memory) ==
    [allpass |-> passed.rings, position |-> (room.position + 1) % Capacity, memory |-> memory]

\* process_room: the tap is read before the slot is written, the extra taps
\* after it.
BinauralFed(room, passed) ==
    Fed(room.memory, room.position,
        Heard(room.memory, [b \in Branches |-> BinauralBranchSlot(room.position, b)], passed.x))
BinauralRoomOut(room, next) ==
    RoomOut(room.memory[BinauralTapSlot(room.position)], next.memory,
            [i \in DOMAIN Extras |-> BinauralExtraSlot(next.position, i)])
BinauralSlot(acc, passed) ==
    LET next == RoomAfter(acc.room, passed, BinauralFed(acc.room, passed))
    IN [room |-> next, out |-> Append(acc.out, BinauralRoomOut(acc.room, next))]
BinauralRoom(acc, x) == BinauralSlot(acc, Passed(acc.room.allpass, x))

\* RoomState::process_slot
RosellaFed(room, passed) ==
    Fed(room.memory, room.position,
        Heard(room.memory, [b \in Branches |-> RosellaBranchSlot(room.position, b)], passed.x))
RosellaRoomOut(room, next) ==
    RoomOut(room.memory[RosellaTapSlot(room.position)], next.memory,
            [i \in DOMAIN Extras |-> RosellaExtraSlot(next.position, i)])
RosellaSlot(acc, passed) ==
    LET next == RoomAfter(acc.room, passed, RosellaFed(acc.room, passed))
    IN [room |-> next, out |-> Append(acc.out, RosellaRoomOut(acc.room, next))]
RosellaRoom(acc, x) == RosellaSlot(acc, Passed(acc.room.allpass, x))

-----------------------------------------------------------------------------
\* RoomFir: the kernel is the start of the response, a chunk is transformed
\* with a power of two that holds all of its response, and what sounds after
\* the chunk waits in the tail.

Kernel == Run(RosellaRoom, [room |-> FreshRoom, out |-> <<>>],
                   [n \in 1 .. ImpulseSlots |-> IF n = 1 THEN 1 ELSE 0]).out
FreshTail == [n \in 1 .. ImpulseSlots - 1 |-> [ear \in Ears |-> 0]]

Powers(needed) == {2 ^ k : k \in 0 .. needed}
TransformSize(needed) == CHOOSE size \in Powers(needed) :
    size >= needed /\ \A smaller \in Powers(needed) : smaller >= needed => size <= smaller

\* A product of spectra convolves around a circle.
Circular(xs, kernel, ear, size, i) ==
    Total([k \in DOMAIN kernel |-> kernel[k][ear] * At(xs, ((i - k) % size) + 1)])
Block(xs, kernel, tail, needed) ==
    [i \in 1 .. needed |-> [ear \in Ears |->
        Circular(xs, kernel, ear, TransformSize(needed), i) + (IF i <= Len(tail) THEN tail[i][ear] ELSE 0)]]
Cut(block, slots) == [out |-> SubSeq(block, 1, slots), tail |-> SubSeq(block, slots + 1, Len(block))]

\* process_chunk
FirChunk(kernel, tail, xs) ==
    Cut(Block(xs, kernel, tail, Len(xs) + Len(kernel) - 1), Len(xs))

-----------------------------------------------------------------------------
\* What a room is to compute from all that was ever fed to it.

\* An all-pass is the difference equation r(n) = x(n) - g r(n-d).
Back(seq, d) == IF d < Len(seq) THEN seq[Len(seq) - d] ELSE 0
ResidualsOf(xs, pass) == Run(LAMBDA r, x : Append(r, x - pass.gain * Back(r, pass.delay - 1)), <<>>, xs)
PassOf(r, pass) == [n \in DOMAIN r |-> pass.gain * r[n] + At(r, n - pass.delay)]
PassedOf(xs, pass) == PassOf(ResidualsOf(xs, pass), pass)
AllPassed(xs) == Run(PassedOf, xs, Allpasses)

\* v(b, n) = x(n) + the other branches, each delayed by its own delay
BranchBack(v, s) == IF RoomDelays[s] <= Len(v) THEN v[Len(v) + 1 - RoomDelays[s]][s] * Feedback[s] ELSE 0
BranchesOf(xs) ==
    Run(LAMBDA v, x : Append(v, [b \in Branches |->
                 x + Total([s \in Branches |-> RoomMatrix[b][s] * BranchBack(v, s)])]), <<>>, xs)
TappedOf(v, b, n) == IF n > TapDelay THEN v[n - TapDelay][b] * Feedback[b] * TapGain[b] ELSE 0
ExtraTappedOf(v, b, n) ==
    Total([i \in DOMAIN Extras |->
        IF n > Extras[i].delay
        THEN Total([s \in Branches |-> v[n - Extras[i].delay][s] * Feedback[s] * Extras[i].mix[b][s]]) ELSE 0])
RoomOfBranches(v) ==
    [n \in DOMAIN v |-> [ear \in Ears |->
        Total([b \in Branches |-> (TappedOf(v, b, n) + ExtraTappedOf(v, b, n)) * RoomEars[ear][b]])]]
RoomOf(xs) == RoomOfBranches(BranchesOf(AllPassed(xs)))

\* The room cut off after its first slots.
ResponseOf == RoomOf([n \in 1 .. ImpulseSlots |-> IF n = 1 THEN 1 ELSE 0])
ConvolvedWith(response, xs) ==
    [n \in 1 .. Len(xs) |-> [ear \in Ears |-> Convolved(xs, [k \in DOMAIN response |-> response[k][ear]], n)]]
FirOf(xs) == ConvolvedWith(ResponseOf, xs)
=============================================================================
