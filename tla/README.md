# JustOneCacophony: a verification project

TLA+ models of the JustOneCacophony core (an E-AC-3 JOC decoder and renderer in
C++), the TLC runs that check them on small instances, and TLAPS proofs of what
matters most for every value of the constants. Paths are relative to the
repository's own `src/` directory (`task/task.cpp` is `src/task/task.cpp` there)
unless they name a module.

## 1. Inventory of the system

| component | state it keeps | operations | what is hard | what makes it correct |
|---|---|---|---|---|
| frame ring (`FrameRing` in `task/task.cpp`) | slots, head, count, closed, aborted, two condition variables | push, pop, close, abort | two threads, wakeups, wrap-around, buffers exchanged by swapping | bounded FIFO channel, no lost wakeup, no buffer shared |
| frame pipeline (`run` in `task/task.cpp`) | two rings, failure board, stop flag, write progress, renderer | produce, render, write, shut down, cancel | three threads that fail, stop and wait at different moments; buffers and a renderer that carry state between frames | the output and the report of the serial loop; the task always returns |
| task set-up and clean-up (`run`, `PcmSpool`) | work directory, spool, intermediate, output | validate, extract, scan, open, drain, decide, copy, finalize, return | a dozen steps that can fail, each with its own files open | a success is a whole file, a failure leaves what was there |
| writers (`io/wav_writer`, `io/adm_writer`) | file handle, declared and written samples | open, write, finalize, abort | header written in advance, block buffer, removal on failure | declared = stored |
| stream (`stream/stream.cpp`) | reader, metadata queue, PCM queue, bed plan, runtime, output buffer | push E-AC-3, push bed PCM, push objects, pull, flush, reset | any chunking of two inputs that must pair; errors in the middle of a call; a cap on rendering ahead | each frame has its own metadata, no sample lost or repeated |
| E-AC-3 reader (`eac3_transport`) | byte buffer, cursor, sticky failure | push, next, finish | partial headers and frames | any chunking gives the same frames |
| EMDF containers (`emdf`) | none across frames | find, nest, choose | audio bytes that look like a marker; nested and repeated containers | the container the encoder wrote |
| JOC and OAMD bitstreams (`joc_bitstream`, `oamd`) | OAMD object state | parse, apply | chains of differences; three walks over one payload; truncation | what the encoder means; indices in range |
| bed layout map (`joc_bitstream`) | tables, the plan of a stream | resolve a plan | four descriptions of the same channels | each lane is fed by its own channel |
| JOC core (`joc_core`) | delay lanes, filter memories, overlap; worker pool, barrier, job counter | process, set threads, reset, destroy | threads that share jobs; delays shared by channels | with any number of threads what one thread does |
| position timeline (`timeline`) | coded state, tracks, cursors | submit update, position at, fix a bed, reset | updates aligned down to a grid while blocks are rendered; overlapping ramps; rejected updates | positions already used never change; ramps connect |
| ADM tracks (`adm/adm_tracks`) | events per object | record, fix a bed, build | ramps cut by the next event, by a block and by the end of the programme | blocks cover the programme and put objects where their events mean |
| binaural runtimes (`binaural`, `hrtf/rosella_*`) | staged samples, filter histories, sources with fades and memos, rooms, latency and tail accounting | configure, set source, submit or process, take, finish, reset | blocks of any cut, rings, fades broken off, a memo, five renderers of one idea | what is heard is what the sound means, latency once, tail last |
| speaker renderer (`speaker`) | gains, targets, steps and remaining blocks per object and channel; controls; coded positions | step a frame, process a call with events, place an object, reset | events against block boundaries, ramps that outlast a call or are interrupted; positions at the edge of two intervals | every block has the gains the accepted events mean, an object keeps its power |
| HRTF data and filterbanks (`hrtf`) | tables; histories of the banks | load, analyse, synthesise | histories against block boundaries | as the binaural runtimes |
| SIMD dispatch and kernels (`simd`, `foundation/fft`) | the table of kernels, fixed at first use | probe, resolve, call a kernel or transform | seven kernels in four units, remainders, small and large transforms | the bits of the scalar unit; only units the machine can run |
| file formats (`io`, `foundation`) | none | parse | - | - |
| external decoder (`io/process`) | none | run ffmpeg, read its output | blocking I/O | - |
| telemetry (`telemetry/event_bus`) | sequence number, totals | emit, progress, stage | used by two threads of a task | sequence numbers unique |
| C API, command line (`api`, `cli`) | handles, cancel token | wrappers | the token is set by another thread | a cancelled task ends |

How they interact. A file task starts a producer and a writer thread beside its
own; the three exchange frames through two rings and share the failure board, the
stop flag, the write progress and, without a lock, the renderer's fixed bed
positions. The files a task opens are handed from stage to stage and closed by
destructors. A stream is driven by its caller alone: a call runs the reader, the
group assembly and the renderer to completion, and what it could not do stays
queued for the next call. Both find the container of a syncframe, parse its JOC and
OAMD payloads, resolve a bed plan once, and rebuild the objects in the JOC core, which
may share the jobs of a frame among workers of its own. Both hand OAMD updates to a
runtime that owns a timeline, which the runtime asks for positions block by block; an
ADM task records them as events instead. All signal processing calls the kernels
through the table of the dispatcher.

The hazards that follow from this are listed in `PROJECT.json`, each at the line
where it bites and with the properties that would notice it going wrong.

## 2. Plan

In the order of importance. All of it is done but what the last point lists.

1. `RingOps`, `FrameRing`, `BoundedChannel`: the ring and the channel it implements.
2. `FramePipeline` (uses the operators of `RingOps` for both rings) and the abstract
   `RenderTask`: the three threads and what they promise the one who runs the task.
3. `Stream`: the same data path without threads, any order and size of calls.
4. `PositionTimeline` and `AdmTracks`: what a runtime asks for, and what an ADM file says,
   against what updates mean.
5. `TaskOutput`: the files, around the frame loop.
6. `SpeakerRenderer`, `SpeakerGains`: events against blocks, gains on ramps, and the gains.
7. `Emdf`, `JocPayload` (the bed plan included), `Oamd`, `SyncframeMetadata`: from bits to
   what a frame is rendered with, against a writer.
8. `JocCorePool` and the abstract `JocCoreCalls`: the threads of the JOC core.
9. `Filterbank`, `BinauralRoom`, `JochrtfRenderer`, `RosellaRenderer`, `Binaural`:
   the binaural renderers against a definition without memory.
10. `Kernels`, `Transforms`, `DspCalls`: the kernels of every unit, and the table that selects them.
11. Proofs of the ring, of the frame loop, of the stream, of the timeline, of the speaker
    renderer's events, of the pool, of the files, and of the kernels and their table.
12. Left: the reader's chunking at byte level, `finish` included; the event bus and its
    unlocked sequence number; the readers of HRTF and model files. The next proof would be
    `MemoIsFresh` of `Binaural`, from an invariant about the keys a source keeps.

Abstract specifications: `BoundedChannel` (implemented by `FrameRing`, by TLC and by
proof), `RenderTask` (implemented by `FramePipeline`, by TLC and by proof) and `JocCoreCalls`
(implemented by `JocCorePool`, by TLC and by proof).

## 3. The modules and the code

`PROJECT.json` maps every definition to its lines.

**RingOps, FrameRing** model the class `FrameRing`. A ring is a record (slots,
head, count, closed, aborted); `AfterPush` and `AfterPop` swap a payload with a slot
as `std::swap` does. In `FrameRing` a call is split where the mutex is released: a
thread calls, tests its predicate under the lock and either parks on its condition
variable, fails, or completes and notifies. `SpuriousWakeup` wakes a parked thread
at any time. `CloseRing` and `AbortRing` may come from either side at any time.
The payload carries the identity of its buffer and the number of the item in it.

**FramePipeline** models the frame loop of `run`. A step is what one thread does
between two points the others can see. Since `FrameRing` shows what a ring does,
here a blocked push or pop is simply a disabled action (`PushReady`, `PopReady`).
Producer: `CollectFrame` (the group of substreams of a frame, and its metadata),
`CollectFails`, `RebuildFails`, `ProducerPushes`, `ProducerIsRefused` (the ring was
aborted), `ProducerSeesStop`, `ProducerReachesEnd`, `ProducerCloses`. Caller:
`CallerPops`, `CallerChecks` (board and token), `CallerRenders`, `RenderFails`,
`CallerPushes`, `CallerReportsProgress` (waits for the writer), `CallerStopsProducer`,
`CallerStopsWriter`, `CallerJoins` (which settles the outcome). Writer: `WriterPops`,
`WriterWrites`, `WriteFails`, `WriterCompletes`, `WriterFinishes`, `WriterAborts`.
`Cancel` is `joc_task_cancel` on another thread. Jobs are recycled by the swaps, so
a job's update survives in them exactly as in the code.

**Stream** models `class Stream`. `at` tells in which loop of a call the stream is;
`op` and `status` are the call and its result. `PushEac3`, `PushBed`, `PushObjects`,
`Pull`, `Flush` and `Reset` start a call; `ReaderFails`, `FrameRejected`,
`SyncframeJoins` and `ReaderIsDry` are the iterations of the reading loop, `Prepare`,
`RenderFrame`, `RenderStops` and `Finish` those of rendering and flushing. Two units
of bytes make a syncframe, `FrameUnits` units of PCM an audio frame; a rendered unit
is a token that names its frame and position, so losses and reorderings show. The
runtimes are `staged` (samples of an incomplete chunk), `line` (held back by the
latency) and `fifo`. The input is a sequence of syncframes that carry the number of their
audio frame (`Numbered`); the code never looks at it, the properties do.

**PositionTimeline** models `OamdPositionTimeline` and its tracks, with the runtime
that drives it: `SubmitFrame` (with or without an update, which is accepted in
full, ignored, or refused at one of its objects with the objects before it already
changed), `DeclareBed`, `RenderBlock` (moves the cursors), `Finish`, `Reset`. `DeclareBed` has
no guard but that it happens once: in a file task the thread that reads the bitstream declares the
bed, whatever the caller has submitted or rendered by then (also after the last frame,
which over-approximates a producer that is always ahead). Positions
are integers on which a ramp is exact. `changes` and `start` are history: what the
accepted updates say, from which `Meant` computes positions without cursors.

**TaskOutput** models the rest of `run`: one action per step that can fail, from
`Validate` to `Report`, with the state of each path on the disk. `Destroyed` is what the
destructors of the spool and of the ADM writer do on any return. Contents are
counted in units: `position` of the spool, `declared` and `stored` of the output, `used`
of the ADM writer's block; `heard` is the set of units above the threshold. The writes of the
objects intermediate are not tested by the code (`task.cpp:1940`), so `Report` leaves it whole or
partial whatever happened, and a success says nothing of it.

**AdmTracks** extends `PositionTimeline` with the other consumer of the same updates: a task whose
`output` is an ADM file records an event for each object an update moves (`SubmitAdm`),
is told the bed by the other thread (`DeclareAdmBed`, before, between or after any of the frames it
records, so an object may be recorded first and fixed then: `Fixed`) and turns the events into the blocks of a track
(`BuildTracks`, of both trajectory modes). `MeantAt` says from the events alone where an
object is. The modes are two readings of a jump and a ramp that fall on the same block:
compact ramps from where the object was before the jump, dense from where it jumped to; and
a compact ramp that the programme's end cuts is interpolated from the jump
(`CutAfterJump`, left out). A dense block says where the object is at its start.

**SpeakerRenderer** models `speaker::step` and the renderer it calls. `StepWithUpdate` and
`StepWithoutUpdate` are `step` for a frame, `ProcessDirectly` is the C entry point with
any number of events; all three validate their events and open a call (`Begin`), whose loops are
`ApplyEvent`, `MixBlock` and `ReturnFromCall`. `DeclareBed` and `Reset` are what the stream
around it does. Here the gains are the table `Gain`, integers that the ramps of the run
divide. `heard` and `schedule` are history: the gains every block was mixed with, and the
accepted events with their blocks, from which `MeantGain` computes the gains without any
state. **SpeakerGains** is what the table stands for: the controls a trim element gives
(`ControlsOf`), the balance, the levels, and panning over the points of a layout, warp and
fold included. A pair of equal-power gains is a pair of shares of the power.
It holds the first region of each layout, the one all callers render in.

**BitReader, Emdf, JocPayload, Oamd, SyncframeMetadata** are the parsers, from the
bits up: a reader is a sequence of bits and a position that may lie beyond it; a walk is
a fold or a recursion; an error has the name the code gives it. `JocPayload` ends with the bed plan, the other
half of `joc_parser.cpp`. The three walks over an OAMD payload share one operator for its
header (`Header`), so a difference between the headers the code reads would not show.
`SyncframeMetadata` is the loop body of `push_eac3` and the resolution of the bed plan
(`ReadSyncframe`, `CloseFrame`), with the parsers as its operators.
**MCSyncframe** holds a writer, independent of the walks, and the inputs it writes.

**JocCore** is the state of the JOC core and what a job does to it: a slot of a
channel is its number with the gains it was scaled with, a filtered slot is the window
of slots it was computed from. **JocCorePool** runs these jobs by threads:
`SetThreads`, `StartProcess`, `ResetCore`, the destructor (`Destroyed`), a dispatch of
analysis jobs and one of object jobs, the job counter and the two-phase barrier as
program counters. **JocCoreCalls** is what a call does with one thread.

**Filterbank, BinauralRoom, JochrtfRenderer, RosellaRenderer** hold the
state of the binaural renderers as records and their calls as operators: histories that
are joined, shifted or written as rings; paths, fades and memos; the recursive rooms and
the convolution; staging, latency and the tail. **Binaural** calls them: one of five
renderers a behaviour, `log` keeps what was fed, `heard` what came out, and `SoundOf`
computes from `log` what that should be.

**Kernels** is the scalar unit and the AVX2, AVX-512 and NEON units, lane by
lane, **Transforms** the transforms over them. The doubles, their sum, product and negation and
the sizes of the tables are constants. Memory is a function on the indices of a buffer; a loop
of the code is `Loop`, over the bodies of its indices, and `VectorLoop` is a vector loop with the
scalar loop behind it; the stages of a transform are `Stages`.
**DspCalls** is the probe, the table and `JOC_SIMD`, and the process that
resolves the table once and calls kernels through it.

**BoundedChannel, RenderTask, JocCoreCalls** are the abstract specifications, the `MC`
modules hold the inputs of the runs, **FrameRingProofs, FramePipelineProofs, StreamProofs,
PositionTimelineProofs, SpeakerRendererProofs, JocCorePoolProofs, TaskOutputProofs,
DspCallsProofs** the proofs.

## 4. The runs

| run | states what | bounds |
|---|---|---|
| `frame_ring` | `NoLostWakeup`, `BuffersConserved`, `CallsReturn`, `RefinesChannel` (order included) | 2 slots, 5 items: the index wraps twice |
| `pipeline_faults` | `WrittenInOrder`, `ReportIsTrue`, `SerialUnlessDropped`, `ProgressIsWritten`, `MetadataInTime`, `Returns`, `RefinesTask` | 4 frames, rings of 1 and 2, so that a job is recycled after 3 frames; progress at the 3rd frame, one before the last; every combination of a failing frame per stage, or every pattern of metadata, or the bed in any frame, alone or with a failure of the bitstream in any frame; a cancellation at any point |
| `stream` | `FramesAreOwn`, `BedIsNeverLate`, `UnitsConserved`, `RenderAheadBounded`, `FlushDrains` | three set-ups (`StreamSetups`): a SOFA runtime with 3 frames of 1-2 syncframes, pushes and pulls of 0-3 units, one fault of each kind, each position of the bed, 2 flushes; Rosella in chunks of 2 frames with a cap of one, pushes after a flush, 2 flushes, 2 passes; a speaker renderer |
| `timeline` | `AnswersAreFinal`, `RampsConnect`, `NeverRewrites`, `TracksAreMeant` | 2 objects, 4 frames of 16 samples, blocks of 8, grid of 4; updates on, off and beyond the frame, ramps of 0, part of a frame and a whole one, delays 0 and 3; block-wise and chunk-wise; ADM updates up to a frame late, so that they meet in a block; the bed at any point of either task |
| `task_output` | `SuccessIsWhole`, `FilesEndWell`, `HeardIsKept` | 3 frames of 2 units, blocks of 3 units, chunks of 2 frames, latency 1, tail 3; every step failing, all patterns of silence, files left from before; the intermediate left whole or partial |
| `speaker` | `EventsArrive`, `GainsAreMeant`, `PowerIsWhole` | 2 objects, 3 calls of 3 blocks of 4 samples; ramps of none, 2 and 3 blocks; an event early, late, at the end of its call and beyond it; bed, trim element, refused frame, reset; two events per direct call (frames' updates are at the start of their frame: `step` passes the configured offset and no other, see below). One object at 8 x 8 x 8 places (walls, rows, speakers and between) in each of 11 layouts under each kind of trim element |
| `metadata` | `RenderersCanIndex`, `ContainerIsOwn`, `MatricesAreMeant`, `OamdIsMeant` | up to 3 frames of 2 syncframes, 3 payloads a container, words of 16 bits; 4 and 6 quantiser levels with Huffman trees of as many leaves; every truncation by bytes and every flipped bit of one syncframe |
| `joc_core` | `EachJobOnce`, `MixedFromOneMoment`, `RefinesCalls`, `CallsReturn` | 2 workers, 2 objects, frames of 4 slots, a delay of 3, filters that remember 1; 3 calls of four kinds of frame |
| `rendering` | `HeardIsDefined`, `MemoIsFresh`, `TailIsHeard` | 6 calls, 8 samples, blocks of 2, frames of 4, cuts of 1 and 3, fades of 2, 3 moves, one reset or reconfiguration, latency 2, chunks of 1 and 2 frames, flushes of 2 and 6 |
| `kernels` | `BitsAreScalar`, `TransformsAreMeant`, `TableRunsHere` | 8 kinds of build, 9 machines, every `JOC_SIMD`; counts 0-5, butterflies of 8-32, plans of 1-16, transforms of any length up to 8 by Bluestein |

Two more, `pipeline_updates` and `neon_axpy`, end in a counterexample (below).

Each property is paired with a mutant of the code's definition (`PROJECT.json`,
`mutants`) that must break it. That variables have their types is proved, for every value of the
constants, where a module has proofs (section 6).

Why the bounds are enough. What decides the behaviour of the rings, the queues and
the block buffers is whether they are empty, full or wrapped and whether a size
divides another; each run is large enough to meet all of these. Four frames
give one failing frame with one before and one after it, per stage, and one more that
receives a recycled job, so that every order of two failures on the same, an earlier
or a later frame occurs. In the timeline four frames let a chunk of two frames be pending while updates
for the next arrive, and three updates overlap. Where a size must exceed any bound, the
proofs speak for all of them (ring capacity, grid, frame, chunk, delay).

In the renderers a hop of 64 samples is one sample and a filter of ten taps has two or
three: what matters is that a history is longer than the shortest block and shorter than
the programme, that a ring wraps, and that a fade is as long as a block, so that one can be
broken off. In the kernels a count of five leaves every remainder that vectors of 2, 4
and 8 doubles can leave; the fixed sizes of the DSP (64 bands, 77 hybrid bands) are
parameters, set so that a vector loop runs and leaves its remainder. Bits are compared
in an arithmetic modulo 1009 that commutes but neither associates nor distributes, so that
another order of operations shows; the proof of `BitsAreScalar` holds for every arithmetic whose
addition commutes and for every size. Meaning is compared in a field where the sums are exact.

Deadlock. `CHECK_DEADLOCK FALSE` is set where the system may stop: a ring nobody calls,
a task that has returned, a stream, timeline or renderer whose bounded input is used up. A task
that stops before it has returned is caught by `Returns`, a pool that stops in a call by
`CallsReturn`. `TaskOutput` ends in an explicit self-loop and is checked for deadlock, and
so is `DspCalls`.

### What the documents say and the code does not do

Two runs end in a counterexample, each to one sentence of the repository.

- `pipeline_updates` (`UpdatesAreOwn`): a frame without a JOC container carries the OAMD
  update left in its recycled job, that of the frame `kBitstreamRingDepth + 2` before
  it; `task.cpp:832` promises the serial loop's bytes. `MetadataInTime` in
  `pipeline_faults` states exactly which update it carries.
- `neon_axpy` (`CallIsScalar`): on AArch64 `complex_axpy` accumulates only every second
  complex, where `kernels_intrin_neon.cpp:241` and `simd.h` promise the scalar bits.
  `BitsAreScalar` in `kernels` says that every other kernel of every unit keeps them.

Met while modelling, and stated by no run of its own (the first nine are listed under
`findings`):

- the producer sets the bed positions in the renderer while earlier frames are still
  being rendered (`task.cpp:1853`), and in the track builder (`task.cpp:1861`);
- a stream sets the fixed positions when the frame that declares the bed is queued
  (`stream.cpp:227`), also for earlier updates that still wait for their PCM, so the bytes
  depend on how far the bitstream was pushed ahead, where `README.en.md:160` allows any
  chunking; `BedIsNeverLate` says the other half, that the bed is not late;
- a flush of a stream ignores a syncframe that is still incomplete in the reader
  (`stream.cpp:698`), where a file task fails;
- trimming the silent end protects what was emitted before the runtime was finished
  (`task.cpp:2276`), which is shorter than the programme by what the runtime still holds;
- `step` of the speaker renderer leaves out the block offset and the EMDF offset of an
  update (`speaker_step.cpp:72`), which `docs/math.en.md` section 13 adds and the
  binaural timeline honours;
- `next_fast_len` returns its argument (`fft.cpp:179`); nothing calls it;
- `find_joc_emdf_optional` reports a syncframe with markers and no usable JOC container as
  absent, with success (`emdf_parser.cpp:331`), which `emdf_parser.h:66` says fails;
  `ContainerIsOwn` leaves the status open once such a syncframe was read (`MarkersOnly`);
- an AArch64 binary ignores `JOC_SIMD=sse2` and takes NEON, as `isa_compiled` knows sse2 on x86
  only (`dispatch.cpp:88`), where `kernels_intrin_neon.cpp:7` says that scalar, sse2 and neon all
  stay available on the same binary; `TableRunsHere` leaves the width of the units open for this
  request (`Sse2OnNeon`) and still asks that they can be executed;
- `eac3joc_core.h:61` names a function that does not exist;
- the reported failure is not the serial loop's when a DSP failure drops a queue in
  which an earlier frame's write would have failed (the exception in `SerialUnlessDropped`);
- the stream of the objects16 intermediate is never tested after writing; a refused open
  of the ADM file removes what was at the path (`OpenAdm`); an ADM file whose `fclose`
  fails stays (`NothingLeftBehind`); a cancelled task leaves the intermediate and the work
  directory;
- `reset` of a stream keeps the bed of the pass before (`position_timeline.h:64` says so);
- the progress of the copy from the spool starts again from the first frames
  (`task.cpp:2308`), though the comment above it (`task.cpp:2296`) calls the frame field
  monotone;
- a file task seeds the speaker controls from the first trim element within 64 frames
  (`task.cpp:1418`), while a stream and a reset stream start from automatic trim
  (`speaker_step.cpp:29`), so until the first trim element arrives their bytes may differ,
  which the README of the repository excludes (`README.en.md:159`);
- a `configure_room` of the native renderer that fails leaves it ready with half of the
  new room (`binaural_renderer.cpp:107`).

## 5. Fairness

`FrameRing!FairSpec` is weak fairness of each side's steps inside a call: a thread
that is not parked eventually gets the mutex, which `std::mutex` gives a thread that
competes with one other that always releases it. Nobody is obliged to make a call,
to close or to abort, so a side may wait for ever for a peer that does nothing;
`CallsReturn` only speaks of calls whose predicate holds.
Weak fairness is enough as nobody but the side itself falsifies its predicate: only
the consumer takes, only the producer adds.

`FramePipeline!FairSpec` is weak fairness of each of the three threads: a thread that
can move does. No fairness on `Cancel`. That is what the operating system's scheduler
gives threads that block only in the rings and in the progress wait. A stage's own
work (decoding, rendering, a write) is taken to end.

`JocCorePool!Spec` has weak fairness of each thread inside a call: the caller's steps
between the start of a call and its return, and each worker's. A thread spins, waits at a
barrier or works, and the scheduler gives each its turn; nobody must make a call.
`CallsReturn` rests on it, and `RefinesCalls` does not.

`Stream`, `PositionTimeline`, `AdmTracks`, `SpeakerRenderer`, `SyncframeMetadata`, `Binaural`,
`DspCalls` and `TaskOutput` are sequential and checked for safety only: their caller is under
no obligation. That no call of a stream runs for ever is not stated; that no step of
`TaskOutput` is stuck is its deadlock check.

## 6. What is proved

With TLAPS, for every value of the constants that the named assumptions admit.

**FrameRingProofs** and **FramePipelineProofs** both begin with the index arithmetic of
`RingOps`: `At` is injective over the queued range, moves by one with the head, and so
`PushAppends` and `PopRemovesHead` say what a push and a pop do to the queue through any
wrap-around.

**FrameRingProofs** (from `FrameRingAssumption`: the capacity and the number of items
are naturals; the code raises a capacity of zero to one slot). The inductive invariant is

    RingInv == TypeOK /\ NoLostWakeup /\ QueueIsFifo /\ BuffersConserved /\ HeldOK

`HeldOK` says what the two sides hold at each point of a call; it is needed since a
push stores what its caller holds: without it neither the next item nor the
disjointness of buffers survives a push. There is one lemma for each of the two
steps that move a payload and one for all others. From `RingInv` follow `TypeCorrect`,
`WakeupsAreNotLost`, `QueueOrder`, `SwapConservesBuffers` and `RingImplementsChannel`:
the ring is a bounded FIFO channel of its capacity (`StepRefines` maps each step to a
step of the channel or a stutter).

**FramePipelineProofs** (from `PipelineAssumption`: the rings have a slot, the inputs are among
those of `PlanType`, where only the bitstream can fail after the last frame). The properties
speak of what was written and reported; what makes them true is spread over three threads.

    PipelineInv == TypeOK /\ Threads /\ JocQueue /\ OutQueue /\ Held
                   /\ Passed /\ BoardIsTrue /\ Reasons /\ ProgressIsTrue /\ ReportIsTrue

`Threads` ties the places of the threads to the flags of the rings and to the reason the
caller ends for. `JocQueue` and `OutQueue` say that a ring holds consecutive frames, the next
one of the stage behind it at its head; they use `PushAppends` and `PopRemovesHead`, and with
`Held` (the frames in the hands of the stages) give the order of the output. `Passed` says
that a stage that went past the frame it fails at has a failure on the board, its own or an
earlier one (`Covered`), `BoardIsTrue` that what is on the board was planned and reached, and
`Reasons` why a stage has ended, which is what the outcome rests on. That the board never
replaces a failure by a later one is `RecordProperties`, that the serial loop's failure is
well defined `SerialFacts`. There is one lemma for each action of each thread. From the
invariant follow `OutputInOrder`, `ReportsAreTrue`, `ProgressIsReal`, `FailureIsSerial` and
`PipelineIsATask`, for any number of frames, ring depths and progress interval.

`MetadataIsInTime` needs more: what is in a job that nobody has filled yet. A job goes from
the producer through the ring to the caller and back through the slots that are free.

    MetadataInv == FailsLast /\ BedKnown /\ Buffers /\ Rendered

`Buffers` says that the queued slots, the frame of the caller, the free slots and the job of
the producer hold, in this order, the updates of `JocDepth + 2` consecutive frames; so the
job a frame is collected into is that of the frame `JocDepth + 2` before, which is what the
frame carries if it has no container. `Carries` says it without a recursion, by the last frame
of those that share a job and have a container (`CarriesOwn`, `CarriesFresh`, `CarriesOld`).
`BedKnown` is why a bed is never late: it is set before the frame that declares it is pushed.

**StreamProofs** (from `StreamAssumption`: a chunk, a frame and the cap are positive, the
latency is less than a frame and at most the tail, only Rosella collects several frames, and
the syncframes are numbered as a file task numbers them). The proof has two halves, about the
frames and about the samples, and the second uses the first.

    FrameInv == FrameTypes /\ OwnInv /\ PairInv /\ BedInv
    SoundInv == SoundTypes /\ Runtime /\ Conserved /\ RenderAheadBounded

The properties speak of rendered frames; a frame is rendered long after it was read.
`PairInv` (`Paired`) says that the frames rendered, queued and under assembly are consecutive
audio frames with exactly the syncframes read so far: `NextFrame` shows that a repeated
substream is the beginning of the next one, `DropPaired` that a frame that fails leaves both
queues alike. `OwnInv` says the same of the parts of one frame. `BedInv` follows the
declarations from the queue into the history (`DeclaredMoves`): the first one has been applied
once its frame is queued, so before that frame is rendered (`QueuedBed`, `RenderedBed`).
`Conserved` is `UnitsConserved` for `All`, the concatenation of what was delivered, waits and
is still in the runtime: a frame is appended to it (`FrameInOrder`), silence may be
(`SilenceInOrder`), and everything else moves samples across a cut (`CutInTwo`, `ReleaseKeeps`).
`Runtime` says what a runtime may hold; a pull never copies from beyond `output` since what
is released covers what is copied (`PulledSound`). `CallInv` says where a call stands, which is
what a flush that returned has done. From these follow `FramesStayOwn`, `BedIsInTime`,
`NothingIsLost`, `NeverFarAhead` and `FlushIsComplete`, for any program, chunk, latency, tail
and cap, and pushes and pulls of any size.

**PositionTimelineProofs** (from `TimelineAssumption`: frames and chunks are whole
blocks, a frame is a whole number of grid steps, the grid is at least 2).

    TimelineInv == TypeOK /\ RampsConnect /\ Clocks /\ NothingYet

`Clocks` says that `input` is on the grid, that `processed` is a whole number of blocks
and, until the runtime is finished, not beyond `input`; `NothingYet` that before the
first state there are no transitions. `AlignIsNotEarlier` is the arithmetic
core: an event at or after a sample on the grid is not aligned to before it, which
together with "a frame is a whole number of grid steps" keeps every new start at or
after the next unrendered sample. `AppendedProperties` and `ScheduledTracks` say what
accepting an update does to a track. From them follow `TypeCorrect`, `RampsAlwaysConnect`
and `PastIsNeverRewritten`. A grid of 1 is excluded: there the code's
rounding would place an event one sample early, and the code's grid is 32.

That the answers are final (`AnswersStayFinal`) relates the tracks, which forget, to the
history, which does not.

    AnswersInv == Tracks /\ Dropped /\ Answered

`Tracks` (`Mirrors`) says that a transition is the last change with its start, ramps from what
the changes meant just before, and that no start is without one; accepting an update adds one
or replaces the last (`AddedMirrors`, `ReplacedMirrors`). `Dropped` says that what a cursor
has passed is over and that its target is kept. So reading a track at the cursor gives what the
changes mean (`TrackMeans`), and since an accepted change starts at or after the next block, it
means nothing new before it (`EarlierIsKept`).

**SpeakerRendererProofs** (from `SpeakerAssumption`: a block has at least two samples,
updates and events are well typed).

    SpeakerInv == TypeOK /\ QueueOK /\ LastOK /\ status # "outside"

`QueueOK` says that the events left are in order, that the first is not yet behind and
the last not beyond the end of the call; it holds since the alignment is monotone
(`AlignIsMonotone`) and takes the last sample of a call to its end (`AlignOfCall`).
`LastOK` says that the last event left is the last that was accepted, or that, when none is
left, the targets are its gains. At the end of a call the two leave no event, so
`process` cannot return its last error (`EventsAlwaysArrive`). A block of one sample is
excluded for the reason above, and the code's block is 32.

**JocCorePoolProofs** (from `JocCoreAssumption` and `PoolAssumption`: the objects are a finite
set of numbers, the workers one of positive numbers; a group of slots divides the frame and is
no longer than the delay; a frame has as many offsets as targets, one or two). `EachJobOnce` is not inductive: that
a job is taken by one thread rests on the counter, and that the counter is not reset under
a thread rests on where all threads stand.

    PoolInv == TypeOK /\ SameSide /\ CounterAtEnd /\ JobsShared /\ (call = "process" => frame \in Frames)

`SameSide` says that while the caller is outside a round, or does the jobs alone, no
worker is among the jobs; it needs to know that only threads that were started exist and
that the barrier counts all of them (`Membership`), and when workers are told to stop.
`CounterAtEnd` says that a thread behind the job loop saw the counter at its end;
`JobsShared` that the jobs below the counter are done or are exactly one thread's. From it
follow `TypeCorrect` and `JobsAreDoneOnce`, for any number of workers.

That a call with many threads does what it does with one (`CallsAreAtomic`) needs what a
partly done dispatch has made of the core.

    DataInv == Shaped(memory) /\ (call # "process" => core = memory) /\ (call = "process" => InProgress)

A job reads what the call began with and writes what no other job reads or writes: its lane,
its filter memory and its bands, or its object's matrix and overlap. So what was done is known
from the set of the jobs done alone: `InProgress` says that the core is `AnalysedOf` or
`ObjectsOf` of the memory and that set, and one more job adds one to it (`AnalysedOne`, where
`LanesApart` is what keeps two channels from one lane; `ObjectsOne`). The reference does the
jobs one after the other and comes to the same (`CallsAnalysisJobs`, `CallsObjectJobs`, each by
the least job where it would not; `AscendingLists` says that the list of the objects has each
once). By `JobsAreDoneOnce`'s invariant all jobs are done when the caller goes on, so that
step is the reference's `Process`; all steps before it are stutters.

`ObjectsAreOfOneMoment` reads the memories as parts of one signal `S`, silence before its
first slot: a delay line, a filter memory, a filtered frame is a `Run` of `S` or of the windows
of it (`Windows`).

    MomentInv == /\ memory.n \in Nat /\ memory.counts \subseteq {5, 7} /\ Overlaps(memory)
                 /\ \A channels \in {5, 7} : memory.counts \subseteq {channels} =>
                       \E S : Past(memory, S) /\ Held(memory, S, channels)

`Past` says what `S` is, numbered slots with connecting gains; `Held` that the memories of each
channel in use are its newest slots. A call makes `S` `Fuller` by a frame. The channels that are
delayed before the filter (`DelayedChannel`) and the surrounds that are delayed behind it, group
after group (`GroupMoves`, `SurroundMoves`), come to the same window (`ReadyDelayed`,
`ReadySurround`), and the memories are again the newest of the signal (`AfterHeld`), so
`CallMixes` follows for the frame and `MomentInv` for the next one. A call with another number
of channels leaves lanes behind, which is why `channels` is fixed for the calls since a reset.

**TaskOutputProofs** (from `OutputAssumption`: sizes are positive, a latency is shorter than a
frame, the tail at least the latency, an ADM block at least a frame). None of the three
properties is inductive: each speaks of the end of a task, and what holds there is settled
several steps before.

    OutputInv == TypeOK /\ Route /\ Files /\ Amounts /\ SuccessIsWhole /\ EarlierOutputSurvives

`Route` says which kind of task can be at which step; `Files` what each step has open and what
is at the paths of the spool and of the output; `Amounts` what has been rendered, spooled and
stored at each step: for ADM that the file and the block together hold the frames written, for
PCM that the spool holds what the runtime has emitted (`EmittedGrows`), that nothing heard lies
beyond it (`SpoolWriteProperties`) and that the length kept was computed from it. `EarlyReturn` is one lemma for
the failures and cancellations, and there is one for each step. From it follow
`SuccessWhole` (of the output; the intermediate may be partial), `FilesSafe` and `HeardSurvives`,
for every number of frames, latency, chunk, tail and block.

**DspCallsProofs** (from `ArithmeticAssumption`: of the laws of arithmetic only that addition
commutes; `SizesAssumption`: the hybrid outputs and the analysis bands fill whole vectors, which
the code asserts or takes for granted; `CallsAssumption`: transforms have a power of two of
complexes, and those that go through the kernel at least eight; `UnitAssumption`: cosines and
sines are doubles; `MachinesAssumption`, `BuildsAssumption`: a processor without CPUID leaf 7
has none of its instructions, a build has the units of its architecture). A call is one step, so
the invariants are short and the work is in what a call writes. `CallsInv` says that calls are
made through the table, and that what the last one wrote is what the unit in the table writes,
with a count or size that callers use; `DispatchInv` that the table is untouched or
`TableFixed`.

A kernel's outputs are independent of each other, so its meaning is one memory, and each unit is
followed through memory that is done up to an index (`Upto`, `VectorSweep`) or at a set of
indices (`Done`): one vector of the loop, or one element of the loop behind it, does what comes
next. Lane by lane the vectors hold the elements' expressions, with summands exchanged at most;
a sum over taps or terms is the same loop in each lane. This gives, for any count, `UnitsAgree`:
each unit writes what the scalar one does.

A transform's stage is a set of butterflies on disjoint complexes (`StageMeans`). The later
stages of a unit take neighbouring butterflies of one group; the first ones have groups smaller
than a vector and take them from neighbouring groups by shuffles (`PackAvx2`, `PackNeon`,
`PackHalves`, `PackGroups`). All mean the stage, and so do all stages in their order
(`StagesAgree`, over the lengths of a power of two), which is `FftUnitsAgree`. A plan reads from
its table what the transform in place works out: `TwiddleHolds` says that stage by stage the
table holds the factors, and `PlanIsInPlace` follows, for the portable loop of small transforms
as for the kernels. `CallsAlwaysHaveScalarBits` is `BitsAreScalar`; the exception it states,
NEON's accumulation, is the counterexample of `neon_axpy`.

`TableAlwaysRunsHere` (silent on how wide the units are where AArch64 is asked for sse2) says of the probe that what it reports is what the silicon has and the
system saves, also where leaf 7 is answered with another leaf's data, and of the two ladders
that the first unit that fits is the widest.

Only model-checked: liveness (`Returns`, `CallsReturn`), which is out of the prover's reach;
`GainsAreMeant`, where the gains are whole numbers only because the ramps of the run divide
them; `MemoIsFresh`, which is not proved yet; `TracksAreMeant`, `HeardIsDefined` and
`TailIsHeard`, whose code or reference is a recursion or a fold over events or samples;
`RenderersCanIndex`, `ContainerIsOwn`, `MatricesAreMeant` and `OamdIsMeant`, as the parsers' walks
are recursions over data; `PowerIsWhole`, whose gains are finite tables that the run enumerates;
and `TransformsAreMeant`, which needs the algebra of exact sums over roots of unity.

## 7. What is not modelled

- Floating point. Gains, coefficients and samples are whole numbers and a filter is a sum
  over a history; rounding is modelled only in the kernels, as an arithmetic that does not
  associate. Signed zeros, and compilers that fuse a product and a sum
  (`CMakeLists.txt:326` asks only MSVC not to), are not.
- The generated tables (`hrtf/kernel_tables.cpp`), real Huffman trees, filter
  coefficients: data. The geometry behind a path of a binaural source is a table.
- The readers of HRTF and model files (`io/hdf5`, `hrtf/jochrtf`, `hrtf/rosella_model`, zip, npy, JSON):
  files that are read once into memory. That the tap delays of a model fit the ring of its
  room (`rosella_renderer.cpp:593`) is taken from the files.
- The layout of E-AC-3 headers: what a header says is a choice of the input.
- The text of the ADM chunks; `ts()` and the rounding of times in it.
- The external decoder's process handling; argument checks of the C API; the command line;
  the event bus.
- In `Stream`: allocation failures of `create`, planar pulls. In `TaskOutput`: RF64 and the
  chunks of the headers, 24-bit packing, the wording of events. In the speaker renderer:
  the other regions of a layout, which no caller selects, and the LFE channel. In the
  binaural renderers: configurations that are refused, and a Rosella flush that is not
  whole blocks (its callers round it up).
