----------------------------- MODULE TaskOutput -----------------------------
(***************************************************************************)
(* What a file task does to the disk (run in src/task/task.cpp): the work  *)
(* directory, the PCM spool, the objects16 intermediate and the output,    *)
(* from the validation of the configuration to the return, with any step   *)
(* failing.  The frame loop, whose threads FramePipeline models, appears   *)
(* here as the frames it has written.                                      *)
(*                                                                         *)
(* ADM BWF is written in place while the frames are rendered.  PCM goes to *)
(* a spool first; its peak and its silent end decide the format and the    *)
(* length of the WAV, which is then written from the spool.                *)
(*                                                                         *)
(* Samples are counted in units.  A file is "absent", "old" (there before  *)
(* the task), "partial" or "whole".                                        *)
(***************************************************************************)
EXTENDS Naturals, FiniteSets, FiniteSetsExt

CONSTANTS
    MaxFrames,    \* bound: audio frames of an input
    FrameUnits,   \* units of a frame (JOC_FRAME_SAMPLES)
    Latency,      \* units a binaural runtime holds back
    Chunk,        \* frames Rosella renders at a time (chunk_frames)
    TailUnits,    \* finish_capacity(tail_seconds)
    AdmBlock,     \* kDefaultBlockSamples of the ADM writer
    CopyBlock     \* kBlockFrames of copy_to

ASSUME OutputAssumption ==
    /\ MaxFrames \in Nat \ {0} /\ FrameUnits \in Nat \ {0}
    /\ Latency \in 0 .. FrameUnits - 1 /\ Chunk \in Nat \ {0}
    /\ TailUnits \in Nat /\ TailUnits >= Latency
    /\ AdmBlock \in Nat /\ AdmBlock >= FrameUnits
    /\ CopyBlock \in Nat \ {0}

Content == {"absent", "old", "partial", "whole"}
Path == {"work", "spool", "objects", "output"}
Binaural == {"sofa", "rosella"}

\* The settings that decide what is written, and the number of frames found.
Config ==
    [op : {"adm", "speaker"} \cup Binaural, frames : 1 .. MaxFrames,
     container : BOOLEAN,     \* the input is not an elementary stream
     bed : BOOLEAN,           \* the core PCM is given
     metadataOnly : BOOLEAN, keepObjects : BOOLEAN]

VARIABLES
    cfg, before,       \* the configuration, and what was on the disk before
    at, result,        \* the next step, and how the task ended
    disk, open,        \* the files, and those the task has open
    adm,               \* AdmBwfWriter: no path_ yet, a path_, finalized_
    processed,         \* frames written
    position,          \* samples in the spool
    heard,             \* the units of the spool above the threshold
    lastHeard,         \* last_above_ + 1, or 0
    program, keep,     \* program_samples, and the samples the WAV is to have
    used,              \* samples in the ADM writer's block
    declared, stored   \* samples the output's header promises, samples in it

spoolVars == <<position, heard, lastHeard, program, keep>>
fileVars == <<declared, stored>>
vars == <<cfg, before, at, result, disk, open, adm, processed, spoolVars, used,
          fileVars>>

Init ==
    /\ cfg \in Config
    /\ before \in [Path -> {"absent", "old"}] /\ before.work = "absent"
    /\ at = "validate" /\ result = "running"
    /\ disk = before /\ open = {} /\ adm = "none"
    /\ processed = 0
    /\ position = 0 /\ heard = {} /\ lastHeard = 0 /\ program = 0 /\ keep = 0
    /\ used = 0 /\ declared = 0 /\ stored = 0

-----------------------------------------------------------------------------
\* Returning

\* The destructors: ~PcmSpool removes the spool it has open, ~AdmBwfWriter
\* whatever is at its path_ unless finalized_.
Destroyed(d) ==
    [d EXCEPT !.spool = IF "spool" \in open THEN "absent" ELSE @,
              !.output = IF adm = "named" THEN "absent" ELSE @]

Return(verdict, d) ==
    /\ at' = "done" /\ result' = verdict
    /\ disk' = Destroyed(d) /\ open' = {}

\* finalize_with_error at a step that has changed nothing else.
Failing ==
    /\ Return("failed", disk)
    /\ UNCHANGED <<adm, processed, spoolVars, used, fileVars>>

GoTo(step) == at' = step /\ UNCHANGED result

-----------------------------------------------------------------------------
\* Before the frames

Validate ==
    /\ at = "validate"
    /\ \/ Failing
       \/ /\ GoTo("extract")
          /\ UNCHANGED <<disk, open, adm, processed, spoolVars, used, fileVars>>
    /\ UNCHANGED <<cfg, before>>

\* ffmpeg is run for the elementary stream and for the core PCM; what the work
\* directory holds stays there when that fails.
Extract ==
    /\ at = "extract"
    /\ LET d == [disk EXCEPT !.work = IF cfg.container THEN "partial" ELSE @]
       IN \/ cfg.container /\ Return("failed", d)
          \/ GoTo("decode") /\ disk' = d /\ UNCHANGED open
    /\ UNCHANGED <<cfg, before, adm, processed, spoolVars, used, fileVars>>

Decode ==
    /\ at = "decode"
    /\ LET d == [disk EXCEPT !.work = IF cfg.bed \/ cfg.metadataOnly THEN @ ELSE "partial"]
       IN \/ (cfg.bed \/ ~cfg.metadataOnly) /\ Return("failed", d)
          \/ GoTo("scan") /\ disk' = d /\ UNCHANGED open
    /\ UNCHANGED <<cfg, before, adm, processed, spoolVars, used, fileVars>>

\* count_frames and report_metadata, where a metadata-only task ends.
Scan ==
    /\ at = "scan"
    /\ \/ Failing
       \/ /\ cfg.metadataOnly
          /\ Return("ok", [disk EXCEPT !.work = "absent"])
          /\ UNCHANGED <<adm, processed, spoolVars, used, fileVars>>
       \/ /\ ~cfg.metadataOnly
          /\ GoTo("setup")
          /\ UNCHANGED <<disk, open, adm, processed, spoolVars, used, fileVars>>
    /\ UNCHANGED <<cfg, before>>

\* The kernel, the layout or the HRTF, and the renderer.
SetUp ==
    /\ at = "setup"
    /\ \/ Failing
       \/ /\ GoTo(IF cfg.op = "adm" THEN "openAdm" ELSE "openSpool")
          /\ UNCHANGED <<disk, open, adm, processed, spoolVars, used, fileVars>>
    /\ UNCHANGED <<cfg, before>>

\* path_ is set before the file is opened.  A header that cannot be written
\* has the file removed like one that cannot be opened.
OpenAdm ==
    /\ at = "openAdm"
    /\ \/ /\ at' = "done" /\ result' = "failed" /\ adm' = "named"
          /\ disk' = [disk EXCEPT !.output = "absent"]
          /\ UNCHANGED open
       \/ /\ GoTo("openObjects") /\ adm' = "named"
          /\ disk' = [disk EXCEPT !.output = "partial"]
          /\ open' = open \cup {"output"}
    /\ UNCHANGED <<cfg, before, processed, spoolVars, used, fileVars>>

\* Mutant: the WAV is opened together with its spool.
OpenSpool_OpensWav ==
    /\ at = "openSpool"
    /\ GoTo("openObjects")
    /\ disk' = [disk EXCEPT !.spool = "partial", !.output = "partial"]
    /\ open' = open \cup {"spool"}
    /\ UNCHANGED <<cfg, before, adm, processed, spoolVars, used, fileVars>>

\* A spool left behind by a killed run is removed first.
OpenSpool ==
    /\ at = "openSpool"
    /\ \/ Return("failed", [disk EXCEPT !.spool = "absent"])
       \/ /\ GoTo("openObjects")
          /\ disk' = [disk EXCEPT !.spool = "partial"]
          /\ open' = open \cup {"spool"}
    /\ UNCHANGED <<cfg, before, adm, processed, spoolVars, used, fileVars>>

OpenObjects ==
    /\ at = "openObjects"
    /\ \/ cfg.keepObjects /\ Return("failed", disk)
       \/ /\ GoTo("openInputs")
          /\ disk' = [disk EXCEPT !.objects = IF cfg.keepObjects THEN "partial" ELSE @]
          /\ open' = IF cfg.keepObjects THEN open \cup {"objects"} ELSE open
    /\ UNCHANGED <<cfg, before, adm, processed, spoolVars, used, fileVars>>

OpenInputs ==
    /\ at = "openInputs"
    /\ \/ Failing
       \/ /\ GoTo("frames")
          /\ UNCHANGED <<disk, open, adm, processed, spoolVars, used, fileVars>>
    /\ UNCHANGED <<cfg, before>>

-----------------------------------------------------------------------------
\* The frames

\* What a runtime has emitted after so many frames, before it is finished.
Least(m, n) == IF m < n THEN m ELSE n
Greatest(m, n) == IF m < n THEN n ELSE m
EmittedAfter(frames) ==
    CASE cfg.op = "speaker" -> frames * FrameUnits
      [] cfg.op = "sofa" -> Greatest(frames * FrameUnits, Latency) - Latency
      [] cfg.op = "rosella" ->
            Greatest((frames \div Chunk) * Chunk * FrameUnits, Latency) - Latency

\* PcmSpool::write of the samples up to a position.
SpoolWrite(upTo) ==
    \E loud \in SUBSET (position .. upTo - 1) :
        /\ heard' = heard \cup loud
        /\ lastHeard' = IF loud = {} THEN lastHeard ELSE Max(loud) + 1
        /\ position' = upTo

\* write_objects16: whole blocks go to the file.
AdmWrite ==
    /\ used' = (used + FrameUnits) % AdmBlock
    /\ stored' = stored + ((used + FrameUnits) \div AdmBlock) * AdmBlock

\* A frame is rendered and written.
WriteFrame ==
    /\ at = "frames" /\ processed < cfg.frames
    /\ processed' = processed + 1
    /\ IF cfg.op = "adm"
       THEN AdmWrite /\ UNCHANGED <<position, heard, lastHeard>>
       ELSE SpoolWrite(EmittedAfter(processed')) /\ UNCHANGED <<used, stored>>
    /\ UNCHANGED <<cfg, before, at, result, disk, open, adm, program, keep, declared>>

\* Any stage fails at any frame.
FrameFails ==
    /\ at = "frames"
    /\ Failing
    /\ UNCHANGED <<cfg, before>>

\* The token is tested for every frame that reaches the DSP.  ADM is aborted,
\* as its destructor would; the spool is left to its own.
Cancelled ==
    /\ at = "frames" /\ processed < cfg.frames
    /\ Return("cancelled", disk)
    /\ UNCHANGED <<cfg, before, adm, processed, spoolVars, used, fileVars>>

FramesEnd ==
    /\ at = "frames" /\ processed = cfg.frames
    /\ GoTo(IF cfg.op = "adm" THEN "finalizeAdm" ELSE "drain")
    /\ program' = position
    /\ UNCHANGED <<cfg, before, disk, open, adm, processed, position, heard, lastHeard,
                   keep, used, fileVars>>

-----------------------------------------------------------------------------
\* Finalising

\* Mutant: the samples of the last block are left out.
FinalizeAdm_NoFlush ==
    /\ at = "finalizeAdm"
    /\ GoTo("report")
    /\ adm' = "finalized" /\ declared' = processed * FrameUnits
    /\ disk' = [disk EXCEPT !.output = "whole"]
    /\ open' = open \ {"output"}
    /\ UNCHANGED <<cfg, before, processed, spoolVars, used, stored>>

\* The tracks are built, the last block and the chunks written, the sizes
\* patched, the file closed.  finalized_ is set before fclose can fail.
FinalizeAdm ==
    /\ at = "finalizeAdm"
    /\ \/ Return("failed", disk) /\ UNCHANGED <<adm, used, fileVars>>
       \/ /\ adm' = "finalized" /\ used' = 0
          /\ stored' = stored + used /\ declared' = processed * FrameUnits
          /\ \/ /\ GoTo("report")
                /\ disk' = [disk EXCEPT !.output = "whole"] /\ open' = open \ {"output"}
             \/ at' = "done" /\ result' = "failed" /\ open' = {} /\ UNCHANGED disk
    /\ UNCHANGED <<cfg, before, processed, spoolVars>>

\* A binaural runtime is finished: what it retained, and the tail.
Drain ==
    /\ at = "drain"
    /\ \/ cfg.op \in Binaural /\ Failing
       \/ /\ GoTo("decide")
          /\ IF cfg.op \in Binaural
             THEN SpoolWrite(processed * FrameUnits + TailUnits - Latency)
             ELSE UNCHANGED <<position, heard, lastHeard>>
          /\ UNCHANGED <<disk, open, adm, processed, program, keep, used, fileVars>>
    /\ UNCHANGED <<cfg, before>>

\* Mutant: the index of the last sample heard is taken for a count.
Kept_OffByOne ==
    IF cfg.op = "speaker" THEN position
    ELSE Least(position, Greatest(program, IF lastHeard = 0 THEN 0 ELSE lastHeard - 1))

\* kept: the silent end of a binaural output is dropped.
Kept == IF cfg.op = "speaker" THEN position
        ELSE Least(position, Greatest(program, lastHeard))

\* decide_output_format fails when clipping is not to be written.
Decide ==
    /\ at = "decide"
    /\ keep' = Kept
    /\ \/ Return("failed", disk)
       \/ GoTo("openWav") /\ UNCHANGED <<disk, open>>
    /\ UNCHANGED <<cfg, before, adm, processed, position, heard, lastHeard, program, used,
                   fileVars>>

\* The header declares keep samples.  It may be what cannot be written.
OpenWav ==
    /\ at = "openWav"
    /\ \/ Return("failed", disk) /\ UNCHANGED declared
       \/ Return("failed", [disk EXCEPT !.output = "partial"]) /\ UNCHANGED declared
       \/ /\ GoTo("copy") /\ declared' = keep
          /\ disk' = [disk EXCEPT !.output = "partial"]
          /\ open' = open \cup {"output"}
    /\ UNCHANGED <<cfg, before, adm, processed, spoolVars, used, stored>>

\* copy_to: a block is read, which fails beyond the spool's end, and written,
\* which fails beyond what the header declares.
Copy ==
    /\ at = "copy" /\ stored < keep
    /\ LET done == Least(keep, stored + CopyBlock) IN
       \/ Failing
       \/ /\ done <= position /\ done <= declared
          /\ stored' = done
          /\ UNCHANGED <<at, result, disk, open, adm, processed, spoolVars, used, declared>>
    /\ UNCHANGED <<cfg, before>>

\* WavWriter::finalize.  Nothing removes a WAV that fails.
FinishWav ==
    /\ at = "copy" /\ stored = keep
    /\ \/ Failing
       \/ /\ stored = declared
          /\ GoTo("report")
          /\ disk' = [disk EXCEPT !.output = "whole"]
          /\ open' = open \ {"output"}
          /\ UNCHANGED <<adm, processed, spoolVars, used, fileVars>>
    /\ UNCHANGED <<cfg, before>>

\* The spool and the intermediate are closed, the work directory removed.  The
\* writes of the intermediate and its close are never tested: what is lost of it
\* stays lost, and the task succeeds.
Report ==
    /\ at = "report"
    /\ \E left \in {"partial", "whole"} :
          Return("ok", [disk EXCEPT !.work = "absent",
                                    !.objects = IF "objects" \in open THEN left ELSE @])
    /\ UNCHANGED <<cfg, before, adm, processed, spoolVars, used, fileVars>>

Returned == at = "done" /\ UNCHANGED vars

Next ==
    \/ Validate \/ Extract \/ Decode \/ Scan \/ SetUp
    \/ OpenAdm \/ OpenSpool \/ OpenObjects \/ OpenInputs
    \/ WriteFrame \/ FrameFails \/ Cancelled \/ FramesEnd
    \/ FinalizeAdm \/ Drain \/ Decide \/ OpenWav \/ Copy \/ FinishWav \/ Report
    \/ Returned

Spec == Init /\ [][Next]_vars

-----------------------------------------------------------------------------
\* A task that reports success has written what it says: the samples in the
\* output are those its header declares, all frames of the input are there, and
\* neither the spool nor the work directory is left.  A success says nothing of
\* the intermediate, whose writes are not tested.  (run, task.cpp:2185.)
SuccessIsWhole ==
    result = "ok" /\ ~cfg.metadataOnly =>
        /\ disk.output = "whole" /\ declared = stored
        /\ processed = cfg.frames
        /\ cfg.op \in {"adm", "speaker"} => stored = cfg.frames * FrameUnits
        /\ disk.work = "absent"
        /\ cfg.op # "adm" => disk.spool = "absent"

\* A PCM task replaces the file at its output path only once every frame has
\* been rendered and the runtime drained: whatever fails, or a cancellation,
\* before that leaves an earlier output as it was.  (task.cpp:2292.)
EarlierOutputSurvives ==
    cfg.op # "adm" /\ disk.output # before.output =>
        /\ processed = cfg.frames
        /\ cfg.op \in Binaural => position = cfg.frames * FrameUnits + TailUnits - Latency
        /\ keep = Kept

\* Whatever way the task ends, no file stays open and no spool of its own stays;
\* a partial output stays only where a WAV was being written from the spool, or
\* where closing a finished ADM file failed.  (The destructors, PcmSpool::close
\* and AdmBwfWriter::abort.)
NothingLeftBehind ==
    at = "done" =>
        /\ open = {}
        /\ disk.spool # "partial"
        /\ disk.output = "partial" =>
              IF cfg.op = "adm" THEN adm = "finalized" ELSE processed = cfg.frames

\* However a task ends, the files it leaves are those it should.
FilesEndWell == EarlierOutputSurvives /\ NothingLeftBehind

\* Trimming the silent end of a binaural output never drops a sample above the
\* threshold, nor one that was emitted before the runtime was finished, and
\* never asks the spool for more than it holds.  (PcmSpool::kept.)
HeardIsKept ==
    at \in {"openWav", "copy", "report"} =>
        /\ \A unit \in heard : unit < keep
        /\ program <= keep /\ keep <= position

=============================================================================
