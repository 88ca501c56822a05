-------------------------- MODULE SyncframeMetadata --------------------------
(***************************************************************************)
(* From the bits of syncframes to what a frame is rendered with: the loop  *)
(* body of Stream::push_eac3 and flush_pending_frame, over the parsers of  *)
(* containers, JOC and OAMD payloads and the bed plan.  Stream models when *)
(* this happens; here is what comes out of it.                             *)
(***************************************************************************)
EXTENDS JocPayload

OA == INSTANCE Oamd

CONSTANT
    Programs    \* sequences of audio frames, each a sequence of syncframes

VARIABLES
    program,    \* the input: what is pushed
    at,         \* how far it is read: <<audio frame, syncframe>>
    entry,      \* pending_frame_
    plan,       \* bed_plan_, once the first frame with JOC resolved it
    planOf,     \* the audio frame it was resolved from
    status      \* what the calls returned: "ok" or an error

vars == <<program, at, entry, plan, planOf, status>>

NoEntry == [hasCore |-> FALSE, acmod |-> 0, lfeon |-> FALSE, hasDependent |-> FALSE,
            hasChanmap |-> FALSE, chanmap |-> {}, params |-> SilentFrame, hasJoc |-> FALSE,
            hasUpdate |-> FALSE, update |-> <<>>, outer |-> 0, beds |-> <<>>, extra |-> FALSE]

Init ==
    /\ program \in Programs
    /\ at = <<1, 1>>
    /\ entry = NoEntry
    /\ plan = NoPlan("none yet") /\ planOf = 0
    /\ status = "ok"

Syncframe(f, s) == program[f][s]

\* The header's part of the frame under assembly.
WithHeader(e, s) ==
    IF s.core THEN [e EXCEPT !.hasCore = TRUE, !.acmod = s.acmod, !.lfeon = s.lfeon]
    ELSE IF s.hasChanmap
         THEN [e EXCEPT !.hasDependent = TRUE, !.hasChanmap = TRUE, !.chanmap = s.chanmap]
         ELSE [e EXCEPT !.hasDependent = TRUE]

\* The payloads of a container, onto the frame: an error or the new frame.
\* Bed assignments are those of this container; the rest is kept if it has none.
WithParsed(e, found, joc, oamd, assignments) ==
    IF ~joc.ok THEN [ok |-> FALSE, error |-> "joc"]
    ELSE IF ~oamd.ok THEN [ok |-> FALSE, error |-> oamd.error]
    ELSE [ok |-> TRUE,
          entry |-> [e EXCEPT !.params = joc, !.hasJoc = TRUE, !.hasUpdate = TRUE,
                              !.update = oamd, !.outer = Payload(found.container, OamdId).offset,
                              !.beds = assignments.beds, !.extra = found.extra]]

WithPayloads(e, bits, found) ==
    WithParsed(e, found, ParseId14(ExtractPayload(bits, found.container, JocId)),
               OA!ParseId11(ExtractPayload(bits, found.container, OamdId)),
               OA!ParseBedAssignments(ExtractPayload(bits, found.container, OamdId)))

\* One syncframe of the audio frame under assembly.
ReadSyncframe ==
    /\ status = "ok" /\ at[1] <= Len(program) /\ at[2] <= Len(program[at[1]])
    /\ LET s == Syncframe(at[1], at[2])
           e == WithHeader(entry, s)
       IN \E found \in {FindJoc(s.bits, Scores(s.bits))} :
            \/ /\ found.is = "ambiguous"
               /\ status' = "emdf" /\ entry' = e
            \/ /\ found.is = "absent"
               /\ entry' = e /\ UNCHANGED status
            \/ /\ found.is = "found"
               /\ \E read \in {WithPayloads(e, s.bits, found)} :
                    /\ status' = IF read.ok THEN "ok" ELSE read.error
                    /\ entry' = IF read.ok THEN read.entry ELSE e
    /\ at' = <<at[1], at[2] + 1>>
    /\ UNCHANGED <<program, plan, planOf>>

\* flush_pending_frame, and resolve_bed_plan before the frame is rendered.
CloseFrame ==
    /\ status = "ok" /\ at[1] <= Len(program) /\ at[2] > Len(program[at[1]])
    /\ \/ /\ ~entry.hasJoc
          /\ UNCHANGED <<plan, planOf, status>>
       \/ /\ entry.hasJoc
          /\ \E checked \in {CheckCrossLayer(entry.params.config, entry.params.ext, entry, entry.beds)},
                resolved \in {ComputeBedPlan(entry, entry.params.config)} :
                \/ /\ ~checked.ok
                   /\ status' = checked.reason /\ UNCHANGED <<plan, planOf>>
                \/ /\ checked.ok /\ planOf # 0
                   /\ UNCHANGED <<plan, planOf, status>>
                \/ /\ checked.ok /\ planOf = 0
                   /\ plan' = resolved
                   /\ IF resolved.ok THEN planOf' = at[1] /\ UNCHANGED status
                      ELSE status' = resolved.reason /\ UNCHANGED planOf
    /\ entry' = NoEntry
    /\ at' = <<at[1] + 1, 1>>
    /\ UNCHANGED program

Next == ReadSyncframe \/ CloseFrame

Spec == Init /\ [][Next]_vars

=============================================================================
