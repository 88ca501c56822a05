----------------------------- MODULE RenderTask -----------------------------
(***************************************************************************)
(* What a file task promises to the one who runs it: frames reach the      *)
(* output one by one, and the task ends once, "ok" only with all N frames  *)
(* of an input without failures, "failed" only if the input holds one, and *)
(* "cancelled" only if that was asked for.  plan.fails holds the frames at *)
(* which the stages fail, None (N + 1) for never.                          *)
(***************************************************************************)
EXTENDS Naturals

CONSTANTS N, Adm, Plans

VARIABLES plan, out, verdict, asked

taskVars == <<plan, out, verdict, asked>>

\* Whether some stage the task runs fails; ADM tasks have no DSP (rank 1).
Faulty == \E r \in DOMAIN plan.fails : plan.fails[r] <= N /\ ~(Adm /\ r = 1)

TaskInit ==
    /\ plan \in Plans
    /\ out = 0
    /\ verdict = "running"
    /\ asked = FALSE

WriteNext ==
    /\ verdict = "running"
    /\ out < N
    /\ out' = out + 1
    /\ UNCHANGED <<plan, verdict, asked>>

Ask ==
    /\ ~asked
    /\ asked' = TRUE
    /\ UNCHANGED <<plan, out, verdict>>

End ==
    /\ verdict = "running"
    /\ \/ verdict' = "ok" /\ out = N /\ ~Faulty
       \/ verdict' = "failed" /\ Faulty
       \/ verdict' = "cancelled" /\ asked
    /\ UNCHANGED <<plan, out, asked>>

TaskNext == WriteNext \/ Ask \/ End

TaskSpec == TaskInit /\ [][TaskNext]_taskVars

=============================================================================
