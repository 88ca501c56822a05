---------------------------- MODULE JocCoreCalls ----------------------------
(***************************************************************************)
(* What the JOC core promises: a call takes effect as a whole, as if one   *)
(* thread did its jobs one after the other, whatever threads there are.    *)
(***************************************************************************)
EXTENDS JocCore

VARIABLES
    memory,   \* what the core remembers between calls
    result    \* what the last call wrote

Init == memory = FreshCore /\ result = NoOutput

Process(f) ==
    /\ f.fault = "none"
    /\ memory' = Processed(memory, f)
    /\ result' = Rendered(memory, f)

\* A call the checks refuse leaves the output and every memory alone.
Refuse(f) == f.fault # "none" /\ UNCHANGED <<memory, result>>

Reset == memory' = FreshCore /\ UNCHANGED result

Next == Reset \/ \E f \in Frames : Process(f) \/ Refuse(f)

Spec == Init /\ [][Next]_<<memory, result>>

=============================================================================
