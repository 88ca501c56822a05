-------------------------- MODULE MCFramePipeline --------------------------
(***************************************************************************)
(* Instances of FramePipeline for TLC: the inputs each run considers.      *)
(***************************************************************************)
EXTENDS FramePipeline, FiniteSets

NoFault == [r \in Rank |-> None]
AllOamd == [f \in Frame |-> "oamd"]

\* Every combination of failing frames, every frame with metadata.
FaultPlans ==
    {[meta |-> AllOamd, bed |-> None, fails |-> fails, inGroup |-> inGroup] :
        fails \in {g \in [Rank -> 0 .. N \cup {None}] : g[Dsp] # N /\ g[Write] # N},
        inGroup \in BOOLEAN}

\* Every pattern of metadata, no failures.
MetaPlans ==
    {[meta |-> meta, bed |-> None, fails |-> NoFault, inGroup |-> FALSE] :
        meta \in [Frame -> {"none", "joc", "oamd"}]}

\* Every frame that can be the first to declare a bed.
BedPlans ==
    {[meta |-> AllOamd, bed |-> bed, fails |-> NoFault, inGroup |-> FALSE] : bed \in Frame}

\* The bitstream fails at some frame, the bed is declared at, before or after it.
LateBedPlans ==
    {[meta |-> AllOamd, bed |-> bed, fails |-> [NoFault EXCEPT ![Joc] = f], inGroup |-> TRUE] :
        bed \in Frame, f \in Frame}

MixedPlans == FaultPlans \cup MetaPlans \cup BedPlans \cup LateBedPlans

=============================================================================
