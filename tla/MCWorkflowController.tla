------------------------ MODULE MCWorkflowController ------------------------
(***************************************************************************)
(* Constants for TLC runs of WorkflowController: the engines and the two   *)
(* agents are the point here, so that one flow of a single step is enough. *)
(***************************************************************************)
EXTENDS WorkflowController, TLC

CONSTANT s1

OneStepFlow == <<[id |-> s1, next |-> s1, conds |-> <<>>]>>

OneStepFlows == {OneStepFlow}

TwoIds == {1, 2}

\* Agents and engines are interchangeable; workflow ids are ordered.
NameSymmetry ==
    {f @@ g : f \in Permutations(Agents), g \in Permutations(Engines)}

=============================================================================
