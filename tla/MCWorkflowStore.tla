------------------------ MODULE MCWorkflowStore ------------------------
(***************************************************************************)
(* Constants for TLC runs of WorkflowStore.                                *)
(***************************************************************************)
EXTENDS WorkflowStore, TLC

CONSTANTS s1, s2, s3, ok, ng

Step(id, next, conds) == [id |-> id, next |-> next, conds |-> conds]

Cond(label, next) == [label |-> label, next |-> next]

\* A review loop: the second step branches back to the first or on to the
\* third, and a label without a target falls back to the pending steps.
ReviewFlow ==
    <<Step(s1, NoStep, <<>>),
      Step(s2, NoStep, <<Cond(ng, s1), Cond(ok, s3)>>),
      Step(s3, s3, <<>>)>>

\* Inline steps that no validation refuses: a repeated identifier and a
\* branch to a step that does not exist.
LooseFlow == <<Step(s1, NoStep, <<Cond(ng, s2)>>), Step(s1, NoStep, <<>>)>>

StepFlows == {ReviewFlow, LooseFlow}

OneId == {1}

TwoIds == {1, 2}

=============================================================================
