------------------------------ MODULE TaskFlows ------------------------------
(***************************************************************************)
(* The six built-in flows (packages/workflow-controller/src/taskflows)     *)
(* driven through advanceStep and blockStep, always on the current step.   *)
(* Labels and step names are shortened; texts shown to the agent are left  *)
(* out.  The agent that follows a flow names one of the labels of the      *)
(* current step, where it has any, and advances plainly where it has none; *)
(* nothing in the code keeps another agent from mixing them up.            *)
(***************************************************************************)
EXTENDS Naturals, Sequences, FiniteSets

CONSTANTS
    Flows       \* the built-in flows that workflows are created from

Step(id, next, conds) == [id |-> id, next |-> next, conds |-> conds]

Cond(label, next) == [label |-> label, next |-> next]

None == "none"

TaskFlow ==
    <<Step("requirements",   None, <<Cond("PASS", "issue_register"), Cond("NG", "requirements")>>),
      Step("issue_register", None, <<Cond("design", "design"), Cond("split", "task_split")>>),
      Step("design",         None, <<Cond("PASS", "task_split"), Cond("NG", "design")>>),
      Step("task_split",     None, <<Cond("PASS", "execution"), Cond("NG", "task_split"),
                                     Cond("no_execution", "acceptance")>>),
      Step("execution",      None, <<>>),
      Step("review",         None, <<Cond("PASS", "acceptance"), Cond("NG", "execution")>>),
      Step("acceptance",     None, <<>>)>>

CommandFlow ==
    <<Step("issue_register", None, <<>>),
      Step("task_split",     None, <<Cond("PASS", "execution"), Cond("NG", "task_split")>>),
      Step("execution",      None, <<>>),
      Step("review",         None, <<Cond("PASS", "complete"), Cond("NG", "execution")>>),
      Step("complete",       None, <<>>)>>

BugFlow ==
    <<Step("issue_register", None, <<>>),
      Step("investigate",    None, <<>>),
      Step("triage",         None, <<Cond("act", "task_split"), Cond("decline", "close_no_fix"),
                                     Cond("again", "investigate")>>),
      Step("task_split",     None, <<Cond("PASS", "execution"), Cond("NG", "task_split")>>),
      Step("execution",      None, <<>>),
      Step("review",         None, <<Cond("PASS", "complete"), Cond("NG", "execution")>>),
      Step("complete",       "complete", <<>>),
      Step("close_no_fix",   "close_no_fix", <<>>)>>

ConsultFlow ==
    <<Step("issue_register", None, <<>>),
      Step("analysis",       None, <<Cond("act", "task_spawn"), Cond("decline", "complete")>>),
      Step("task_spawn",     "task_spawn", <<>>),
      Step("complete",       "complete", <<>>)>>

IdeaFlow ==
    <<Step("issue_register", None, <<>>),
      Step("evaluation",     None, <<Cond("act", "task_spawn"), Cond("decline", "close_rejected"),
                                     Cond("again", "evaluation")>>),
      Step("task_spawn",     "task_spawn", <<>>),
      Step("close_rejected", "close_rejected", <<>>)>>

\* MUTANT: a transition to a step that was renamed.
ReportFlowDangling ==
    <<Step("issue_register", None, <<>>),
      Step("respond",        "done", <<>>),
      Step("complete",       None, <<>>)>>

ReportFlow ==
    <<Step("issue_register", None, <<>>),
      Step("respond",        None, <<>>),
      Step("complete",       None, <<>>)>>

\* getTaskFlow
FlowMap ==
    [task   |-> TaskFlow,   command |-> CommandFlow, consult |-> ConsultFlow,
     bug    |-> BugFlow,    report  |-> ReportFlow,  idea    |-> IdeaFlow]

ASSUME FlowsAssumption == Flows \subseteq DOMAIN FlowMap

FlowSteps == UNION {{FlowMap[f][i] : i \in DOMAIN FlowMap[f]} : f \in Flows}

AllLabels == UNION {{s.conds[k].label : k \in DOMAIN s.conds} : s \in FlowSteps}

VARIABLES
    flow,       \* the built-in flow of the workflow
    wf,         \* its saved record
    owed,       \* history: positions of the checks that sent the work back
                \* and have not been completed again
    waived      \* history: "no_execution" was chosen

vars == <<flow, wf, owed, waived>>

INSTANCE WorkflowSteps WITH
    StepIds <- {s.id : s \in FlowSteps}, NoStep <- None,
    Labels <- AllLabels, NoLabel <- None, Facts <- {"fact"}, Questions <- {"question"},
    Reasons <- {"waiting"}, Plans <- {"plan", ""}, EmptyPlan <- "", NoPlan <- None,
    Issues <- {}, NoIssue <- 0, Repos <- {}, NoRepo <- 0,
    FlowDefs <- {FlowMap[f] : f \in Flows}

\* workflow_create with the definition of a built-in flow.
Init ==
    /\ flow \in Flows
    /\ wf = CreateWorkflow(FlowMap[flow], None, 0, 0)
    /\ owed = {}
    /\ waived = FALSE

-----------------------------------------------------------------------------

CurrentStep == wf.def[StepIndex(wf.def, wf.cur)]

CurrentLabels == {CurrentStep.conds[k].label : k \in DOMAIN CurrentStep.conds}

\* The call that completes the current step, with a label or without, and
\* may leave a question open.
Completing(label, questions) ==
    [step |-> None, label |-> label, facts |-> {}, resolved |-> {},
     questions |-> questions, plan |-> None]

\* The step resolved for the call lies before the one it completes.
SendsBack(p) ==
    /\ AdvanceTarget(wf, p) # None
    /\ StepIndex(wf.def, AdvanceTarget(wf, p)) < CompletedIndex(wf, p)

CompleteCurrent(label) ==
    \E questions \in SUBSET {"question"} :
        LET p == Completing(label, questions)
            i == CompletedIndex(wf, p)
        IN  /\ CanAdvance(wf, p)
            /\ wf' = AdvanceStep(wf, p)
            /\ owed' = IF SendsBack(p) THEN owed \cup {i} ELSE owed \ {i}
            /\ waived' = (waived \/ label = "no_execution")
            /\ UNCHANGED flow

\* As the flow and the tool descriptions have it.
Follow ==
    \/ \E label \in CurrentLabels : CompleteCurrent(label)
    \/ CurrentLabels = {} /\ CompleteCurrent(None)

\* A label the step does not have, or none where it has some.
Stray ==
    \/ \E label \in AllLabels \ CurrentLabels : CompleteCurrent(label)
    \/ CurrentLabels # {} /\ CompleteCurrent(None)

BlockCurrent ==
    /\ \E r \in SUBSET {"waiting"} : wf' = BlockStep(wf, None, r)
    /\ UNCHANGED <<flow, owed, waived>>

Next == Follow \/ Stray \/ BlockCurrent

Spec == Init /\ [][Next]_vars

\* Only agents that follow their flow.
FollowSpec == Init /\ [][Follow \/ BlockCurrent]_vars

-----------------------------------------------------------------------------
(* Properties. *)

StatusOf(id) == wf.status[StepIndex(wf.def, id)]

Entered(id) == HasStep(wf.def, id) /\ StatusOf(id) # "pending"

\* Whatever the labels, a workflow never takes both of two alternative
\* outcomes, though the untaken one stays pending and a step without a
\* target falls back to the pending ones (bug.ts, consult.ts, idea.ts).
OutcomesExclusive ==
    /\ flow = "bug" => ~ (Entered("complete") /\ Entered("close_no_fix"))
    /\ flow = "consult" => ~ (Entered("task_spawn") /\ Entered("complete"))
    /\ flow = "idea" => ~ (Entered("task_spawn") /\ Entered("close_rejected"))

Done(id) == HasStep(wf.def, id) /\ id \in wf.done

\* Work is accepted or completed only after it was executed, or after the
\* agent chose "no_execution"; a label that does not match, or is left out,
\* skips decisions but never the execution (task.ts, bug.ts, command.ts).
ClosedOnlyAfterExecution ==
    /\ flow = "task" /\ Entered("acceptance") => Done("execution") \/ waived
    /\ flow \in {"bug", "command"} /\ Entered("complete") => Done("execution")

\* Every step of every built-in flow can be completed with every label it
\* offers: no transition of the definitions leads nowhere, which would make
\* advanceStep throw on that call for ever (store.ts:199).
NeverStuck ==
    \A label \in CurrentLabels \cup {None} : CanAdvance(wf, Completing(label, {}))

\* README.md:36: the order of the standard flow is execution, review,
\* acceptance.  A check that sent the work back has passed before the flow
\* goes on to the steps behind it.
ReworkIsChecked == \A i \in owed : StepIndex(wf.def, wf.cur) =< i

=============================================================================
