---------------------------- MODULE WorkflowSteps ----------------------------
(***************************************************************************)
(* The workflow record of packages/workflow-controller and the functions   *)
(* of store.ts and workflow-state-converter.ts that compute the next       *)
(* record from the previous one.  The disk, the tools and their            *)
(* interleavings are in WorkflowController; this module is pure.           *)
(*                                                                         *)
(* Abstractions.  Labels, facts, questions and plans are uninterpreted     *)
(* values.  The lists facts, openQuestions and completedStepIds are sets:  *)
(* the code tests only membership in them (includes, filter) and           *)
(* completedStepIds is kept free of duplicates.  The time stamps are left  *)
(* out, except that closedAt is the Boolean "closed".  The step status     *)
(* "skipped" of types.ts is assigned nowhere.                              *)
(***************************************************************************)
EXTENDS Naturals, Sequences, FiniteSets, FiniteSetsExt

CONSTANTS
    StepIds,        \* identifiers a step may carry or a call may name
    NoStep,         \* an absent (or empty) step identifier
    Labels,         \* labels of conditional branches
    NoLabel,        \* conditionLabel not given
    Facts,          \* texts for facts
    Questions,      \* texts for openQuestions
    Reasons,        \* texts for blockedReasons
    Plans,          \* texts that calls pass as currentPlan
    EmptyPlan,      \* the empty plan text ""
    NoPlan,         \* plan argument not given
    Issues,         \* GitHub issue numbers
    NoIssue,        \* no issue linked
    Repos,          \* GitHub repositories
    NoRepo,         \* no repository given
    FlowDefs        \* the step lists workflow_create is called with

\* One entry of WorkflowStep.conditions, and the immutable part of a step.
Condition == [label : Labels, next : StepIds \cup {NoStep}]

StepDef ==
    [id : StepIds, next : StepIds \cup {NoStep}, conds : Seq(Condition)]

ASSUME StepIdsAssumption == NoStep \notin StepIds

ASSUME LabelsAssumption == NoLabel \notin Labels

ASSUME PlansAssumption == NoPlan \notin Plans \cup {EmptyPlan}

ASSUME IssuesAssumption == NoIssue \notin Issues /\ NoRepo \notin Repos

\* createWorkflow refuses an empty step list; nothing else is validated for
\* inline steps: identifiers may repeat and targets may not exist.
ASSUME FlowDefsAssumption ==
    \A d \in FlowDefs : d \in Seq(StepDef) /\ d # <<>>

Status == {"pending", "running", "completed", "blocked"}

\* WorkflowState: "def" holds the immutable fields of the steps, "status"
\* and "reasons" their mutable ones.
WorkflowOf(d) ==
    [def       : {d},
     status    : [DOMAIN d -> Status],
     reasons   : [DOMAIN d -> SUBSET Reasons],
     cur       : StepIds,
     done      : SUBSET StepIds,
     facts     : SUBSET Facts,
     questions : SUBSET Questions,
     plan      : Plans \cup {EmptyPlan},
     issue     : Issues \cup {NoIssue},
     repo      : Repos \cup {NoRepo},
     closed    : BOOLEAN]

Workflow == UNION {WorkflowOf(d) : d \in FlowDefs}

-----------------------------------------------------------------------------
(* Lookups. *)

StepsWithId(def, id) == {i \in DOMAIN def : def[i].id = id}

HasStep(def, id) == StepsWithId(def, id) # {}

\* steps.find((s) => s.id === id)
StepIndex(def, id) == Min(StepsWithId(def, id))

PendingSteps(status) == {i \in DOMAIN status : status[i] = "pending"}

\* params.stepId ?? state.currentStepId
TargetId(wf, stepId) == IF stepId = NoStep THEN wf.cur ELSE stepId

MatchingConds(step, label) ==
    {k \in DOMAIN step.conds : step.conds[k].label = label}

\* MUTANT: the step's default target is ignored.
ResolveNextStepIdWithoutDefault(step, label) ==
    IF label # NoLabel /\ MatchingConds(step, label) # {}
    THEN step.conds[Min(MatchingConds(step, label))].next
    ELSE NoStep

\* First matching label, else the default next step, else none.
ResolveNextStepId(step, label) ==
    IF label # NoLabel /\ MatchingConds(step, label) # {}
    THEN step.conds[Min(MatchingConds(step, label))].next
    ELSE step.next

-----------------------------------------------------------------------------
(* Operations of store.ts and of the workflow_update_context tool. *)

CreateWorkflow(def, plan, issue, repo) ==
    [def       |-> def,
     status    |-> [i \in DOMAIN def |-> IF i = 1 THEN "running" ELSE "pending"],
     reasons   |-> [i \in DOMAIN def |-> {}],
     cur       |-> def[1].id,
     done      |-> {},
     facts     |-> {},
     questions |-> {},
     plan      |-> IF plan = NoPlan THEN EmptyPlan ELSE plan,
     issue     |-> issue,
     repo      |-> repo,
     closed    |-> FALSE]

AdvanceArgs ==
    [step      : StepIds \cup {NoStep},
     label     : Labels \cup {NoLabel},
     facts     : SUBSET Facts,
     resolved  : SUBSET Questions,
     questions : SUBSET Questions,
     plan      : Plans \cup {NoPlan}]

CompletedIndex(wf, p) == StepIndex(wf.def, TargetId(wf, p.step))

AdvanceTarget(wf, p) == ResolveNextStepId(wf.def[CompletedIndex(wf, p)], p.label)

\* advanceStep throws, before anything is saved, on an unknown step and on a
\* transition to a step that does not exist.
CanAdvance(wf, p) ==
    /\ HasStep(wf.def, TargetId(wf, p.step))
    /\ \/ AdvanceTarget(wf, p) = NoStep
       \/ HasStep(wf.def, AdvanceTarget(wf, p))

\* MUTANT: a blocking reason survives the completion of its step.
MarkCompletedKeepingReasons(wf, p) ==
    [wf EXCEPT !.status = [wf.status EXCEPT ![CompletedIndex(wf, p)] = "completed"],
               !.done   = wf.done \cup {TargetId(wf, p.step)}]

\* MUTANT: completion by a branch label leaves the step's status alone.
MarkCompletedUnlessBranch(wf, p) ==
    [wf EXCEPT !.status  = IF p.label # NoLabel THEN wf.status
                           ELSE [wf.status EXCEPT ![CompletedIndex(wf, p)] = "completed"],
               !.reasons = [wf.reasons EXCEPT ![CompletedIndex(wf, p)] = {}],
               !.done    = wf.done \cup {TargetId(wf, p.step)}]

MarkCompleted(wf, p) ==
    [wf EXCEPT !.status  = [wf.status EXCEPT ![CompletedIndex(wf, p)] = "completed"],
               !.reasons = [wf.reasons EXCEPT ![CompletedIndex(wf, p)] = {}],
               !.done    = wf.done \cup {TargetId(wf, p.step)}]

\* MUTANT: the search for a pending step skips the one behind the target.
EnterCandidatesSkippingOne(wf, p) ==
    IF AdvanceTarget(wf, p) # NoStep
    THEN StepsWithId(wf.def, AdvanceTarget(wf, p))
    ELSE {i \in PendingSteps(wf.status) : i > CompletedIndex(wf, p) + 1}

\* The steps that may be entered once the target is completed: the resolved
\* one, otherwise the pending ones.
EnterCandidates(wf, p) ==
    IF AdvanceTarget(wf, p) # NoStep
    THEN StepsWithId(wf.def, AdvanceTarget(wf, p))
    ELSE PendingSteps(wf.status)

\* MUTANT: currentStepId moves, the step it names is not started.
EnterNextUnstarted(wf, p) ==
    IF EnterCandidates(wf, p) = {} THEN wf
    ELSE [wf EXCEPT !.cur = wf.def[Min(EnterCandidates(wf, p))].id]

\* MUTANT: currentStepId becomes what resolveNextStepId returned, also null.
EnterNextUnresolved(wf, p) ==
    IF EnterCandidates(wf, p) = {} THEN [wf EXCEPT !.cur = AdvanceTarget(wf, p)]
    ELSE LET j == Min(EnterCandidates(wf, p))
         IN  [wf EXCEPT !.status = [wf.status EXCEPT ![j] = "running"],
                        !.cur    = wf.def[j].id]

EnterNext(wf, p) ==
    IF EnterCandidates(wf, p) = {} THEN wf
    ELSE LET j == Min(EnterCandidates(wf, p))
         IN  [wf EXCEPT !.status = [wf.status EXCEPT ![j] = "running"],
                        !.cur    = wf.def[j].id]

\* Questions are resolved before new ones are added; an empty plan is no plan.
Learn(wf, p) ==
    [wf EXCEPT !.facts     = wf.facts \cup p.facts,
               !.questions = (wf.questions \ p.resolved) \cup p.questions,
               !.plan      = IF p.plan \in {NoPlan, EmptyPlan} THEN wf.plan ELSE p.plan]

AdvanceStep(wf, p) == Learn(EnterNext(MarkCompleted(wf, p), p), p)

\* blockStep: whatever the status was.
BlockStep(wf, stepId, reasons) ==
    LET i == StepIndex(wf.def, TargetId(wf, stepId))
    IN  [wf EXCEPT !.status  = [wf.status EXCEPT ![i] = "blocked"],
                   !.reasons = [wf.reasons EXCEPT ![i] = reasons]]

CloseWorkflow(wf) == [wf EXCEPT !.closed = TRUE]

UpdateArgs ==
    [addFacts    : SUBSET Facts,
     removeFacts : SUBSET Facts,
     addQs       : SUBSET Questions,
     resolveQs   : SUBSET Questions,
     plan        : Plans \cup {NoPlan}]

\* Unlike advanceStep it adds before it removes, and accepts the empty plan.
UpdateContext(wf, p) ==
    [wf EXCEPT !.facts     = (wf.facts \cup p.addFacts) \ p.removeFacts,
               !.questions = (wf.questions \cup p.addQs) \ p.resolveQs,
               !.plan      = IF p.plan = NoPlan THEN wf.plan ELSE p.plan]

-----------------------------------------------------------------------------
(* workflow-state-converter.ts: a second, pure implementation of advance. *)

\* MUTANT: the steps' blocking reasons are copied along.
ConvertedAdvanceKeepingReasons(wf, p) ==
    LET id     == TargetId(wf, p.step)
        hits   == StepsWithId(wf.def, id)
        marked == [i \in DOMAIN wf.status |->
                      IF i \in hits THEN "completed" ELSE wf.status[i]]
        next   == IF hits = {} THEN NoStep
                  ELSE ResolveNextStepId(wf.def[Min(hits)], p.label)
        enter  == IF next # NoStep THEN StepsWithId(wf.def, next)
                  ELSE PendingSteps(marked)
    IN  [wf EXCEPT
            !.status = IF enter = {} THEN marked
                       ELSE [marked EXCEPT ![Min(enter)] = "running"],
            !.cur    = IF enter = {} THEN id ELSE wf.def[Min(enter)].id,
            !.done   = wf.done \cup {id}]

\* Every step with the identifier is completed, not only the first one; an
\* unknown step is recorded as done instead of being refused; the empty plan
\* is a plan; and without a next step the target becomes current.  It throws
\* on a transition to a step that does not exist, as advanceStep does.
ConvertedAdvance(wf, p) ==
    LET id     == TargetId(wf, p.step)
        hits   == StepsWithId(wf.def, id)
        marked == [i \in DOMAIN wf.status |->
                      IF i \in hits THEN "completed" ELSE wf.status[i]]
        next   == IF hits = {} THEN NoStep
                  ELSE ResolveNextStepId(wf.def[Min(hits)], p.label)
        enter  == IF next # NoStep THEN StepsWithId(wf.def, next)
                  ELSE PendingSteps(marked)
    IN  [wf EXCEPT
            !.status    = IF enter = {} THEN marked
                          ELSE [marked EXCEPT ![Min(enter)] = "running"],
            !.reasons   = [i \in DOMAIN wf.reasons |->
                              IF i \in hits THEN {} ELSE wf.reasons[i]],
            !.cur       = IF enter = {} THEN id ELSE wf.def[Min(enter)].id,
            !.done      = wf.done \cup {id},
            !.facts     = wf.facts \cup p.facts,
            !.questions = (wf.questions \ p.resolved) \cup p.questions,
            !.plan      = IF p.plan = NoPlan THEN wf.plan ELSE p.plan]

=============================================================================
