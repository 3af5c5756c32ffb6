---------------------------- MODULE WorkflowStore ----------------------------
(***************************************************************************)
(* The workflow files of each agent and the handlers that read and write   *)
(* them (packages/workflow-controller: src/store.ts, src/tools.ts).        *)
(*                                                                         *)
(* Every handler runs from its load to its save without yielding, with one *)
(* exception: workflow_update_context loads the record, edits it and then  *)
(* awaits a dynamic import before it saves.  It is two actions, between    *)
(* which any other handler, and another such call, may run.  saveWorkflow  *)
(* writes a temporary file and renames it, so a save is atomic also when   *)
(* the process dies.  A handler that answers with an error changes nothing *)
(* and is not enabled here.                                                *)
(***************************************************************************)
EXTENDS WorkflowSteps

CONSTANTS
    Agents,         \* agents, each with an agentDir of its own
    WorkflowIds,    \* file names; their order is the order readdir lists them
    NoWorkflow,     \* no file of that name
    Calls,          \* slots for workflow_update_context calls in progress
    Idle            \* an unused slot

VARIABLES
    disk,       \* agent -> workflow id -> saved record
    call,       \* slot -> update_context call waiting for its import
    strayed     \* history: the workflows in which a call completed, by its
                \* name, a step other than the current one

storeVars == <<disk, call, strayed>>

PendingCall ==
    [agent : Agents, id : WorkflowIds, base : Workflow, args : UpdateArgs]

ASSUME WorkflowIdsAssumption == WorkflowIds \subseteq Nat

ASSUME SentinelsAssumption ==
    NoWorkflow \notin Workflow /\ Idle \notin PendingCall

StoreTypeOK ==
    /\ disk \in [Agents -> [WorkflowIds -> Workflow \cup {NoWorkflow}]]
    /\ call \in [Calls -> PendingCall \cup {Idle}]
    /\ strayed \subseteq Agents \X WorkflowIds

StoreInit ==
    /\ disk = [a \in Agents |-> [w \in WorkflowIds |-> NoWorkflow]]
    /\ call = [c \in Calls |-> Idle]
    /\ strayed = {}

-----------------------------------------------------------------------------
(* State functions. *)

\* listWorkflows
Saved(a) == {w \in WorkflowIds : disk[a][w] # NoWorkflow}

ForIssue(a, issue, repo) ==
    {w \in Saved(a) : /\ disk[a][w].issue = issue
                      /\ repo # NoRepo => disk[a][w].repo = repo}

\* The first file, in directory order, of that issue.
FindWorkflowByIssue(a, issue, repo) == Min(ForIssue(a, issue, repo))

SaveWorkflow(a, w, wf) == disk' = [disk EXCEPT ![a][w] = wf]

-----------------------------------------------------------------------------
(* The handlers, called for agent a. *)

\* MUTANT: the identifier is not fresh (say, made from the issue number).
CreateReusingId(a, w, def, plan, issue, repo) ==
    /\ SaveWorkflow(a, w, CreateWorkflow(def, plan, issue, repo))
    /\ UNCHANGED <<call, strayed>>

\* workflow_create: a random identifier, and no check for an older workflow
\* of the same issue.
Create(a, w, def, plan, issue, repo) ==
    /\ \A b \in Agents : w \notin Saved(b)
    /\ SaveWorkflow(a, w, CreateWorkflow(def, plan, issue, repo))
    /\ UNCHANGED <<call, strayed>>

\* advanceStep does not ask whether the workflow is archived.
Complete(a, w, p) ==
    /\ w \in Saved(a)
    /\ CanAdvance(disk[a][w], p)
    /\ SaveWorkflow(a, w, AdvanceStep(disk[a][w], p))
    /\ strayed' = IF TargetId(disk[a][w], p.step) = disk[a][w].cur
                  THEN strayed ELSE strayed \cup {<<a, w>>}
    /\ UNCHANGED call

\* workflow_advance passes no label ...
Advance(a, w) == \E p \in AdvanceArgs : p.label = NoLabel /\ Complete(a, w, p)

\* ... and workflow_branch no questions.
Branch(a, w) ==
    \E p \in AdvanceArgs :
        /\ p.label # NoLabel
        /\ p.resolved = {}
        /\ p.questions = {}
        /\ Complete(a, w, p)

Block(a, w, stepId, reasons) ==
    /\ w \in Saved(a)
    /\ HasStep(disk[a][w].def, TargetId(disk[a][w], stepId))
    /\ SaveWorkflow(a, w, BlockStep(disk[a][w], stepId, reasons))
    /\ UNCHANGED <<call, strayed>>

\* workflow_update_context up to its await: the record is read ...
UpdateBegin(a, w, c, p) ==
    /\ w \in Saved(a)
    /\ call[c] = Idle
    /\ call' = [call EXCEPT ![c] = [agent |-> a, id |-> w, base |-> disk[a][w], args |-> p]]
    /\ UNCHANGED <<disk, strayed>>

\* ... and the edited copy of what was read then is saved.
UpdateEnd(c) ==
    /\ call[c] # Idle
    /\ SaveWorkflow(call[c].agent, call[c].id, UpdateContext(call[c].base, call[c].args))
    /\ call' = [call EXCEPT ![c] = Idle]
    /\ UNCHANGED strayed

\* workflow_resume finds an open workflow and is told its issue is closed.
Archive(a, issue, repo) ==
    LET w == FindWorkflowByIssue(a, issue, repo)
    IN  /\ ForIssue(a, issue, repo) # {}
        /\ ~ disk[a][w].closed
        /\ SaveWorkflow(a, w, CloseWorkflow(disk[a][w]))
        /\ UNCHANGED <<call, strayed>>

\* The process ends at any point; only the files survive.
Crash ==
    /\ call' = [c \in Calls |-> Idle]
    /\ UNCHANGED <<disk, strayed>>

StoreNext ==
    \/ \E a \in Agents, w \in WorkflowIds, def \in FlowDefs,
          plan \in Plans \cup {NoPlan},
          issue \in Issues \cup {NoIssue}, repo \in Repos \cup {NoRepo} :
              Create(a, w, def, plan, issue, repo)
    \/ \E a \in Agents, w \in WorkflowIds : Advance(a, w)
    \/ \E a \in Agents, w \in WorkflowIds : Branch(a, w)
    \/ \E a \in Agents, w \in WorkflowIds, s \in StepIds \cup {NoStep},
          r \in SUBSET Reasons : Block(a, w, s, r)
    \/ \E a \in Agents, w \in WorkflowIds, c \in Calls, p \in UpdateArgs :
              UpdateBegin(a, w, c, p)
    \/ \E c \in Calls : UpdateEnd(c)
    \/ \E a \in Agents, issue \in Issues, repo \in Repos \cup {NoRepo} :
              Archive(a, issue, repo)
    \/ Crash

StoreSpec == StoreInit /\ [][StoreNext]_storeVars

-----------------------------------------------------------------------------
(* Safety. *)

\* The records a later save may write: the saved ones and those that an
\* update_context call holds.
Records ==
    ({disk[a][w] : a \in Agents, w \in WorkflowIds} \ {NoWorkflow})
        \cup {call[c].base : c \in {d \in Calls : call[d] # Idle}}

DistinctIds(def) == \A i, j \in DOMAIN def : def[i].id = def[j].id => i = j

Bookkept(wf) ==
    /\ \A i \in DOMAIN wf.def :
          wf.status[i] = "completed" => wf.def[i].id \in wf.done /\ wf.reasons[i] = {}
    /\ DistinctIds(wf.def) =>
          \A i \in DOMAIN wf.def : wf.status[i] = "pending" => wf.def[i].id \notin wf.done

\* Step states and completedStepIds agree in every record, whatever branches
\* back, blocks, repeats and stale saves have happened: a completed step is
\* listed and carries no blocking reason, and a step that is still pending
\* was never completed (advanceStep, blockStep).
StepBookkeeping == \A wf \in Records : Bookkept(wf)

Started(wf) ==
    \E i \in DOMAIN wf.def : wf.def[i].id = wf.cur /\ wf.status[i] # "pending"

\* currentStepId always names an existing step that was entered, so that a
\* call that leaves stepId out always finds its step (advanceStep).
CurrentStarted == \A wf \in Records : Started(wf)

RunsOnlyCurrent(wf) ==
    \A i \in DOMAIN wf.def : wf.status[i] = "running" => wf.def[i].id = wf.cur

\* In a flow with distinct step ids at most the current step is running, as
\* long as no call completed another step by its name: a step left running
\* behind the current one is what the stepId argument can cause, and nothing
\* else, a stale save included (advanceStep, blockStep).
SingleRunning ==
    /\ \A a \in Agents : \A w \in Saved(a) :
          <<a, w>> \notin strayed /\ DistinctIds(disk[a][w].def)
              => RunsOnlyCurrent(disk[a][w])
    /\ \A c \in Calls :
          call[c] # Idle /\ <<call[c].agent, call[c].id>> \notin strayed
              /\ DistinctIds(call[c].base.def)
              => RunsOnlyCurrent(call[c].base)

CompletedSteps(wf) == {i \in DOMAIN wf.def : wf.status[i] = "completed"}

TwinsCompleted(wf, id) ==
    [wf EXCEPT
        !.status  = [i \in DOMAIN wf.def |->
                        IF wf.def[i].id = id THEN "completed" ELSE wf.status[i]],
        !.reasons = [i \in DOMAIN wf.def |->
                        IF wf.def[i].id = id THEN {} ELSE wf.reasons[i]]]

\* What advanceStep saves once every step with the identifier is completed,
\* but the empty plan is kept and, where nothing is entered, the target
\* becomes current.
AdvanceAsConverted(wf, p) ==
    LET id    == TargetId(wf, p.step)
        twins == TwinsCompleted(wf, id)
        saved == AdvanceStep(twins, p)
    IN  [saved EXCEPT
            !.plan = IF p.plan = EmptyPlan THEN EmptyPlan ELSE saved.plan,
            !.cur  = IF EnterCandidates(twins, p) = {} THEN id ELSE saved.cur]

\* The second, pure implementation of advance, workflow-state-converter.ts,
\* differs from advanceStep in four ways and no other, on every record and
\* for every call: a repeated identifier completes all its steps, the empty
\* plan replaces the plan, a step completed with nothing left to enter
\* becomes current, and a step that does not exist is listed as done without
\* completing any step or breaking the record's bookkeeping.
ConverterAgrees ==
    \A wf \in Records : \A args \in AdvanceArgs : \A plan \in {args.plan, EmptyPlan} :
        LET p   == [args EXCEPT !.plan = plan]
            new == ConvertedAdvance(wf, p)
        IN  /\ CanAdvance(wf, p) => new = AdvanceAsConverted(wf, p)
            /\ ~ HasStep(wf.def, TargetId(wf, p.step)) =>
                  Bookkept(new) /\ CompletedSteps(new) = CompletedSteps(wf)

-----------------------------------------------------------------------------
(* What a step may never do. *)

Ends(c, a, w) ==
    call[c] # Idle /\ call[c].agent = a /\ call[c].id = w /\ call'[c] = Idle

StaleSave(a, w) == \E c \in Calls : Ends(c, a, w) /\ call[c].base # disk[a][w]

Rewinds(old, new) ==
    \/ old.closed /\ ~ new.closed
    \/ ~ old.done \subseteq new.done
    \/ \E i \in DOMAIN old.status :
          old.status[i] # "pending" /\ new.status[i] = "pending"

\* Progress is lost in one way only: a file never disappears, an archived
\* workflow never reopens, completedStepIds never shrinks and no step
\* returns to pending, unless an update_context saves a copy it read before
\* the latest save (tools.ts:328-362).
ProgressLostOnlyToStaleSave ==
    [][\A a \in Agents : \A w \in Saved(a) :
          disk'[a][w] = NoWorkflow \/ Rewinds(disk[a][w], disk'[a][w])
              => StaleSave(a, w)]_storeVars

-----------------------------------------------------------------------------
(* Claims of the texts that the code does not keep. *)

\* tools.ts:295: workflow_update_context updates facts, questions or plan
\* "without advancing the step": its save leaves every step as it was.
UpdateKeepsSteps ==
    [][\A c \in Calls, a \in Agents, w \in WorkflowIds :
          Ends(c, a, w) => /\ disk'[a][w].status = disk[a][w].status
                           /\ disk'[a][w].cur = disk[a][w].cur]_storeVars

\* README.md:27: a workflow linked to an issue can be taken up again with
\* workflow_resume after an interruption: as long as it is open, resume on
\* its issue does not answer that the workflow is archived.
OpenIsResumable ==
    \A a \in Agents : \A w \in Saved(a) :
        LET wf == disk[a][w]
        IN  ~ wf.closed /\ wf.issue # NoIssue
                => ~ disk[a][FindWorkflowByIssue(a, wf.issue, wf.repo)].closed

=============================================================================
