------------------------- MODULE WorkflowController -------------------------
(***************************************************************************)
(* The workflow-controller plugin: the workflow store composed with the    *)
(* context engines and tool sets that the plugin's factories hand to the   *)
(* host (packages/workflow-controller: index.ts, src/context-engine.ts,    *)
(* src/tools.ts).  A tool set is bound to an agent's directory and to one  *)
(* engine; create and resume set that engine's active workflow, whose      *)
(* record assemble() injects into the prompt.                              *)
(***************************************************************************)
EXTENDS WorkflowStore

CONSTANTS
    NoAgent,        \* agentDir of an engine not yet set
    NoId,           \* activeWorkflowId undefined
    Engines,        \* WorkflowContextEngine objects one process may create
    NoEngine        \* an engine not created; no shared engine

VARIABLES
    engine,     \* engine -> its agentDir and activeWorkflowId
    shared,     \* sharedEngine of register()
    tools       \* <<agent, engine>>: tool sets handed to sessions

engineVars == <<engine, shared, tools>>

vars == <<disk, call, strayed, engine, shared, tools>>

EngineState ==
    [dir : Agents \cup {NoAgent}, active : WorkflowIds \cup {NoId}]

ASSUME EnginesAssumption ==
    /\ NoAgent \notin Agents
    /\ NoId \notin WorkflowIds
    /\ NoEngine \notin Engines
    /\ NoEngine \notin EngineState

TypeOK ==
    /\ StoreTypeOK
    /\ engine \in [Engines -> EngineState \cup {NoEngine}]
    /\ shared \in Engines \cup {NoEngine}
    /\ tools \subseteq Agents \X Engines

Init ==
    /\ StoreInit
    /\ engine = [e \in Engines |-> NoEngine]
    /\ shared = NoEngine
    /\ tools = {}

\* What assemble() adds to the prompt once its delegate has answered.
Injected(e) ==
    IF engine[e].dir = NoAgent \/ engine[e].active = NoId THEN NoWorkflow
    ELSE disk[engine[e].dir][engine[e].active]

\* The agents whose sessions hold tools of engine e.
Users(e) == {a \in Agents : <<a, e>> \in tools}

-----------------------------------------------------------------------------
(* The factories, called by the host in any order. *)

\* Every call of the context engine factory makes a new engine and repoints
\* sharedEngine; the earlier engine stays with whoever holds it.
CreateContextEngine(e) ==
    /\ engine[e] = NoEngine
    /\ engine' = [engine EXCEPT ![e] = [dir |-> NoAgent, active |-> NoId]]
    /\ shared' = e
    /\ UNCHANGED <<storeVars, tools>>

\* MUTANT: setAgentDir is not called.
CreateToolsWithoutDir(a) ==
    /\ shared # NoEngine
    /\ tools' = tools \cup {<<a, shared>>}
    /\ UNCHANGED <<storeVars, engine, shared>>

\* Tool factory with a shared engine: the engine's agentDir is overwritten.
CreateTools(a) ==
    /\ shared # NoEngine
    /\ engine' = [engine EXCEPT ![shared] = [engine[shared] EXCEPT !.dir = a]]
    /\ tools' = tools \cup {<<a, shared>>}
    /\ UNCHANGED <<storeVars, shared>>

\* Tool factory before any context engine: a private engine, which the host
\* never assembles with.
CreateStandaloneTools(a, e) ==
    /\ shared = NoEngine
    /\ engine[e] = NoEngine
    /\ engine' = [engine EXCEPT ![e] = [dir |-> a, active |-> NoId]]
    /\ tools' = tools \cup {<<a, e>>}
    /\ UNCHANGED <<storeVars, shared>>

Restart ==
    /\ Crash
    /\ engine' = [e \in Engines |-> NoEngine]
    /\ shared' = NoEngine
    /\ tools' = {}

-----------------------------------------------------------------------------
(* The tools, called by agent a through tools bound to engine e. *)

\* setActiveWorkflow
Activate(e, w) ==
    /\ engine' = [engine EXCEPT ![e] = [engine[e] EXCEPT !.active = w]]
    /\ UNCHANGED <<shared, tools>>

\* MUTANT: the flow's first step is activated in place of the workflow.
WorkflowCreateActivatingStep(a, e) ==
    \E w \in WorkflowIds, def \in FlowDefs, plan \in Plans \cup {NoPlan},
       issue \in Issues \cup {NoIssue}, repo \in Repos \cup {NoRepo} :
        Create(a, w, def, plan, issue, repo) /\ Activate(e, def[1].id)

WorkflowCreate(a, e) ==
    \E w \in WorkflowIds, def \in FlowDefs, plan \in Plans \cup {NoPlan},
       issue \in Issues \cup {NoIssue}, repo \in Repos \cup {NoRepo} :
        Create(a, w, def, plan, issue, repo) /\ Activate(e, w)

\* An archived workflow is only reported; an open one becomes active.
ResumeOpen(a, e) ==
    \E issue \in Issues, repo \in Repos \cup {NoRepo} :
        LET w == FindWorkflowByIssue(a, issue, repo)
        IN  /\ ForIssue(a, issue, repo) # {}
            /\ ~ disk[a][w].closed
            /\ Activate(e, w)
            /\ UNCHANGED storeVars

\* With issueState "closed" the workflow is archived; the engine is not told.
ResumeClosed(a) ==
    /\ \E issue \in Issues, repo \in Repos \cup {NoRepo} : Archive(a, issue, repo)
    /\ UNCHANGED engineVars

WorkflowAdvance(a) == (\E w \in WorkflowIds : Advance(a, w)) /\ UNCHANGED engineVars

WorkflowBranch(a) == (\E w \in WorkflowIds : Branch(a, w)) /\ UNCHANGED engineVars

WorkflowBlock(a) ==
    /\ \E w \in WorkflowIds, s \in StepIds \cup {NoStep}, r \in SUBSET Reasons :
          Block(a, w, s, r)
    /\ UNCHANGED engineVars

UpdateContextBegin(a) ==
    /\ \E w \in WorkflowIds, c \in Calls, p \in UpdateArgs : UpdateBegin(a, w, c, p)
    /\ UNCHANGED engineVars

UpdateContextEnd == (\E c \in Calls : UpdateEnd(c)) /\ UNCHANGED engineVars

ToolCall(a, e) ==
    /\ <<a, e>> \in tools
    /\ \/ WorkflowCreate(a, e)
       \/ WorkflowAdvance(a)
       \/ WorkflowBranch(a)
       \/ WorkflowBlock(a)
       \/ UpdateContextBegin(a)
       \/ ResumeOpen(a, e)
       \/ ResumeClosed(a)

Next ==
    \/ \E e \in Engines : CreateContextEngine(e)
    \/ \E a \in Agents : CreateTools(a)
    \/ \E a \in Agents, e \in Engines : CreateStandaloneTools(a, e)
    \/ \E a \in Agents, e \in Engines : ToolCall(a, e)
    \/ UpdateContextEnd
    \/ Restart

Spec == Init /\ [][Next]_vars

-----------------------------------------------------------------------------
(* Properties. *)

\* An engine whose tools only one agent holds injects, whenever a workflow is
\* active, a record of that agent: the active identifier is a file of the
\* directory the engine points to (setAgentDir, setActiveWorkflow, assemble).
EngineInjectsOwn ==
    \A e \in Engines :
        engine[e] # NoEngine /\ engine[e].active # NoId
            /\ (\E a \in Agents : Users(e) = {a})
            => Injected(e) # NoWorkflow

=============================================================================
