\* One agent, one workflow file, one call of update_context in flight.
SPECIFICATION StoreSpec
CONSTANTS
    s1 = s1  s2 = s2  s3 = s3  ok = ok  ng = ng
    StepIds = {s1, s2, s3}
    NoStep = NoStep
    Labels = {ok, ng}
    NoLabel = NoLabel
    Facts = {}
    Questions = {}
    Reasons = {r1}
    EmptyPlan = EmptyPlan
    Plans = {}
    NoPlan = NoPlan
    Issues = {}
    NoIssue = NoIssue
    Repos = {}
    NoRepo = NoRepo
    FlowDefs <- StepFlows
    Agents = {a1}
    WorkflowIds <- OneId
    NoWorkflow = NoWorkflow
    Calls = {c1}
    Idle = Idle
INVARIANTS
    StoreTypeOK
    StepBookkeeping
    CurrentStarted
    SingleRunning
    ConverterAgrees
PROPERTIES
    ProgressLostOnlyToStaleSave
