\* Two workflows of one issue.
SPECIFICATION StoreSpec
CONSTANTS
    s1 = s1  s2 = s2  s3 = s3  ok = ok  ng = ng
    StepIds = {s1, s2, s3}
    NoStep = NoStep
    Labels = {ok, ng}
    NoLabel = NoLabel
    Facts = {}
    Questions = {}
    Reasons = {r1}
    EmptyPlan = EmptyPlan
    Plans = {}
    NoPlan = NoPlan
    Issues = {i1}
    NoIssue = NoIssue
    Repos = {}
    NoRepo = NoRepo
    FlowDefs <- StepFlows
    Agents = {a1}
    WorkflowIds <- TwoIds
    NoWorkflow = NoWorkflow
    Calls = {}
    Idle = Idle
INVARIANT OpenIsResumable
