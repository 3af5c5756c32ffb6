\* Two agents in one process, two engines, two workflow files.
SPECIFICATION Spec
CONSTANTS
    s1 = s1
    StepIds = {s1}
    NoStep = NoStep
    Labels = {}
    NoLabel = NoLabel
    Facts = {}
    Questions = {}
    Reasons = {}
    EmptyPlan = EmptyPlan
    Plans = {}
    NoPlan = NoPlan
    Issues = {i1}
    NoIssue = NoIssue
    Repos = {}
    NoRepo = NoRepo
    FlowDefs <- OneStepFlows
    Agents = {a1, a2}
    NoAgent = NoAgent
    WorkflowIds <- TwoIds
    NoWorkflow = NoWorkflow
    NoId = NoId
    Calls = {c1}
    Idle = Idle
    Engines = {e1, e2}
    NoEngine = NoEngine
SYMMETRY NameSymmetry
INVARIANTS
    TypeOK
    EngineInjectsOwn
