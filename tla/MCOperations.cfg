SPECIFICATION OpsSpec
CONSTANTS
    d1 = d1
    d2 = d2
    app1 = app1
    a1 = a1
    Deploys <- MCDeploys
    Apps <- MCApps
    SecretEnvKeys <- MCSecretEnvKeys
    Agentfiles <- MCAgentfiles
    SecretFiles <- MCSecretFiles
    Literal = Literal
    NoAgentfile = NoAgentfile
    NoRelease = NoRelease
    Applicants <- MCApplicants
    PageSize = 1
    MaxRetry = 2
    MaxUploads = 2
    MaxKills = 1
    NoPath = NoPath
INVARIANTS
    OpsTypeOK
    ReleaseBoots
    GeneratedOnce
    LogLosesOnlyOverlapped
    StaleTextNeedsRetry
    AnnouncedOnce
PROPERTIES
    EveryRowSettles
CHECK_DEADLOCK FALSE
