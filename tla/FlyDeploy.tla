------------------------------- MODULE FlyDeploy -------------------------------
(***************************************************************************)
(* `easyflow deploy': Deployer (packages/easyflow-cli/src/deploy/          *)
(* deployer.ts) hands an image to the adapter for Fly.io                   *)
(* (deploy/adapters/fly.ts), which drives flyctl, and records what         *)
(* succeeded in ~/.easyflow/deployments.json (deploy/deployments-log.ts).  *)
(*                                                                         *)
(* Several commands may run at once, on one app or on several; each call   *)
(* of flyctl and each access to the log is a step.  Any of them may fail,  *)
(* the command may be killed, and nothing is rolled back: a retry is       *)
(* another deploy.  Fly.io is modelled from how the adapter uses it: an    *)
(* app is created once, secrets that are staged take effect with the next  *)
(* release, and nobody takes secrets away.  Two commands do not write the  *)
(* log in the same millisecond, so their temporary files differ.           *)
(***************************************************************************)
EXTENDS OpenclawConfig, Integers, FiniteSets

CONSTANTS
    Deploys,         \* commands, each with one app, image and secret file
    Apps,
    Agentfiles,      \* what the config layers of the images hold
    SecretFiles,     \* what the files named by --secret-file define
    NoAgentfile,
    NoRelease

ASSUME DeployAssumption ==
    /\ IsFiniteSet(Deploys) /\ Apps # {}
    /\ \A f \in SecretFiles : f \subseteq SecretEnvKeys
    /\ \A a \in Agentfiles :
          /\ a.providers \subseteq ProviderKeys
          /\ \A key \in DOMAIN a.env : a.env[key] \in SecretEnvKeys \cup {Literal}
    /\ NoAgentfile \notin Agentfiles

VARIABLES
    fly,        \* app -> whether it exists, its volumes, secrets and release
    cmd,        \* command -> how far it is and what it has read
    deployments,\* the log: the commands that are in it
    generated,  \* app -> the commands that staged a token of their own making
    overlapped  \* commands that appended while another one did

deployVars == <<fly, cmd, deployments, generated, overlapped>>

NoApp == [exists |-> FALSE, volumes |-> 0, secrets |-> {}, release |-> NoRelease]

NotStarted ==
    [step |-> "new", app |-> CHOOSE a \in Apps : TRUE, agentfile |-> NoAgentfile,
     local |-> {}, creates |-> FALSE, available |-> {}, staged |-> {}, log |-> {}]

DeployInit ==
    /\ fly = [a \in Apps |-> NoApp]
    /\ cmd = [d \in Deploys |-> NotStarted]
    /\ deployments = {}
    /\ generated = [a \in Apps |-> {}]
    /\ overlapped = {}

(***************************************************************************)
(* resolveSecrets.                                                         *)
(***************************************************************************)
existingSecretKeys(c) == IF c.creates THEN {} ELSE fly[c.app].secrets

NeedsToken(c) == GatewayToken \notin existingSecretKeys(c) \cup c.local

\* Mutant: a token is made whenever there is none.
stagedSecretsAlways(c) == c.local \cup If(NeedsToken(c), {GatewayToken})

\* A token is made only for an app this command has created.
stagedSecrets(c) == c.local \cup If(NeedsToken(c) /\ c.creates, {GatewayToken})

availableSecretKeys(c) == existingSecretKeys(c) \cup stagedSecrets(c)

\* Mutant: the secrets of channels and tools are not required.
SecretsMissingOfProviders(c) ==
    ~ getRequiredProviderSecretKeys(c.agentfile) \subseteq availableSecretKeys(c)

SecretsMissing(c) ==
    ~ (getRequiredProviderSecretKeys(c.agentfile) \cup getRequiredSecretKeys(c.agentfile))
        \subseteq availableSecretKeys(c)

(***************************************************************************)
(* A deploy.                                                               *)
(***************************************************************************)
At(d, step) == cmd[d].step = step

Goto(d, step) == cmd' = [cmd EXCEPT ![d].step = step]

\* The image, its Agentfile and the secret file are read.
Load(d) ==
    /\ At(d, "new")
    /\ \E a \in Apps, file \in Agentfiles, local \in SecretFiles :
          cmd' = [cmd EXCEPT ![d] = [NotStarted EXCEPT !.step = "plan", !.app = a,
                                         !.agentfile = file, !.local = local]]
    /\ UNCHANGED <<fly, deployments, generated, overlapped>>

\* A plan is made first, which only reads: a command whose secrets are missing
\* ends before it has created anything, and a dry run ends here too.
Plan(d) ==
    /\ At(d, "plan")
    /\ ~SecretsMissing([cmd[d] EXCEPT !.creates = ~fly[cmd[d].app].exists])
    /\ Goto(d, "apps")
    /\ UNCHANGED <<fly, deployments, generated, overlapped>>

AppsList(d) ==
    /\ At(d, "apps")
    /\ LET exists == fly[cmd[d].app].exists
       IN cmd' = [cmd EXCEPT ![d].creates = ~exists,
                             ![d].step = IF exists THEN "volumes" ELSE "create"]
    /\ UNCHANGED <<fly, deployments, generated, overlapped>>

\* The name of an app that exists is refused.
AppsCreate(d) ==
    /\ At(d, "create")
    /\ ~fly[cmd[d].app].exists
    /\ fly' = [fly EXCEPT ![cmd[d].app].exists = TRUE]
    /\ Goto(d, "volumes")
    /\ UNCHANGED <<deployments, generated, overlapped>>

VolumesList(d) ==
    /\ At(d, "volumes")
    /\ Goto(d, IF fly[cmd[d].app].volumes > 0 THEN "resolve" ELSE "volume")
    /\ UNCHANGED <<fly, deployments, generated, overlapped>>

\* Fly.io takes a second volume of the same name.
VolumesCreate(d) ==
    /\ At(d, "volume")
    /\ fly' = [fly EXCEPT ![cmd[d].app].volumes = @ + 1]
    /\ Goto(d, "resolve")
    /\ UNCHANGED <<deployments, generated, overlapped>>

\* The secrets are resolved, and the configuration is built for them.
ResolveSecrets(d) ==
    /\ At(d, "resolve")
    /\ ~SecretsMissing(cmd[d])
    /\ cmd' = [cmd EXCEPT ![d].available = availableSecretKeys(cmd[d]),
                          ![d].staged = stagedSecrets(cmd[d]),
                          ![d].step = "import"]
    /\ UNCHANGED <<fly, deployments, generated, overlapped>>

SecretsImport(d) ==
    /\ At(d, "import")
    /\ fly' = [fly EXCEPT ![cmd[d].app].secrets = @ \cup cmd[d].staged]
    /\ generated' = [generated EXCEPT ![cmd[d].app] =
                        @ \cup If(GatewayToken \in cmd[d].staged \ cmd[d].local, {d})]
    /\ Goto(d, "deploy")
    /\ UNCHANGED <<deployments, overlapped>>

\* flyctl builds, releases and waits; it may give up after the release is out.
\* A volume is mounted: without one there is no release.
FlyctlDeploy(d) ==
    /\ At(d, "deploy")
    /\ fly[cmd[d].app].volumes > 0
    /\ fly' = [fly EXCEPT ![cmd[d].app].release =
                  [by |-> d,
                   available |-> cmd[d].available,
                   config |-> buildOpenclawConfig(cmd[d].agentfile, cmd[d].available),
                   environment |-> fly[cmd[d].app].secrets]]
    /\ \E step \in {"health", "failed"} : Goto(d, step)
    /\ UNCHANGED <<deployments, generated, overlapped>>

Boots(release) == ~renderFails(release.config, release.environment)

\* Whatever release of the app is running answers the health check.
HealthOk(d) ==
    /\ At(d, "health")
    /\ Boots(fly[cmd[d].app].release)
    /\ Goto(d, "log")
    /\ UNCHANGED <<fly, deployments, generated, overlapped>>

LogRead(d) ==
    /\ At(d, "log")
    /\ cmd' = [cmd EXCEPT ![d].log = deployments, ![d].step = "write"]
    /\ LET others == {e \in Deploys : At(e, "write")}
       IN overlapped' = overlapped \cup others \cup If(others # {}, {d})
    /\ UNCHANGED <<fly, deployments, generated>>

\* Mutant: the log is written without what it held.
LogWriteAlone(d) ==
    /\ At(d, "write")
    /\ deployments' = {d}
    /\ Goto(d, "done")
    /\ UNCHANGED <<fly, generated, overlapped>>

\* The file is replaced by what was read and the new entry.
LogWrite(d) ==
    /\ At(d, "write")
    /\ deployments' = cmd[d].log \cup {d}
    /\ Goto(d, "done")
    /\ UNCHANGED <<fly, generated, overlapped>>

\* An error, eighteen health checks without an answer, or the end of the process.
Fail(d) ==
    /\ cmd[d].step \notin {"new", "done", "failed"}
    /\ Goto(d, "failed")
    /\ UNCHANGED <<fly, deployments, generated, overlapped>>

DeployStep(d) ==
    \/ Load(d) \/ Plan(d) \/ AppsList(d) \/ AppsCreate(d) \/ VolumesList(d) \/ VolumesCreate(d)
    \/ ResolveSecrets(d) \/ SecretsImport(d) \/ FlyctlDeploy(d) \/ HealthOk(d)
    \/ LogRead(d) \/ LogWrite(d) \/ Fail(d)

DeployNext == \E d \in Deploys : DeployStep(d)

DeploySpec == DeployInit /\ [][DeployNext]_deployVars

(***************************************************************************)
(* Properties.                                                             *)
(***************************************************************************)
Release ==
    [by : Deploys, available : SUBSET SecretEnvKeys,
     config : {buildOpenclawConfig(a, keys) :
                  a \in Agentfiles, keys \in SUBSET SecretEnvKeys},
     environment : SUBSET SecretEnvKeys]

Command ==
    [step : {"new", "plan", "apps", "create", "volumes", "volume", "resolve", "import",
             "deploy", "health", "log", "write", "done", "failed"},
     app : Apps, agentfile : Agentfiles \cup {NoAgentfile},
     local : SUBSET SecretEnvKeys, creates : BOOLEAN,
     available : SUBSET SecretEnvKeys, staged : SUBSET SecretEnvKeys,
     log : SUBSET Deploys]

\* What Fly.io, the commands and the log hold.
DeployTypeOK ==
    /\ fly \in [Apps -> [exists : BOOLEAN, volumes : 0..Cardinality(Deploys),
                         secrets : SUBSET SecretEnvKeys,
                         release : Release \cup {NoRelease}]]
    /\ cmd \in [Deploys -> Command]
    /\ deployments \subseteq Deploys
    /\ generated \in [Apps -> SUBSET Deploys]
    /\ overlapped \subseteq Deploys

\* What was released starts: it has a volume and a value for each placeholder
\* the configuration holds outside env, the context engine it selects has its
\* key, and no entry of env whose key the deploy had found is left out.  The
\* checks of resolveSecrets, made before secrets are staged and other deploys
\* stage theirs, vouch for what render-openclaw-config.js finds later.
ReleaseBoots ==
    \A a \in Apps :
       LET release == fly[a].release
       IN release # NoRelease =>
             /\ fly[a].volumes > 0
             /\ Boots(release)
             /\ release.config.contextEngine = "pinecone-memory"
                   => "PINECONE_API_KEY" \in release.environment
             /\ \A key \in DOMAIN release.config.env :
                   release.config.env[key] \in release.available
                      => key \in renderedEnv(release.config, release.environment)

\* A token of the command's own making is staged for an app at most once, by
\* the command that created it: no retry and no deploy that runs at the same
\* time makes another (the throw in resolveSecrets, and apps create).
GeneratedOnce ==
    \A a \in Apps : Cardinality(generated[a]) <= 1

\* A deploy that ended well is in the log, unless it appended while another
\* one did (append reads, adds and replaces the file without a lock).
LogLosesOnlyOverlapped ==
    \A d \in Deploys : At(d, "done") => d \in deployments \cup overlapped
===============================================================================
