--------------------------- MODULE OperationsProofs ---------------------------
(***************************************************************************)
(* Theorems about the two programs an operator runs: for any number of     *)
(* deploys, apps, Agentfiles and secrets, and for any number of            *)
(* applicants, files, retries and kills of the daily batch.                *)
(***************************************************************************)
EXTENDS Operations, DataTheorems

Steps ==
    {"new", "plan", "apps", "create", "volumes", "volume", "resolve", "import",
     "deploy", "health", "log", "write", "done", "failed"}

\* The types that the induction needs.
TypeInv ==
    /\ fly \in [Apps -> [exists : BOOLEAN, volumes : Nat,
                         secrets : SUBSET SecretEnvKeys,
                         release : Release \cup {NoRelease}]]
    /\ cmd \in [Deploys -> Command]
    /\ deployments \subseteq Deploys
    /\ generated \in [Apps -> SUBSET Deploys]
    /\ overlapped \subseteq Deploys

\* A command that is past Load has read an Agentfile.
LoadedInv ==
    \A d \in Deploys : cmd[d].step \notin {"new", "failed"} => cmd[d].agentfile \in Agentfiles

\* Commands that may still create a volume.
Before == {"new", "plan", "apps", "create", "volumes", "volume"}
Coming == {d \in Deploys : cmd[d].step \in Before}

VolumeInv ==
    \A a \in Apps : fly[a].volumes + Cardinality(Coming) <= Cardinality(Deploys)

\* The command has created its app.
Made(d) ==
    cmd[d].creates /\ cmd[d].step \in Steps \ {"new", "plan", "apps", "create", "failed"}

\* An app is made by one command, and only that one stages a token of its own.
TokenInv ==
    /\ \A d \in Deploys :
          /\ Made(d) => fly[cmd[d].app].exists
          /\ At(d, "import") /\ GatewayToken \in cmd[d].staged \ cmd[d].local => cmd[d].creates
          /\ Made(d) => \A e \in generated[cmd[d].app] : e = d
    /\ \A d, e \in Deploys : Made(d) /\ Made(e) /\ cmd[d].app = cmd[e].app => d = e
    /\ \A a \in Apps :
          /\ generated[a] # {} => fly[a].exists
          /\ \A d, e \in generated[a] : d = e

Required(agentfile) == getRequiredSecretKeys(agentfile)

\* The secrets a command counts on are staged, or there already.
SecretInv ==
    \A d \in Deploys :
        /\ cmd[d].step \in {"import", "deploy"} => Required(cmd[d].agentfile) \subseteq cmd[d].available
        /\ At(d, "import") => cmd[d].available \subseteq fly[cmd[d].app].secrets \cup cmd[d].staged
        /\ At(d, "deploy") => cmd[d].available \subseteq fly[cmd[d].app].secrets

\* A release was built from an Agentfile for secrets the machine has.
Sound(release) ==
    /\ release.available \subseteq release.environment
    /\ \E file \in Agentfiles :
          /\ Required(file) \subseteq release.available
          /\ release.config = buildOpenclawConfig(file, release.available)

ReleaseInv ==
    \A a \in Apps :
        fly[a].release # NoRelease => fly[a].volumes > 0 /\ Sound(fly[a].release)

\* Who is about to write holds every entry that is not of an overlapped append.
LogInv ==
    /\ \A d \in Deploys : At(d, "done") => d \in deployments \cup overlapped
    /\ \A d, e \in Deploys :
          /\ At(d, "write") /\ At(e, "done") => e \in cmd[d].log \cup overlapped
          /\ At(d, "write") /\ At(e, "write") /\ d # e => d \in overlapped

DeployInv ==
    TypeInv /\ LoadedInv /\ VolumeInv /\ TokenInv /\ SecretInv /\ ReleaseInv /\ LogInv

-----------------------------------------------------------------------------
\* A step of a command is about its own record.
LEMMA Others ==
    ASSUME TypeInv, NEW d \in Deploys, DeployStep(d)
    PROVE  \A e \in Deploys \ {d} : cmd'[e] = cmd[e]
BY DEF TypeInv, DeployStep, Load, Plan, AppsList, AppsCreate, VolumesList, VolumesCreate,
       ResolveSecrets, SecretsImport, FlyctlDeploy, HealthOk, LogRead, LogWrite, Fail, Goto

\* What each action makes of the record of its command.
LEMMA OwnLoad ==
    ASSUME TypeInv, NEW d \in Deploys, Load(d)
    PROVE  /\ cmd'[d] \in Command
           /\ cmd[d].step = "new" /\ cmd'[d].step = "plan" /\ cmd'[d].agentfile \in Agentfiles
<1>1. PICK a \in Apps, file \in Agentfiles, local \in SecretFiles :
        cmd' = [cmd EXCEPT ![d] = [NotStarted EXCEPT !.step = "plan", !.app = a,
                                      !.agentfile = file, !.local = local]]
  BY DEF Load
<1>2. cmd'[d] = [step |-> "plan", app |-> a, agentfile |-> file, local |-> local,
                 creates |-> FALSE, available |-> {}, staged |-> {}, log |-> {}]
  BY <1>1 DEF TypeInv, NotStarted
<1>3. local \subseteq SecretEnvKeys
  BY DeployAssumption
<1>4. cmd[d].step = "new"
  BY DEF Load, At
<1>. QED
  BY <1>2, <1>3, <1>4 DEF Command

MovesTo(d, from, to) ==
    /\ cmd[d].step = from /\ cmd'[d].step = to
    /\ cmd'[d].app = cmd[d].app /\ cmd'[d].agentfile = cmd[d].agentfile
    /\ cmd'[d].local = cmd[d].local

Keeps(d) ==
    /\ cmd'[d].creates = cmd[d].creates
    /\ cmd'[d].available = cmd[d].available /\ cmd'[d].staged = cmd[d].staged

LEMMA OwnGoto ==
    ASSUME TypeInv, NEW d \in Deploys, NEW from, NEW to \in Steps, At(d, from), Goto(d, to)
    PROVE  /\ cmd'[d] \in Command
           /\ MovesTo(d, from, to) /\ Keeps(d) /\ cmd'[d].log = cmd[d].log
<1>1. cmd[d] \in Command
  BY DEF TypeInv
<1>2. cmd'[d] = [cmd[d] EXCEPT !.step = to]
  BY DEF TypeInv, Goto
<1>. QED
  BY <1>1, <1>2 DEF At, MovesTo, Keeps, Command, Steps

LEMMA OwnAppsList ==
    ASSUME TypeInv, NEW d \in Deploys, AppsList(d)
    PROVE  /\ cmd'[d] \in Command
           /\ MovesTo(d, "apps", cmd'[d].step)
           /\ \/ cmd'[d].step = "create" /\ cmd'[d].creates
              \/ cmd'[d].step = "volumes" /\ ~cmd'[d].creates
<1>1. cmd[d] \in Command
  BY DEF TypeInv
<1>2. fly[cmd[d].app].exists \in BOOLEAN
  BY <1>1 DEF TypeInv, Command
<1>3. cmd'[d] = [cmd[d] EXCEPT !.creates = ~fly[cmd[d].app].exists,
                               !.step = IF fly[cmd[d].app].exists THEN "volumes" ELSE "create"]
  BY DEF TypeInv, AppsList
<1>4. /\ cmd'[d].creates = ~fly[cmd[d].app].exists
      /\ cmd'[d].step = IF fly[cmd[d].app].exists THEN "volumes" ELSE "create"
      /\ cmd'[d] \in Command
  BY <1>1, <1>2, <1>3 DEF Command
<1>5. cmd[d].step = "apps"
  BY DEF AppsList, At
<1>6. MovesTo(d, "apps", cmd'[d].step)
  BY <1>1, <1>3, <1>5 DEF MovesTo, Command
<1>. QED
  BY <1>2, <1>4, <1>6

LEMMA OwnResolve ==
    ASSUME TypeInv, NEW d \in Deploys, ResolveSecrets(d)
    PROVE  /\ cmd'[d] \in Command
           /\ MovesTo(d, "resolve", "import") /\ cmd'[d].creates = cmd[d].creates
           /\ cmd'[d].available = availableSecretKeys(cmd[d])
           /\ cmd'[d].staged = stagedSecrets(cmd[d])
<1>1. cmd[d] \in Command
  BY DEF TypeInv
<1>2. cmd'[d] = [cmd[d] EXCEPT !.available = availableSecretKeys(cmd[d]),
                               !.staged = stagedSecrets(cmd[d]), !.step = "import"]
  BY DEF TypeInv, ResolveSecrets
<1>3. stagedSecrets(cmd[d]) \in SUBSET SecretEnvKeys
  BY <1>1, ConfigAssumption DEF stagedSecrets, Command, If, SecretKeys
<1>4. availableSecretKeys(cmd[d]) \in SUBSET SecretEnvKeys
  BY <1>1, <1>3 DEF availableSecretKeys, existingSecretKeys, Command, TypeInv
<1>5. /\ cmd'[d].available = availableSecretKeys(cmd[d])
      /\ cmd'[d].staged = stagedSecrets(cmd[d])
      /\ cmd'[d].creates = cmd[d].creates
      /\ cmd'[d] \in Command
  BY <1>1, <1>2, <1>3, <1>4 DEF Command
<1>6. cmd[d].step = "resolve"
  BY DEF ResolveSecrets, At
<1>7. MovesTo(d, "resolve", "import")
  BY <1>1, <1>2, <1>6 DEF MovesTo, Command
<1>. QED
  BY <1>5, <1>7

LEMMA OwnLogRead ==
    ASSUME TypeInv, NEW d \in Deploys, LogRead(d)
    PROVE  /\ cmd'[d] \in Command
           /\ MovesTo(d, "log", "write") /\ Keeps(d) /\ cmd'[d].log = deployments
<1>1. cmd[d] \in Command
  BY DEF TypeInv
<1>2. cmd'[d] = [cmd[d] EXCEPT !.log = deployments, !.step = "write"]
  BY DEF TypeInv, LogRead
<1>. QED
  BY <1>1, <1>2 DEF LogRead, At, MovesTo, Keeps, Command, TypeInv

Same(d) == Keeps(d) /\ cmd'[d].log = cmd[d].log

\* The other actions change the step only.
LEMMA OwnStep ==
    ASSUME TypeInv, NEW d \in Deploys
    PROVE  /\ DeployStep(d) => cmd'[d] \in Command
           /\ Plan(d) => MovesTo(d, "plan", "apps") /\ Same(d)
           /\ AppsCreate(d) => MovesTo(d, "create", "volumes") /\ Same(d)
           /\ VolumesList(d) =>
                 /\ MovesTo(d, "volumes", cmd'[d].step) /\ Same(d)
                 /\ cmd'[d].step \in {"resolve", "volume"}
           /\ VolumesCreate(d) => MovesTo(d, "volume", "resolve") /\ Same(d)
           /\ SecretsImport(d) => MovesTo(d, "import", "deploy") /\ Same(d)
           /\ FlyctlDeploy(d) =>
                 /\ MovesTo(d, "deploy", cmd'[d].step) /\ Same(d)
                 /\ cmd'[d].step \in {"health", "failed"}
           /\ HealthOk(d) => MovesTo(d, "health", "log") /\ Same(d)
           /\ LogWrite(d) => MovesTo(d, "write", "done") /\ Same(d)
           /\ Fail(d) => MovesTo(d, cmd[d].step, "failed") /\ Same(d)
<1>1. Plan(d) => cmd'[d] \in Command /\ MovesTo(d, "plan", "apps") /\ Same(d)
  BY OwnGoto DEF Plan, Same, Steps
<1>2. AppsCreate(d) => cmd'[d] \in Command /\ MovesTo(d, "create", "volumes") /\ Same(d)
  BY OwnGoto DEF AppsCreate, Same, Steps
<1>3. VolumesList(d) =>
         /\ cmd'[d] \in Command
         /\ MovesTo(d, "volumes", cmd'[d].step) /\ Same(d)
         /\ cmd'[d].step \in {"resolve", "volume"}
  <2>. SUFFICES ASSUME NEW step \in {"resolve", "volume"}, At(d, "volumes"), Goto(d, step)
                PROVE  /\ cmd'[d] \in Command
                       /\ MovesTo(d, "volumes", cmd'[d].step) /\ Same(d)
                       /\ cmd'[d].step \in {"resolve", "volume"}
    BY DEF VolumesList
  <2>1. cmd'[d] \in Command /\ MovesTo(d, "volumes", step) /\ Same(d)
    BY OwnGoto DEF Same, Steps
  <2>. QED
    BY <2>1 DEF MovesTo
<1>4. VolumesCreate(d) => cmd'[d] \in Command /\ MovesTo(d, "volume", "resolve") /\ Same(d)
  BY OwnGoto DEF VolumesCreate, Same, Steps
<1>5. SecretsImport(d) => cmd'[d] \in Command /\ MovesTo(d, "import", "deploy") /\ Same(d)
  BY OwnGoto DEF SecretsImport, Same, Steps
<1>6. FlyctlDeploy(d) =>
         /\ cmd'[d] \in Command
         /\ MovesTo(d, "deploy", cmd'[d].step) /\ Same(d)
         /\ cmd'[d].step \in {"health", "failed"}
  <2>. SUFFICES ASSUME NEW step \in {"health", "failed"}, At(d, "deploy"), Goto(d, step)
                PROVE  /\ cmd'[d] \in Command
                       /\ MovesTo(d, "deploy", cmd'[d].step) /\ Same(d)
                       /\ cmd'[d].step \in {"health", "failed"}
    BY DEF FlyctlDeploy
  <2>1. cmd'[d] \in Command /\ MovesTo(d, "deploy", step) /\ Same(d)
    BY OwnGoto DEF Same, Steps
  <2>. QED
    BY <2>1 DEF MovesTo
<1>7. HealthOk(d) => cmd'[d] \in Command /\ MovesTo(d, "health", "log") /\ Same(d)
  BY OwnGoto DEF HealthOk, Same, Steps
<1>8. LogWrite(d) => cmd'[d] \in Command /\ MovesTo(d, "write", "done") /\ Same(d)
  BY OwnGoto DEF LogWrite, Same, Steps
<1>9. Fail(d) => cmd'[d] \in Command /\ MovesTo(d, cmd[d].step, "failed") /\ Same(d)
  BY OwnGoto DEF Fail, At, Same, Steps
<1>10. DeployStep(d) => cmd'[d] \in Command
  BY <1>1, <1>2, <1>3, <1>4, <1>5, <1>6, <1>7, <1>8, <1>9,
     OwnLoad, OwnAppsList, OwnResolve, OwnLogRead DEF DeployStep
<1>. QED
  BY <1>1, <1>2, <1>3, <1>4, <1>5, <1>6, <1>7, <1>8, <1>9, <1>10

-----------------------------------------------------------------------------
\* What a step makes of the apps: an app stays, volumes and secrets only grow.
LEMMA AppsGrow ==
    ASSUME TypeInv, LoadedInv, NEW d \in Deploys, DeployStep(d)
    PROVE  /\ fly' \in [Apps -> [exists : BOOLEAN, volumes : Nat,
                                 secrets : SUBSET SecretEnvKeys,
                                 release : Release \cup {NoRelease}]]
           /\ \A a \in Apps :
                 /\ fly[a].exists => fly'[a].exists
                 /\ fly'[a].volumes >= fly[a].volumes
                 /\ fly[a].secrets \subseteq fly'[a].secrets
                 /\ ~FlyctlDeploy(d) => fly'[a].release = fly[a].release
                 /\ FlyctlDeploy(d) /\ a # cmd[d].app => fly'[a].release = fly[a].release
<1>. DEFINE App == [exists : BOOLEAN, volumes : Nat, secrets : SUBSET SecretEnvKeys,
                    release : Release \cup {NoRelease}]
            a0 == cmd[d].app
            Grow(new) == /\ new \in App
                         /\ fly[a0].exists => new.exists
                         /\ new.volumes >= fly[a0].volumes
                         /\ fly[a0].secrets \subseteq new.secrets
<1>0. fly \in [Apps -> App] /\ cmd[d] \in Command /\ a0 \in Apps /\ fly[a0] \in App
  BY DEF TypeInv, Command
<1>1. CASE UNCHANGED fly
  <2>1. ~FlyctlDeploy(d) \/ fly' = fly
    BY <1>1
  <2>. QED
    BY <1>0, <1>1
<1>2. ASSUME NEW new, fly' = [fly EXCEPT ![a0] = new], Grow(new),
             ~FlyctlDeploy(d) => new.release = fly[a0].release
      PROVE  /\ fly' \in [Apps -> App]
             /\ \A a \in Apps :
                   /\ fly[a].exists => fly'[a].exists
                   /\ fly'[a].volumes >= fly[a].volumes
                   /\ fly[a].secrets \subseteq fly'[a].secrets
                   /\ ~FlyctlDeploy(d) => fly'[a].release = fly[a].release
                   /\ FlyctlDeploy(d) /\ a # a0 => fly'[a].release = fly[a].release
  <2>1. \A a \in Apps : fly[a] \in App /\ fly'[a] = IF a = a0 THEN new ELSE fly[a]
    BY <1>0, <1>2
  <2>. QED
    BY <1>0, <1>2, <2>1
<1>3. CASE AppsCreate(d)
  <2>1. fly' = [fly EXCEPT ![a0] = [fly[a0] EXCEPT !.exists = TRUE]]
    BY <1>3, <1>0 DEF AppsCreate
  <2>2. [fly[a0] EXCEPT !.exists = TRUE] \in App
    BY <1>0
  <2>3. Grow([fly[a0] EXCEPT !.exists = TRUE])
    BY <1>0, <2>2
  <2>. QED
    BY <1>0, <1>2, <2>1, <2>3
<1>4. CASE VolumesCreate(d)
  <2>1. fly' = [fly EXCEPT ![a0] = [fly[a0] EXCEPT !.volumes = @ + 1]]
    BY <1>4, <1>0 DEF VolumesCreate
  <2>2. Grow([fly[a0] EXCEPT !.volumes = @ + 1])
    BY <1>0
  <2>. QED
    BY <1>0, <1>2, <2>1, <2>2
<1>5. CASE SecretsImport(d)
  <2>1. fly' = [fly EXCEPT ![a0] = [fly[a0] EXCEPT !.secrets = @ \cup cmd[d].staged]]
    BY <1>5, <1>0 DEF SecretsImport
  <2>2. Grow([fly[a0] EXCEPT !.secrets = @ \cup cmd[d].staged])
    BY <1>0 DEF Command
  <2>. QED
    BY <1>0, <1>2, <2>1, <2>2
<1>6. CASE FlyctlDeploy(d)
  <2>. DEFINE r == [by |-> d, available |-> cmd[d].available,
                    config |-> buildOpenclawConfig(cmd[d].agentfile, cmd[d].available),
                    environment |-> fly[a0].secrets]
  <2>1. fly' = [fly EXCEPT ![a0] = [fly[a0] EXCEPT !.release = r]]
    BY <1>6, <1>0 DEF FlyctlDeploy
  <2>2. cmd[d].agentfile \in Agentfiles
    BY <1>6 DEF FlyctlDeploy, At, LoadedInv
  <2>3. r \in Release
    BY <1>0, <2>2 DEF Release, Command
  <2>4. Grow([fly[a0] EXCEPT !.release = r])
    BY <1>0, <2>3
  <2>. QED
    BY <1>0, <1>2, <1>6, <2>1, <2>4
<1>. QED
  BY <1>1, <1>3, <1>4, <1>5, <1>6
     DEF DeployStep, Load, Plan, AppsList, VolumesList, ResolveSecrets, HealthOk,
         LogRead, LogWrite, Fail

LEMMA TypeStep ==
    ASSUME TypeInv, LoadedInv, NEW d \in Deploys, DeployStep(d)
    PROVE  TypeInv'
<1>1. cmd' \in [Deploys -> Command]
  <2>1. cmd' = [cmd EXCEPT ![d] = cmd'[d]]
    BY DEF TypeInv, DeployStep, Load, Plan, AppsList, AppsCreate, VolumesList, VolumesCreate,
           ResolveSecrets, SecretsImport, FlyctlDeploy, HealthOk, LogRead, LogWrite, Fail, Goto
  <2>. QED
    BY <2>1, OwnStep DEF TypeInv
<1>2. /\ deployments' \subseteq Deploys
      /\ generated' \in [Apps -> SUBSET Deploys]
      /\ overlapped' \subseteq Deploys
  <2>1. cmd[d].app \in Apps /\ cmd[d].log \subseteq Deploys
    BY DEF TypeInv, Command
  <2>2. CASE SecretsImport(d)
    BY <2>2, <2>1 DEF TypeInv, SecretsImport, If
  <2>3. CASE LogRead(d)
    BY <2>3 DEF TypeInv, LogRead, If
  <2>4. CASE LogWrite(d)
    BY <2>4, <2>1 DEF TypeInv, LogWrite
  <2>5. CASE ~SecretsImport(d) /\ ~LogRead(d) /\ ~LogWrite(d)
    BY <2>5 DEF TypeInv, DeployStep, Load, Plan, AppsList, AppsCreate, VolumesList,
                VolumesCreate, ResolveSecrets, FlyctlDeploy, HealthOk, Fail
  <2>. QED
    BY <2>2, <2>3, <2>4, <2>5
<1>. QED
  BY <1>1, <1>2, AppsGrow DEF TypeInv

LEMMA LoadedStep ==
    ASSUME TypeInv, LoadedInv, NEW d \in Deploys, DeployStep(d)
    PROVE  LoadedInv'
<1>1. cmd'[d].step \notin {"new", "failed"} => cmd'[d].agentfile \in Agentfiles
  BY OwnLoad, OwnAppsList, OwnResolve, OwnLogRead, OwnStep DEF DeployStep, LoadedInv, MovesTo
<1>. QED
  BY <1>1, Others DEF LoadedInv

-----------------------------------------------------------------------------
\* A step of the command creates a volume, or makes those that may no more.
LEMMA ComingShrinks ==
    ASSUME TypeInv, NEW d \in Deploys, DeployStep(d)
    PROVE  /\ Coming' \subseteq Coming
           /\ VolumesCreate(d) => d \in Coming /\ d \notin Coming'
<1>1. cmd'[d].step \in Before => cmd[d].step \in Before
  BY OwnLoad, OwnAppsList, OwnResolve, OwnLogRead, OwnStep
     DEF DeployStep, MovesTo, Before, Steps
<1>2. VolumesCreate(d) => cmd[d].step \in Before /\ cmd'[d].step \notin Before
  BY OwnStep DEF MovesTo, Before
<1>. QED
  BY <1>1, <1>2, Others DEF Coming

LEMMA VolumeStep ==
    ASSUME TypeInv, VolumeInv, NEW d \in Deploys, DeployStep(d)
    PROVE  VolumeInv'
<1>1. IsFiniteSet(Coming) /\ IsFiniteSet(Coming')
  BY DeployAssumption, FS_Subset DEF Coming
<1>2. Cardinality(Coming) \in Nat /\ Cardinality(Coming') \in Nat /\ Cardinality(Deploys) \in Nat
  BY <1>1, DeployAssumption, FS_CardinalityType
<1>3. \A a \in Apps : fly[a].volumes \in Nat
  BY DEF TypeInv
<1>4. CASE VolumesCreate(d)
  <2>1. Coming' \subseteq Coming \ {d} /\ d \in Coming
    BY <1>4, ComingShrinks
  <2>2. Cardinality(Coming \ {d}) = Cardinality(Coming) - 1 /\ IsFiniteSet(Coming \ {d})
    BY <1>1, <2>1, FS_RemoveElement
  <2>3. Cardinality(Coming') <= Cardinality(Coming) - 1
    BY <2>1, <2>2, FS_Subset
  <2>4. cmd[d].app \in Apps
    BY DEF TypeInv, Command
  <2>5. \A a \in Apps : fly'[a].volumes <= fly[a].volumes + 1
    BY <1>4, <1>3, <2>4 DEF VolumesCreate, TypeInv
  <2>6. \A a \in Apps : fly'[a].volumes \in Nat
    BY <1>4, <1>3, <2>4 DEF VolumesCreate, TypeInv
  <2>. QED
    BY <1>2, <1>3, <2>3, <2>5, <2>6 DEF VolumeInv
<1>5. CASE ~VolumesCreate(d)
  <2>1. Cardinality(Coming') <= Cardinality(Coming)
    BY <1>1, ComingShrinks, FS_Subset
  <2>2. \A a \in Apps : fly'[a].volumes = fly[a].volumes
    <3>1. cmd[d].app \in Apps
      BY DEF TypeInv, Command
    <3>2. CASE AppsCreate(d)
      BY <3>1, <3>2 DEF TypeInv, AppsCreate
    <3>3. CASE SecretsImport(d)
      BY <3>1, <3>3 DEF TypeInv, SecretsImport
    <3>4. CASE FlyctlDeploy(d)
      BY <3>1, <3>4 DEF TypeInv, FlyctlDeploy
    <3>5. CASE fly' = fly
      BY <3>5
    <3>. QED
      BY <1>5, <3>2, <3>3, <3>4, <3>5
         DEF DeployStep, Load, Plan, AppsList, VolumesList, ResolveSecrets, HealthOk,
             LogRead, LogWrite, Fail
  <2>. QED
    BY <1>2, <1>3, <2>1, <2>2 DEF VolumeInv
<1>. QED
  BY <1>4, <1>5

-----------------------------------------------------------------------------
LEMMA LogStep ==
    ASSUME TypeInv, LogInv, NEW d \in Deploys, DeployStep(d)
    PROVE  LogInv'
<1>1. CASE LogRead(d)
  <2>1. /\ cmd'[d].step = "write" /\ cmd'[d].log = deployments
        /\ deployments' = deployments /\ overlapped \subseteq overlapped'
        /\ \A e \in Deploys : At(e, "write") => {d, e} \subseteq overlapped'
    BY <1>1, OwnLogRead DEF LogRead, MovesTo, At, If
  <2>. QED
    BY <2>1, Others DEF LogInv, At
<1>2. CASE LogWrite(d)
  <2>1. /\ cmd[d].step = "write" /\ cmd'[d].step = "done"
        /\ deployments' = cmd[d].log \cup {d} /\ overlapped' = overlapped
    BY <1>2, OwnStep DEF LogWrite, MovesTo
  <2>2. \A e \in Deploys : At(e, "done")' => e \in (deployments \cup overlapped)'
    BY <2>1, Others DEF LogInv, At
  <2>3. ASSUME NEW e \in Deploys, At(e, "write")'
        PROVE  /\ \A x \in Deploys : At(x, "done")' => x \in cmd'[e].log \cup overlapped'
               /\ \A x \in Deploys : At(x, "write")' /\ e # x => e \in overlapped'
    <3>1. e # d /\ cmd'[e] = cmd[e]
      BY <2>1, <2>3, Others DEF At
    <3>. QED
      BY <2>1, <2>3, <3>1, Others DEF LogInv, At
  <2>. QED
    BY <2>2, <2>3 DEF LogInv
<1>3. CASE ~LogRead(d) /\ ~LogWrite(d)
  <2>1. /\ cmd'[d].step \notin {"write", "done"}
        /\ deployments' = deployments /\ overlapped' = overlapped
    BY <1>3, OwnLoad, OwnAppsList, OwnResolve, OwnStep
       DEF DeployStep, MovesTo, Load, Plan, AppsList, AppsCreate, VolumesList, VolumesCreate,
           ResolveSecrets, SecretsImport, FlyctlDeploy, HealthOk, Fail
  <2>. QED
    BY <2>1, Others DEF LogInv, At
<1>. QED
  BY <1>1, <1>2, <1>3

-----------------------------------------------------------------------------
\* What the last steps of a deploy find is still there.
LEMMA SecretStep ==
    ASSUME TypeInv, LoadedInv, SecretInv, NEW d \in Deploys, DeployStep(d)
    PROVE  SecretInv'
<1>0. cmd[d] \in Command
  BY DEF TypeInv
<1>1. \A e \in Deploys : cmd[e].app \in Apps
  BY DEF TypeInv, Command
<1>2. /\ cmd'[d].step \in {"import", "deploy"} =>
             Required(cmd'[d].agentfile) \subseteq cmd'[d].available
      /\ cmd'[d].step = "import" =>
             cmd'[d].available \subseteq fly'[cmd'[d].app].secrets \cup cmd'[d].staged
      /\ cmd'[d].step = "deploy" => cmd'[d].available \subseteq fly'[cmd'[d].app].secrets
  <2>1. CASE ResolveSecrets(d)
    <3>1. /\ cmd'[d].step = "import" /\ cmd'[d].app = cmd[d].app
          /\ cmd'[d].agentfile = cmd[d].agentfile
          /\ cmd'[d].available = availableSecretKeys(cmd[d])
          /\ cmd'[d].staged = stagedSecrets(cmd[d])
      BY <2>1, OwnResolve DEF MovesTo
    <3>2. Required(cmd[d].agentfile) \subseteq availableSecretKeys(cmd[d])
      BY <2>1 DEF ResolveSecrets, SecretsMissing, Required
    <3>3. availableSecretKeys(cmd[d]) \subseteq fly[cmd[d].app].secrets \cup stagedSecrets(cmd[d])
      BY DEF availableSecretKeys, existingSecretKeys
    <3>4. fly' = fly
      BY <2>1 DEF ResolveSecrets
    <3>. QED
      BY <3>1, <3>2, <3>3, <3>4
  <2>2. CASE SecretsImport(d)
    <3>1. /\ cmd[d].step = "import" /\ cmd'[d].step = "deploy" /\ cmd'[d].app = cmd[d].app
          /\ cmd'[d].agentfile = cmd[d].agentfile /\ cmd'[d].available = cmd[d].available
      BY <2>2, OwnStep DEF MovesTo, Same, Keeps
    <3>2. fly'[cmd[d].app].secrets = fly[cmd[d].app].secrets \cup cmd[d].staged
      BY <2>2, <1>1 DEF SecretsImport, TypeInv
    <3>. QED
      BY <3>1, <3>2 DEF SecretInv, At
  <2>3. CASE ~ResolveSecrets(d) /\ ~SecretsImport(d)
    <3>1. cmd'[d].step \notin {"import", "deploy"}
      BY <2>3, OwnLoad, OwnAppsList, OwnLogRead, OwnStep DEF DeployStep, MovesTo
    <3>. QED
      BY <3>1
  <2>. QED
    BY <2>1, <2>2, <2>3
<1>3. ASSUME NEW e \in Deploys, e # d
      PROVE  /\ cmd'[e].step \in {"import", "deploy"} =>
                    Required(cmd'[e].agentfile) \subseteq cmd'[e].available
             /\ cmd'[e].step = "import" =>
                    cmd'[e].available \subseteq fly'[cmd'[e].app].secrets \cup cmd'[e].staged
             /\ cmd'[e].step = "deploy" => cmd'[e].available \subseteq fly'[cmd'[e].app].secrets
  <2>1. cmd'[e] = cmd[e]
    BY <1>3, Others
  <2>2. fly[cmd[e].app].secrets \subseteq fly'[cmd[e].app].secrets
    BY <1>1, AppsGrow
  <2>. QED
    BY <2>1, <2>2 DEF SecretInv, At
<1>. QED
  BY <1>2, <1>3 DEF SecretInv, At, Required

LEMMA ReleaseStep ==
    ASSUME TypeInv, LoadedInv, SecretInv, ReleaseInv, NEW d \in Deploys, DeployStep(d)
    PROVE  ReleaseInv'
<1>. DEFINE a0 == cmd[d].app
<1>1. SUFFICES ASSUME NEW a \in Apps, fly'[a].release # NoRelease
               PROVE  fly'[a].volumes > 0 /\ Sound(fly'[a].release)
  BY DEF ReleaseInv, Sound
<1>2. /\ fly'[a].volumes \in Nat /\ fly[a].volumes \in Nat
      /\ fly'[a].volumes >= fly[a].volumes
  BY AppsGrow DEF TypeInv
<1>3. CASE fly'[a].release = fly[a].release
  BY <1>1, <1>2, <1>3 DEF ReleaseInv
<1>4. CASE FlyctlDeploy(d) /\ a = a0
  <2>1. fly'[a].release =
           [by |-> d, available |-> cmd[d].available,
            config |-> buildOpenclawConfig(cmd[d].agentfile, cmd[d].available),
            environment |-> fly[a].secrets]
    BY <1>4 DEF FlyctlDeploy, TypeInv
  <2>2. fly[a].volumes > 0 /\ cmd[d].step = "deploy"
    BY <1>4 DEF FlyctlDeploy, At
  <2>3. cmd[d].agentfile \in Agentfiles
    BY <2>2 DEF LoadedInv
  <2>4. cmd[d].available \subseteq fly[a].secrets /\ Required(cmd[d].agentfile) \subseteq cmd[d].available
    BY <1>4, <2>2 DEF SecretInv, At
  <2>5. Sound(fly'[a].release)
    BY <2>1, <2>3, <2>4 DEF Sound
  <2>. QED
    BY <1>2, <2>2, <2>5
<1>. QED
  BY <1>3, <1>4, AppsGrow

\* The invariant of releases is what makes a machine start.
LEMMA SoundBoots ==
    ASSUME ReleaseInv
    PROVE  ReleaseBoots
<1>. SUFFICES ASSUME NEW a \in Apps, NEW release, release = fly[a].release, release # NoRelease
              PROVE  /\ fly[a].volumes > 0
                     /\ Boots(release)
                     /\ release.config.contextEngine = "pinecone-memory"
                           => "PINECONE_API_KEY" \in release.environment
                     /\ \A key \in DOMAIN release.config.env :
                           release.config.env[key] \in release.available
                              => key \in renderedEnv(release.config, release.environment)
  BY DEF ReleaseBoots
<1>1. fly[a].volumes > 0 /\ release.available \subseteq release.environment
  BY DEF ReleaseInv, Sound
<1>2. PICK agentfile \in Agentfiles :
         /\ Required(agentfile) \subseteq release.available
         /\ release.config = buildOpenclawConfig(agentfile, release.available)
  BY DEF ReleaseInv, Sound
<1>3. Boots(release)
  <2>1. release.config.placeholders \subseteq Required(agentfile)
    BY <1>2 DEF buildOpenclawConfig, Required, getRequiredSecretKeys
  <2>. QED
    BY <1>1, <1>2, <2>1 DEF Boots, renderFails
<1>4. release.config.contextEngine = "pinecone-memory" => "PINECONE_API_KEY" \in release.environment
  <2>1. release.config.contextEngine = contextEngine(agentfile, release.available)
    BY <1>2 DEF buildOpenclawConfig
  <2>2. agentfile.rag => "PINECONE_API_KEY" \in release.available
    BY <1>2 DEF Required, getRequiredSecretKeys, If, RagKeys
  <2>. QED
    BY <1>1, <2>1, <2>2 DEF contextEngine
<1>5. \A key \in DOMAIN release.config.env :
         release.config.env[key] \in release.available
            => key \in renderedEnv(release.config, release.environment)
  BY <1>1 DEF renderedEnv
<1>. QED
  BY <1>1, <1>3, <1>4, <1>5

-----------------------------------------------------------------------------
\* One command makes an app, and only it makes a token.
LEMMA TokenStep ==
    ASSUME TypeInv, LoadedInv, TokenInv, NEW d \in Deploys, DeployStep(d)
    PROVE  TokenInv'
<1>. DEFINE a0 == cmd[d].app
<1>0. /\ cmd[d] \in Command /\ \A e \in Deploys : cmd[e].app \in Apps
      /\ \A a \in Apps : fly[a].exists => fly'[a].exists
  BY AppsGrow DEF TypeInv, Command
<1>1. CASE AppsCreate(d)
  <2>0. a0 \in Apps /\ fly' = [fly EXCEPT ![a0].exists = TRUE]
    BY <1>0, <1>1 DEF AppsCreate
  <2>1. /\ ~fly[a0].exists /\ fly'[a0].exists /\ generated' = generated
        /\ cmd'[d].app = a0 /\ cmd'[d].step = "volumes"
    <3>1. fly'[a0].exists
      BY <2>0 DEF TypeInv
    <3>2. cmd'[d].app = a0 /\ cmd'[d].step = "volumes"
      BY <1>1, OwnStep DEF MovesTo
    <3>. QED
      BY <1>1, <3>1, <3>2 DEF AppsCreate
  <2>2. \A e \in Deploys : e # d => cmd'[e] = cmd[e]
    BY Others
  <2>3. \A e \in Deploys : Made(e) => cmd[e].app # a0
    BY <2>1 DEF TokenInv
  <2>4. generated[a0] = {}
    BY <1>0, <2>1 DEF TokenInv
  <2>. QED
    BY <1>0, <2>1, <2>2, <2>3, <2>4 DEF TokenInv, Made, At
<1>2. CASE SecretsImport(d)
  <2>1. /\ cmd[d].step = "import" /\ cmd'[d].step = "deploy" /\ cmd'[d].app = a0
        /\ cmd'[d].creates = cmd[d].creates
    BY <1>2, OwnStep DEF MovesTo, Same, Keeps
  <2>2. \A e \in Deploys : e # d => cmd'[e] = cmd[e]
    BY Others
  <2>3. \A e \in Deploys : Made(e)' <=> Made(e)
    BY <2>1, <2>2 DEF Made, Steps
  <2>4. \A a \in Apps : a # a0 => generated'[a] = generated[a]
    BY <1>2 DEF SecretsImport, TypeInv
  <2>5. CASE GatewayToken \in cmd[d].staged \ cmd[d].local
    <3>1. cmd[d].creates
      BY <2>1, <2>5 DEF TokenInv, At
    <3>2. Made(d)
      BY <2>1, <3>1 DEF Made, Steps
    <3>3. generated'[a0] = {d}
      BY <1>0, <1>2, <2>5, <3>2 DEF SecretsImport, TokenInv, TypeInv, If
    <3>4. fly[a0].exists /\ \A e \in Deploys : Made(e) /\ cmd[e].app = a0 => e = d
      BY <3>2 DEF TokenInv
    <3>. QED
      BY <1>0, <2>1, <2>2, <2>3, <2>4, <3>3, <3>4 DEF TokenInv, At
  <2>6. CASE ~(GatewayToken \in cmd[d].staged \ cmd[d].local)
    <3>1. generated' = generated
      BY <1>0, <1>2, <2>6 DEF SecretsImport, TypeInv, If
    <3>. QED
      BY <1>0, <2>1, <2>2, <2>3, <3>1 DEF TokenInv, At
  <2>. QED
    BY <2>5, <2>6
<1>3. CASE ResolveSecrets(d)
  <2>1. /\ cmd[d].step = "resolve" /\ cmd'[d].step = "import" /\ cmd'[d].app = a0
        /\ cmd'[d].creates = cmd[d].creates /\ cmd'[d].local = cmd[d].local
        /\ cmd'[d].staged = stagedSecrets(cmd[d])
    BY <1>3, OwnResolve DEF MovesTo
  <2>2. generated' = generated
    BY <1>3 DEF ResolveSecrets
  <2>3. GatewayToken \in cmd'[d].staged \ cmd'[d].local => cmd'[d].creates
    BY <2>1 DEF stagedSecrets, If
  <2>4. \A e \in Deploys : Made(e)' <=> Made(e)
    BY <2>1, Others DEF Made, Steps
  <2>. QED
    BY <1>0, <2>1, <2>2, <2>3, <2>4, Others DEF TokenInv, At
<1>4. CASE ~AppsCreate(d) /\ ~SecretsImport(d) /\ ~ResolveSecrets(d)
  <2>1. generated' = generated
    BY <1>4 DEF DeployStep, Load, Plan, AppsList, VolumesList, VolumesCreate, FlyctlDeploy,
                HealthOk, LogRead, LogWrite, Fail
  <2>2. /\ cmd'[d].step # "import"
        /\ Made(d)' => Made(d) /\ cmd'[d].app = a0
    BY <1>4, OwnLoad, OwnAppsList, OwnLogRead, OwnStep
       DEF DeployStep, MovesTo, Made, Same, Keeps, Steps
  <2>3. \A e \in Deploys : Made(e)' => Made(e) /\ cmd'[e].app = cmd[e].app
    BY <2>2, Others DEF Made
  <2>. QED
    BY <1>0, <2>1, <2>2, <2>3, Others DEF TokenInv, At
<1>. QED
  BY <1>1, <1>2, <1>3, <1>4

-----------------------------------------------------------------------------
LEMMA InitHolds == DeployInit => DeployInv
<1>. SUFFICES ASSUME DeployInit PROVE DeployInv
  OBVIOUS
<1>. USE DEF DeployInit
<1>1. TypeInv
  <2>1. (CHOOSE a \in Apps : TRUE) \in Apps
    BY DeployAssumption
  <2>2. NotStarted \in Command
    BY <2>1 DEF NotStarted, Command
  <2>. QED
    BY <2>2 DEF TypeInv, NoApp
<1>2. \A d \in Deploys : cmd[d].step = "new" /\ ~cmd[d].creates
  BY DEF NotStarted
<1>3. VolumeInv
  <2>1. Coming = Deploys
    BY <1>2 DEF Coming, Before
  <2>2. Cardinality(Deploys) \in Nat
    BY DeployAssumption, FS_CardinalityType
  <2>. QED
    BY <2>1, <2>2 DEF VolumeInv, NoApp
<1>4. TokenInv
  BY <1>2 DEF TokenInv, Made, At
<1>5. LoadedInv /\ SecretInv /\ LogInv
  BY <1>2 DEF LoadedInv, SecretInv, LogInv, At
<1>6. ReleaseInv
  BY DEF ReleaseInv, NoApp
<1>. QED
  BY <1>1, <1>3, <1>4, <1>5, <1>6 DEF DeployInv

LEMMA StepKeeps == DeployInv /\ [DeployNext]_deployVars => DeployInv'
<1>1. ASSUME DeployInv, NEW d \in Deploys, DeployStep(d) PROVE DeployInv'
  BY <1>1, TypeStep, LoadedStep, VolumeStep, TokenStep, SecretStep, ReleaseStep, LogStep
     DEF DeployInv
<1>2. ASSUME DeployInv, UNCHANGED deployVars PROVE DeployInv'
  BY <1>2 DEF DeployInv, deployVars, TypeInv, LoadedInv, VolumeInv, Coming, TokenInv, Made, At,
              SecretInv, ReleaseInv, LogInv
<1>. QED
  BY <1>1, <1>2 DEF DeployNext

\* Every behaviour of the deploys keeps the inductive invariant: what commands
\* have loaded, staged, released and logged fits what the apps hold (Deployer,
\* FlyAdapter, DeploymentsLog).
THEOREM InductiveInvariant == DeploySpec => []DeployInv
BY InitHolds, StepKeeps, PTL DEF DeploySpec

LEMMA DeployInvTyped == DeployInv => DeployTypeOK
<1>. SUFFICES ASSUME DeployInv PROVE DeployTypeOK
  OBVIOUS
<1>1. IsFiniteSet(Coming) /\ Cardinality(Coming) \in Nat /\ Cardinality(Deploys) \in Nat
  BY DeployAssumption, FS_Subset, FS_CardinalityType DEF Coming
<1>2. \A a \in Apps :
         fly[a] \in [exists : BOOLEAN, volumes : 0..Cardinality(Deploys),
                     secrets : SUBSET SecretEnvKeys, release : Release \cup {NoRelease}]
  BY <1>1 DEF DeployInv, TypeInv, VolumeInv
<1>. QED
  BY <1>2 DEF DeployInv, TypeInv, DeployTypeOK

\* The variables hold what they are for; an app never gets more volumes than
\* there are commands.
THEOREM DeployTyped == DeploySpec => []DeployTypeOK
BY DeployInvTyped, InductiveInvariant, PTL

\* What is released starts, whatever deploys run at the same time
\* (resolveSecrets, buildOpenclawConfig, render-openclaw-config.js).
THEOREM ReleasesBoot == DeploySpec => []ReleaseBoots
<1>1. DeployInv => ReleaseBoots
  BY SoundBoots DEF DeployInv
<1>. QED
  BY <1>1, InductiveInvariant, PTL

\* One command at most makes a gateway token for an app (resolveSecrets).
THEOREM TokenGeneratedOnce == DeploySpec => []GeneratedOnce
<1>1. DeployInv => GeneratedOnce
  <2>. SUFFICES ASSUME DeployInv, NEW a \in Apps PROVE Cardinality(generated[a]) <= 1
    BY DEF GeneratedOnce
  <2>1. \A d, e \in generated[a] : d = e
    BY DEF DeployInv, TokenInv
  <2>2. CASE generated[a] = {}
    BY <2>2, FS_EmptySet
  <2>3. CASE \E d \in generated[a] : TRUE
    <3>1. PICK d \in generated[a] : generated[a] = {d}
      BY <2>1, <2>3
    <3>. QED
      BY <3>1, FS_Singleton
  <2>. QED
    BY <2>2, <2>3
<1>. QED
  BY <1>1, InductiveInvariant, PTL

\* A deploy that ended well is in the log unless its append overlapped with
\* another one (DeploymentsLog.append).
THEOREM LogKeepsOthers == DeploySpec => []LogLosesOnlyOverlapped
<1>1. DeployInv => LogLosesOnlyOverlapped
  BY DEF DeployInv, LogInv, LogLosesOnlyOverlapped
<1>. QED
  BY <1>1, InductiveInvariant, PTL

-----------------------------------------------------------------------------
(* The daily batch.                                                         *)

People == Range(Applicants)
File == People \X Fields \X Paths
Listings == Seq(File)
Files == [Fields -> Paths \cup {NoPath}]
Queues == UNION {[ids -> 0..MaxRetry] : ids \in SUBSET (Nat \ {0})}

Waits == {"extract", "get", "put", "answer"}
RunSteps == {"idle", "login", "list", "sync", "notify"} \cup Waits

Run ==
    [step : RunSteps, dry : BOOLEAN, start : Nat, listed : Listings, queue : Queues,
     snap : Files, reply : {"none"} \cup Replies, success : BOOLEAN, firsts : SUBSET (Nat \ {0})]

\* The types that the induction needs.
DailyTypes ==
    /\ unitbase \in [People -> [files : Files, text : Nat]]
    /\ \A a \in People : unitbase[a].text \in DOMAIN rows \cup {0}
    /\ rows \in Seq(Row)
    /\ run \in Run
    /\ run.firsts \subseteq DOMAIN rows
    /\ written \subseteq DOMAIN rows
    /\ announced \in [DOMAIN rows -> {0, 1}]
    /\ uploads \in 0..MaxUploads

\* While rows are worked off, the queue is what is pending, with its counts.
QueueInv ==
    /\ run.step \in Waits =>
          /\ DOMAIN run.queue # {}
          /\ DOMAIN run.queue = getPendingRecords(rows)
          /\ \A i \in DOMAIN run.queue : run.queue[i] = rows[i].count
    /\ run.step \notin Waits => DOMAIN run.queue = {}
    /\ run.step = "login" => run.start = 0
    /\ run.step = "list" => run.start < Len(Applicants)

\* Whoever waits may still fail once, and whoever failed was counted.
RowsInv ==
    \A i \in DOMAIN rows :
        /\ rows[i].status = "pending" => rows[i].count < MaxRetry
        /\ rows[i].status = "error" => rows[i].count > 0

\* A row whose error is announced, or about to be, has an error counted.
FirstsInv ==
    \A i \in DOMAIN rows :
        /\ announced[i] = 1 \/ i \in run.firsts => rows[i].count > 0
        /\ i \in run.firsts => announced[i] = 0

\* Nothing older than a text that was written still waits for its first try.
OrderInv ==
    \A j \in written, i \in DOMAIN rows :
        i < j => rows[i].status = "processed" \/ rows[i].count > 0

DailyInv ==
    DailyTypes /\ QueueInv /\ RowsInv /\ FirstsInv /\ OrderInv /\ StaleTextNeedsRetry

-----------------------------------------------------------------------------
\* Rows stay, keep their file, and lose no error.
Grows ==
    /\ rows' \in Seq(Row)
    /\ \A i \in DOMAIN rows :
          /\ i \in DOMAIN rows'
          /\ rows'[i].file = rows[i].file
          /\ rows'[i].count >= rows[i].count
          /\ rows[i].status = "processed" => rows'[i].status = "processed"

LEMMA RowFields ==
    ASSUME DailyTypes, NEW i \in DOMAIN rows
    PROVE  /\ rows[i] \in Row /\ i \in Nat \ {0}
           /\ rows[i].file \in File /\ rows[i].count \in Nat
           /\ rows[i].status \in {"pending", "processed", "error"}
<1>1. rows \in Seq(Row) /\ i \in DOMAIN rows /\ MaxRetry \in Nat
  BY DailyAssumption DEF DailyTypes
<1>2. DOMAIN rows = 1..Len(rows) /\ Len(rows) \in Nat /\ rows[i] \in Row
  BY <1>1, LenProperties, ElementOfSeq
<1>3. i \in Nat \ {0}
  BY <1>1, <1>2
<1>. QED
  BY <1>1, <1>2, <1>3 DEF Row, File, People

LEMMA GrowsItself ==
    ASSUME DailyTypes, UNCHANGED rows
    PROVE  Grows
<1>1. \A i \in DOMAIN rows : rows[i].count >= rows[i].count
  BY RowFields
<1>2. rows \in Seq(Row)
  BY DEF DailyTypes
<1>. QED
  BY <1>1, <1>2 DEF Grows

\* What was written, and what the records show, stays in order while rows grow.
LEMMA OrderKept ==
    ASSUME DailyTypes, OrderInv, StaleTextNeedsRetry, Grows, written' = written,
           \A a \in People : unitbase'[a].text = unitbase[a].text
    PROVE  OrderInv' /\ StaleTextNeedsRetry'
<1>1. /\ rows \in Seq(Row) /\ rows' \in Seq(Row) /\ written \subseteq DOMAIN rows
      /\ \A a \in People : unitbase[a].text \in DOMAIN rows \cup {0}
  BY DEF DailyTypes, Grows
<1>2. /\ DOMAIN rows = 1..Len(rows) /\ DOMAIN rows' = 1..Len(rows')
      /\ Len(rows) \in Nat /\ Len(rows') \in Nat
  BY <1>1, LenProperties
<1>3. ASSUME NEW i \in DOMAIN rows, rows[i].count > 0
      PROVE  rows'[i].count > 0
  <2>1. i \in DOMAIN rows' /\ rows'[i].count >= rows[i].count
    BY DEF Grows
  <2>2. rows[i].count \in Nat
    BY RowFields
  <2>3. rows'[i] \in Row
    BY <1>1, <1>2, <2>1, ElementOfSeq
  <2>4. rows'[i].count \in Int
    BY <2>3, DailyAssumption DEF Row
  <2>. QED
    BY <1>3, <2>1, <2>2, <2>4
<1>4. ASSUME NEW j \in written, NEW i \in DOMAIN rows', i < j
      PROVE  rows'[i].status = "processed" \/ rows'[i].count > 0
  <2>1. i \in DOMAIN rows
    BY <1>1, <1>2, <1>4
  <2>2. rows[i].status = "processed" \/ rows[i].count > 0
    BY <1>4, <2>1 DEF OrderInv
  <2>. QED
    BY <1>3, <2>1, <2>2 DEF Grows
<1>5. ASSUME NEW a \in People, NEW shown, shown = unitbase[a].text, shown # 0,
             NEW later \in written, later > shown,
             rows'[later].file[1] = a, rows'[later].file[2] = rows'[shown].file[2]
      PROVE  rows'[shown].count > 0
  <2>1. shown \in DOMAIN rows /\ later \in DOMAIN rows
    BY <1>1, <1>5
  <2>2. rows'[later].file = rows[later].file /\ rows'[shown].file = rows[shown].file
    BY <2>1 DEF Grows
  <2>3. rows[shown].count > 0
    BY <1>5, <2>2 DEF StaleTextNeedsRetry, People
  <2>. QED
    BY <1>3, <2>1, <2>3
<1>6. OrderInv'
  BY <1>4 DEF OrderInv
<1>7. StaleTextNeedsRetry'
  BY <1>5 DEF StaleTextNeedsRetry, People
<1>. QED
  BY <1>6, <1>7

\* The row in turn is the oldest that is pending.
LEMMA CurrentRow ==
    ASSUME DailyTypes, QueueInv, RowsInv, run.step \in Waits
    PROVE  /\ Current \in DOMAIN rows /\ Current \in DOMAIN run.queue
           /\ rows[Current].status = "pending"
           /\ run.queue[Current] = rows[Current].count /\ rows[Current].count < MaxRetry
           /\ \A i \in DOMAIN rows : i < Current => rows[i].status # "pending"
<1>. DEFINE Q == DOMAIN run.queue
<1>1. /\ Q # {} /\ Q = getPendingRecords(rows)
      /\ \A i \in Q : run.queue[i] = rows[i].count
  BY DEF QueueInv
<1>2. \A i \in DOMAIN rows : i \in Nat \ {0}
  BY RowFields
<1>3. Q \subseteq DOMAIN rows /\ \A i \in DOMAIN rows : rows[i].status = "pending" <=> i \in Q
  BY <1>1 DEF getPendingRecords
<1>. HIDE DEF Q
<1>4. Q \in SUBSET Nat
  BY <1>2, <1>3
<1>5. \E i \in Q : \A j \in Q : i <= j
  BY <1>1, <1>4, LeastNumber
<1>6. Current \in Q /\ \A j \in Q : Current <= j
  BY <1>5 DEF Current, Q
<1>7. ASSUME NEW i \in DOMAIN rows, i < Current
      PROVE  i \notin Q
  <2>1. i \in Nat /\ Current \in Nat
    BY <1>2, <1>4, <1>6
  <2>. QED
    BY <1>6, <1>7, <2>1
<1>8. rows[Current].count < MaxRetry
  BY <1>3, <1>6 DEF RowsInv
<1>. QED
  BY <1>1, <1>3, <1>6, <1>7, <1>8 DEF Q

\* What happens to the row in turn: it is done, or it failed once more.
Taken(firsts) ==
    /\ rows' \in Seq(Row) /\ DOMAIN rows' = DOMAIN rows
    /\ \A i \in DOMAIN rows \ {Current} : rows'[i] = rows[i]
    /\ rows'[Current].file = rows[Current].file
    /\ \/ rows'[Current].status = "processed" /\ rows'[Current].count = rows[Current].count
       \/ rows'[Current].status = "error" /\ rows'[Current].count = rows[Current].count + 1
    /\ firsts \subseteq {Current}
    /\ firsts # {} => rows[Current].count = 0 /\ rows'[Current].status = "error"

LEMMA DoneTakes ==
    ASSUME DailyTypes, QueueInv, RowsInv, run.step \in Waits, RowDone
    PROVE  Taken({}) /\ NextRow(TRUE, {})
<1>. DEFINE c == Current
<1>1. c \in DOMAIN rows /\ rows[c] \in Row /\ rows \in Seq(Row)
  BY CurrentRow, RowFields DEF DailyTypes
<1>. HIDE DEF c
<1>2. rows' = [rows EXCEPT ![c] = [rows[c] EXCEPT !.status = "processed"]]
  BY DEF RowDone, markProcessed, c
<1>3. /\ [rows[c] EXCEPT !.status = "processed"] \in Row
      /\ [rows[c] EXCEPT !.status = "processed"].status = "processed"
      /\ [rows[c] EXCEPT !.status = "processed"].count = rows[c].count
      /\ [rows[c] EXCEPT !.status = "processed"].file = rows[c].file
  BY <1>1 DEF Row
<1>4. DOMAIN rows = 1..Len(rows)
  BY <1>1, LenProperties
<1>5. rows' \in Seq(Row)
  BY <1>1, <1>2, <1>3, <1>4, ExceptSeq
<1>6. DOMAIN rows' = DOMAIN rows /\ \A i \in DOMAIN rows \ {c} : rows'[i] = rows[i]
  BY <1>1, <1>2
<1>7. rows'[c] = [rows[c] EXCEPT !.status = "processed"]
  BY <1>1, <1>2
<1>8. NextRow(TRUE, {})
  BY DEF RowDone
<1>9. /\ rows'[c].file = rows[c].file /\ rows'[c].status = "processed"
      /\ rows'[c].count = rows[c].count
  BY <1>3, <1>7
<1>. QED
  BY <1>5, <1>6, <1>8, <1>9 DEF Taken, c

LEMMA FailureTakes ==
    ASSUME DailyTypes, QueueInv, RowsInv, run.step \in Waits,
           NEW type \in Thrown \cup Retryable, RowFails(type)
    PROVE  Taken(FirstTime(Current)) /\ NextRow(FALSE, FirstTime(Current))
<1>. DEFINE c == Current
            failed == [[[rows[c] EXCEPT !.status = "error"] EXCEPT !.type = type]
                          EXCEPT !.count = rows[c].count + 1]
<1>1. /\ c \in DOMAIN rows /\ rows[c] \in Row /\ rows \in Seq(Row)
      /\ rows[c].count \in Nat /\ rows[c].count < MaxRetry
      /\ run.queue[c] = rows[c].count
  BY CurrentRow, RowFields DEF DailyTypes
<1>. HIDE DEF c
<1>2. rows' = [rows EXCEPT ![c] = failed]
  <2>. DEFINE asCoded == [rows[c] EXCEPT !.status = "error", !.type = type, !.count = @ + 1]
  <2>1. rows' = [rows EXCEPT ![c] = asCoded]
    BY DEF RowFails, markError, c
  <2>2. asCoded = failed
    BY <1>1 DEF Row
  <2>. HIDE DEF asCoded, failed
  <2>. QED
    BY <2>1, <2>2
<1>3. [rows[c] EXCEPT !.status = "error"] \in Row
  BY <1>1 DEF Row
<1>4. [[rows[c] EXCEPT !.status = "error"] EXCEPT !.type = type] \in Row
  BY <1>3 DEF Row
<1>5. rows[c].count + 1 \in 0..MaxRetry
  BY <1>1, DailyAssumption
<1>6. /\ failed \in Row /\ failed.status = "error"
      /\ failed.count = rows[c].count + 1 /\ failed.file = rows[c].file
  BY <1>1, <1>4, <1>5 DEF Row
<1>. HIDE DEF failed
<1>7. DOMAIN rows = 1..Len(rows)
  BY <1>1, LenProperties
<1>8. rows' \in Seq(Row)
  BY <1>1, <1>2, <1>6, <1>7, ExceptSeq
<1>9. DOMAIN rows' = DOMAIN rows /\ \A i \in DOMAIN rows \ {c} : rows'[i] = rows[i]
  BY <1>1, <1>2
<1>10. rows'[c] = failed
  BY <1>1, <1>2
<1>11. NextRow(FALSE, FirstTime(Current))
  BY DEF RowFails
<1>12. FirstTime(c) \subseteq {c} /\ (FirstTime(c) # {} => rows[c].count = 0)
  BY <1>1 DEF FirstTime
<1>13. /\ rows'[c].file = rows[c].file /\ rows'[c].status = "error"
       /\ rows'[c].count = rows[c].count + 1
  BY <1>6, <1>10
<1>. QED
  BY <1>8, <1>9, <1>11, <1>12, <1>13 DEF Taken, c

LEMMA NextRowFields ==
    ASSUME run \in Run, Current \in DOMAIN run.queue,
           NEW success \in BOOLEAN, NEW firsts \in SUBSET (Nat \ {0}), NextRow(success, firsts)
    PROVE  /\ run' \in Run
           /\ run'.step = IF DOMAIN run'.queue = {} THEN "notify" ELSE "extract"
           /\ DOMAIN run'.queue = DOMAIN run.queue \ {Current}
           /\ \A i \in DOMAIN run'.queue : run'.queue[i] = run.queue[i]
           /\ run'.firsts = run.firsts \cup firsts
<1>. DEFINE rest == RestOfQueue
            step == IF DOMAIN rest = {} THEN "notify" ELSE "extract"
            snap == NoRun.snap
            r1 == [run EXCEPT !.step = step, !.queue = rest]
            r2 == [r1 EXCEPT !.snap = snap, !.reply = "none"]
            r3 == [r2 EXCEPT !.success = run.success \/ success,
                             !.firsts = run.firsts \cup firsts]
<1>1. /\ DOMAIN rest = DOMAIN run.queue \ {Current}
      /\ \A i \in DOMAIN rest : rest[i] = run.queue[i]
  BY DEF RestOfQueue, Restrict
<1>2. rest \in Queues
  <2>1. run.queue \in Queues
    BY DEF Run
  <2>2. PICK ids \in SUBSET (Nat \ {0}) : run.queue \in [ids -> 0..MaxRetry]
    BY <2>1 DEF Queues
  <2>3. rest \in [ids \ {Current} -> 0..MaxRetry] /\ ids \ {Current} \in SUBSET (Nat \ {0})
    BY <2>2 DEF RestOfQueue, Restrict
  <2>. HIDE DEF rest
  <2>. QED
    BY <2>3 DEF Queues
<1>3. snap \in Files
  BY DEF NoRun, Files
<1>4. step \in RunSteps
  BY DEF RunSteps, Waits
<1>5. run' = r3
  BY DEF NextRow
<1>. HIDE DEF rest, step, snap
<1>6. r1 \in Run /\ r1.step = step /\ r1.queue = rest /\ r1.firsts = run.firsts
  BY <1>2, <1>4 DEF Run
<1>. HIDE DEF r1
<1>7. r2 \in Run /\ r2.step = step /\ r2.queue = rest /\ r2.firsts = run.firsts
  BY <1>3, <1>6 DEF Run
<1>. HIDE DEF r2
<1>8. (run.success \/ success) \in BOOLEAN /\ run.firsts \cup firsts \in SUBSET (Nat \ {0})
  BY DEF Run
<1>9. /\ r3 \in Run /\ r3.step = step /\ r3.queue = rest
      /\ r3.firsts = run.firsts \cup firsts
  BY <1>7, <1>8 DEF Run
<1>10. run' \in Run /\ run'.step = step /\ run'.queue = rest
       /\ run'.firsts = run.firsts \cup firsts
  BY <1>5, <1>9
<1>. QED
  BY <1>1, <1>10 DEF step

LEMMA TakenStep ==
    ASSUME DailyInv, run.step \in Waits,
           NEW success \in BOOLEAN, NEW firsts, Taken(firsts), NextRow(success, firsts),
           UNCHANGED <<unitbase, written, announced, uploads>>
    PROVE  DailyInv'
<1>. DEFINE c == Current
<1>1. DailyTypes /\ QueueInv /\ RowsInv /\ FirstsInv /\ OrderInv /\ StaleTextNeedsRetry
  BY DEF DailyInv
<1>2. /\ c \in DOMAIN rows /\ c \in DOMAIN run.queue
      /\ run.queue[c] = rows[c].count /\ rows[c].count < MaxRetry
  BY <1>1, CurrentRow
<1>3. /\ c \in Nat \ {0} /\ rows[c].count \in Nat
      /\ \A i \in DOMAIN rows : rows[i].count \in Nat
  BY <1>1, <1>2, RowFields
<1>. HIDE DEF c
<1>4. /\ rows' \in Seq(Row) /\ DOMAIN rows' = DOMAIN rows
      /\ \A i \in DOMAIN rows : i # c => rows'[i] = rows[i]
      /\ rows'[c].file = rows[c].file
      /\ \/ rows'[c].status = "processed" /\ rows'[c].count = rows[c].count
         \/ rows'[c].status = "error" /\ rows'[c].count = rows[c].count + 1
      /\ firsts \subseteq {c}
      /\ firsts # {} => rows[c].count = 0 /\ rows'[c].status = "error"
  BY DEF Taken, c
<1>5. /\ run' \in Run
      /\ run'.step = IF DOMAIN run'.queue = {} THEN "notify" ELSE "extract"
      /\ DOMAIN run'.queue = DOMAIN run.queue \ {c}
      /\ \A i \in DOMAIN run'.queue : run'.queue[i] = run.queue[i]
      /\ run'.firsts = run.firsts \cup firsts
  <2>1. firsts \in SUBSET (Nat \ {0}) /\ run \in Run /\ c \in DOMAIN run.queue
    BY <1>1, <1>2, <1>3, <1>4 DEF DailyTypes
  <2>. QED
    BY <2>1, NextRowFields DEF c
<1>6. rows[c].status = "pending"
  BY <1>1, CurrentRow DEF c
<1>7. Grows
  <2>1. ASSUME NEW i \in DOMAIN rows
        PROVE  /\ i \in DOMAIN rows'
               /\ rows'[i].file = rows[i].file
               /\ rows'[i].count >= rows[i].count
               /\ rows[i].status = "processed" => rows'[i].status = "processed"
    <3>1. CASE i = c
      BY <1>3, <1>4, <1>6, <3>1
    <3>2. CASE i # c
      <4>1. rows'[i] = rows[i] /\ rows[i].count \in Nat
        BY <1>3, <1>4, <3>2
      <4>. QED
        BY <1>4, <4>1
    <3>. QED
      BY <3>1, <3>2
  <2>. QED
    BY <1>4, <2>1 DEF Grows
<1>8. DailyTypes'
  BY <1>1, <1>2, <1>4, <1>5 DEF DailyTypes
<1>9. QueueInv'
  <2>1. DOMAIN run.queue = getPendingRecords(rows)
    BY <1>1 DEF QueueInv
  <2>2. DOMAIN run'.queue = getPendingRecords(rows)'
    <3>1. ASSUME NEW i
          PROVE  i \in getPendingRecords(rows)' <=> i \in getPendingRecords(rows) /\ i # c
      BY <1>4 DEF getPendingRecords
    <3>. QED
      BY <1>5, <2>1, <3>1
  <2>3. \A i \in DOMAIN run'.queue : run'.queue[i] = rows'[i].count
    BY <1>1, <1>4, <1>5, <2>1 DEF QueueInv, getPendingRecords
  <2>4. /\ run'.step \in Waits => DOMAIN run'.queue # {}
        /\ run'.step \notin Waits => DOMAIN run'.queue = {}
        /\ run'.step # "list" /\ run'.step # "login"
    BY <1>5 DEF Waits
  <2>. QED
    BY <2>2, <2>3, <2>4 DEF QueueInv
<1>10. RowsInv'
  BY <1>1, <1>3, <1>4 DEF RowsInv
<1>11. FirstsInv'
  <2>1. ASSUME NEW i \in DOMAIN rows'
        PROVE  /\ announced'[i] = 1 \/ i \in run'.firsts => rows'[i].count > 0
               /\ i \in run'.firsts => announced'[i] = 0
    <3>1. /\ announced[i] = 1 \/ i \in run.firsts => rows[i].count > 0
          /\ i \in run.firsts => announced[i] = 0
          /\ announced[i] \in {0, 1} /\ announced'[i] = announced[i] /\ rows[i].count \in Nat
      BY <1>1, <1>3, <1>4, <2>1 DEF FirstsInv, DailyTypes
    <3>2. CASE i # c
      BY <1>4, <1>5, <3>1, <3>2
    <3>3. CASE i = c
      BY <1>4, <1>5, <3>1, <3>3
    <3>. QED
      BY <3>2, <3>3
  <2>. QED
    BY <2>1 DEF FirstsInv
<1>12. OrderInv' /\ StaleTextNeedsRetry'
  BY <1>1, <1>7, OrderKept
<1>. QED
  BY <1>8, <1>9, <1>10, <1>11, <1>12 DEF DailyInv

\* A step that changes the run only, and not what waits in it.
LEMMA QuietStep ==
    ASSUME DailyInv, run' \in Run,
           UNCHANGED <<unitbase, rows, written, announced, uploads>>,
           \/ run'.step \in Waits /\ run.step \in Waits /\ run'.queue = run.queue
           \/ run'.step \notin Waits /\ DOMAIN run'.queue = {},
           run'.firsts \subseteq run.firsts,
           run'.step = "list" => run'.start < Len(Applicants),
           run'.step = "login" => run'.start = 0
    PROVE  DailyInv'
<1>1. DailyTypes /\ QueueInv /\ RowsInv /\ FirstsInv /\ OrderInv /\ StaleTextNeedsRetry
  BY DEF DailyInv
<1>2. DailyTypes'
  BY <1>1 DEF DailyTypes
<1>3. QueueInv'
  BY <1>1 DEF QueueInv, getPendingRecords, Waits
<1>4. RowsInv' /\ FirstsInv'
  BY <1>1 DEF RowsInv, FirstsInv
<1>5. OrderInv' /\ StaleTextNeedsRetry'
  BY <1>1 DEF OrderInv, StaleTextNeedsRetry
<1>. QED
  BY <1>2, <1>3, <1>4, <1>5 DEF DailyInv

LEMMA NoRunFields ==
    /\ NoRun \in Run /\ NoRun.step = "idle" /\ NoRun.firsts = {} /\ NoRun.start = 0
    /\ DOMAIN NoRun.queue = {}
<1>1. /\ NoRun.step = "idle" /\ NoRun.dry = FALSE /\ NoRun.start = 0 /\ NoRun.listed = <<>>
      /\ NoRun.queue = <<>> /\ NoRun.snap = [f \in Fields |-> NoPath]
      /\ NoRun.reply = "none" /\ NoRun.success = FALSE /\ NoRun.firsts = {}
  BY DEF NoRun
<1>2. <<>> \in Listings
  BY EmptySeq DEF Listings
<1>3. <<>> \in Queues /\ DOMAIN <<>> = {}
  <2>1. <<>> \in [{} -> 0..MaxRetry] /\ {} \in SUBSET (Nat \ {0})
    OBVIOUS
  <2>. QED
    BY <2>1 DEF Queues
<1>4. [f \in Fields |-> NoPath] \in Files
  BY DEF Files
<1>. HIDE DEF Fields, Replies
<1>5. NoRun \in Run
  BY <1>2, <1>3, <1>4 DEF NoRun, Run, RunSteps
<1>. QED
  BY <1>1, <1>3, <1>5

LEMMA EndsStep ==
    ASSUME DailyInv, run' = NoRun, UNCHANGED <<unitbase, rows, written, announced, uploads>>
    PROVE  DailyInv'
<1>1. /\ run' \in Run /\ run'.step = "idle" /\ run'.firsts = {}
      /\ DOMAIN run'.queue = {}
  BY NoRunFields
<1>2. run'.step \notin Waits /\ run'.step # "list" /\ run'.step # "login"
  BY <1>1 DEF Waits
<1>. QED
  BY <1>1, <1>2, QuietStep

LEMMA BeginStep ==
    ASSUME DailyInv, NEW dry \in BOOLEAN, Begin(dry)
    PROVE  DailyInv'
<1>1. run' = [NoRun EXCEPT !.step = "login", !.dry = dry]
  BY DEF Begin
<1>2. /\ run' \in Run /\ run'.step = "login" /\ run'.firsts = NoRun.firsts
      /\ run'.queue = NoRun.queue /\ run'.start = NoRun.start
  BY <1>1, NoRunFields DEF Run, RunSteps
<1>3. run'.step \notin Waits /\ run'.step # "list"
  BY <1>2 DEF Waits
<1>. QED
  BY <1>2, <1>3, NoRunFields, QuietStep DEF Begin

LEMMA ListBounds ==
    ASSUME DailyInv
    PROVE  /\ run \in Run /\ Len(Applicants) \in Nat
           /\ run.step \notin Waits => DOMAIN run.queue = {}
           /\ run.step = "list" => run.start < Len(Applicants)
<1>1. Len(Applicants) \in Nat
  BY DailyAssumption, LenProperties
<1>. QED
  BY <1>1 DEF DailyInv, DailyTypes, QueueInv

LEMMA MovesStep ==
    ASSUME DailyInv, NEW from \in RunSteps \ Waits, NEW to \in RunSteps \ Waits,
           run.step = from, run' = [run EXCEPT !.step = to],
           to # "login", to = "list" => run.start < Len(Applicants),
           UNCHANGED <<unitbase, rows, written, announced, uploads>>
    PROVE  DailyInv'
<1>1. run \in Run /\ DOMAIN run.queue = {}
  BY ListBounds
<1>2. /\ run' \in Run /\ run'.step = to /\ run'.firsts = run.firsts
      /\ run'.queue = run.queue /\ run'.start = run.start
  BY <1>1 DEF Run
<1>. QED
  BY <1>1, <1>2, QuietStep

LEMMA WorksStep ==
    ASSUME DailyInv, NEW from \in Waits, NEW to \in Waits,
           run.step = from, run' = [run EXCEPT !.step = to],
           UNCHANGED <<unitbase, rows, written, announced, uploads>>
    PROVE  DailyInv'
<1>1. run \in Run /\ to # "login" /\ to # "list" /\ to \in RunSteps
  BY ListBounds DEF Waits, RunSteps
<1>2. /\ run' \in Run /\ run'.step = to /\ run'.firsts = run.firsts
      /\ run'.queue = run.queue
  BY <1>1 DEF Run
<1>. QED
  BY <1>1, <1>2, QuietStep

\* What the page of a listing holds.
LEMMA FilesOfType ==
    ASSUME DailyTypes, NEW a \in People
    PROVE  FilesOf(a) \in Seq(File)
<1>. DEFINE path(f) == unitbase[a].files[f]
            file(f) == IF path(f) = NoPath THEN <<>> ELSE <<<<a, f, path(f)>>>>
<1>1. unitbase[a].files \in Files
  BY DEF DailyTypes
<1>2. ASSUME NEW f \in Fields
      PROVE  file(f) \in Seq(File)
  <2>1. path(f) \in Paths \cup {NoPath}
    BY <1>1 DEF Files
  <2>2. CASE path(f) = NoPath
    BY <2>2, EmptySeq
  <2>3. CASE path(f) # NoPath
    <3>1. <<a, f, path(f)>> \in File
      BY <2>1, <2>3 DEF File
    <3>. HIDE DEF File, path
    <3>2. <<<<a, f, path(f)>>>> \in Seq(File)
      BY <3>1
    <3>. QED
      BY <2>3, <3>2
  <2>. QED
    BY <2>2, <2>3
<1>3. "resume" \in Fields /\ "cv" \in Fields
  BY DEF Fields
<1>4. FilesOf(a) = file("resume") \o file("cv")
  BY DEF FilesOf
<1>. HIDE DEF file
<1>. QED
  BY <1>2, <1>3, <1>4, ConcatProperties

LEMMA ListPageStep ==
    ASSUME DailyInv, ListPage
    PROVE  DailyInv'
<1>. DEFINE last == run.start + PageSize
            until == IF last > Len(Applicants) THEN Len(Applicants) ELSE last
            page == SubSeq(Applicants, run.start + 1, until)
            found == [k \in DOMAIN page |-> FilesOf(page[k])]
            step == IF last >= Len(Applicants) THEN "sync" ELSE "list"
<1>1. /\ run \in Run /\ Len(Applicants) \in Nat /\ PageSize \in Nat
      /\ run.step = "list" /\ run.start < Len(Applicants) /\ DOMAIN run.queue = {}
      /\ run.start \in Nat /\ run.listed \in Listings
  BY ListBounds, DailyAssumption DEF ListPage, Waits, Run
<1>2. DailyTypes
  BY DEF DailyInv
<1>3. page \in Seq(People)
  <2>1. run.start + 1 \in Int /\ until \in Int
    BY <1>1
  <2>2. \A i \in run.start + 1 .. until : i \in 1 .. Len(Applicants)
    BY <1>1
  <2>3. \A i \in 1 .. Len(Applicants) : Applicants[i] \in People
    BY DailyAssumption, ElementOfSeq DEF People
  <2>4. \A i \in run.start + 1 .. until : Applicants[i] \in People
    BY <2>2, <2>3
  <2>. HIDE DEF until
  <2>. QED
    BY <2>1, <2>4, SubSeqProperties
<1>. HIDE DEF page
<1>4. DOMAIN page = 1 .. Len(page) /\ Len(page) \in Nat
  BY <1>3, LenProperties
<1>5. \A k \in 1 .. Len(page) : FilesOf(page[k]) \in Seq(File)
  BY <1>2, <1>3, FilesOfType, ElementOfSeq
<1>6. found \in Seq(Seq(File))
  <2>1. found \in [1 .. Len(page) -> Seq(File)]
    BY <1>4, <1>5
  <2>. HIDE DEF found
  <2>. QED
    BY <1>4, <2>1, SeqDef
<1>7. FlattenSeq(found) \in Seq(File)
  <2>. HIDE DEF found
  <2>. QED
    BY <1>6, FlattenSeqProperties
<1>. DEFINE listed == run.listed \o FlattenSeq(found)
<1>8. listed \in Listings
  BY <1>1, <1>7, ConcatProperties DEF Listings
<1>9. run' = [run EXCEPT !.listed = listed, !.start = last, !.step = step]
  BY DEF ListPage, page
<1>10. last \in Nat /\ step \in RunSteps /\ step \notin Waits /\ step # "login"
       /\ (step = "list" => last < Len(Applicants))
  BY <1>1 DEF RunSteps, Waits
<1>11. UNCHANGED <<unitbase, rows, written, announced, uploads>>
  BY DEF ListPage
<1>. HIDE DEF last, step, listed
<1>12. /\ run' \in Run /\ run'.step = step /\ run'.start = last
       /\ run'.queue = run.queue /\ run'.firsts = run.firsts
  BY <1>1, <1>8, <1>9, <1>10 DEF Run
<1>. QED
  BY <1>1, <1>10, <1>11, <1>12, QuietStep

LEMMA DoneStep ==
    ASSUME DailyInv, run.step \in Waits, RowDone,
           UNCHANGED <<unitbase, written, announced, uploads>>
    PROVE  DailyInv'
<1>1. Taken({}) /\ NextRow(TRUE, {})
  BY DoneTakes DEF DailyInv
<1>2. TRUE \in BOOLEAN
  OBVIOUS
<1>. QED
  BY <1>1, <1>2, TakenStep

LEMMA FailureStep ==
    ASSUME DailyInv, run.step \in Waits, NEW type \in Thrown \cup Retryable, RowFails(type),
           UNCHANGED <<unitbase, written, announced, uploads>>
    PROVE  DailyInv'
<1>1. Taken(FirstTime(Current)) /\ NextRow(FALSE, FirstTime(Current))
  BY FailureTakes DEF DailyInv
<1>2. FALSE \in BOOLEAN
  OBVIOUS
<1>. QED
  BY <1>1, <1>2, TakenStep

LEMMA ExtractStep ==
    ASSUME DailyInv, Extract
    PROVE  DailyInv'
<1>1. run.step = "extract" /\ UNCHANGED <<unitbase, written, announced, uploads>>
  BY DEF Extract
<1>2. CASE run' = [run EXCEPT !.step = "get"] /\ UNCHANGED rows
  BY <1>1, <1>2, WorksStep DEF Waits
<1>3. CASE RowDone
  BY <1>1, <1>3, DoneStep DEF Waits
<1>4. ASSUME NEW found \in Thrown, RowFails(found)
      PROVE  DailyInv'
  BY <1>1, <1>4, FailureStep DEF Waits
<1>. QED
  BY <1>2, <1>3, <1>4 DEF Extract

LEMMA GetRecordStep ==
    ASSUME DailyInv, GetRecord
    PROVE  DailyInv'
<1>1. run.step = "get" /\ UNCHANGED <<unitbase, written, announced, uploads>>
  BY DEF GetRecord
<1>2. CASE RowFails("unexpected")
  BY <1>1, <1>2, FailureStep DEF Waits, Thrown
<1>3. CASE run' = [run EXCEPT !.step = "put", !.snap = unitbase[RecordOf(Current)].files]
           /\ UNCHANGED rows
  <2>. DEFINE snap == unitbase[RecordOf(Current)].files
  <2>1. DailyTypes /\ QueueInv /\ RowsInv /\ run.step \in Waits
    BY <1>1 DEF DailyInv, Waits
  <2>2. Current \in DOMAIN rows
    BY <2>1, CurrentRow
  <2>3. RecordOf(Current) \in People
    BY <2>1, <2>2, RowFields DEF RecordOf, File
  <2>4. snap \in Files /\ run \in Run
    BY <2>1, <2>3 DEF DailyTypes
  <2>. HIDE DEF snap
  <2>5. /\ run' \in Run /\ run'.step = "put" /\ run'.firsts = run.firsts
        /\ run'.queue = run.queue
    BY <1>3, <2>4 DEF Run, RunSteps, Waits, snap
  <2>6. "put" \in Waits /\ "put" # "list" /\ "put" # "login"
    BY DEF Waits
  <2>. QED
    BY <1>1, <1>3, <2>1, <2>5, <2>6, QuietStep
<1>. QED
  BY <1>2, <1>3 DEF GetRecord

LEMMA PutAnsweredStep ==
    ASSUME DailyInv, PutAnswered
    PROVE  DailyInv'
<1>1. run.step \in Waits /\ UNCHANGED <<unitbase, written, announced, uploads>>
  BY DEF PutAnswered, Waits
<1>2. "write_error" \in Thrown \cup Retryable /\ "unexpected" \in Thrown \cup Retryable
  BY DEF Thrown, Retryable
<1>. QED
  BY <1>1, <1>2, DoneStep, FailureStep DEF PutAnswered

LEMMA PutRecordStep ==
    ASSUME DailyInv, PutRecord
    PROVE  DailyInv'
<1>. DEFINE c == Current
            a == RecordOf(Current)
            shown == [files |-> run.snap, text |-> Current]
<1>1. DailyTypes /\ QueueInv /\ RowsInv /\ FirstsInv /\ OrderInv /\ StaleTextNeedsRetry
  BY DEF DailyInv
<1>2. run.step = "put" /\ run.step \in Waits /\ UNCHANGED <<rows, announced, uploads>>
  BY DEF PutRecord, Waits
<1>3. PICK reply \in Replies, applied \in BOOLEAN :
         /\ IF applied
            THEN unitbase' = [unitbase EXCEPT ![a] = shown] /\ written' = written \cup {c}
            ELSE UNCHANGED <<unitbase, written>>
         /\ run' = [run EXCEPT !.step = "answer", !.reply = reply]
  BY DEF PutRecord, Applied
<1>4. /\ c \in DOMAIN rows /\ rows[c].status = "pending"
      /\ \A i \in DOMAIN rows : i < c => rows[i].status # "pending"
  BY <1>1, <1>2, CurrentRow
<1>5. /\ \A i \in DOMAIN rows :
            /\ i \in Nat \ {0}
            /\ rows[i].status \in {"pending", "processed", "error"}
      /\ a \in People /\ a = rows[c].file[1]
  <2>1. rows[c].file \in File
    BY <1>1, <1>4, RowFields
  <2>. QED
    BY <1>1, <2>1, RowFields DEF RecordOf, File
<1>6. run \in Run /\ run.snap \in Files
  BY <1>1 DEF DailyTypes, Run
<1>. HIDE DEF c, a
<1>7. /\ run' \in Run /\ run'.step = "answer" /\ run'.firsts = run.firsts
      /\ run'.queue = run.queue
  BY <1>3, <1>6 DEF Run, RunSteps, Waits
<1>8. CASE ~applied
  <2>1. "answer" \in Waits /\ "answer" # "list" /\ "answer" # "login"
    BY DEF Waits
  <2>. QED
    BY <1>2, <1>3, <1>7, <1>8, <2>1, QuietStep
<1>9. CASE applied
  <2>1. unitbase' = [unitbase EXCEPT ![a] = shown] /\ written' = written \cup {c}
    BY <1>3, <1>9
  <2>2. shown \in [files : Files, text : Nat] /\ shown.text = c
    BY <1>4, <1>5, <1>6 DEF c
  <2>. HIDE DEF shown
  <2>3. /\ unitbase' \in [People -> [files : Files, text : Nat]]
        /\ unitbase'[a].text = c
        /\ \A b \in People \ {a} : unitbase'[b] = unitbase[b]
    BY <1>1, <1>5, <2>1, <2>2 DEF DailyTypes
  <2>4. DailyTypes'
    <3>1. \A b \in People : unitbase'[b].text \in DOMAIN rows \cup {0}
      BY <1>1, <1>4, <2>3 DEF DailyTypes
    <3>. QED
      BY <1>1, <1>2, <1>4, <1>7, <2>1, <2>3, <3>1 DEF DailyTypes
  <2>5. QueueInv'
    BY <1>1, <1>2, <1>7 DEF QueueInv, getPendingRecords, Waits
  <2>6. RowsInv' /\ FirstsInv'
    BY <1>1, <1>2, <1>7 DEF RowsInv, FirstsInv
  <2>7. ASSUME NEW i \in DOMAIN rows, i < c
        PROVE  rows[i].status = "processed" \/ rows[i].count > 0
    BY <1>1, <1>4, <1>5, <2>7 DEF RowsInv
  <2>8. OrderInv'
    BY <1>1, <1>2, <2>1, <2>7 DEF OrderInv
  <2>9. ASSUME NEW b \in People, NEW s, s = unitbase'[b].text, s # 0,
               NEW later \in written', later > s, rows[later].file[1] = b,
               rows[later].file[2] = rows[s].file[2]
        PROVE  rows[s].count > 0
    <3>1. CASE b = a
      <4>1. s = c /\ later \in written
        BY <1>4, <1>5, <2>1, <2>3, <2>9, <3>1
      <4>2. rows[c].status = "processed" \/ rows[c].count > 0
        BY <1>1, <1>4, <2>9, <4>1 DEF OrderInv
      <4>. QED
        BY <1>4, <4>1, <4>2
    <3>2. CASE b # a
      <4>1. s = unitbase[b].text /\ later \in written
        BY <1>5, <2>1, <2>3, <2>9, <3>2
      <4>. QED
        BY <1>1, <2>9, <4>1 DEF StaleTextNeedsRetry, People
    <3>. QED
      BY <3>1, <3>2
  <2>10. StaleTextNeedsRetry'
    BY <1>2, <2>9 DEF StaleTextNeedsRetry, People
  <2>. QED
    BY <2>4, <2>5, <2>6, <2>8, <2>10 DEF DailyInv
<1>. QED
  BY <1>8, <1>9

LEMMA NotifyStep ==
    ASSUME DailyInv, Notify
    PROVE  DailyInv'
<1>1. /\ run.step = "notify" /\ run' = NoRun
      /\ UNCHANGED <<unitbase, rows, written, uploads>>
  BY DEF Notify
<1>2. CASE UNCHANGED announced
  BY <1>1, <1>2, EndsStep
<1>3. CASE sendLineMessage
  <2>1. DailyTypes /\ QueueInv /\ RowsInv /\ FirstsInv /\ OrderInv /\ StaleTextNeedsRetry
    BY DEF DailyInv
  <2>2. /\ run' \in Run /\ run'.step = "idle" /\ run'.firsts = {}
        /\ DOMAIN run'.queue = {}
    BY <1>1, NoRunFields
  <2>3. ASSUME NEW i \in DOMAIN rows
        PROVE  /\ announced'[i] \in {0, 1}
               /\ announced'[i] = 1 => rows[i].count > 0
    <3>1. DOMAIN announced = DOMAIN rows /\ announced[i] \in {0, 1}
      BY <2>1 DEF DailyTypes
    <3>2. announced'[i] = announced[i] + IF i \in run.firsts THEN 1 ELSE 0
      BY <1>3, <3>1 DEF sendLineMessage
    <3>3. /\ announced[i] = 1 \/ i \in run.firsts => rows[i].count > 0
          /\ i \in run.firsts => announced[i] = 0
      BY <2>1 DEF FirstsInv
    <3>. QED
      BY <3>1, <3>2, <3>3
  <2>4. announced' = [i \in DOMAIN rows |-> announced'[i]]
    <3>1. DOMAIN announced = DOMAIN rows
      BY <2>1 DEF DailyTypes
    <3>. QED
      BY <1>3, <3>1 DEF sendLineMessage
  <2>5. announced' \in [DOMAIN rows -> {0, 1}]
    BY <2>3, <2>4
  <2>6. DailyTypes'
    BY <1>1, <2>1, <2>2, <2>5 DEF DailyTypes
  <2>7. QueueInv'
    BY <2>2 DEF QueueInv, Waits
  <2>8. RowsInv' /\ FirstsInv'
    BY <1>1, <2>1, <2>2, <2>3 DEF RowsInv, FirstsInv
  <2>9. OrderInv' /\ StaleTextNeedsRetry'
    BY <1>1, <2>1 DEF OrderInv, StaleTextNeedsRetry
  <2>. QED
    BY <2>6, <2>7, <2>8, <2>9 DEF DailyInv
<1>. QED
  BY <1>2, <1>3 DEF Notify

LEMMA UploadStep ==
    ASSUME DailyInv, NEW a \in People, NEW f \in Fields, Upload(a, f)
    PROVE  DailyInv'
<1>1. DailyTypes /\ QueueInv /\ RowsInv /\ FirstsInv /\ OrderInv /\ StaleTextNeedsRetry
  BY DEF DailyInv
<1>2. /\ unitbase' = [unitbase EXCEPT ![a].files[f] = uploads + 1]
      /\ uploads < MaxUploads /\ uploads' = uploads + 1
      /\ UNCHANGED <<rows, run, written, announced>>
  BY DEF Upload
<1>3. uploads + 1 \in Paths /\ uploads' \in 0..MaxUploads
  BY <1>1, <1>2, DailyAssumption DEF DailyTypes, Paths
<1>. DEFINE old == unitbase[a]
            files == [old.files EXCEPT ![f] = uploads + 1]
            new == [old EXCEPT !.files = files]
<1>4. old \in [files : Files, text : Nat]
  BY <1>1 DEF DailyTypes
<1>5. files \in Files
  BY <1>3, <1>4 DEF Files
<1>6. unitbase' = [unitbase EXCEPT ![a] = new]
  BY <1>2
<1>. HIDE DEF files
<1>7. new \in [files : Files, text : Nat] /\ new.text = old.text
  BY <1>4, <1>5
<1>. HIDE DEF new
<1>8. /\ unitbase' \in [People -> [files : Files, text : Nat]]
      /\ \A b \in People : unitbase'[b].text = unitbase[b].text
  BY <1>1, <1>6, <1>7 DEF DailyTypes
<1>9. DailyTypes'
  BY <1>1, <1>2, <1>3, <1>8 DEF DailyTypes
<1>10. QueueInv' /\ RowsInv' /\ FirstsInv'
  BY <1>1, <1>2 DEF QueueInv, RowsInv, FirstsInv, getPendingRecords
<1>11. OrderInv' /\ StaleTextNeedsRetry'
  BY <1>1, <1>2, <1>8, GrowsItself, OrderKept
<1>. QED
  BY <1>9, <1>10, <1>11 DEF DailyInv

-----------------------------------------------------------------------------
\* Synchronising the table.

\* The table when the first n files are taken.
Synchronises(table, files) ==
    table = [n \in 0..Len(files) |-> IF n = 0
                                     THEN [i \in DOMAIN rows |-> RetriedRow(rows[i])]
                                     ELSE InsertPending(table[n - 1], files[n])]

LEMMA SynchronisesExists ==
    ASSUME NEW files \in Listings
    PROVE  \E table : Synchronises(table, files)
<1>. DEFINE first == [i \in DOMAIN rows |-> RetriedRow(rows[i])]
            next(g, n) == IF n = 0 THEN first ELSE InsertPending(g[n - 1], files[n])
            upTo(g, m) == g = [n \in 0..m |-> next(g, n)]
            T == {m \in Nat : \E g : upTo(g, m)}
<1>. HIDE DEF first
<1>1. 0 \in T
  <2>. DEFINE g == [n \in 0..0 |-> first]
  <2>1. g = [n \in 0..0 |-> next(g, n)]
    OBVIOUS
  <2>. HIDE DEF g
  <2>. QED
    BY <2>1
<1>2. ASSUME NEW m \in Nat, m \in T
      PROVE  m + 1 \in T
  <2>1. PICK g : upTo(g, m)
    BY <1>2
  <2>. DEFINE last == InsertPending(g[m], files[m + 1])
              h == [n \in 0..m + 1 |-> IF n =< m THEN g[n] ELSE last]
  <2>2. ASSUME NEW n \in 0..m + 1
        PROVE  h[n] = next(h, n)
    <3>1. CASE n = 0
      BY <2>1, <3>1
    <3>2. CASE n # 0 /\ n =< m
      <4>1. n \in 0..m /\ n - 1 \in 0..m + 1 /\ n - 1 =< m
        BY <3>2
      <4>2. g[n] = next(g, n)
        BY <2>1, <4>1
      <4>3. h[n] = g[n] /\ h[n - 1] = g[n - 1]
        BY <4>1
      <4>. QED
        BY <3>2, <4>2, <4>3
    <3>3. CASE n = m + 1
      <4>1. /\ n # 0 /\ n - 1 = m /\ ~ (m + 1 =< m) /\ m \in 0..m + 1 /\ m =< m
            /\ m + 1 \in 0..m + 1
        BY <3>3
      <4>2. h[m] = g[m]
        BY <4>1
      <4>3. h[m + 1] = last
        BY <4>1
      <4>. QED
        BY <3>3, <4>1, <4>2, <4>3
    <3>. QED
      BY <3>1, <3>2, <3>3
  <2>3. h = [n \in 0..m + 1 |-> next(h, n)]
    BY <2>2
  <2>. HIDE DEF h
  <2>4. upTo(h, m + 1) /\ m + 1 \in Nat
    BY <2>3
  <2>. QED
    BY <2>4
<1>3. \A m \in Nat : m \in T
  <2>. HIDE DEF T
  <2>. QED
    BY <1>1, <1>2, SetInduction
<1>4. Len(files) \in Nat
  BY LenProperties DEF Listings
<1>5. PICK g : upTo(g, Len(files))
  BY <1>3, <1>4
<1>. QED
  BY <1>5 DEF Synchronises, first

\* The rows the table had, retried, and after them rows that are new.
Synced(table) ==
    /\ table \in Seq(Row) /\ Len(rows) =< Len(table)
    /\ \A i \in 1..Len(rows) : table[i] = RetriedRow(rows[i])
    /\ \A i \in 1..Len(table) :
          i > Len(rows) => table[i].status = "pending" /\ table[i].count = 0

LEMMA Retried ==
    ASSUME NEW row \in Row
    PROVE  /\ RetriedRow(row) \in Row
           /\ RetriedRow(row).file = row.file /\ RetriedRow(row).count = row.count
           /\ \/ RetriedRow(row).status = row.status
              \/ /\ row.status = "error" /\ row.count < MaxRetry
                 /\ RetriedRow(row).status = "pending"
BY DEF RetriedRow, Row

LEMMA InsertKeeps ==
    ASSUME rows \in Seq(Row), NEW table, Synced(table), NEW file \in File
    PROVE  Synced(InsertPending(table, file))
<1>1. CASE \E i \in DOMAIN table : table[i].file = file
  BY <1>1 DEF InsertPending
<1>2. CASE ~ \E i \in DOMAIN table : table[i].file = file
  <2>. DEFINE new == pendingRow(file)
              longer == Append(table, new)
  <2>1. new \in Row /\ new.status = "pending" /\ new.count = 0
    BY DailyAssumption DEF pendingRow, Row, File, People
  <2>. HIDE DEF new
  <2>2. table \in Seq(Row) /\ Len(rows) \in Nat /\ Len(table) \in Nat /\ Len(rows) =< Len(table)
    BY LenProperties DEF Synced
  <2>3. /\ longer \in Seq(Row) /\ Len(longer) = Len(table) + 1
        /\ \A i \in 1..Len(table) : longer[i] = table[i]
        /\ longer[Len(table) + 1] = new
    BY <2>1, <2>2, AppendProperties
  <2>. HIDE DEF longer
  <2>4. \A i \in 1..Len(rows) : longer[i] = RetriedRow(rows[i])
    <3>1. \A i \in 1..Len(rows) : i \in 1..Len(table)
      BY <2>2
    <3>. QED
      BY <2>3, <3>1 DEF Synced
  <2>5. ASSUME NEW i \in 1..Len(longer), i > Len(rows)
        PROVE  longer[i].status = "pending" /\ longer[i].count = 0
    <3>1. i \in 1..Len(table) \/ i = Len(table) + 1
      BY <2>2, <2>3
    <3>. QED
      BY <2>1, <2>3, <2>5, <3>1 DEF Synced
  <2>6. Len(rows) =< Len(longer)
    BY <2>2, <2>3
  <2>7. Synced(longer)
    BY <2>3, <2>4, <2>5, <2>6 DEF Synced
  <2>. QED
    BY <1>2, <2>7 DEF InsertPending, longer, new
<1>. QED
  BY <1>1, <1>2

LEMMA SyncedTable ==
    ASSUME rows \in Seq(Row), NEW files \in Listings
    PROVE  Synced(syncRecords(files))
<1>. DEFINE t == CHOOSE g : Synchronises(g, files)
<1>1. Len(files) \in Nat /\ \A n \in 1..Len(files) : files[n] \in File
  BY LenProperties, ElementOfSeq DEF Listings
<1>2. syncRecords(files) = t[Len(files)]
  BY DEF syncRecords, Synchronises
<1>3. Synchronises(t, files)
  BY SynchronisesExists
<1>. HIDE DEF t
<1>. DEFINE T == {m \in Nat : m =< Len(files) => Synced(t[m])}
<1>4. 0 \in T
  <2>. DEFINE first == [i \in DOMAIN rows |-> RetriedRow(rows[i])]
  <2>1. t[0] = first
    BY <1>1, <1>3 DEF Synchronises
  <2>2. Len(rows) \in Nat /\ DOMAIN rows = 1..Len(rows)
    BY LenProperties
  <2>3. \A i \in 1..Len(rows) : RetriedRow(rows[i]) \in Row
    BY Retried, ElementOfSeq
  <2>4. first \in [1..Len(rows) -> Row] /\ \A i \in 1..Len(rows) : first[i] = RetriedRow(rows[i])
    BY <2>2, <2>3
  <2>. HIDE DEF first
  <2>5. first \in Seq(Row)
    BY <2>2, <2>4, SeqDef
  <2>6. Len(first) = Len(rows)
    <3>1. DOMAIN first = 1..Len(rows)
      BY <2>4
    <3>. QED
      BY <2>2, <2>5, <3>1
  <2>7. Synced(first)
    BY <2>2, <2>4, <2>5, <2>6 DEF Synced
  <2>. QED
    BY <2>1, <2>7
<1>5. ASSUME NEW m \in Nat, m \in T
      PROVE  m + 1 \in T
  <2>. SUFFICES ASSUME m + 1 =< Len(files)
                PROVE  Synced(t[m + 1])
    OBVIOUS
  <2>1. Synced(t[m])
    BY <1>1, <1>5
  <2>2. m + 1 \in 0..Len(files) /\ m + 1 # 0 /\ (m + 1) - 1 = m /\ m + 1 \in 1..Len(files)
    BY <1>1
  <2>3. t[m + 1] = InsertPending(t[m], files[m + 1])
    BY <1>3, <2>2 DEF Synchronises
  <2>4. files[m + 1] \in File
    BY <1>1, <2>2
  <2>. QED
    BY <2>1, <2>3, <2>4, InsertKeeps
<1>6. \A m \in Nat : m \in T
  <2>. HIDE DEF T
  <2>. QED
    BY <1>4, <1>5, SetInduction
<1>7. Len(files) =< Len(files)
  BY <1>1
<1>8. Synced(t[Len(files)])
  BY <1>1, <1>6, <1>7
<1>. QED
  BY <1>2, <1>8

LEMMA SyncStep ==
    ASSUME DailyInv, Sync
    PROVE  DailyInv'
<1>. DEFINE pending == getPendingRecords(rows')
            queue == [i \in pending |-> rows'[i].count]
<1>1. DailyTypes /\ QueueInv /\ RowsInv /\ FirstsInv /\ OrderInv /\ StaleTextNeedsRetry
  BY DEF DailyInv
<1>2. /\ run \in Run /\ rows \in Seq(Row) /\ run.listed \in Listings
      /\ MaxRetry \in Nat /\ 0 < MaxRetry
  BY <1>1, DailyAssumption DEF DailyTypes, Run
<1>3. /\ run.step = "sync" /\ UNCHANGED <<unitbase, written, uploads>>
      /\ rows' = syncRecords(run.listed)
      /\ announced' = [i \in DOMAIN rows' |-> IF i \in DOMAIN announced THEN announced[i] ELSE 0]
      /\ run' = IF run.dry \/ pending = {}
                THEN NoRun
                ELSE [run EXCEPT !.step = "extract", !.listed = <<>>, !.start = 0, !.queue = queue]
  BY DEF Sync
<1>4. /\ rows' \in Seq(Row) /\ Len(rows) =< Len(rows')
      /\ \A i \in 1..Len(rows) : rows'[i] = RetriedRow(rows[i])
      /\ \A i \in 1..Len(rows') :
            i > Len(rows) => rows'[i].status = "pending" /\ rows'[i].count = 0
  BY <1>2, <1>3, SyncedTable DEF Synced
<1>5. /\ DOMAIN rows = 1..Len(rows) /\ DOMAIN rows' = 1..Len(rows')
      /\ Len(rows) \in Nat /\ Len(rows') \in Nat
  BY <1>2, <1>4, LenProperties
<1>6. DOMAIN rows \subseteq DOMAIN rows'
  BY <1>4, <1>5
<1>7. ASSUME NEW i \in DOMAIN rows
      PROVE  /\ rows'[i].file = rows[i].file /\ rows'[i].count = rows[i].count
             /\ rows[i].count \in Nat
             /\ \/ rows'[i].status = rows[i].status
                \/ /\ rows[i].status = "error" /\ rows[i].count < MaxRetry
                   /\ rows'[i].status = "pending"
  <2>1. rows[i] \in Row /\ rows[i].count \in Nat
    BY <1>1, RowFields
  <2>2. rows'[i] = RetriedRow(rows[i])
    BY <1>4, <1>5
  <2>. QED
    BY <2>1, <2>2, Retried
<1>8. ASSUME NEW i \in DOMAIN rows' \ DOMAIN rows
      PROVE  rows'[i].status = "pending" /\ rows'[i].count = 0
  BY <1>4, <1>5
<1>9. Grows
  <2>1. \A i \in DOMAIN rows :
           /\ rows'[i].count >= rows[i].count
           /\ rows[i].status = "processed" => rows'[i].status = "processed"
    BY <1>7
  <2>. QED
    BY <1>4, <1>6, <1>7, <2>1 DEF Grows
<1>10. OrderInv' /\ StaleTextNeedsRetry'
  BY <1>1, <1>3, <1>9, OrderKept
<1>11. RowsInv'
  <2>1. ASSUME NEW i \in DOMAIN rows'
        PROVE  /\ rows'[i].status = "pending" => rows'[i].count < MaxRetry
               /\ rows'[i].status = "error" => rows'[i].count > 0
    <3>1. CASE i \in DOMAIN rows
      BY <1>1, <1>7, <3>1 DEF RowsInv
    <3>2. CASE i \notin DOMAIN rows
      BY <1>2, <1>8, <3>2
    <3>. QED
      BY <3>1, <3>2
  <2>. QED
    BY <2>1 DEF RowsInv
<1>12. queue \in Queues
  <2>1. pending \in SUBSET (Nat \ {0})
    BY <1>5 DEF getPendingRecords
  <2>2. \A i \in pending : rows'[i].count \in 0..MaxRetry
    <3>1. \A i \in DOMAIN rows' : rows'[i] \in Row
      BY <1>4, <1>5, ElementOfSeq
    <3>. QED
      BY <3>1 DEF Row, getPendingRecords
  <2>3. queue \in [pending -> 0..MaxRetry]
    BY <2>2
  <2>. HIDE DEF pending, queue
  <2>. QED
    BY <2>1, <2>3 DEF Queues
<1>13. /\ run' \in Run /\ (run'.firsts = {} \/ run'.firsts = run.firsts)
       /\ \/ run'.step = "extract" /\ run'.queue = queue /\ pending # {}
          \/ run'.step = "idle" /\ DOMAIN run'.queue = {}
  <2>1. CASE run' = NoRun
    BY <2>1, NoRunFields
  <2>2. CASE run' # NoRun
    <3>. HIDE DEF queue
    <3>1. pending # {}
      BY <1>3, <2>2
    <3>. HIDE DEF pending
    <3>. DEFINE r1 == [run EXCEPT !.step = "extract", !.listed = <<>>]
                r2 == [r1 EXCEPT !.start = 0, !.queue = queue]
    <3>2. run' = r2
      BY <1>3, <2>2
    <3>3. <<>> \in Listings
      BY EmptySeq DEF Listings
    <3>4. r1 \in Run /\ r1.step = "extract" /\ r1.firsts = run.firsts
      BY <1>2, <3>3 DEF Run, RunSteps, Waits
    <3>. HIDE DEF r1
    <3>5. r2 \in Run /\ r2.step = "extract" /\ r2.firsts = run.firsts /\ r2.queue = queue
      BY <1>12, <3>4 DEF Run
    <3>. QED
      BY <3>1, <3>2, <3>5
  <2>. QED
    BY <2>1, <2>2
<1>14. QueueInv'
  <2>1. DOMAIN queue = pending /\ \A i \in pending : queue[i] = rows'[i].count
    OBVIOUS
  <2>2. getPendingRecords(rows)' = pending
    BY DEF getPendingRecords
  <2>. HIDE DEF queue, pending
  <2>3. run'.step # "list" /\ run'.step # "login"
    BY <1>13
  <2>. QED
    BY <1>13, <2>1, <2>2, <2>3 DEF QueueInv, Waits
<1>15. DOMAIN announced = DOMAIN rows /\ \A i \in DOMAIN rows : announced[i] \in {0, 1}
  BY <1>1 DEF DailyTypes
<1>16. /\ \A i \in DOMAIN rows : announced'[i] = announced[i]
       /\ \A i \in DOMAIN rows' \ DOMAIN rows : announced'[i] = 0
  BY <1>3, <1>6, <1>15
<1>17. announced' \in [DOMAIN rows' -> {0, 1}]
  <2>1. \A i \in DOMAIN rows' : announced'[i] \in {0, 1}
    BY <1>15, <1>16
  <2>. QED
    BY <1>3, <2>1
<1>18. FirstsInv'
  <2>1. ASSUME NEW i \in DOMAIN rows'
        PROVE  /\ announced'[i] = 1 \/ i \in run'.firsts => rows'[i].count > 0
               /\ i \in run'.firsts => announced'[i] = 0
    <3>1. CASE i \in DOMAIN rows
      BY <1>1, <1>7, <1>13, <1>16, <3>1 DEF FirstsInv
    <3>2. CASE i \notin DOMAIN rows
      <4>1. i \notin run'.firsts
        BY <1>1, <1>13, <3>2 DEF DailyTypes
      <4>. QED
        BY <1>16, <3>2, <4>1
    <3>. QED
      BY <3>1, <3>2
  <2>. QED
    BY <2>1 DEF FirstsInv
<1>19. DailyTypes'
  BY <1>1, <1>3, <1>4, <1>6, <1>13, <1>17 DEF DailyTypes
<1>. QED
  BY <1>10, <1>11, <1>14, <1>18, <1>19 DEF DailyInv

-----------------------------------------------------------------------------
LEMMA DailyInitHolds == DailyInit => DailyInv
<1>. SUFFICES ASSUME DailyInit PROVE DailyInv
  OBVIOUS
<1>1. /\ unitbase = [a \in People |-> [files |-> [f \in Fields |-> NoPath], text |-> 0]]
      /\ rows = <<>> /\ run = NoRun /\ written = {} /\ announced = <<>> /\ uploads = 0
  BY DEF DailyInit, People
<1>2. rows \in Seq(Row) /\ DOMAIN rows = {}
  BY <1>1, EmptySeq
<1>3. /\ run \in Run /\ run.step \notin Waits /\ run.step # "list" /\ run.step # "login"
      /\ run.firsts = {} /\ DOMAIN run.queue = {}
  BY <1>1, NoRunFields DEF Waits
<1>4. [files |-> [f \in Fields |-> NoPath], text |-> 0] \in [files : Files, text : Nat]
  BY DEF Files
<1>5. /\ unitbase \in [People -> [files : Files, text : Nat]]
      /\ \A a \in People : unitbase[a].text = 0
  BY <1>1, <1>4
<1>6. announced \in [{} -> {0, 1}] /\ uploads \in 0..MaxUploads
  BY <1>1, DailyAssumption
<1>7. DailyTypes
  BY <1>1, <1>2, <1>3, <1>5, <1>6 DEF DailyTypes
<1>8. QueueInv
  BY <1>3 DEF QueueInv
<1>9. RowsInv /\ FirstsInv /\ OrderInv
  BY <1>1, <1>2 DEF RowsInv, FirstsInv, OrderInv
<1>10. StaleTextNeedsRetry
  BY <1>5 DEF StaleTextNeedsRetry, People
<1>. QED
  BY <1>7, <1>8, <1>9, <1>10 DEF DailyInv

LEMMA DailyStepKeeps == DailyInv /\ [DailyNext]_dailyVars => DailyInv'
<1>. SUFFICES ASSUME DailyInv, [DailyNext]_dailyVars PROVE DailyInv'
  OBVIOUS
<1>1. ASSUME NEW dry \in BOOLEAN, Begin(dry) PROVE DailyInv'
  BY <1>1, BeginStep
<1>2. CASE LoginOk
  <2>1. 0 < Len(Applicants)
    BY DailyAssumption, EmptySeq
  <2>2. run.step = "login" /\ run' = [run EXCEPT !.step = "list"]
        /\ UNCHANGED <<unitbase, rows, written, announced, uploads>>
    BY <1>2 DEF LoginOk
  <2>3. run.start = 0
    BY <2>2 DEF DailyInv, QueueInv
  <2>4. "login" \in RunSteps \ Waits /\ "list" \in RunSteps \ Waits
    BY DEF RunSteps, Waits
  <2>. QED
    BY <2>1, <2>2, <2>3, <2>4, MovesStep
<1>3. CASE MainThrows
  BY <1>3, EndsStep DEF MainThrows
<1>4. CASE ListPage
  BY <1>4, ListPageStep
<1>5. CASE ListJunk
  <2>1. run.step = "list" /\ run' = [run EXCEPT !.step = "sync"]
        /\ UNCHANGED <<unitbase, rows, written, announced, uploads>>
    BY <1>5 DEF ListJunk
  <2>2. "list" \in RunSteps \ Waits /\ "sync" \in RunSteps \ Waits /\ "sync" # "list"
    BY DEF RunSteps, Waits
  <2>. QED
    BY <2>1, <2>2, MovesStep
<1>6. CASE Sync
  BY <1>6, SyncStep
<1>7. CASE Extract \/ GetRecord \/ PutRecord \/ PutAnswered \/ Notify
  BY <1>7, ExtractStep, GetRecordStep, PutRecordStep, PutAnsweredStep, NotifyStep
<1>8. ASSUME NEW a \in Range(Applicants), NEW f \in Fields, Upload(a, f) PROVE DailyInv'
  BY <1>8, UploadStep DEF People
<1>9. CASE Kill
  BY <1>9, EndsStep DEF Kill
<1>10. CASE UNCHANGED dailyVars
  <2>1. UNCHANGED <<unitbase, rows, run, written, announced, uploads>>
    BY <1>10 DEF dailyVars
  <2>. QED
    BY <2>1 DEF DailyInv, DailyTypes, QueueInv, RowsInv, FirstsInv, OrderInv,
                StaleTextNeedsRetry, getPendingRecords
<1>. QED
  BY <1>1, <1>2, <1>3, <1>4, <1>5, <1>6, <1>7, <1>8, <1>9, <1>10 DEF DailyNext, RunStep

-----------------------------------------------------------------------------
(* Both programs.                                                           *)

LEMMA OpsInvariant == OpsSpec => [](DeployInv /\ DailyInv)
<1>1. OpsInit => DeployInv /\ DailyInv
  BY InitHolds, DailyInitHolds DEF OpsInit
<1>2. DeployInv /\ DailyInv /\ [OpsNext]_opsVars => (DeployInv /\ DailyInv)'
  <2>. SUFFICES ASSUME DeployInv, DailyInv, [OpsNext]_opsVars PROVE DeployInv' /\ DailyInv'
    OBVIOUS
  <2>1. [DeployNext]_deployVars /\ [DailyNext]_dailyVars
    BY DEF OpsNext, Deploy, Daily, opsVars
  <2>. QED
    BY <2>1, StepKeeps, DailyStepKeeps
<1>. QED
  BY <1>1, <1>2, PTL DEF OpsSpec

\* Whatever the deploys promise on their own they promise here: a behaviour of
\* the two programs is one of the deploys (registerDeployCommand).
THEOREM DeploysImplemented == OpsSpec => DeploySpec
<1>1. OpsInit => DeployInit
  BY DEF OpsInit
<1>2. [OpsNext]_opsVars => [DeployNext]_deployVars
  BY DEF OpsNext, Deploy, Daily, opsVars
<1>. QED
  BY <1>1, <1>2, PTL DEF OpsSpec, DeploySpec

\* LINE hears of the first error of a file at most once, through any number of
\* retries, kills and lost notices (main, sendLineMessage).
THEOREM LineToldOnce == OpsSpec => []AnnouncedOnce
<1>1. DailyInv => AnnouncedOnce
  BY DEF DailyInv, DailyTypes, AnnouncedOnce
<1>. QED
  BY <1>1, OpsInvariant, PTL

\* Only a retry puts the text of an older file back over that of a later one,
\* however many applicants, files, kills and lost answers there are
\* (getPendingRecords, the loop of main).
THEOREM OldTextOnlyByRetry == OpsSpec => []StaleTextNeedsRetry
<1>1. DailyInv => StaleTextNeedsRetry
  BY DEF DailyInv
<1>. QED
  BY <1>1, OpsInvariant, PTL

\* The variables of the batch hold what they are for: in particular the error
\* count of a row never passes the limit, and there is a row to work on
\* whenever the loop is under way (markError, syncRecords).
LEMMA DailyTyped == DailyInv => DailyTypeOK
<1>. SUFFICES ASSUME DailyInv PROVE DailyTypeOK
  OBVIOUS
<1>1. DailyTypes /\ QueueInv
  BY DEF DailyInv
<1>2. /\ run.step \in RunSteps /\ run.reply \in {"none"} \cup Replies
      /\ run.step \in Waits => DOMAIN run.queue # {}
  BY <1>1 DEF DailyTypes, QueueInv, Run
<1>3. DOMAIN run.queue \subseteq DOMAIN rows
  BY <1>1 DEF QueueInv, getPendingRecords
<1>4. \A a \in Range(Applicants) :
         /\ unitbase[a].files \in [Fields -> Paths \cup {NoPath}]
         /\ unitbase[a].text \in DOMAIN rows \cup {0}
  BY <1>1 DEF DailyTypes, People, Files
<1>5. /\ rows \in Seq(Row) /\ run.firsts \subseteq DOMAIN rows /\ written \subseteq DOMAIN rows
      /\ DOMAIN announced = DOMAIN rows
  BY <1>1 DEF DailyTypes
<1>6. run.step \in {"idle", "login", "list", "sync", "extract", "get", "put", "answer", "notify"}
  BY <1>2 DEF RunSteps, Waits
<1>7. run.step \in {"extract", "get", "put", "answer"} => DOMAIN run.queue # {}
  BY <1>2 DEF Waits
<1>. QED
  BY <1>2, <1>3, <1>4, <1>5, <1>6, <1>7 DEF DailyTypeOK

\* Type correctness of both programs.
THEOREM OperationsTyped == OpsSpec => []OpsTypeOK
<1>1. DeployInv /\ DailyInv => OpsTypeOK
  BY DeployInvTyped, DailyTyped DEF OpsTypeOK
<1>. QED
  BY <1>1, OpsInvariant, PTL
=============================================================================
