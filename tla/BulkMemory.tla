------------------------------ MODULE BulkMemory ------------------------------
(***************************************************************************)
(* `easy-flow bulk-migrate' and `easy-flow bulk-update'                    *)
(* (packages/migrate-memory/src/bulk-migrator.ts, bulk-updater.ts): for    *)
(* each instance of a configuration file, commands on its machine through  *)
(* `fly ssh console'.  bulk-migrate configures the memory plugin, installs *)
(* this repository if it is not there, and has the machine migrate its     *)
(* memory; bulk-update brings the repository up to date, builds the plugin *)
(* and restarts the gateway.                                               *)
(*                                                                         *)
(* Several operators may run them at once, and each command on a machine   *)
(* is a step, but for the build, which reads the sources when it starts    *)
(* and writes when it ends.  A session may break before or after its       *)
(* command has done its work, and ends the command with it.  The branch    *)
(* main grows; versions are numbered.  A dry run only prints.  What        *)
(* migrate-memory does to the index is the subject of MemoryCli.           *)
(***************************************************************************)
EXTENDS Integers, Sequences, SequencesExt

CONSTANTS
    Operators,
    Config,          \* the instances of the configuration file, in order
    MaxCommits       \* bound: commits on main

ASSUME BulkAssumption ==
    /\ MaxCommits \in Nat \ {0}
    /\ Config \in Seq(Range(Config)) /\ Len(Config) > 0 /\ IsInjective(Config)

Instances == Range(Config)

VARIABLES
    machine,    \* instance -> what is on its machine
    main,       \* the version of the branch main
    bulk,       \* operator -> the command of his
    mixed       \* history: operator and instance whose build met another one

bulkVars == <<machine, main, bulk, mixed>>

\* key: the app has a PINECONE_API_KEY; repo: the version checked out, 0 if
\* there is no directory; running: the version the gateway has loaded.
NewMachine(key) ==
    [key |-> key, configured |-> FALSE, repo |-> 0, packages |-> FALSE,
     built |-> 0, running |-> 0, memory |-> FALSE]

NoBulk ==
    [kind |-> "none", left |-> <<>>, at |-> "idle", source |-> 0,
     seen |-> [i \in Instances |-> 0], done |-> {}, failed |-> {}]

BulkInit ==
    /\ machine \in [Instances -> {NewMachine(key) : key \in BOOLEAN}]
    /\ main = 1
    /\ bulk = [p \in Operators |-> NoBulk]
    /\ mixed = {}

(***************************************************************************)
(* The loop over the instances: an error counts the instance as failed,    *)
(* and the loop goes on.                                                   *)
(***************************************************************************)
FirstStep(kind) == IF kind = "migrate" THEN "key" ELSE "pull"

Instance(p) == Head(bulk[p].left)

Machine(p) == machine[Instance(p)]

Leaving(b) ==
    [b EXCEPT !.left = Tail(@), !.source = 0,
              !.at = IF Len(b.left) = 1 THEN "ended" ELSE FirstStep(b.kind)]

Counted(b) == [Leaving(b) EXCEPT !.done = @ \cup {Head(b.left)}]

Failed(b) == [Leaving(b) EXCEPT !.failed = @ \cup {Head(b.left)}]

BulkAt(p, step) == bulk[p].at = step

BeginBulk(p, kind) ==
    /\ BulkAt(p, "idle")
    /\ \E left \in {Config} \cup {<<i>> : i \in Instances} :
          bulk' = [bulk EXCEPT ![p] = [NoBulk EXCEPT !.kind = kind, !.left = left,
                                           !.at = FirstStep(kind)]]
    /\ UNCHANGED <<machine, main, mixed>>

\* The session may break when the command has done its work.
Becomes(p, b) == bulk' = [bulk EXCEPT ![p] = b] \/ bulk' = [bulk EXCEPT ![p] = Failed(@)]

Goes(p, step) == Becomes(p, [bulk[p] EXCEPT !.at = step])

OnMachine(p, changed) == machine' = [machine EXCEPT ![Instance(p)] = changed]

\* A session that does not come about, or a command that ends with an error.
ExecFails(p) ==
    /\ bulk[p].at \notin {"idle", "probe", "ended"}
    /\ bulk' = [bulk EXCEPT ![p] = Failed(@)]
    /\ UNCHANGED <<machine, main, mixed>>

KillBulk(p) ==
    /\ bulk[p].at \notin {"idle", "ended"}
    /\ bulk' = [bulk EXCEPT ![p].at = "ended"]
    /\ UNCHANGED <<machine, main, mixed>>

(***************************************************************************)
(* bulk-migrate.                                                           *)
(***************************************************************************)
getApiKeyFromFly(p) ==
    /\ BulkAt(p, "key")
    /\ Machine(p).key
    /\ Goes(p, "configure")
    /\ UNCHANGED <<machine, main, mixed>>

configurePineconePlugin(p) ==
    /\ BulkAt(p, "configure")
    /\ OnMachine(p, [Machine(p) EXCEPT !.configured = TRUE])
    /\ Goes(p, "probe")
    /\ UNCHANGED <<main, mixed>>

\* A directory is all it takes to be installed; a session that breaks looks
\* like a directory that is not there.
Probe(p) ==
    /\ BulkAt(p, "probe")
    /\ \E step \in {"clone"} \cup (IF Machine(p).repo > 0 THEN {"migrate"} ELSE {}) :
          bulk' = [bulk EXCEPT ![p].at = step]
    /\ UNCHANGED <<machine, main, mixed>>

\* git refuses a directory that exists.
Clone(p) ==
    /\ BulkAt(p, "clone")
    /\ Machine(p).repo = 0
    /\ OnMachine(p, [Machine(p) EXCEPT !.repo = main])
    /\ Goes(p, "packages")
    /\ UNCHANGED <<main, mixed>>

\* The status of `npm install | tail' is that of tail.
NpmInstall(p) ==
    /\ BulkAt(p, "packages")
    /\ \E done \in {TRUE, Machine(p).packages} :
          OnMachine(p, [Machine(p) EXCEPT !.packages = done])
    /\ Goes(p, "migrate")
    /\ UNCHANGED <<main, mixed>>

\* Mutant: the status of migrate-memory is that of a pipe, too.
runMigrateMemoryUnchecked(p) ==
    /\ BulkAt(p, "migrate")
    /\ OnMachine(p, [Machine(p) EXCEPT !.memory = @ \/ Machine(p).packages])
    /\ Goes(p, "smoke")
    /\ UNCHANGED <<main, mixed>>

\* Without its packages the command ends with an error.
runMigrateMemory(p) ==
    /\ BulkAt(p, "migrate")
    /\ Machine(p).packages
    /\ OnMachine(p, [Machine(p) EXCEPT !.memory = TRUE])
    /\ Goes(p, "smoke")
    /\ UNCHANGED <<main, mixed>>

\* What the test finds is only printed.
runSmokeTest(p) ==
    /\ BulkAt(p, "smoke")
    /\ Becomes(p, Counted(bulk[p]))
    /\ UNCHANGED <<machine, main, mixed>>

(***************************************************************************)
(* bulk-update.                                                            *)
(***************************************************************************)
GitPull(p) ==
    /\ BulkAt(p, "pull")
    /\ Machine(p).repo > 0
    /\ OnMachine(p, [Machine(p) EXCEPT !.repo = main])
    /\ Becomes(p, [bulk[p] EXCEPT !.at = "install", !.seen[Instance(p)] = main])
    /\ UNCHANGED <<main, mixed>>

UpdatePackages(p) ==
    /\ BulkAt(p, "install")
    /\ OnMachine(p, [Machine(p) EXCEPT !.packages = TRUE])
    /\ Goes(p, "build")
    /\ UNCHANGED <<main, mixed>>

BuildStarts(p) ==
    /\ BulkAt(p, "build")
    /\ bulk' = [bulk EXCEPT ![p].at = "building", ![p].source = Machine(p).repo]
    /\ LET others == {q \in Operators : BulkAt(q, "building") /\ Instance(q) = Instance(p)}
           met == IF others = {} THEN {} ELSE others \cup {p}
       IN mixed' = mixed \cup (met \X {Instance(p)})
    /\ UNCHANGED <<machine, main>>

BuildEnds(p) ==
    /\ BulkAt(p, "building")
    /\ OnMachine(p, [Machine(p) EXCEPT !.built = bulk[p].source])
    /\ Goes(p, "restart")
    /\ UNCHANGED <<main, mixed>>

MachineRestart(p) ==
    /\ BulkAt(p, "restart")
    /\ OnMachine(p, [Machine(p) EXCEPT !.running = Machine(p).built])
    /\ Becomes(p, Counted(bulk[p]))
    /\ UNCHANGED <<main, mixed>>

Commit ==
    /\ main < MaxCommits
    /\ main' = main + 1
    /\ UNCHANGED <<machine, bulk, mixed>>

BulkNext ==
    \/ \E p \in Operators :
          \/ \E kind \in {"migrate", "update"} : BeginBulk(p, kind)
          \/ getApiKeyFromFly(p) \/ configurePineconePlugin(p) \/ Probe(p) \/ Clone(p)
          \/ NpmInstall(p) \/ runMigrateMemory(p) \/ runSmokeTest(p)
          \/ GitPull(p) \/ UpdatePackages(p) \/ BuildStarts(p) \/ BuildEnds(p)
          \/ MachineRestart(p)
          \/ ExecFails(p) \/ KillBulk(p)
    \/ Commit

BulkSpec == BulkInit /\ [][BulkNext]_bulkVars

(***************************************************************************)
(* Properties.                                                             *)
(***************************************************************************)
BulkTypeOK ==
    /\ machine \in [Instances ->
          [key : BOOLEAN, configured : BOOLEAN, repo : 0..MaxCommits, packages : BOOLEAN,
           built : 0..MaxCommits, running : 0..MaxCommits, memory : BOOLEAN]]
    /\ main \in 1..MaxCommits
    /\ mixed \subseteq Operators \X Instances
    /\ \A p \in Operators :
          /\ bulk[p].kind \in {"none", "migrate", "update"}
          /\ IsSuffix(bulk[p].left, Config) \/ Len(bulk[p].left) = 1
          /\ bulk[p].seen \in [Instances -> 0..main]
          /\ bulk[p].done \cup bulk[p].failed \subseteq Instances

\* What a command counts as done has been done, whatever others do on the same
\* machines: a migrated instance has its plugin configured and its memory in
\* the index; an updated one runs main as it was when it was pulled, or newer,
\* unless two builds ran there at once (bulkMigrate, bulkUpdate: the errors
\* that reach their try blocks, and the order of the commands in them).
CountedIsDone ==
    \A p \in Operators : \A i \in bulk[p].done :
       /\ bulk[p].kind = "migrate" => machine[i].configured /\ machine[i].memory
       /\ bulk[p].kind = "update" /\ <<p, i>> \notin mixed
             => machine[i].running >= bulk[p].seen[i]
===============================================================================
