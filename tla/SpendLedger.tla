---------------------------- MODULE SpendLedger ----------------------------
(***************************************************************************)
(* The spend file of transcript-analyzer and the lock directory beside it  *)
(* (packages/transcript-analyzer/src/quota.ts), used by the processes that *)
(* share the cache directory.  Each file system call is an action of its   *)
(* own, since another process may run between any two of them; within one  *)
(* process addSpend blocks, so that a process has one call at a time.      *)
(*                                                                         *)
(* One month is modelled: amounts of other months are carried along by the *)
(* same reads and writes.  The file is replaced by a rename and so is      *)
(* never half written.                                                     *)
(***************************************************************************)
EXTENDS Naturals

CONSTANTS
    Procs,          \* processes with a QuotaStore on the same file
    Amounts,        \* costs passed to addSpend, in units of the smallest
    MaxRecorded,    \* bound: no call starts beyond this total
    NoFile,         \* quota-spend.json does not exist
    NoLock          \* quota-spend.json.lock does not exist

ASSUME AmountsAssumption == Amounts \subseteq Nat \ {0}

ASSUME MaxRecordedAssumption == MaxRecorded \in Nat

\* "old" is an age above 30 seconds; "owner", which the code does not keep,
\* is the process that made the directory.
Lock == [owner : Procs, old : BOOLEAN]

ASSUME AbsentAssumption == NoFile \notin Nat /\ NoLock \notin Lock

VARIABLES
    file,       \* the month's spend in the file
    lock,       \* the lock directory
    pc,         \* where each process is in addSpend
    mem,        \* monthSpend of each process
    amt,        \* the amount of its call
    recorded,   \* history: the sum of the amounts saved
    overrun     \* history: the lock of a process still in its critical
                \* section was removed by another one

ledgerVars == <<file, lock, pc, mem, amt, recorded, overrun>>

LedgerTypeOK ==
    /\ file \in Nat \cup {NoFile}
    /\ lock \in Lock \cup {NoLock}
    /\ pc \in [Procs -> {"idle", "mkdir", "stat", "remove", "wait", "load", "save", "unlock"}]
    /\ mem \in [Procs -> Nat]
    /\ amt \in [Procs -> Nat]
    /\ recorded \in Nat
    /\ overrun \in BOOLEAN

LedgerInit ==
    /\ file = NoFile
    /\ lock = NoLock
    /\ pc = [p \in Procs |-> "idle"]
    /\ mem = [p \in Procs |-> 0]
    /\ amt = [p \in Procs |-> 0]
    /\ recorded = 0
    /\ overrun = FALSE

-----------------------------------------------------------------------------

Total == IF file = NoFile THEN 0 ELSE file

\* reloadSpend: without a file the value in memory stays.
Reloaded(p) == IF file = NoFile THEN mem[p] ELSE file

Holding(p) == pc[p] \in {"load", "save", "unlock"}

Goto(p, label) == pc' = [pc EXCEPT ![p] = label]

-----------------------------------------------------------------------------

\* check() reads the file without the lock.
Check(p) ==
    /\ pc[p] = "idle"
    /\ mem' = [mem EXCEPT ![p] = Reloaded(p)]
    /\ UNCHANGED <<file, lock, pc, amt, recorded, overrun>>

AddSpend(p, usd) ==
    /\ pc[p] = "idle"
    /\ recorded + usd =< MaxRecorded
    /\ amt' = [amt EXCEPT ![p] = usd]
    /\ Goto(p, "mkdir")
    /\ UNCHANGED <<file, lock, mem, recorded, overrun>>

MakeLock(p) ==
    /\ pc[p] = "mkdir"
    /\ IF lock = NoLock
       THEN lock' = [owner |-> p, old |-> FALSE] /\ Goto(p, "load")
       ELSE UNCHANGED lock /\ Goto(p, "stat")
    /\ UNCHANGED <<file, mem, amt, recorded, overrun>>

\* A lock that has vanished meanwhile is no error.
StatLock(p) ==
    /\ pc[p] = "stat"
    /\ IF lock # NoLock /\ lock.old THEN Goto(p, "remove") ELSE Goto(p, "wait")
    /\ UNCHANGED <<file, lock, mem, amt, recorded, overrun>>

\* The directory of that name is removed, whichever lock it is by now.
RemoveLock(p) ==
    /\ pc[p] = "remove"
    /\ lock' = NoLock
    /\ overrun' = (overrun \/ (lock # NoLock /\ Holding(lock.owner)))
    /\ Goto(p, "wait")
    /\ UNCHANGED <<file, mem, amt, recorded>>

Retry(p) ==
    /\ pc[p] = "wait"
    /\ Goto(p, "mkdir")
    /\ UNCHANGED <<file, lock, mem, amt, recorded, overrun>>

\* One second after the first attempt addSpend throws.
LockTimeout(p) ==
    /\ pc[p] = "wait"
    /\ Goto(p, "idle")
    /\ UNCHANGED <<file, lock, mem, amt, recorded, overrun>>

\* MUTANT: the amount is not added.
LoadWithoutAdding(p) ==
    /\ pc[p] = "load"
    /\ mem' = [mem EXCEPT ![p] = Reloaded(p)]
    /\ Goto(p, "save")
    /\ UNCHANGED <<file, lock, amt, recorded, overrun>>

\* MUTANT: what the process last read is taken to be current.
LoadWithoutReload(p) ==
    /\ pc[p] = "load"
    /\ mem' = [mem EXCEPT ![p] = mem[p] + amt[p]]
    /\ Goto(p, "save")
    /\ UNCHANGED <<file, lock, amt, recorded, overrun>>

Load(p) ==
    /\ pc[p] = "load"
    /\ mem' = [mem EXCEPT ![p] = Reloaded(p) + amt[p]]
    /\ Goto(p, "save")
    /\ UNCHANGED <<file, lock, amt, recorded, overrun>>

Save(p) ==
    /\ pc[p] = "save"
    /\ file' = mem[p]
    /\ recorded' = recorded + amt[p]
    /\ Goto(p, "unlock")
    /\ UNCHANGED <<lock, mem, amt, overrun>>

\* MUTANT: the value in memory is not restored.
SaveFailsWithoutRollback(p) ==
    /\ pc[p] = "save"
    /\ Goto(p, "unlock")
    /\ UNCHANGED <<file, lock, mem, amt, recorded, overrun>>

SaveFails(p) ==
    /\ pc[p] = "save"
    /\ mem' = [mem EXCEPT ![p] = mem[p] - amt[p]]
    /\ Goto(p, "unlock")
    /\ UNCHANGED <<file, lock, amt, recorded, overrun>>

\* The lock directory is removed without asking whose it is.
Unlock(p) ==
    /\ pc[p] = "unlock"
    /\ lock' = NoLock
    /\ Goto(p, "idle")
    /\ UNCHANGED <<file, mem, amt, recorded, overrun>>

\* The process dies at any point and starts again; its lock stays behind.
ProcessRestart(p) ==
    /\ Goto(p, "idle")
    /\ mem' = [mem EXCEPT ![p] = Total]
    /\ UNCHANGED <<file, lock, amt, recorded, overrun>>

\* Thirty seconds pass, whatever the owner of the lock is doing.
LockAges ==
    /\ lock # NoLock
    /\ lock' = [lock EXCEPT !.old = TRUE]
    /\ UNCHANGED <<file, pc, mem, amt, recorded, overrun>>

LedgerNext ==
    \/ \E p \in Procs, usd \in Amounts : AddSpend(p, usd)
    \/ \E p \in Procs :
          \/ Check(p)
          \/ MakeLock(p)
          \/ StatLock(p)
          \/ RemoveLock(p)
          \/ Retry(p)
          \/ LockTimeout(p)
          \/ Load(p)
          \/ Save(p)
          \/ SaveFails(p)
          \/ Unlock(p)
          \/ ProcessRestart(p)
    \/ LockAges

LedgerSpec == LedgerInit /\ [][LedgerNext]_ledgerVars

-----------------------------------------------------------------------------
(* Properties. *)

\* However locks are stolen, timed out, left behind by a dead process or
\* released by the wrong one, the file never shows more than was recorded: a
\* failed save leaves nothing behind that a later one would add again
\* (addSpend, persistSpend).
NeverOvercounts == Total =< recorded

Counter == INSTANCE SpendCounter WITH total <- Total, lapsed <- overrun

\* The file is an exact counter, across crashes, timeouts, failed saves and
\* the removal of locks that dead processes left, until a process removes
\* the lock of one that is still at work (withSpendLock).
ImplementsCounter == Counter!CounterSpec

=============================================================================
