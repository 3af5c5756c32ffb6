---------------------------- MODULE MCSpendLedger ----------------------------
(***************************************************************************)
(* TLC runs of SpendLedger: processes are interchangeable.                 *)
(***************************************************************************)
EXTENDS SpendLedger, TLC

ProcSymmetry == Permutations(Procs)

=============================================================================
