---------------------------- MODULE SpendCounter ----------------------------
(***************************************************************************)
(* What the persisted monthly spend of transcript-analyzer promises: every *)
(* recorded amount is added to the total, and none is added twice or lost, *)
(* until the guarantee lapses.  How long it holds is for the specification *)
(* that implements this one to say.                                        *)
(***************************************************************************)
EXTENDS Naturals

CONSTANTS
    Amounts     \* costs of single calls

VARIABLES
    total,      \* spend of the month
    lapsed      \* the guarantee no longer holds

counterVars == <<total, lapsed>>

CounterInit == total = 0 /\ lapsed = FALSE

Record ==
    /\ \E u \in Amounts : total' = total + u
    /\ UNCHANGED lapsed

Lapse ==
    /\ lapsed' = TRUE
    /\ UNCHANGED total

\* Once lapsed, an addition may overwrite others.
Overwrite ==
    /\ lapsed
    /\ total' \in Nat
    /\ UNCHANGED lapsed

CounterNext == Record \/ Lapse \/ Overwrite

CounterSpec == CounterInit /\ [][CounterNext]_counterVars

=============================================================================
