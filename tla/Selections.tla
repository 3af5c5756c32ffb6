------------------------------ MODULE Selections ------------------------------
(***************************************************************************)
(* The part of a sequence at a set of places, in order.  It is the         *)
(* SelectSeq of the module Sequences for a test of the place, and a        *)
(* recursive function, so that theorems can be proved about it.            *)
(***************************************************************************)
EXTENDS Naturals, Sequences

Selected(s, places) ==
    LET upTo[n \in 0..Len(s)] ==
           IF n = 0 THEN <<>>
           ELSE IF n \in places THEN Append(upTo[n - 1], s[n]) ELSE upTo[n - 1]
    IN upTo[Len(s)]
===============================================================================
