---------------------------- MODULE MCImageStore ----------------------------
(* The image store on a small instance. *)
EXTENDS ImageStore, Integers, FiniteSets, TLC

Symmetry ==
    Permutations(Procs) \cup Permutations(Tags) \cup Permutations(Digests)
       \cup Permutations(Layers)

\* Bound: what befalls a hurt image is followed while no other image is hurt.
HurtBound == Cardinality(hurt) <= 1
=============================================================================
