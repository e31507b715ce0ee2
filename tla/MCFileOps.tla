----------------------------- MODULE MCFileOps -----------------------------
(* Instances of FileOps: two names, and three concurrent calls.             *)
EXTENDS FileOps, TLC

CallSymmetry == Permutations(Ops)
=============================================================================
