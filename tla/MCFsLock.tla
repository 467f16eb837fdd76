------------------------------- MODULE MCFsLock -------------------------------
(* Two calls on one session file; which is which does not matter to a safety *)
(* property, so the run that has no liveness uses the symmetry.             *)
EXTENDS FsLock, TLC

Symmetry == Permutations(Savers)
=============================================================================
