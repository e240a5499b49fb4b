---------------------------- MODULE MCUffdProbe ----------------------------
(* UffdProbe for TLC: three threads on every kind of kernel. *)
EXTENDS UffdProbe, TLC

CONSTANTS t1, t2, t3

MCThreads == {t1, t2, t3}
Symmetry  == Permutations(MCThreads)
=============================================================================
