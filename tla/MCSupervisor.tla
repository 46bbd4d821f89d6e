---------------------------- MODULE MCSupervisor ----------------------------
(* Instances of the supervisor for TLC; sessions are interchangeable.      *)
EXTENDS Supervisor, TLC
SessionSymmetry == Permutations(Sessions)
=============================================================================
