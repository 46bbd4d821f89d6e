--------------------------- MODULE MCVersionStore ---------------------------
(* Instances of the version store for TLC.  Sessions are interchangeable:  *)
(* no definition tells one from another.                                   *)
EXTENDS VersionStoreProps, TLC
SessionSymmetry == Permutations(Sessions)
=============================================================================
