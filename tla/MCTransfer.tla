----------------------------- MODULE MCTransfer -----------------------------
(* Instances of the transfer for TLC: block numbers wrap around within a   *)
(* file of a few blocks.                                                   *)
EXTENDS Transfer
=============================================================================
