------------------------------ MODULE FileCopy ------------------------------
(***************************************************************************)
(* What a TFTP transfer promises, whatever the network does: the copy      *)
(* grows by the next block of the file and by nothing else, the receiving  *)
(* end reports success with the last block or never, the sending end only  *)
(* after it, and an end that has reported an outcome keeps it.             *)
(***************************************************************************)
EXTENDS Naturals, Sequences

CONSTANT Blocks       \* how many DATA blocks the file takes

VARIABLES
  copy,     \* the blocks the receiving end has written, by their position
  outcome   \* of each end: waiting, done or failed

Ends == {"sender", "receiver"}

Whole == Len(copy) = Blocks

Init == copy = <<>> /\ outcome = [e \in Ends |-> "waiting"]

(* The receiving end writes the next block.  With the last one it reports  *)
(* success, or fails with the copy whole if it cannot tell the other end.  *)
Grow ==
  /\ outcome["receiver"] = "waiting" /\ ~Whole
  /\ copy' = Append(copy, Len(copy) + 1)
  /\ \E o \in {IF Len(copy') = Blocks THEN "done" ELSE "waiting", "failed"} :
       outcome' = [outcome EXCEPT !["receiver"] = o]

(* The sending end learns that the receiving end is done.                  *)
Confirm ==
  /\ outcome["sender"] = "waiting" /\ outcome["receiver"] = "done"
  /\ outcome' = [outcome EXCEPT !["sender"] = "done"]
  /\ UNCHANGED copy

GiveUp(e) ==
  /\ outcome[e] = "waiting"
  /\ outcome' = [outcome EXCEPT ![e] = "failed"]
  /\ UNCHANGED copy

Next == Grow \/ Confirm \/ \E e \in Ends : GiveUp(e)

Spec == Init /\ [][Next]_<<copy, outcome>>
=============================================================================
