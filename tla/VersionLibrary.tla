--------------------------- MODULE VersionLibrary ---------------------------
(***************************************************************************)
(* What the version store promises its clients, without a table, locks or  *)
(* files: a shelf of complete versions, and who has been given which.  A   *)
(* reader is given the newest version, what is lent is not thrown away,    *)
(* and nothing leaves the shelf but for a version that is as new.          *)
(***************************************************************************)
EXTENDS Integers

CONSTANT Readers

VARIABLES
  shelf,    \* the complete versions: name, when they began and completed
  lent      \* of each reader: the path of its version, or nothing

Nothing == <<>>
Path(v) == <<v.name, v.began>>

Init == shelf = {} /\ lent = [r \in Readers |-> Nothing]

(* The shelf is left with some of the versions of S.  The others are       *)
(* replaced, and nobody has them.                                          *)
Settles(S) ==
  /\ shelf' \subseteq S
  /\ \A v \in S \ shelf' :
       /\ \E w \in shelf' : w.name = v.name /\ w.completed >= v.completed
       /\ \A r \in Readers : lent'[r] # Path(v)

(* A reader gets the newest complete version of what it asked for, and an  *)
(* unfinished one only if there is no other.                               *)
Lend(r) ==
  /\ lent[r] = Nothing /\ lent'[r] # Nothing
  /\ \A q \in Readers \ {r} : lent'[q] = lent[q]
  /\ UNCHANGED shelf
  /\ LET same == {v \in shelf : v.name = lent'[r][1]}
     IN  same # {} =>
           \E v \in same : lent'[r] = Path(v) /\ \A w \in same : w.completed <= v.completed

Return(r) ==
  /\ lent[r] # Nothing
  /\ lent' = [lent EXCEPT ![r] = Nothing]
  /\ Settles(shelf)

(* A version becomes complete, once.                                       *)
Publish ==
  /\ UNCHANGED lent
  /\ \E v \in shelf' :
       /\ \A w \in shelf : Path(w) # Path(v)
       /\ Settles(shelf \cup {v})

Tidy == UNCHANGED lent /\ Settles(shelf)

(* The readers are gone, the versions are not.                             *)
Restart == lent' = [r \in Readers |-> Nothing] /\ UNCHANGED shelf

Next ==
  \/ \E r \in Readers : Lend(r) \/ Return(r)
  \/ Publish \/ Tidy \/ Restart

Spec == Init /\ [][Next]_<<shelf, lent>>
=============================================================================
