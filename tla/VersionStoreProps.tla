-------------------------- MODULE VersionStoreProps --------------------------
(***************************************************************************)
(* What the version store promises.  Invariants and action properties of   *)
(* VersionStore, and what the repository says of it that does not hold.    *)
(***************************************************************************)
EXTENDS VersionStore

(* Every variable keeps its type; a path in use or due for removal is the  *)
(* path of a version, and only worker-specific locks and labels occur.     *)
TypeOK ==
  /\ DOMAIN rows \subseteq Stamps
  /\ \A u \in DOMAIN rows : rows[u] \in Row
  /\ disk \subseteq Versions
  /\ clock \in 0 .. MaxClock
  /\ phase \in {"down", "starting", "running", "accepted", "stopping"}
  /\ pc \in [Workers -> SessionPcs \cup DatabasePcs]
  /\ pc[DB] \in DatabasePcs
  /\ \A s \in Sessions : pc[s] \in SessionPcs
  /\ tx \in [Workers -> {"none", "shared", "reserved"}]
  /\ path \in [Sessions -> Versions \cup {NoPath}]
  /\ \A s \in Sessions : pc[s] # "idle" => path[s] \in Versions
  /\ stamp \in [Sessions -> 0 .. MaxClock]
  /\ doomed \in [Workers -> SUBSET Versions]
  /\ faults \in 0 .. MaxFaults

Downloading(p) ==
  {s \in Sessions : /\ pc[s] \in {"reserved", "reading", "releasing"}
                    /\ path[s] = p}

(* A row counts at least the downloads that are using it, through leaks,   *)
(* rollbacks, restarts and the loose row comparison of Reserve: "consumers"*)
(* never promises fewer readers than there are.                            *)
ConsumersCover ==
  \A u \in DOMAIN rows :
    Cardinality(Downloading(<<rows[u].name, u>>)) <= rows[u].consumers

(* No clean-up, whoever runs it and whatever it read before, removes the   *)
(* file a download is reading or an upload has not finished.               *)
FilesInUseKept ==
  \A s \in Sessions :
    pc[s] \in {"reading", "writing", "uploaded"} => path[s] \in disk

(* While the daemon serves, the committed table never holds an unused      *)
(* version that a newer one has replaced: "If reads and writes by sessions *)
(* themselves delete out of date files then we do not need this routine to *)
(* lock and scan the entire files tables" (DatabaseRoutine).               *)
NoUnusedOutOfDate ==
  phase \in {"running", "accepted", "stopping"} =>
    \A u, v \in DOMAIN rows :
      /\ rows[u].name = rows[v].name
      /\ rows[v].completed > rows[u].completed
      => ~Unused(rows, u)

(* A completed upload is displaced only by a version of the same file that *)
(* completed at least as late: not by a failed upload, a rollback, a crash *)
(* or the clean-up at start-up, and not by an upload that finished first   *)
(* and commits last.                                                       *)
LatestNeverRegresses ==
  [][\A u \in DOMAIN rows :
       rows[u].completed # 0 =>
         \E v \in DOMAIN rows' :
           /\ rows'[v].name = rows[u].name
           /\ rows'[v].completed >= rows[u].completed]_vars

(* Whatever state the last process left, the daemon begins to serve with   *)
(* one version per name, completed and without consumers.                  *)
StartsClean ==
  [][phase = "starting" /\ phase' = "running" =>
       \A u \in DOMAIN rows' :
         /\ rows'[u].completed # 0
         /\ rows'[u].consumers = 0
         /\ \A v \in DOMAIN rows' : rows'[v].name = rows'[u].name => u = v]_vars

(* When no upload or release is in the middle of its transaction, the      *)
(* version the next download is given has its file.                        *)
ServedOnDisk ==
  (\A w \in Workers : tx[w] # "reserved") =>
    \A n \in Names :
      (\E u \in RowsOf(rows, n) : rows[u].completed # 0) =>
        <<n, Best(rows, n)>> \in disk

(* That is so as long as nothing cuts a transaction short, in whatever     *)
(* order uploads, downloads and clean-ups of a name overlap.               *)
NewestOnDisk == faults = 0 => ServedOnDisk

(* The row of a completed version leaves the table only once its file is   *)
(* gone, whoever cleans up and whatever fails or is rolled back: the only  *)
(* files no row leads to are those of uploads that never completed, whose  *)
(* row OverwriteFailure and DatabaseInit delete.                           *)
RowsOutliveFiles ==
  [][\A u \in DOMAIN rows :
       rows[u].completed # 0 /\ u \notin DOMAIN rows' =>
         <<rows[u].name, u>> \notin disk']_vars

(* The versions that are complete, and the ones downloads have been given. *)
Shelf ==
  {[name |-> rows[u].name, began |-> u, completed |-> rows[u].completed] :
     u \in {v \in DOMAIN rows : rows[v].completed # 0}}

Lent ==
  [s \in Sessions |->
     IF pc[s] \in {"reserved", "reading", "releasing"} THEN path[s] ELSE NoPath]

Library == INSTANCE VersionLibrary WITH Readers <- Sessions, shelf <- Shelf, lent <- Lent

(* Seen from outside the store is such a library, in spite of what happens *)
(* inside: Reserve gives out the newest complete version although uploads  *)
(* may commit in another order than they complete, Release and             *)
(* OverwriteSuccess drop nothing that is lent although they look at counts *)
(* only, and no failure, rollback or restart loses the newest.             *)
LibrarySpec == Library!Spec

-----------------------------------------------------------------------------
(* What the proofs of the safety properties rest on besides TypeOK.        *)

Uploading == {"prepared", "writing", "uploaded", "overwriting"}

(* No session outlives the process, and the database routine clears and    *)
(* prunes when it should.                                                  *)
PhasesOK ==
  /\ phase \in {"down", "starting"} => \A s \in Sessions : pc[s] = "idle"
  /\ pc[DB] \in {"clearing", "cleared"} => phase = "starting"

(* Who holds which lock, and that only a holder has files to remove.       *)
LocksOK ==
  /\ \A s \in Sessions :
       tx[s] = IF pc[s] \in {"releasing", "overwriting"} THEN "reserved" ELSE "none"
  /\ tx[DB] \in {"none", "shared"}
  /\ pc[DB] \in {"clearing", "pruning"} => tx[DB] = "shared"
  /\ \A r, s \in Sessions : tx[r] = "reserved" /\ tx[s] = "reserved" => r = s
  /\ \A s \in Sessions : doomed[s] # {} => tx[s] = "reserved"
  /\ doomed[DB] # {} => pc[DB] \in {"clearing", "pruning"}

(* The clock has reached every stamp in the table and in use.              *)
StampsOK ==
  /\ \A u \in DOMAIN rows : u <= clock
  /\ \A s \in Sessions : pc[s] # "idle" => path[s][2] <= clock

(* An upload in progress has its row, which nobody else uploads to.        *)
UploadsOK ==
  \A s \in Sessions :
    pc[s] \in Uploading =>
      /\ path[s][2] \in DOMAIN rows
      /\ rows[path[s][2]].name = path[s][1]
      /\ rows[path[s][2]].completed = 0
      /\ \A r \in Sessions \ {s} : pc[r] \in Uploading => path[r] # path[s]

(* No file that is due for removal is one a session needs.                 *)
DoomedUnused ==
  \A w \in Workers, s \in Sessions :
    pc[s] \in {"reserved", "reading", "prepared", "writing", "uploaded"} =>
      path[s] \notin doomed[w]

StoreInv ==
  /\ TypeOK /\ PhasesOK /\ LocksOK /\ StampsOK /\ UploadsOK
  /\ ConsumersCover /\ DoomedUnused /\ FilesInUseKept

-----------------------------------------------------------------------------
(* Liveness.                                                               *)

(* Once the server routine has accepted the signal to stop, the process    *)
(* ends: no lock, cancelled transaction or clean-up blocks it.             *)
ShutdownEnds == phase = "accepted" ~> phase = "down"

-----------------------------------------------------------------------------
(* What a comment, a test or the README says and the code does not do.     *)

(* "inform databse client succesfully uploaded entire file, mark it as     *)
(* available" (OverwriteSuccess): a version is given to a download only    *)
(* after that.                                                             *)
ReadsOnlyCompleted ==
  [][\A s \in Sessions :
       pc[s] = "reserved" /\ pc'[s] = "reading" =>
         \E u \in DOMAIN rows :
           IsRow(rows, u, path[s]) /\ rows[u].completed # 0]_vars

(* "kill running tftpcpd instance to make sure database persists": a file  *)
(* that was uploaded can be downloaded after the daemon comes back.        *)
UploadsSurviveKill ==
  phase = "running" => ServedOnDisk

(* "When err is os.ErrClosed then overwriteSuccess has already been called *)
(* and all is good" (OverwriteFailure): an upload whose session is over    *)
(* left no row that is still marked as being uploaded.                     *)
NoStaleUploads ==
  phase = "running" =>
    \A u \in DOMAIN rows :
      rows[u].completed = 0 =>
        \E s \in Sessions : path[s] = <<rows[u].name, u>>
=============================================================================
