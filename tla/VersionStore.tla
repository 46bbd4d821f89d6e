---------------------------- MODULE VersionStore ----------------------------
(***************************************************************************)
(* The versioned file store of tftpcpd: the SQLite table "files", the      *)
(* directory that holds one file per version, the download and upload      *)
(* sessions that use both (internal/session.go: Reserve, Release, Prepare, *)
(* OverwriteSuccess, OverwriteFailure) and the database code that cleans   *)
(* them at start-up and at shutdown (internal/database.go).                *)
(*                                                                         *)
(* A version of a file is the pair <<name, uploadStarted>>, which is also  *)
(* its path on disk (fileModel.Path).  Sessions and the database routine   *)
(* are the WORKERS that run SQLite transactions.  go-sqlite3 begins every  *)
(* transaction as DEFERRED on a rollback journal: a transaction that has   *)
(* only read holds a shared lock, one that has written holds the reserved  *)
(* lock, and it commits when no other transaction holds a lock.  Nothing   *)
(* commits while a lock that matters to a transaction is held, so a        *)
(* transaction's own view is a function of the table and needs no variable.*)
(*                                                                         *)
(* Definitions named Wrong... are not part of the model: each is the       *)
(* definition that follows it with a mistake the code could contain, and   *)
(* is put in its place to see that a property notices.                     *)
(***************************************************************************)
EXTENDS Integers, FiniteSets, Functions

CONSTANTS
  Sessions,     \* sessions that may be active at the same time
  DB,           \* the goroutine of DatabaseInit and DatabaseRoutine
  Names,        \* file names clients ask for
  Faults,       \* what may go wrong, a subset of {"crash", "stop", "io"}
  MaxClock,     \* bound: the last microsecond of the model's clock
  MaxFaults,    \* bound: how many of the faults happen in one behaviour
  MaxConsumers  \* bound: no row is reserved more often than this

ASSUME SessionsAssumption == IsFiniteSet(Sessions) /\ DB \notin Sessions
ASSUME BoundsAssumption ==
  MaxClock \in Nat /\ MaxFaults \in Nat /\ MaxConsumers \in Nat
ASSUME FaultsAssumption == Faults \subseteq {"crash", "stop", "io"}

VARIABLES
  rows,     \* the committed table: uploadStarted -> name, completed, consumers
  disk,     \* the paths that exist below Cfg.Directory
  clock,    \* time.Now().UnixMicro()
  phase,    \* of the process: down, starting, running, accepted, stopping
  pc,       \* where each worker is
  tx,       \* the lock each worker's transaction holds
  path,     \* the version each session works on
  stamp,    \* the uploadCompleted a session has read from the clock
  doomed,   \* the paths deleteFiles has still to remove for a worker
  faults    \* how many faults there have been

vars == <<rows, disk, clock, phase, pc, tx, path, stamp, doomed, faults>>

Workers  == Sessions \cup {DB}
Stamps   == 1 .. MaxClock
Versions == Names \X Stamps
NoPath   == <<>>

Row == [name : Names, completed : 0 .. MaxClock, consumers : Nat]

SessionPcs == {"idle",
               "reserved", "reading", "releasing",
               "prepared", "writing", "uploaded", "overwriting"}
DatabasePcs == {"off", "clearing", "cleared", "pruning", "ready", "done"}

-----------------------------------------------------------------------------
(* The table.  T is a table: a function from uploadStarted, which is UNIQUE,*)
(* to the rest of the row.                                                 *)

RowsOf(T, n) == {u \in DOMAIN T : T[u].name = n}

(* Orders versions by when their upload began.                             *)
WrongNewer(T, u, v) == u > v

(* u is visited as the row with MAX(uploadCompleted) before v: SQLite      *)
(* keeps the first row of a group that reaches the maximum, and visits     *)
(* them in rowid order, which is the order the rows were inserted in.      *)
Newer(T, u, v) ==
  \/ T[u].completed > T[v].completed
  \/ T[u].completed = T[v].completed /\ u < v

(* The row GROUP BY filename takes its bare columns from.                  *)
Best(T, n) ==
  CHOOSE u \in RowsOf(T, n) : \A v \in RowsOf(T, n) \ {u} : Newer(T, u, v)

(* The row-value comparison (filename, uploadCompleted, consumers) of the  *)
(* prepared statements does not look at rowid.                             *)
SameCounts(T, u, v) ==
  T[u].completed = T[v].completed /\ T[u].consumers = T[v].consumers

Unused(T, u) == T[u].completed # 0 /\ T[u].consumers = 0

(* Forgets "consumers = 0".                                                *)
WrongOutOfDate(T, n) ==
  {u \in RowsOf(T, n) : T[u].completed # 0 /\ u # Best(T, n)}

(* What ReleaseStatementSelect, OverwriteSuccessSelect and the queries of  *)
(* deleteOutOfDateGlobally find for one name: rowid tells ties apart.      *)
OutOfDate(T, n) == {u \in RowsOf(T, n) : Unused(T, u) /\ u # Best(T, n)}

(* Forgets "consumers = 0".                                                *)
WrongDropped(T, n) ==
  {u \in RowsOf(T, n) : T[u].completed # 0 /\ ~SameCounts(T, u, Best(T, n))}

(* What ReleaseStatementDelete and OverwriteSuccessDelete drop.            *)
Dropped(T, n) ==
  {u \in RowsOf(T, n) : Unused(T, u) /\ ~SameCounts(T, u, Best(T, n))}

AllOutOfDate(T) == UNION {OutOfDate(T, n) : n \in Names}

Without(T, U) == Restrict(T, DOMAIN T \ U)
Paths(T, U)   == {<<T[u].name, u>> : u \in U}

(* ReserveStatementUpdate: every row that compares equal to the newest one *)
(* gets a consumer.                                                        *)
Consumed(T, n) ==
  [u \in DOMAIN T |->
     IF u \in RowsOf(T, n) /\ SameCounts(T, u, Best(T, n))
     THEN [T[u] EXCEPT !.consumers = @ + 1] ELSE T[u]]

(* PrepareStatement *)
Inserted(T, n, t) ==
  [u \in DOMAIN T \cup {t} |->
     IF u = t THEN [name |-> n, completed |-> 0, consumers |-> 0] ELSE T[u]]

(* filename = ? AND uploadStarted = ?                                      *)
IsRow(T, u, p) == p = <<T[u].name, u>>

(* Forgets "uploadStarted = ?" and "consumers != 0".                       *)
WrongUnconsumed(T, p) ==
  [u \in DOMAIN T |->
     IF T[u].name = p[1] THEN [T[u] EXCEPT !.consumers = @ - 1] ELSE T[u]]

(* ReleaseStatementUpdate *)
Unconsumed(T, p) ==
  [u \in DOMAIN T |->
     IF IsRow(T, u, p) /\ T[u].consumers # 0
     THEN [T[u] EXCEPT !.consumers = @ - 1] ELSE T[u]]

(* OverwriteSuccessUpdate *)
Completed(T, p, t) ==
  [u \in DOMAIN T |->
     IF IsRow(T, u, p) THEN [T[u] EXCEPT !.completed = t] ELSE T[u]]

-----------------------------------------------------------------------------
(* Transactions, faults and time.                                          *)

(* The context every session derives its transactions from is cancelled    *)
(* after the server routine has accepted the signal to stop.               *)
CtxAlive == phase \in {"running", "accepted"}

CanWrite(w)  == \A v \in Workers \ {w} : tx[v] # "reserved"
CanCommit(w) == \A v \in Workers \ {w} : tx[v] = "none"

(* A whole transaction of w that keeps no lock between its statements.     *)
CanTransact(w) == CtxAlive /\ CanWrite(w) /\ CanCommit(w)

Fault(kind) == kind \in Faults /\ faults < MaxFaults /\ faults' = faults + 1

(* What makes a statement of session s fail: a cancelled context, the lock *)
(* of another transaction for longer than the busy timeout, or an error.   *)
CannotWrite(s) ==
  \/ (~CtxAlive \/ ~CanWrite(s)) /\ UNCHANGED faults
  \/ Fault("io")

(* The session gives its slot back, and its transaction if it has one.     *)
Leave(s) ==
  /\ pc' = [pc EXCEPT ![s] = "idle"]
  /\ path' = [path EXCEPT ![s] = NoPath]
  /\ stamp' = [stamp EXCEPT ![s] = 0]
  /\ tx' = [tx EXCEPT ![s] = "none"]
  /\ doomed' = [doomed EXCEPT ![s] = {}]

Goto(w, label) == pc' = [pc EXCEPT ![w] = label]

-----------------------------------------------------------------------------
(* Downloads: ReadAsServer. *)

(* Reserve up to its commit.                                               *)
Reserve(s, n) ==
  /\ pc[s] = "idle" /\ CanTransact(s)
  /\ RowsOf(rows, n) # {}
  /\ \A u \in RowsOf(rows, n) : rows[u].consumers < MaxConsumers
  /\ rows' = Consumed(rows, n)
  /\ path' = [path EXCEPT ![s] = <<n, Best(rows, n)>>]
  /\ Goto(s, "reserved")
  /\ UNCHANGED <<disk, clock, phase, tx, stamp, doomed, faults>>

(* The rest of Reserve: the file is opened after the commit.               *)
OpenReserved(s) ==
  /\ pc[s] = "reserved" /\ path[s] \in disk
  /\ Goto(s, "reading")
  /\ UNCHANGED <<rows, disk, clock, phase, tx, path, stamp, doomed, faults>>

(* Reserve returns the error of Open: the session ends, and the Release    *)
(* that gives the consumer back has not been deferred yet.                 *)
OpenFails(s) ==
  /\ pc[s] = "reserved"
  /\ \/ path[s] \notin disk /\ UNCHANGED faults
     \/ Fault("io")
  /\ Leave(s)
  /\ UNCHANGED <<rows, disk, clock, phase>>

(* The table as the transaction of Release sees it after its UPDATE.       *)
ReleaseView(s) == Unconsumed(rows, path[s])

(* Selects what is out of date before the decrement.                       *)
WrongReleaseBegin(s) ==
  /\ pc[s] = "reading" /\ CtxAlive /\ CanWrite(s)
  /\ tx' = [tx EXCEPT ![s] = "reserved"]
  /\ doomed' = [doomed EXCEPT ![s] = Paths(rows, OutOfDate(rows, path[s][1]))]
  /\ Goto(s, "releasing")
  /\ UNCHANGED <<rows, disk, clock, phase, path, stamp, faults>>

(* The download is over, whatever its outcome: Release closes the file,    *)
(* decrements and selects the versions that are out of date.               *)
ReleaseBegin(s) ==
  /\ pc[s] = "reading" /\ CtxAlive /\ CanWrite(s)
  /\ tx' = [tx EXCEPT ![s] = "reserved"]
  /\ LET T == ReleaseView(s)
     IN  doomed' = [doomed EXCEPT ![s] = Paths(T, OutOfDate(T, path[s][1]))]
  /\ Goto(s, "releasing")
  /\ UNCHANGED <<rows, disk, clock, phase, path, stamp, faults>>

(* Release fails before it holds the lock: its consumer is never given back.*)
ReleaseFails(s) ==
  /\ pc[s] = "reading" /\ CannotWrite(s)
  /\ Leave(s)
  /\ UNCHANGED <<rows, disk, clock, phase>>

(* Forgets ReleaseStatementDelete.                                         *)
WrongReleaseCommit(s) ==
  /\ pc[s] = "releasing" /\ doomed[s] = {} /\ CtxAlive /\ CanCommit(s)
  /\ rows' = ReleaseView(s)
  /\ Leave(s)
  /\ UNCHANGED <<disk, clock, phase, faults>>

ReleaseCommit(s) ==
  /\ pc[s] = "releasing" /\ doomed[s] = {} /\ CtxAlive /\ CanCommit(s)
  /\ LET T == ReleaseView(s)
     IN  rows' = Without(T, Dropped(T, path[s][1]))
  /\ Leave(s)
  /\ UNCHANGED <<disk, clock, phase, faults>>

-----------------------------------------------------------------------------
(* Uploads: WriteAsServer. *)

(* Prepare up to its commit.  A stamp some row already has violates UNIQUE *)
(* and ends the session, so the clock has moved on since the last row.     *)
Prepare(s, n) ==
  /\ pc[s] = "idle" /\ CanTransact(s) /\ clock < MaxClock
  /\ clock' = clock + 1
  /\ rows' = Inserted(rows, n, clock')
  /\ path' = [path EXCEPT ![s] = <<n, clock'>>]
  /\ Goto(s, "prepared")
  /\ UNCHANGED <<disk, phase, tx, stamp, doomed, faults>>

(* The rest of Prepare: the file is created after the commit.              *)
CreateFile(s) ==
  /\ pc[s] = "prepared"
  /\ disk' = disk \cup {path[s]}
  /\ Goto(s, "writing")
  /\ UNCHANGED <<rows, clock, phase, tx, path, stamp, doomed, faults>>

(* Prepare returns the error of Create: OverwriteFailure is not deferred   *)
(* yet and the row stays.                                                  *)
CreateFails(s) ==
  /\ pc[s] = "prepared" /\ Fault("io")
  /\ Leave(s)
  /\ UNCHANGED <<rows, disk, clock, phase>>

(* The client has sent everything: OverwriteSuccess closes the file and    *)
(* reads the clock before its UPDATE asks for the lock.                    *)
FinishUpload(s) ==
  /\ pc[s] = "writing" /\ CtxAlive
  /\ \E t \in {clock, clock + 1} :
       /\ t <= MaxClock
       /\ clock' = t
       /\ stamp' = [stamp EXCEPT ![s] = t]
  /\ Goto(s, "uploaded")
  /\ UNCHANGED <<rows, disk, phase, tx, path, doomed, faults>>

(* The transfer failed: OverwriteFailure closes the file and deletes the   *)
(* row.  It does not remove the file.                                      *)
UploadFails(s) ==
  /\ pc[s] = "writing" /\ CanTransact(s)
  /\ rows' = Without(rows, {u \in DOMAIN rows : IsRow(rows, u, path[s])})
  /\ Leave(s)
  /\ UNCHANGED <<disk, clock, phase, faults>>

(* The file is closed, but neither OverwriteSuccess nor OverwriteFailure   *)
(* reaches the table: the row stays as it is.                              *)
UploadUnrecorded(s) ==
  /\ pc[s] = "writing"
  /\ \/ ~CanTransact(s) /\ UNCHANGED faults
     \/ Fault("io")
  /\ Leave(s)
  /\ UNCHANGED <<rows, disk, clock, phase>>

(* The table as the transaction of OverwriteSuccess sees it.               *)
OverwriteView(s) == Completed(rows, path[s], stamp[s])

(* Takes every unused version but its own to be out of date.               *)
WrongOverwriteBegin(s) ==
  /\ pc[s] = "uploaded" /\ CtxAlive /\ CanWrite(s)
  /\ tx' = [tx EXCEPT ![s] = "reserved"]
  /\ LET T == OverwriteView(s)
         U == {u \in RowsOf(T, path[s][1]) : Unused(T, u) /\ u # path[s][2]}
     IN  doomed' = [doomed EXCEPT ![s] = Paths(T, U)]
  /\ Goto(s, "overwriting")
  /\ UNCHANGED <<rows, disk, clock, phase, path, stamp, faults>>

OverwriteBegin(s) ==
  /\ pc[s] = "uploaded" /\ CtxAlive /\ CanWrite(s)
  /\ tx' = [tx EXCEPT ![s] = "reserved"]
  /\ LET T == OverwriteView(s)
     IN  doomed' = [doomed EXCEPT ![s] = Paths(T, OutOfDate(T, path[s][1]))]
  /\ Goto(s, "overwriting")
  /\ UNCHANGED <<rows, disk, clock, phase, path, stamp, faults>>

OverwriteCommit(s) ==
  /\ pc[s] = "overwriting" /\ doomed[s] = {} /\ CtxAlive /\ CanCommit(s)
  /\ LET T == OverwriteView(s)
     IN  rows' = Without(T, Dropped(T, path[s][1]))
  /\ Leave(s)
  /\ UNCHANGED <<disk, clock, phase, faults>>

(* OverwriteSuccess gives up before it holds the lock.  The OverwriteFailure*)
(* deferred after it finds the file closed and returns.                    *)
OverwriteFails(s) ==
  /\ pc[s] = "uploaded" /\ CannotWrite(s)
  /\ Leave(s)
  /\ UNCHANGED <<rows, disk, clock, phase>>

(* Does not notice that the context is cancelled.                          *)
WrongRollback(s) ==
  /\ pc[s] \in {"releasing", "overwriting"}
  /\ \/ doomed[s] = {} /\ ~CanCommit(s) /\ UNCHANGED faults
     \/ Fault("io")
  /\ Leave(s)
  /\ UNCHANGED <<rows, disk, clock, phase>>

(* Release or OverwriteSuccess rolls back: the context is cancelled, the   *)
(* commit waits too long for a reader, or a statement or Remove fails.     *)
(* The files already removed stay removed.                                 *)
Rollback(s) ==
  /\ pc[s] \in {"releasing", "overwriting"}
  /\ \/ ~CtxAlive /\ UNCHANGED faults
     \/ doomed[s] = {} /\ ~CanCommit(s) /\ UNCHANGED faults
     \/ Fault("io")
  /\ Leave(s)
  /\ UNCHANGED <<rows, disk, clock, phase>>

(* One round of deleteFiles.  A file that is already gone is no error.     *)
DeleteFile(w) ==
  /\ w \in Sessions => CtxAlive
  /\ \E p \in doomed[w] :
       /\ disk' = disk \ {p}
       /\ doomed' = [doomed EXCEPT ![w] = @ \ {p}]
  /\ UNCHANGED <<rows, clock, phase, pc, tx, path, stamp, faults>>

-----------------------------------------------------------------------------
(* The database routine and the life of the process. *)

DatabaseTx(lock, label, paths) ==
  /\ tx' = [tx EXCEPT ![DB] = lock]
  /\ doomed' = [doomed EXCEPT ![DB] = paths]
  /\ Goto(DB, label)

(* The process starts and DatabaseInit selects the uploads that an earlier *)
(* process left unfinished.                                                *)
Boot ==
  /\ phase = "down"
  /\ phase' = "starting"
  /\ DatabaseTx("shared", "clearing",
                Paths(rows, {u \in DOMAIN rows : rows[u].completed = 0}))
  /\ UNCHANGED <<rows, disk, clock, path, stamp, faults>>

(* Forgets to zero the consumers.                                          *)
WrongClearCommit ==
  /\ pc[DB] = "clearing" /\ doomed[DB] = {}
  /\ rows' = Without(rows, {u \in DOMAIN rows : rows[u].completed = 0})
  /\ DatabaseTx("none", "cleared", {})
  /\ UNCHANGED <<disk, clock, phase, path, stamp, faults>>

(* DatabaseInit deletes these rows, zeroes the consumers and commits.      *)
ClearCommit ==
  /\ pc[DB] = "clearing" /\ doomed[DB] = {}
  /\ rows' = [u \in {v \in DOMAIN rows : rows[v].completed # 0} |->
                [rows[u] EXCEPT !.consumers = 0]]
  /\ DatabaseTx("none", "cleared", {})
  /\ UNCHANGED <<disk, clock, phase, path, stamp, faults>>

(* deleteOutOfDateGlobally up to the removal of the files, called from     *)
(* DatabaseInit and by DatabaseRoutine once main asks it to terminate.     *)
PruneSelect ==
  /\ \/ pc[DB] = "cleared"
     \/ pc[DB] = "ready" /\ phase \in {"accepted", "stopping"}
  /\ DatabaseTx("shared", "pruning", Paths(rows, AllOutOfDate(rows)))
  /\ UNCHANGED <<rows, disk, clock, phase, path, stamp, faults>>

(* Its DELETE and commit.  At start-up the daemon is then ready to serve.  *)
PruneCommit ==
  /\ pc[DB] = "pruning" /\ doomed[DB] = {} /\ CanCommit(DB)
  /\ rows' = Without(rows, AllOutOfDate(rows))
  /\ IF phase = "starting"
     THEN phase' = "running" /\ DatabaseTx("none", "ready", {})
     ELSE UNCHANGED phase /\ DatabaseTx("none", "done", {})
  /\ UNCHANGED <<disk, clock, path, stamp, faults>>

(* A transaction that has read cannot wait for the reserved lock of        *)
(* another: its DELETE is busy at once and the routine rolls back.         *)
PruneBusy ==
  /\ pc[DB] = "pruning" /\ doomed[DB] = {} /\ ~CanWrite(DB)
  /\ DatabaseTx("none", "done", {})
  /\ UNCHANGED <<rows, disk, clock, phase, path, stamp, faults>>

(* deleteFiles fails and deleteOutOfDateGlobally returns without rolling   *)
(* back.  (At start-up the process exits instead, as in Crash.)            *)
PruneFails ==
  /\ pc[DB] = "pruning" /\ phase # "starting" /\ Fault("io")
  /\ DatabaseTx("shared", "done", {})
  /\ UNCHANGED <<rows, disk, clock, phase, path, stamp>>

(* The transaction it left open ends with its deadline of three minutes.   *)
LeftOpenExpires ==
  /\ pc[DB] = "done" /\ tx[DB] = "shared"
  /\ DatabaseTx("none", "done", {})
  /\ UNCHANGED <<rows, disk, clock, phase, path, stamp, faults>>

(* ^C: the server routine accepts the signal, then cancels the context of  *)
(* its sessions, and the process ends when every goroutine has.            *)
Stop ==
  /\ phase = "running" /\ Fault("stop")
  /\ phase' = "accepted"
  /\ UNCHANGED <<rows, disk, clock, pc, tx, path, stamp, doomed>>

Cancel ==
  /\ phase = "accepted"
  /\ phase' = "stopping"
  /\ UNCHANGED <<rows, disk, clock, pc, tx, path, stamp, doomed, faults>>

ProcessEnds ==
  /\ phase' = "down"
  /\ pc' = [w \in Workers |-> IF w = DB THEN "off" ELSE "idle"]
  /\ tx' = [w \in Workers |-> "none"]
  /\ path' = [s \in Sessions |-> NoPath]
  /\ stamp' = [s \in Sessions |-> 0]
  /\ doomed' = [w \in Workers |-> {}]
  /\ UNCHANGED <<rows, disk, clock>>

Exit ==
  /\ phase = "stopping" /\ pc[DB] = "done"
  /\ \A s \in Sessions : pc[s] = "idle"
  /\ ProcessEnds
  /\ UNCHANGED faults

(* Any other end of the process: a signal it does not handle, a panic, a   *)
(* failing start-up.  SQLite rolls back what was not committed.            *)
Crash ==
  /\ phase # "down" /\ Fault("crash")
  /\ ProcessEnds

-----------------------------------------------------------------------------
Init ==
  /\ rows = [u \in {} |-> 0] /\ disk = {} /\ clock = 0 /\ phase = "down"
  /\ pc = [w \in Workers |-> IF w = DB THEN "off" ELSE "idle"]
  /\ tx = [w \in Workers |-> "none"]
  /\ path = [s \in Sessions |-> NoPath]
  /\ stamp = [s \in Sessions |-> 0]
  /\ doomed = [w \in Workers |-> {}]
  /\ faults = 0

(* The steps a session takes once it has begun. *)
Proceed(s) ==
  \/ OpenReserved(s) \/ OpenFails(s)
  \/ ReleaseBegin(s) \/ ReleaseFails(s) \/ ReleaseCommit(s)
  \/ CreateFile(s) \/ CreateFails(s)
  \/ FinishUpload(s) \/ UploadFails(s) \/ UploadUnrecorded(s)
  \/ OverwriteBegin(s) \/ OverwriteCommit(s) \/ OverwriteFails(s)
  \/ Rollback(s) \/ DeleteFile(s)

Begin(s) == \E n \in Names : Reserve(s, n) \/ Prepare(s, n)

DatabaseStep ==
  \/ DeleteFile(DB) \/ ClearCommit
  \/ PruneSelect \/ PruneCommit \/ PruneBusy \/ PruneFails \/ LeftOpenExpires

Next ==
  \/ \E s \in Sessions : Begin(s) \/ Proceed(s)
  \/ DatabaseStep
  \/ Boot \/ Stop \/ Cancel \/ Exit \/ Crash

Spec == Init /\ [][Next]_vars

(* Every wait of a session or of the database routine has a timeout (the   *)
(* read deadline of Receive, SQLite's busy timeout), so each of them takes *)
(* its next step.  Nobody promises that a client comes, that the process   *)
(* is started, or that it is stopped.                                      *)
Fairness ==
  /\ \A s \in Sessions : WF_vars(Proceed(s))
  /\ WF_vars(DatabaseStep)
  /\ WF_vars(Cancel) /\ WF_vars(Exit)

FairSpec == Spec /\ Fairness

=============================================================================
