----------------------- MODULE VersionStoreDiskProofs -----------------------
(***************************************************************************)
(* The table and the disk: a clean-up drops the row of a completed version *)
(* only when its file is gone, and as long as nothing is cut short the     *)
(* version the next download is given has its file.                        *)
(***************************************************************************)
EXTENDS VersionStoreTableProofs

-----------------------------------------------------------------------------
(* A clean-up has its table to itself. *)

Cleaning == {"releasing", "overwriting"}

(* Nobody commits while another worker holds a lock.                       *)
LEMMA LockedRows ==
  ASSUME NEW s \in Sessions, Begin(s) \/ Proceed(s),
         NEW w \in Workers \ {s}, tx[w] # "none"
  PROVE  UNCHANGED rows
<1>1. ~CanCommit(s) /\ ~CanTransact(s)
  BY DEF CanTransact, CanCommit
<1> QED
  BY <1>1
     DEF Begin, Reserve, Prepare, Proceed, OpenReserved, OpenFails, ReleaseBegin,
         ReleaseFails, ReleaseCommit, CreateFile, CreateFails, FinishUpload,
         UploadFails, UploadUnrecorded, OverwriteBegin, OverwriteCommit,
         OverwriteFails, Rollback, DeleteFile

LEMMA StampFrame ==
  ASSUME TypeOK, NEW s \in Sessions, Begin(s) \/ Proceed(s)
  PROVE  \A r \in Sessions \ {s} : stamp'[r] = stamp[r]
<1>1. ASSUME Leave(s)
      PROVE  \A r \in Sessions \ {s} : stamp'[r] = stamp[r]
  BY <1>1 DEF Leave, TypeOK
<1>2. CASE FinishUpload(s)
  BY <1>2 DEF FinishUpload, TypeOK
<1>3. CASE UNCHANGED stamp
  BY <1>3
<1> QED
  BY <1>1, <1>2, <1>3, Zenon
     DEF Begin, Reserve, Prepare, Proceed, OpenReserved, OpenFails, ReleaseBegin,
         ReleaseFails, ReleaseCommit, CreateFile, CreateFails,
         UploadFails, UploadUnrecorded, OverwriteBegin, OverwriteCommit,
         OverwriteFails, Rollback, DeleteFile

(* The version and the view of session s are what they were.               *)
SessionKept(s) ==
  /\ pc'[s] = pc[s] /\ path'[s] = path[s] /\ stamp'[s] = stamp[s]
  /\ doomed'[s] = doomed[s]

LEMMA OthersKept ==
  ASSUME TypeOK, NEW s \in Sessions, Begin(s) \/ Proceed(s),
         NEW r \in Sessions \ {s}
  PROVE  SessionKept(r)
<1>1. SessionFrame(s) /\ r \in Workers
  BY BeginFrame, ProceedFrame DEF Workers
<1>2. stamp'[r] = stamp[r]
  BY StampFrame
<1> QED
  BY <1>1, <1>2 DEF SessionFrame, SessionKept

LEMMA KeptByDatabase ==
  ASSUME TypeOK, DatabaseStep \/ Boot \/ Stop \/ Cancel, NEW r \in Sessions
  PROVE  SessionKept(r)
<1>1. CASE DatabaseStep \/ Boot
  <2>1. UNCHANGED stamp
    BY <1>1
       DEF DatabaseStep, Boot, DeleteFile, ClearCommit, PruneSelect, PruneCommit,
           PruneBusy, PruneFails, LeftOpenExpires
  <2> QED
    BY <1>1, <2>1, DatabaseFrame DEF SessionKept
<1>2. CASE Stop \/ Cancel
  BY <1>2 DEF Stop, Cancel, SessionKept
<1> QED
  BY <1>1, <1>2

(* What a session that cleans up does next.                                *)
LEMMA CleaningMoves ==
  ASSUME TypeOK, NEW s \in Sessions, Proceed(s), pc[s] \in Cleaning
  PROVE  DeleteFile(s) \/ pc'[s] = "idle"
<1>1. CASE \/ OpenFails(s) \/ ReleaseFails(s) \/ ReleaseCommit(s)
           \/ CreateFails(s) \/ UploadFails(s) \/ UploadUnrecorded(s)
           \/ OverwriteCommit(s) \/ OverwriteFails(s) \/ Rollback(s)
  <2>1. Leave(s)
    BY <1>1, Zenon
       DEF OpenFails, ReleaseFails, ReleaseCommit, CreateFails, UploadFails,
           UploadUnrecorded, OverwriteCommit, OverwriteFails, Rollback
  <2> QED
    BY <2>1, LeaveFrame
<1> QED
  BY <1>1
     DEF Proceed, Cleaning, OpenReserved, CreateFile, FinishUpload, ReleaseBegin,
         OverwriteBegin

LEMMA CleaningKept ==
  ASSUME StoreInv, Next, NEW s \in Sessions, pc[s] \in Cleaning
  PROVE  \/ SessionKept(s) /\ UNCHANGED rows
         \/ DeleteFile(s)
         \/ pc'[s] = "idle"
<1>1. /\ TypeOK /\ LocksOK /\ PhasesOK /\ s \in Workers /\ s # DB
      /\ tx[s] = "reserved" /\ pc[s] # "idle"
  BY SessionsAssumption DEF StoreInv, LocksOK, Cleaning, Workers
<1>2. ASSUME NEW r \in Sessions, Begin(r) \/ Proceed(r), r # s
      PROVE  SessionKept(s) /\ UNCHANGED rows
  BY <1>1, <1>2, OthersKept, LockedRows
<1>3. CASE Begin(s)
  BY <1>1, <1>3, BeginRows
<1>4. CASE Proceed(s)
  BY <1>1, <1>4, CleaningMoves
<1>5. CASE DatabaseStep \/ Boot \/ Stop \/ Cancel
  <2>1. SessionKept(s)
    BY <1>1, <1>5, KeptByDatabase
  <2>2. ~ClearCommit
    BY <1>1 DEF ClearCommit, PhasesOK
  <2>3. ~PruneCommit
    BY <1>1 DEF PruneCommit, CanCommit
  <2>4. UNCHANGED rows
    BY <1>5, <2>2, <2>3
       DEF DatabaseStep, Boot, Stop, Cancel, DeleteFile, PruneSelect, PruneBusy,
           PruneFails, LeftOpenExpires
  <2> QED
    BY <2>1, <2>4
<1>6. CASE Exit \/ Crash
  BY <1>6, ProcessEndsFrame DEF Exit, Crash
<1> QED
  BY <1>2, <1>3, <1>4, <1>5, <1>6 DEF Next

LEMMA CleaningEntered ==
  ASSUME TypeOK, Next, NEW s \in Sessions, pc[s] \notin Cleaning, pc'[s] \in Cleaning
  PROVE  ReleaseBegin(s) \/ OverwriteBegin(s)
<1>1. s \in Workers
  BY DEF Workers
<1>2. ~SessionKept(s) /\ pc'[s] # "idle"
  BY DEF SessionKept, Cleaning
<1>3. Begin(s) \/ Proceed(s)
  <2>1. ~Exit /\ ~Crash
    BY <1>2, ProcessEndsFrame DEF Exit, Crash
  <2> QED
    BY <1>2, <2>1, OthersKept, KeptByDatabase DEF Next
<1>4. ~Begin(s)
  <2>1. Begin(s) => pc'[s] \in {"reserved", "prepared"}
    BY BeginRows DEF BeginKeepsRows
  <2> QED
    BY <2>1 DEF Cleaning
<1>5. ASSUME Leave(s) PROVE FALSE
  BY <1>2, <1>5, LeaveFrame
<1>6. ~OpenReserved(s) /\ ~CreateFile(s) /\ ~FinishUpload(s)
  BY <1>1 DEF OpenReserved, CreateFile, FinishUpload, Goto, TypeOK, Cleaning
<1>7. ~DeleteFile(s)
  BY DEF DeleteFile
<1> QED
  BY <1>3, <1>4, <1>5, <1>6, <1>7, Zenon
     DEF Proceed, OpenFails, ReleaseFails, ReleaseCommit, CreateFails, UploadFails,
         UploadUnrecorded, OverwriteCommit, OverwriteFails, Rollback

-----------------------------------------------------------------------------
(* What a clean-up has still to remove. *)

Due(s, T) == Paths(T, OutOfDate(T, path[s][1]))

(* deleteFiles has still to remove nothing but the files of what the       *)
(* transaction found out of date, and every one of them that is there.     *)
Matches(s, T) == doomed[s] \subseteq Due(s, T) /\ Due(s, T) \cap disk \subseteq doomed[s]

DueInv ==
  /\ \A s \in Sessions :
       /\ pc[s] = "releasing" => Matches(s, ReleaseView(s))
       /\ pc[s] = "overwriting" => Matches(s, OverwriteView(s))
  /\ pc[DB] = "pruning" => Paths(rows, AllOutOfDate(rows)) \cap disk \subseteq doomed[DB]

(* A new file is that of an upload which has just inserted its row.        *)
LEMMA NewFiles ==
  ASSUME Next
  PROVE  \A p \in disk' : p \in disk \/ \E r \in Sessions : pc[r] = "prepared" /\ p = path[r]
<1>1. ASSUME NEW s \in Sessions, Begin(s) \/ Proceed(s)
      PROVE  CreateFile(s) \/ disk' \subseteq disk
  BY <1>1
     DEF Begin, Reserve, Prepare, Proceed, OpenReserved, OpenFails, ReleaseBegin,
         ReleaseFails, ReleaseCommit, CreateFails, FinishUpload,
         UploadFails, UploadUnrecorded, OverwriteBegin, OverwriteCommit,
         OverwriteFails, Rollback, DeleteFile
<1>2. ASSUME NEW s \in Sessions, CreateFile(s)
      PROVE  pc[s] = "prepared" /\ disk' = disk \cup {path[s]}
  BY <1>2 DEF CreateFile
<1>3. CASE DatabaseStep \/ Boot \/ Stop \/ Cancel \/ Exit \/ Crash
  BY <1>3
     DEF DatabaseStep, Boot, Stop, Cancel, Exit, Crash, ProcessEnds, DeleteFile,
         ClearCommit, PruneSelect, PruneCommit, PruneBusy, PruneFails,
         LeftOpenExpires
<1> QED
  BY <1>1, <1>2, <1>3 DEF Next

(* Such an upload is not out of date in anyone's view.                     *)
LEMMA PreparedNotDue ==
  ASSUME TypeOK, UploadsOK, NEW r \in Sessions, pc[r] = "prepared"
  PROVE  /\ \A s \in Sessions : pc[s] = "releasing" => path[r] \notin Due(s, ReleaseView(s))
         /\ \A s \in Sessions : pc[s] = "overwriting" => path[r] \notin Due(s, OverwriteView(s))
         /\ path[r] \notin Paths(rows, AllOutOfDate(rows))
<1>1. IsTable(rows) /\ \A s \in Sessions : stamp[s] \in 0 .. MaxClock
  BY TypedTable DEF TypeOK
<1>2. \A u \in DOMAIN rows : path[r] = <<rows[u].name, u>> => rows[u].completed = 0
  <2>1. rows[path[r][2]].completed = 0
    BY UploadPath DEF Uploading
  <2> QED
    BY <2>1
<1>3. ASSUME NEW T, DOMAIN T = DOMAIN rows,
             \A u \in DOMAIN rows : T[u].name = rows[u].name,
             \A u \in DOMAIN rows :
               path[r] = <<rows[u].name, u>> => T[u].completed = rows[u].completed,
             NEW U \in SUBSET {u \in DOMAIN T : Unused(T, u)}
      PROVE  path[r] \notin Paths(T, U)
  BY <1>2, <1>3 DEF Paths, Unused
<1>4. ASSUME NEW s \in Sessions, pc[s] = "releasing"
      PROVE  path[r] \notin Due(s, ReleaseView(s))
  <2> DEFINE T == ReleaseView(s)
  <2>1. /\ DOMAIN T = DOMAIN rows
        /\ \A u \in DOMAIN rows :
             T[u].name = rows[u].name /\ T[u].completed = rows[u].completed
    BY <1>1, UnconsumedTable DEF ReleaseView
  <2>2. OutOfDate(T, path[s][1]) \in SUBSET {u \in DOMAIN T : Unused(T, u)}
    BY DEF OutOfDate, RowsOf
  <2> HIDE DEF T
  <2>3. path[r] \notin Paths(T, OutOfDate(T, path[s][1]))
    BY <1>3, <2>1, <2>2
  <2> QED
    BY <2>3 DEF Due, T
<1>5. ASSUME NEW s \in Sessions, pc[s] = "overwriting"
      PROVE  path[r] \notin Due(s, OverwriteView(s))
  <2> DEFINE T == OverwriteView(s)
  <2>1. path[r] # path[s]
    BY <1>5 DEF UploadsOK, Uploading
  <2>2. /\ DOMAIN T = DOMAIN rows
        /\ \A u \in DOMAIN rows :
             /\ T[u].name = rows[u].name
             /\ path[s] # <<rows[u].name, u>> => T[u] = rows[u]
    BY <1>1, CompletedTable DEF OverwriteView
  <2>3. OutOfDate(T, path[s][1]) \in SUBSET {u \in DOMAIN T : Unused(T, u)}
    BY DEF OutOfDate, RowsOf
  <2> HIDE DEF T
  <2>4. path[r] \notin Paths(T, OutOfDate(T, path[s][1]))
    BY <1>3, <2>1, <2>2, <2>3
  <2> QED
    BY <2>4 DEF Due, T
<1>6. path[r] \notin Paths(rows, AllOutOfDate(rows))
  <2>1. AllOutOfDate(rows) \in SUBSET {u \in DOMAIN rows : Unused(rows, u)}
    BY DEF AllOutOfDate, OutOfDate, RowsOf
  <2> QED
    BY <1>3, <2>1
<1> QED
  BY <1>4, <1>5, <1>6

LEMMA SessionDueStep ==
  ASSUME StoreInv, DueInv, Next, NEW s \in Sessions
  PROVE  /\ pc'[s] = "releasing" => Matches(s, ReleaseView(s))'
         /\ pc'[s] = "overwriting" => Matches(s, OverwriteView(s))'
<1>0. TypeOK /\ UploadsOK /\ s \in Workers
  BY DEF StoreInv, Workers
<1>1. CASE ReleaseBegin(s)
  <2>1. /\ pc'[s] = "releasing" /\ UNCHANGED <<rows, path>>
        /\ doomed'[s] = Due(s, ReleaseView(s))
    BY <1>0, <1>1 DEF ReleaseBegin, Goto, TypeOK, Due
  <2>2. Due(s, ReleaseView(s))' = Due(s, ReleaseView(s))
    BY <2>1 DEF Due, ReleaseView
  <2> QED
    BY <2>1, <2>2 DEF Matches
<1>2. CASE OverwriteBegin(s)
  <2>1. /\ pc'[s] = "overwriting" /\ UNCHANGED <<rows, path, stamp>>
        /\ doomed'[s] = Due(s, OverwriteView(s))
    BY <1>0, <1>2 DEF OverwriteBegin, Goto, TypeOK, Due
  <2>2. Due(s, OverwriteView(s))' = Due(s, OverwriteView(s))
    BY <2>1 DEF Due, OverwriteView
  <2> QED
    BY <2>1, <2>2 DEF Matches
<1>3. CASE pc[s] \in Cleaning /\ SessionKept(s) /\ UNCHANGED rows
  <2>1. /\ ReleaseView(s)' = ReleaseView(s) /\ OverwriteView(s)' = OverwriteView(s)
        /\ path'[s] = path[s] /\ doomed'[s] = doomed[s] /\ pc'[s] = pc[s]
    BY <1>3 DEF SessionKept, ReleaseView, OverwriteView
  <2>2. \A p \in disk' : p \in disk \/ \E r \in Sessions : pc[r] = "prepared" /\ p = path[r]
    BY NewFiles
  <2>3. CASE pc[s] = "releasing"
    <3>1. Due(s, ReleaseView(s))' = Due(s, ReleaseView(s))
      BY <2>1 DEF Due
    <3>2. Due(s, ReleaseView(s)) \cap disk' \subseteq disk
      BY <1>0, <2>2, <2>3, PreparedNotDue
    <3>3. Matches(s, ReleaseView(s))
      BY <2>3 DEF DueInv
    <3> QED
      BY <2>1, <2>3, <3>1, <3>2, <3>3 DEF Matches
  <2>4. CASE pc[s] = "overwriting"
    <3>1. Due(s, OverwriteView(s))' = Due(s, OverwriteView(s))
      BY <2>1 DEF Due
    <3>2. Due(s, OverwriteView(s)) \cap disk' \subseteq disk
      BY <1>0, <2>2, <2>4, PreparedNotDue
    <3>3. Matches(s, OverwriteView(s))
      BY <2>4 DEF DueInv
    <3> QED
      BY <2>1, <2>4, <3>1, <3>2, <3>3 DEF Matches
  <2> QED
    BY <1>3, <2>3, <2>4 DEF Cleaning
<1>4. CASE DeleteFile(s)
  <2>1. PICK p \in doomed[s] : /\ disk' = disk \ {p}
                              /\ doomed' = [doomed EXCEPT ![s] = @ \ {p}]
    BY <1>4 DEF DeleteFile
  <2>2. doomed'[s] = doomed[s] \ {p} /\ UNCHANGED <<rows, pc, path, stamp>>
    BY <1>0, <1>4, <2>1 DEF DeleteFile, TypeOK
  <2>3. /\ Due(s, ReleaseView(s))' = Due(s, ReleaseView(s))
        /\ Due(s, OverwriteView(s))' = Due(s, OverwriteView(s))
    BY <2>2 DEF Due, ReleaseView, OverwriteView
  <2> QED
    BY <2>1, <2>2, <2>3 DEF DueInv, Matches
<1>5. CASE pc'[s] \notin Cleaning
  BY <1>5 DEF Cleaning
<1> QED
  BY <1>0, <1>1, <1>2, <1>3, <1>4, <1>5, CleaningKept, CleaningEntered DEF Cleaning

LEMMA DatabaseDueStep ==
  ASSUME StoreInv, DueInv, Next, pc'[DB] = "pruning"
  PROVE  Paths(rows', AllOutOfDate(rows')) \cap disk' \subseteq doomed'[DB]
<1>0. /\ TypeOK /\ UploadsOK /\ LocksOK /\ PhasesOK
      /\ DB \in Workers /\ DB \notin Sessions
  BY SessionsAssumption DEF StoreInv, Workers
<1>1. ASSUME NEW lock, NEW l, NEW P, DatabaseTx(lock, l, P)
      PROVE  pc'[DB] = l /\ doomed'[DB] = P
  BY <1>0, <1>1 DEF DatabaseTx, Goto, TypeOK
<1>2. CASE PruneSelect
  <2>1. doomed'[DB] = Paths(rows, AllOutOfDate(rows)) /\ UNCHANGED rows
    BY <1>1, <1>2 DEF PruneSelect
  <2> QED
    BY <2>1
<1>3. CASE pc[DB] = "pruning" /\ doomed'[DB] = doomed[DB] /\ UNCHANGED rows
  <2>1. Paths(rows, AllOutOfDate(rows)) \cap disk' \subseteq disk
    BY <1>0, NewFiles, PreparedNotDue
  <2> QED
    BY <1>3, <2>1 DEF DueInv
<1>4. ASSUME NEW s \in Sessions, Begin(s) \/ Proceed(s)
      PROVE  pc[DB] = "pruning" /\ doomed'[DB] = doomed[DB] /\ UNCHANGED rows
  <2>1. SessionFrame(s)
    BY <1>0, <1>4, BeginFrame, ProceedFrame
  <2>2. pc[DB] = "pruning" /\ doomed'[DB] = doomed[DB]
    BY <1>0, <2>1 DEF SessionFrame
  <2>3. tx[DB] # "none" /\ DB \in Workers \ {s}
    BY <1>0, <2>2 DEF LocksOK
  <2> QED
    BY <1>4, <2>2, <2>3, LockedRows
<1>5. CASE DeleteFile(DB)
  <2>1. PICK p \in doomed[DB] : /\ disk' = disk \ {p}
                               /\ doomed' = [doomed EXCEPT ![DB] = @ \ {p}]
    BY <1>5 DEF DeleteFile
  <2>2. doomed'[DB] = doomed[DB] \ {p} /\ UNCHANGED <<rows, pc>>
    BY <1>0, <1>5, <2>1 DEF DeleteFile, TypeOK
  <2> QED
    BY <2>1, <2>2 DEF DueInv
<1>6. ~ClearCommit /\ ~PruneCommit /\ ~PruneBusy /\ ~PruneFails /\ ~LeftOpenExpires /\ ~Boot
  BY <1>1 DEF ClearCommit, PruneCommit, PruneBusy, PruneFails, LeftOpenExpires, Boot
<1>7. CASE Stop \/ Cancel
  BY <1>3, <1>7 DEF Stop, Cancel
<1>8. ~Exit /\ ~Crash
  BY ProcessEndsFrame DEF Exit, Crash
<1> QED
  BY <1>2, <1>3, <1>4, <1>5, <1>6, <1>7, <1>8 DEF Next, DatabaseStep

LEMMA DueStep == StoreInv /\ DueInv /\ [Next]_vars => DueInv'
<1> SUFFICES ASSUME StoreInv, DueInv, [Next]_vars PROVE DueInv'
  OBVIOUS
<1>1. CASE Next
  BY <1>1, SessionDueStep, DatabaseDueStep DEF DueInv
<1>2. CASE UNCHANGED vars
  BY <1>2 DEF vars, DueInv, Matches, Due, ReleaseView, OverwriteView
<1> QED
  BY <1>1, <1>2

LEMMA DueInit == Init => DueInv
BY SessionsAssumption DEF Init, DueInv, Workers

-----------------------------------------------------------------------------
(* The rows of completed versions outlive their files. *)

Outlive ==
  \A u \in DOMAIN rows :
    rows[u].completed # 0 /\ u \notin DOMAIN rows' => <<rows[u].name, u>> \notin disk'

LEMMA SettlesOutlive ==
  ASSUME NEW s \in Sessions, NEW T, Settles(T, path[s][1]), Matches(s, T),
         doomed[s] = {}, UNCHANGED disk
  PROVE  Outlive
<1> SUFFICES ASSUME NEW u \in DOMAIN rows, u \notin DOMAIN rows'
             PROVE  <<rows[u].name, u>> \notin disk
  BY DEF Outlive
<1>1. u \in Dropped(T, path[s][1]) /\ T[u].name = rows[u].name
  BY DEF Settles
<1>2. u \in OutOfDate(T, path[s][1])
  BY <1>1 DEF Dropped, OutOfDate, SameCounts
<1>3. <<rows[u].name, u>> \in Due(s, T)
  BY <1>1, <1>2 DEF Due, Paths
<1> QED
  BY <1>3 DEF Matches

LEMMA OutliveStep ==
  ASSUME StoreInv, DueInv, Next
  PROVE  Outlive
<1>0. TypeOK /\ StampsOK /\ UploadsOK
  BY DEF StoreInv
<1>1. ASSUME Keeps PROVE Outlive
  BY <1>1 DEF Keeps, Outlive
<1>2. CASE UNCHANGED rows
  BY <1>2 DEF Outlive
<1>3. ASSUME NEW s \in Sessions, Begin(s) PROVE Outlive
  BY <1>0, <1>1, <1>3, BeginKeeps
<1>4. ASSUME NEW s \in Sessions, ReleaseCommit(s) PROVE Outlive
  BY <1>0, <1>4, ReleaseSettles, SettlesOutlive DEF ReleaseCommit, DueInv
<1>5. ASSUME NEW s \in Sessions, OverwriteCommit(s) PROVE Outlive
  BY <1>0, <1>5, OverwriteSettles, SettlesOutlive DEF OverwriteCommit, DueInv
<1>6. ASSUME NEW s \in Sessions, UploadFails(s) PROVE Outlive
  BY <1>0, <1>1, <1>6, UploadFailsKeeps
<1>7. ASSUME NEW s \in Sessions, Proceed(s) PROVE Outlive
  BY <1>2, <1>4, <1>5, <1>6, <1>7
     DEF Proceed, OpenReserved, OpenFails, ReleaseBegin, ReleaseFails,
         CreateFile, CreateFails, FinishUpload, UploadUnrecorded,
         OverwriteBegin, OverwriteFails, Rollback, DeleteFile
<1>8. CASE ClearCommit
  BY <1>8 DEF ClearCommit, Outlive
<1>9. CASE PruneCommit
  <2>1. /\ pc[DB] = "pruning" /\ doomed[DB] = {} /\ UNCHANGED disk
        /\ DOMAIN rows' = DOMAIN rows \ AllOutOfDate(rows)
    BY <1>0, <1>9, TypedTable, WithoutTable DEF PruneCommit
  <2> QED
    BY <2>1 DEF DueInv, Paths, Outlive
<1> QED
  BY <1>2, <1>3, <1>7, <1>8, <1>9
     DEF Next, DatabaseStep, DeleteFile, PruneSelect, PruneBusy, PruneFails,
         LeftOpenExpires, Boot, Stop, Cancel, Exit, Crash, ProcessEnds

LEMMA DueInvariant == Spec => []DueInv
BY DueInit, DueStep, StoreInvariant, PTL DEF Spec

(* The row of a completed version leaves the table only when its file is   *)
(* gone, whoever cleans up and whatever failed, was rolled back or         *)
(* restarted before: no completed version becomes a file without a row.    *)
THEOREM FilesHaveRows == Spec => RowsOutliveFiles
<1>1. StoreInv /\ DueInv /\ [Next]_vars =>
        [\A u \in DOMAIN rows :
           rows[u].completed # 0 /\ u \notin DOMAIN rows' =>
             <<rows[u].name, u>> \notin disk']_vars
  BY OutliveStep DEF Outlive
<1> QED
  BY <1>1, StoreInvariant, DueInvariant, PTL DEF Spec, RowsOutliveFiles

-----------------------------------------------------------------------------
(* The newest row of a name. *)

LEMMA BestIsUnique ==
  ASSUME NEW T, IsTable(T), NEW n, NEW u \in RowsOf(T, n),
         \A v \in RowsOf(T, n) \ {u} : Newer(T, u, v)
  PROVE  u = Best(T, n)
<1>1. /\ Best(T, n) \in RowsOf(T, n)
      /\ \A v \in RowsOf(T, n) \ {Best(T, n)} : Newer(T, Best(T, n), v)
  BY BestIsNewest
<1>2. \A v \in RowsOf(T, n) : v \in Nat /\ T[v].completed \in Nat
  BY BoundsAssumption DEF RowsOf, IsTable, Stamps, Row
<1> DEFINE b == Best(T, n)
<1> HIDE DEF b
<1>3. b \in RowsOf(T, n) /\ (u # b => Newer(T, b, u) /\ Newer(T, u, b))
  BY <1>1 DEF b
<1>4. u = b
  BY <1>2, <1>3 DEF Newer
<1> QED
  BY <1>4 DEF b

HasCompleted(T, n) == \E u \in RowsOf(T, n) : T[u].completed # 0

LEMMA BestCompleted ==
  ASSUME NEW T, IsTable(T), NEW n, HasCompleted(T, n)
  PROVE  Best(T, n) \in RowsOf(T, n) /\ T[Best(T, n)].completed \in Nat \ {0}
<1>1. PICK u \in RowsOf(T, n) : T[u].completed # 0
  BY DEF HasCompleted
<1>2. Best(T, n) \in RowsOf(T, n) /\ T[Best(T, n)].completed >= T[u].completed
  BY BestIsLatest
<1>3. \A v \in RowsOf(T, n) : T[v].completed \in Nat
  BY BoundsAssumption DEF RowsOf, IsTable, Row
<1> QED
  BY <1>1, <1>2, <1>3

(* T has the completed rows of name n that R has.                          *)
SameCompleted(R, T, n) ==
  /\ \A u \in RowsOf(R, n) :
       R[u].completed # 0 => u \in RowsOf(T, n) /\ T[u].completed = R[u].completed
  /\ \A u \in RowsOf(T, n) :
       T[u].completed # 0 => u \in RowsOf(R, n) /\ T[u].completed = R[u].completed

LEMMA SameBest ==
  ASSUME NEW R, IsTable(R), NEW T, IsTable(T), NEW n,
         SameCompleted(R, T, n), HasCompleted(T, n)
  PROVE  HasCompleted(R, n) /\ Best(T, n) = Best(R, n)
<1>1. HasCompleted(R, n)
  BY DEF HasCompleted, SameCompleted
<1> DEFINE b == Best(R, n)
<1>2. /\ b \in RowsOf(R, n) /\ R[b].completed \in Nat \ {0}
      /\ \A v \in RowsOf(R, n) \ {b} : Newer(R, b, v)
  BY <1>1, BestCompleted, BestIsNewest
<1> HIDE DEF b
<1>3. b \in RowsOf(T, n) /\ T[b].completed = R[b].completed
  BY <1>2 DEF SameCompleted
<1>4. ASSUME NEW v \in RowsOf(T, n) \ {b}
      PROVE  Newer(T, b, v)
  <2>1. CASE T[v].completed = 0
    BY <1>2, <1>3, <2>1 DEF Newer
  <2>2. CASE T[v].completed # 0
    <3>1. v \in RowsOf(R, n) /\ T[v].completed = R[v].completed
      BY <1>4, <2>2 DEF SameCompleted
    <3> QED
      BY <1>2, <1>3, <1>4, <3>1 DEF Newer
  <2> QED
    BY <2>1, <2>2
<1>5. b = Best(T, n)
  BY <1>3, <1>4, BestIsUnique
<1> QED
  BY <1>1, <1>5 DEF b

LEMMA KeepsSame ==
  ASSUME Keeps, NEW n
  PROVE  SameCompleted(rows, rows', n)
BY DEF Keeps, SameCompleted, RowsOf

LEMMA SettlesSame ==
  ASSUME NEW T, NEW n, Settles(T, n), NEW m, m # n
  PROVE  SameCompleted(rows, rows', m)
<1>1. \A u \in RowsOf(rows, m) : u \in RowsOf(rows', m) /\ rows'[u] = rows[u]
  BY DEF Settles, RowsOf, Dropped
<1>2. \A u \in RowsOf(rows', m) : u \in RowsOf(rows, m) /\ rows'[u] = rows[u]
  BY DEF Settles, RowsOf
<1> QED
  BY <1>1, <1>2 DEF SameCompleted

(* Dropping what is replaced does not change which version is the newest.  *)
LEMMA SettlesBest ==
  ASSUME NEW T, NEW n, Settles(T, n), IsTable(rows'), HasCompleted(rows', n)
  PROVE  HasCompleted(T, n) /\ Best(rows', n) = Best(T, n)
<1>1. /\ IsTable(T)
      /\ \A u \in RowsOf(rows', n) : u \in RowsOf(T, n) /\ rows'[u] = T[u]
      /\ \A u \in RowsOf(T, n) \ Dropped(T, n) : u \in RowsOf(rows', n)
  BY DEF Settles, RowsOf
<1>2. HasCompleted(T, n)
  BY <1>1 DEF HasCompleted
<1> DEFINE b == Best(T, n)
<1>3. /\ b \in RowsOf(T, n) /\ b \notin Dropped(T, n)
      /\ \A v \in RowsOf(T, n) \ {b} : Newer(T, b, v)
  BY <1>1, <1>2, BestIsNewest, DroppedRows DEF HasCompleted
<1> HIDE DEF b
<1>4. b \in RowsOf(rows', n) /\ \A v \in RowsOf(rows', n) \ {b} : Newer(rows', b, v)
  BY <1>1, <1>3 DEF Newer
<1>5. b = Best(rows', n)
  BY <1>4, BestIsUnique
<1> QED
  BY <1>2, <1>5 DEF b

(* Giving a consumer back does not either.                                 *)
LEMMA ReleaseBest ==
  ASSUME TypeOK, NEW s \in Sessions, NEW n, HasCompleted(ReleaseView(s), n)
  PROVE  HasCompleted(rows, n) /\ Best(ReleaseView(s), n) = Best(rows, n)
<1> DEFINE T == ReleaseView(s)
<1>1. IsTable(rows) /\ IsTable(T) /\ DOMAIN T = DOMAIN rows
      /\ \A u \in DOMAIN rows :
           T[u].name = rows[u].name /\ T[u].completed = rows[u].completed
  BY TypedTable, UnconsumedTable DEF ReleaseView
<1> HIDE DEF T
<1>2. SameCompleted(rows, T, n)
  BY <1>1 DEF SameCompleted, RowsOf
<1>3. HasCompleted(T, n)
  BY DEF T
<1>4. HasCompleted(rows, n) /\ Best(T, n) = Best(rows, n)
  BY <1>1, <1>2, <1>3, SameBest
<1> QED
  BY <1>4 DEF T

(* Completing an upload makes it the newest version, or leaves the newest. *)
LEMMA OverwriteBest ==
  ASSUME TypeOK, UploadsOK, NEW s \in Sessions, pc[s] = "overwriting",
         NEW n, Best(OverwriteView(s), n) # path[s][2] \/ n # path[s][1],
         HasCompleted(OverwriteView(s), n)
  PROVE  HasCompleted(rows, n) /\ Best(OverwriteView(s), n) = Best(rows, n)
<1> DEFINE T == OverwriteView(s)
           b == Best(T, n)
           x == path[s][2]
<1>1. /\ x \in DOMAIN rows /\ rows[x].completed = 0 /\ path[s] = <<rows[x].name, x>>
      /\ rows[x].name = path[s][1]
  BY UploadPath DEF Uploading
<1>2. /\ IsTable(rows) /\ IsTable(T) /\ DOMAIN T = DOMAIN rows
      /\ \A u \in DOMAIN rows : T[u].name = rows[u].name
      /\ \A u \in DOMAIN rows : u # x => T[u] = rows[u]
  BY TypedTable, CompletedTable DEF OverwriteView, TypeOK
<1>3. /\ b \in RowsOf(T, n) /\ T[b].completed \in Nat \ {0}
      /\ \A v \in RowsOf(T, n) \ {b} : Newer(T, b, v)
  BY <1>2, BestCompleted, BestIsNewest
<1>4. \A u \in RowsOf(T, n) : T[u].completed \in Nat
  BY <1>2, BoundsAssumption DEF IsTable, Row, RowsOf
<1>5. b # path[s][2] \/ n # path[s][1]
  OBVIOUS
<1> HIDE DEF b, T, x
<1>6. b # x
  BY <1>1, <1>2, <1>3, <1>5 DEF RowsOf, x
<1>7. b \in RowsOf(rows, n) /\ rows[b] = T[b]
  BY <1>2, <1>3, <1>6 DEF RowsOf
<1>8. ASSUME NEW v \in RowsOf(rows, n) \ {b}
      PROVE  Newer(rows, b, v)
  <2>1. v \in RowsOf(T, n) \ {b} /\ Newer(T, b, v)
    BY <1>2, <1>3, <1>8 DEF RowsOf
  <2>2. CASE v = x
    BY <1>1, <1>3, <1>7, <2>2 DEF Newer
  <2>3. CASE v # x
    BY <1>2, <1>7, <1>8, <2>1, <2>3 DEF Newer, RowsOf
  <2> QED
    BY <2>2, <2>3
<1>9. b = Best(rows, n) /\ HasCompleted(rows, n)
  BY <1>2, <1>3, <1>7, <1>8, BestIsUnique DEF HasCompleted
<1> QED
  BY <1>9 DEF b, T

-----------------------------------------------------------------------------
(* The version that is served, as long as nothing is cut short. *)

(* The upload that s completes is the newest version of its name, so the   *)
(* file of the one before it goes although its row is still the newest.    *)
Wins(s) ==
  pc[s] = "overwriting" /\ Best(OverwriteView(s), path[s][1]) = path[s][2]

(* Without a fault the process is started once, with an empty table, and   *)
(* the database routine waits.                                             *)
QuietProcess ==
  /\ phase \in {"down", "starting", "running"}
  /\ phase # "running" => DOMAIN rows = {}
  /\ phase = "running" => pc[DB] = "ready" /\ tx[DB] = "none"

WinsOnDisk == \A s \in Sessions : Wins(s) => path[s] \in disk

Served(n) ==
  HasCompleted(rows, n) =>
    \/ <<n, Best(rows, n)>> \in disk
    \/ \E s \in Sessions : Wins(s) /\ path[s][1] = n

QuietInv == faults = 0 => QuietProcess /\ WinsOnDisk /\ \A n \in Names : Served(n)

NoFault == \A kind : ~Fault(kind)

LEMMA QuietBefore ==
  ASSUME TypeOK, Next, faults' = 0
  PROVE  faults = 0 /\ NoFault
<1>1. faults \in Nat
  BY BoundsAssumption DEF TypeOK
<1>2. NoFault
  BY <1>1 DEF NoFault, Fault
<1>3. ASSUME NEW s \in Sessions, Begin(s) \/ Proceed(s)
      PROVE  UNCHANGED faults
  BY <1>2, <1>3
     DEF NoFault, Begin, Reserve, Prepare, Proceed, OpenReserved, OpenFails,
         ReleaseBegin, ReleaseFails, ReleaseCommit, CreateFile, CreateFails,
         FinishUpload, UploadFails, UploadUnrecorded, OverwriteBegin,
         OverwriteCommit, OverwriteFails, Rollback, DeleteFile, CannotWrite
<1>4. CASE DatabaseStep \/ Boot \/ Stop \/ Cancel \/ Exit \/ Crash
  BY <1>2, <1>4
     DEF NoFault, DatabaseStep, Boot, Stop, Cancel, Exit, Crash, DeleteFile,
         ClearCommit, PruneSelect, PruneCommit, PruneBusy, PruneFails,
         LeftOpenExpires
<1>5. UNCHANGED faults
  BY <1>3, <1>4 DEF Next
<1> QED
  BY <1>2, <1>5

(* While the daemon serves undisturbed only sessions take steps.           *)
LEMMA OnlySessions ==
  ASSUME StoreInv, QuietProcess, NoFault, Next, phase = "running"
  PROVE  \E s \in Sessions : Begin(s) \/ Proceed(s)
<1>1. pc[DB] = "ready" /\ doomed[DB] = {}
  BY DEF QuietProcess, StoreInv, LocksOK
<1>2. ~DatabaseStep
  BY <1>1
     DEF DatabaseStep, DeleteFile, ClearCommit, PruneSelect, PruneCommit,
         PruneBusy, PruneFails, LeftOpenExpires
<1> QED
  BY <1>2 DEF Next, Boot, Stop, Cancel, Exit, Crash, NoFault

(* Before that nobody uploads, so there is nothing to serve.               *)
LEMMA NothingYet ==
  ASSUME StoreInv, QuietProcess, NoFault, Next, phase # "running"
  PROVE  /\ QuietProcess'
         /\ DOMAIN rows' = {}
         /\ \A s \in Sessions : pc'[s] = "idle"
<1>0. /\ TypeOK /\ phase \in {"down", "starting"} /\ DOMAIN rows = {}
      /\ \A s \in Sessions : pc[s] = "idle" /\ tx[s] = "none"
  BY DEF StoreInv, QuietProcess, PhasesOK, LocksOK
<1>1. ASSUME NEW s \in Sessions, Begin(s) \/ Proceed(s)
      PROVE  FALSE
  BY <1>0, <1>1
     DEF Begin, Reserve, Prepare, Proceed, OpenReserved, OpenFails, ReleaseBegin,
         ReleaseFails, ReleaseCommit, CreateFile, CreateFails, FinishUpload,
         UploadFails, UploadUnrecorded, OverwriteBegin, OverwriteCommit,
         OverwriteFails, Rollback, DeleteFile, CanTransact, CtxAlive
<1>2. DatabaseStep \/ Boot
  BY <1>0, <1>1 DEF Next, Stop, Cancel, Exit, Crash, NoFault
<1>3. \A s \in Sessions : pc'[s] = "idle"
  BY <1>0, <1>2, DatabaseFrame
<1>4. DOMAIN rows' = {}
  <2>1. CASE ClearCommit
    BY <1>0, <2>1 DEF ClearCommit
  <2>2. CASE PruneCommit
    <3>1. IsTable(rows)
      BY <1>0, TypedTable
    <3>2. DOMAIN Without(rows, AllOutOfDate(rows)) = DOMAIN rows \ AllOutOfDate(rows)
      BY <3>1, WithoutTable
    <3> QED
      BY <1>0, <2>2, <3>2 DEF PruneCommit
  <2>3. CASE UNCHANGED rows
    BY <1>0, <2>3
  <2> QED
    BY <1>2, <2>1, <2>2, <2>3
       DEF DatabaseStep, Boot, DeleteFile, PruneSelect, PruneBusy, PruneFails,
           LeftOpenExpires
<1>5. /\ phase' \in {"down", "starting", "running"}
      /\ phase' = "running" => pc'[DB] = "ready" /\ tx'[DB] = "none"
  <2>1. DB \in Workers
    BY DEF Workers
  <2>2. CASE PruneCommit
    BY <1>0, <2>1, <2>2 DEF PruneCommit, DatabaseTx, Goto, TypeOK
  <2>3. CASE Boot
    BY <2>3 DEF Boot
  <2>4. CASE UNCHANGED phase
    BY <1>0, <2>4
  <2> QED
    BY <1>2, <2>2, <2>3, <2>4
       DEF DatabaseStep, DeleteFile, ClearCommit, PruneSelect, PruneBusy,
           PruneFails, LeftOpenExpires
<1> QED
  BY <1>3, <1>4, <1>5 DEF QuietProcess

LEMMA OnlyDeleteShrinks ==
  ASSUME NEW s \in Sessions, Begin(s) \/ Proceed(s)
  PROVE  DeleteFile(s) \/ disk \subseteq disk'
BY DEF Begin, Reserve, Prepare, Proceed, OpenReserved, OpenFails, ReleaseBegin,
       ReleaseFails, ReleaseCommit, CreateFile, CreateFails, FinishUpload,
       UploadFails, UploadUnrecorded, OverwriteBegin, OverwriteCommit,
       OverwriteFails, Rollback, DeleteFile

LEMMA BestNotDue ==
  ASSUME NEW s, NEW T
  PROVE  \A n : <<n, Best(T, n)>> \notin Due(s, T)
BY DEF Due, Paths, OutOfDate, RowsOf

(* Only the holder of the reserved lock removes files or wins.             *)
LEMMA OneCleaner ==
  ASSUME LocksOK, NEW r \in Sessions, Wins(r), NEW s \in Sessions,
         doomed[s] # {} \/ tx[s] = "reserved"
  PROVE  r = s
<1>1. tx[r] = "reserved" /\ tx[s] = "reserved"
  BY DEF Wins, LocksOK
<1> QED
  BY <1>1 DEF LocksOK

(* A session that wins goes on winning while others take steps.            *)
LEMMA WinsCarried ==
  ASSUME TypeOK, LocksOK, NEW s \in Sessions, Begin(s) \/ Proceed(s),
         NEW r \in Sessions \ {s}, pc[r] = "overwriting"
  PROVE  UNCHANGED rows /\ path'[r] = path[r] /\ (Wins(r)' <=> Wins(r))
<1>1. SessionKept(r)
  BY OthersKept
<1>2. r \in Workers \ {s} /\ tx[r] # "none"
  BY DEF LocksOK, Workers
<1>3. UNCHANGED rows
  BY <1>2, LockedRows
<1>4. OverwriteView(r)' = OverwriteView(r)
  BY <1>1, <1>3 DEF SessionKept, OverwriteView
<1> QED
  BY <1>1, <1>3, <1>4 DEF SessionKept, Wins

LEMMA WinsOnDiskStep ==
  ASSUME StoreInv, DueInv, WinsOnDisk, Next,
         NEW s \in Sessions, Begin(s) \/ Proceed(s)
  PROVE  WinsOnDisk'
<1>0. TypeOK /\ LocksOK /\ FilesInUseKept
  BY DEF StoreInv
<1> SUFFICES ASSUME NEW r \in Sessions, Wins(r)'
             PROVE  path'[r] \in disk'
  BY DEF WinsOnDisk
<1>1. CASE r # s
  <2>1. pc[r] = "overwriting"
    BY <1>0, <1>1, OthersKept DEF Wins, SessionKept
  <2>2. Wins(r) /\ path'[r] = path[r]
    BY <1>0, <1>1, <2>1, WinsCarried
  <2>3. disk \subseteq disk'
    BY <1>0, <1>1, <2>2, OneCleaner, OnlyDeleteShrinks DEF DeleteFile
  <2> QED
    BY <2>2, <2>3 DEF WinsOnDisk
<1>2. CASE OverwriteBegin(s) /\ r = s
  BY <1>0, <1>2 DEF OverwriteBegin, FilesInUseKept
<1>3. CASE r = s /\ SessionKept(s) /\ UNCHANGED rows /\ ~DeleteFile(s)
  <2>1. Wins(s) /\ path'[s] = path[s]
    BY <1>3 DEF SessionKept, Wins, OverwriteView
  <2> QED
    BY <1>3, <2>1, OnlyDeleteShrinks DEF WinsOnDisk
<1>4. CASE r = s /\ DeleteFile(s)
  <2>1. UNCHANGED <<rows, pc, path, stamp>>
    BY <1>4 DEF DeleteFile
  <2>2. Wins(s) /\ path[s] \in disk
    BY <1>4, <2>1 DEF Wins, OverwriteView, WinsOnDisk
  <2>3. /\ doomed[s] \subseteq Due(s, OverwriteView(s))
        /\ path[s] = <<path[s][1], Best(OverwriteView(s), path[s][1])>>
    BY <1>0, <2>2, ViewType DEF Wins, DueInv, Matches
  <2>4. path[s] \notin doomed[s]
    BY <2>3, BestNotDue
  <2> QED
    BY <1>4, <2>1, <2>2, <2>4 DEF DeleteFile
<1>5. pc'[r] = "overwriting"
  BY DEF Wins
<1> QED
  BY <1>0, <1>1, <1>2, <1>3, <1>4, <1>5, CleaningKept, CleaningEntered
     DEF Cleaning, ReleaseBegin, Goto, TypeOK, Workers

-----------------------------------------------------------------------------
(* What each step of a session does to the version that is served. *)

(* The steps that neither change the table nor remove a file.              *)
LEMMA ServedFramed ==
  ASSUME TypeOK, LocksOK, NEW n, Served(n),
         NEW s \in Sessions, Begin(s) \/ Proceed(s),
         UNCHANGED rows, disk \subseteq disk', pc[s] # "overwriting"
  PROVE  Served(n)'
<1> SUFFICES ASSUME HasCompleted(rows, n)'
             PROVE  Served(n)'
  BY DEF Served
<1>1. HasCompleted(rows, n) /\ Best(rows, n)' = Best(rows, n)
  BY DEF HasCompleted, RowsOf
<1>2. CASE <<n, Best(rows, n)>> \in disk
  BY <1>1, <1>2 DEF Served
<1>3. ASSUME NEW r \in Sessions, Wins(r), path[r][1] = n
      PROVE  Wins(r)' /\ path'[r][1] = n
  BY <1>3, WinsCarried DEF Wins
<1> QED
  BY <1>1, <1>2, <1>3 DEF Served

(* Nobody wins while another worker may commit.                            *)
LEMMA NobodyWins ==
  ASSUME LocksOK, NEW s \in Sessions, CanCommit(s), NEW r \in Sessions, Wins(r)
  PROVE  r = s
<1>1. tx[r] = "reserved" /\ r \in Workers
  BY DEF Wins, LocksOK, Workers
<1> QED
  BY <1>1 DEF CanCommit

(* A new row, a consumer or a failed upload: the newest version stays.     *)
LEMMA ServedKeeps ==
  ASSUME StoreInv, StoreInv', NEW n, Served(n),
         NEW s \in Sessions, Begin(s) \/ UploadFails(s)
  PROVE  Served(n)'
<1>0. TypeOK /\ TypeOK' /\ LocksOK /\ StampsOK /\ UploadsOK
  BY DEF StoreInv
<1> SUFFICES ASSUME HasCompleted(rows', n)
             PROVE  Served(n)'
  BY DEF Served
<1>1. CanCommit(s) /\ pc[s] # "overwriting"
  BY DEF Begin, Reserve, Prepare, UploadFails, CanTransact
<1>2. Keeps /\ UNCHANGED disk
  BY <1>0, BeginKeeps, BeginFrame, UploadFailsKeeps DEF UploadFails
<1>3. IsTable(rows) /\ IsTable(rows') /\ SameCompleted(rows, rows', n)
  BY <1>0, <1>2, KeepsSame, TypeParts, TypePartsPrimed
<1>4. HasCompleted(rows, n) /\ Best(rows', n) = Best(rows, n)
  BY <1>3, SameBest
<1>5. \A r \in Sessions : ~Wins(r)
  BY <1>0, <1>1, NobodyWins DEF Wins
<1> QED
  BY <1>2, <1>4, <1>5 DEF Served

(* A transaction that settles another name does not touch this one.        *)
LEMMA ServedElsewhere ==
  ASSUME TypeOK, TypeOK', LocksOK, NEW n, Served(n), NEW s \in Sessions, CanCommit(s),
         n # path[s][1], NEW T, Settles(T, path[s][1]), UNCHANGED disk
  PROVE  Served(n)'
<1> SUFFICES ASSUME HasCompleted(rows', n)
             PROVE  Served(n)'
  BY DEF Served
<1>1. IsTable(rows) /\ IsTable(rows') /\ SameCompleted(rows, rows', n)
  BY SettlesSame, TypeParts, TypePartsPrimed
<1>2. HasCompleted(rows, n) /\ Best(rows', n) = Best(rows, n)
  BY <1>1, SameBest
<1>3. \A r \in Sessions : Wins(r) => path[r][1] # n
  BY NobodyWins
<1> QED
  BY <1>2, <1>3 DEF Served

LEMMA ServedRelease ==
  ASSUME StoreInv, StoreInv', NEW n, Served(n), NEW s \in Sessions, ReleaseCommit(s)
  PROVE  Served(n)'
<1>0. /\ TypeOK /\ TypeOK' /\ LocksOK
      /\ CanCommit(s) /\ pc[s] = "releasing" /\ UNCHANGED disk
  BY DEF StoreInv, ReleaseCommit
<1>1. Settles(ReleaseView(s), path[s][1])
  BY <1>0, ReleaseSettles
<1>2. CASE n # path[s][1]
  BY <1>0, <1>1, <1>2, ServedElsewhere
<1>3. CASE n = path[s][1] /\ HasCompleted(rows', n)
  <2>1. /\ HasCompleted(ReleaseView(s), n)
        /\ Best(rows', n) = Best(ReleaseView(s), n)
    BY <1>0, <1>1, <1>3, SettlesBest, TypePartsPrimed
  <2>2. HasCompleted(rows, n) /\ Best(rows', n) = Best(rows, n)
    BY <1>0, <2>1, ReleaseBest
  <2>3. \A r \in Sessions : ~Wins(r)
    BY <1>0, NobodyWins DEF Wins
  <2> QED
    BY <1>0, <2>2, <2>3 DEF Served
<1> QED
  BY <1>2, <1>3 DEF Served

LEMMA ServedOverwrite ==
  ASSUME StoreInv, StoreInv', WinsOnDisk, NEW n, Served(n),
         NEW s \in Sessions, OverwriteCommit(s)
  PROVE  Served(n)'
<1>0. /\ TypeOK /\ TypeOK' /\ LocksOK /\ UploadsOK
      /\ CanCommit(s) /\ pc[s] = "overwriting" /\ UNCHANGED disk
  BY DEF StoreInv, OverwriteCommit
<1>1. Settles(OverwriteView(s), path[s][1])
  BY <1>0, OverwriteSettles
<1>2. CASE n # path[s][1]
  BY <1>0, <1>1, <1>2, ServedElsewhere
<1>3. CASE n = path[s][1] /\ HasCompleted(rows', n)
  <2>1. /\ HasCompleted(OverwriteView(s), n)
        /\ Best(rows', n) = Best(OverwriteView(s), n)
    BY <1>0, <1>1, <1>3, SettlesBest, TypePartsPrimed
  <2>2. CASE Wins(s)
    <3>1. path[s] = <<n, Best(rows', n)>>
      BY <1>0, <1>3, <2>1, <2>2, ViewType DEF Wins
    <3> QED
      BY <1>0, <2>2, <3>1 DEF WinsOnDisk, Served
  <2>3. CASE ~Wins(s)
    <3>1. HasCompleted(rows, n) /\ Best(rows', n) = Best(rows, n)
      BY <1>0, <1>3, <2>1, <2>3, OverwriteBest DEF Wins
    <3>2. \A r \in Sessions : ~Wins(r)
      BY <1>0, <2>3, NobodyWins
    <3> QED
      BY <1>0, <3>1, <3>2 DEF Served
  <2> QED
    BY <2>2, <2>3
<1> QED
  BY <1>2, <1>3 DEF Served

(* A clean-up removes the file of the newest row only for the upload that  *)
(* replaces it.                                                            *)
LEMMA ServedDelete ==
  ASSUME StoreInv, DueInv, NEW n, Served(n), NEW s \in Sessions, DeleteFile(s)
  PROVE  Served(n)'
<1>0. TypeOK /\ LocksOK /\ UploadsOK /\ IsTable(rows)
  BY TypedTable DEF StoreInv
<1>1. UNCHANGED <<rows, pc, path, stamp>>
  BY DEF DeleteFile
<1>2. \A r \in Sessions : Wins(r)' <=> Wins(r)
  BY <1>1 DEF Wins, OverwriteView
<1>3. (HasCompleted(rows, n)' <=> HasCompleted(rows, n)) /\ Best(rows, n)' = Best(rows, n)
  BY <1>1 DEF HasCompleted, RowsOf
<1> SUFFICES ASSUME HasCompleted(rows, n), <<n, Best(rows, n)>> \in doomed[s]
             PROVE  Wins(s) /\ path[s][1] = n
  BY <1>1, <1>2, <1>3 DEF Served, DeleteFile
<1>4. pc[s] \in Cleaning
  BY <1>0 DEF LocksOK, Cleaning
<1>5. CASE pc[s] = "releasing"
  <2> DEFINE T == ReleaseView(s)
  <2>1. /\ DOMAIN T = DOMAIN rows
        /\ \A u \in DOMAIN rows :
             T[u].name = rows[u].name /\ T[u].completed = rows[u].completed
    BY <1>0, UnconsumedTable DEF ReleaseView
  <2>2. HasCompleted(T, n)
    BY <2>1 DEF HasCompleted, RowsOf
  <2>3. Best(T, n) = Best(rows, n)
    BY <1>0, <2>2, ReleaseBest
  <2>4. <<n, Best(rows, n)>> \in Due(s, T)
    BY <1>5 DEF DueInv, Matches
  <2> QED
    BY <2>3, <2>4, BestNotDue
<1>6. CASE pc[s] = "overwriting"
  <2> DEFINE T == OverwriteView(s)
  <2>1. /\ DOMAIN T = DOMAIN rows
        /\ \A u \in DOMAIN rows :
             /\ T[u].name = rows[u].name
             /\ path[s] # <<rows[u].name, u>> => T[u] = rows[u]
    BY <1>0, CompletedTable DEF OverwriteView, TypeOK
  <2>2. \A u \in DOMAIN rows : rows[u].completed # 0 => T[u] = rows[u]
    <3>1. rows[path[s][2]].completed = 0
      BY <1>0, <1>6, UploadPath DEF Uploading
    <3> QED
      BY <2>1, <3>1
  <2>3. HasCompleted(T, n)
    BY <2>1, <2>2 DEF HasCompleted, RowsOf
  <2>4. <<n, Best(rows, n)>> \in Due(s, T)
    BY <1>6 DEF DueInv, Matches
  <2>5. Best(T, n) # Best(rows, n)
    BY <2>4, BestNotDue
  <2>6. Best(T, n) = path[s][2] /\ n = path[s][1]
    BY <1>0, <1>6, <2>3, <2>5, OverwriteBest
  <2> QED
    BY <1>6, <2>6 DEF Wins
<1> QED
  BY <1>4, <1>5, <1>6 DEF Cleaning

LEMMA NothingRollsBack ==
  ASSUME LocksOK, NoFault, phase = "running", tx[DB] = "none", NEW s \in Sessions
  PROVE  ~Rollback(s)
<1> SUFFICES ASSUME Rollback(s) PROVE FALSE
  OBVIOUS
<1>1. pc[s] \in Cleaning /\ ~CanCommit(s)
  BY DEF Rollback, CtxAlive, NoFault, Cleaning
<1>2. tx[s] = "reserved"
  BY <1>1 DEF LocksOK, Cleaning
<1>3. PICK r \in Sessions \ {s} : tx[r] # "none"
  BY <1>1 DEF CanCommit, Workers
<1>4. tx[r] = "reserved"
  BY <1>3 DEF LocksOK
<1> QED
  BY <1>2, <1>3, <1>4 DEF LocksOK

LEMMA ServedStep ==
  ASSUME StoreInv, StoreInv', DueInv, WinsOnDisk, NoFault, phase = "running",
         tx[DB] = "none", NEW n, Served(n), NEW s \in Sessions, Begin(s) \/ Proceed(s)
  PROVE  Served(n)'
<1>0. TypeOK /\ LocksOK
  BY DEF StoreInv
<1>1. CASE \/ OpenReserved(s) \/ OpenFails(s) \/ ReleaseBegin(s) \/ ReleaseFails(s)
           \/ CreateFile(s) \/ CreateFails(s) \/ FinishUpload(s)
           \/ UploadUnrecorded(s) \/ OverwriteBegin(s) \/ OverwriteFails(s)
  <2>1. UNCHANGED rows /\ disk \subseteq disk' /\ pc[s] # "overwriting"
    BY <1>1
       DEF OpenReserved, OpenFails, ReleaseBegin, ReleaseFails, CreateFile,
           CreateFails, FinishUpload, UploadUnrecorded, OverwriteBegin,
           OverwriteFails
  <2> QED
    BY <1>0, <2>1, ServedFramed
<1>2. CASE Begin(s) \/ UploadFails(s)
  BY <1>2, ServedKeeps
<1>3. CASE ReleaseCommit(s)
  BY <1>3, ServedRelease
<1>4. CASE OverwriteCommit(s)
  BY <1>4, ServedOverwrite
<1>5. CASE DeleteFile(s)
  BY <1>5, ServedDelete
<1> QED
  BY <1>0, <1>1, <1>2, <1>3, <1>4, <1>5, NothingRollsBack DEF Proceed

LEMMA QuietStep == StoreInv /\ StoreInv' /\ DueInv /\ QuietInv /\ [Next]_vars => QuietInv'
<1> SUFFICES ASSUME StoreInv, StoreInv', DueInv, QuietInv, [Next]_vars, faults' = 0
             PROVE  (QuietProcess /\ WinsOnDisk /\ \A n \in Names : Served(n))'
  BY DEF QuietInv
<1>1. ASSUME Next
      PROVE  (QuietProcess /\ WinsOnDisk /\ \A n \in Names : Served(n))'
  <2>1. TypeOK /\ LocksOK
    BY DEF StoreInv
  <2>2. /\ NoFault /\ QuietProcess /\ WinsOnDisk
        /\ \A n \in Names : Served(n)
    BY <1>1, <2>1, QuietBefore DEF QuietInv
  <2>3. CASE phase # "running"
    <3>1. /\ QuietProcess' /\ DOMAIN rows' = {}
          /\ \A s \in Sessions : pc'[s] = "idle"
      BY <1>1, <2>2, <2>3, NothingYet
    <3>2. \A n : ~HasCompleted(rows, n)'
      BY <3>1 DEF HasCompleted, RowsOf
    <3> QED
      BY <3>1, <3>2 DEF WinsOnDisk, Wins, Served
  <2>4. CASE phase = "running"
    <3>1. PICK s \in Sessions : Begin(s) \/ Proceed(s)
      BY <1>1, <2>2, <2>4, OnlySessions
    <3>2. pc[DB] = "ready" /\ tx[DB] = "none"
      BY <2>2, <2>4 DEF QuietProcess
    <3>3. WinsOnDisk' /\ \A n \in Names : Served(n)'
      BY <1>1, <2>2, <2>4, <3>1, <3>2, WinsOnDiskStep, ServedStep
    <3>4. QuietProcess'
      <4>1. SessionFrame(s) /\ DB \in Workers \ {s}
        BY <2>1, <3>1, BeginFrame, ProceedFrame, SessionsAssumption DEF Workers
      <4> QED
        BY <2>4, <3>2, <4>1 DEF SessionFrame, QuietProcess
    <3> QED
      BY <3>3, <3>4
  <2> QED
    BY <2>3, <2>4
<1>2. CASE UNCHANGED vars
  <2>1. QuietProcess /\ WinsOnDisk /\ \A n \in Names : Served(n)
    BY <1>2 DEF vars, QuietInv
  <2>2. QuietProcess'
    BY <1>2, <2>1 DEF vars, QuietProcess
  <2>3. \A s \in Sessions : (Wins(s)' <=> Wins(s)) /\ path'[s] = path[s]
    BY <1>2 DEF vars, Wins, OverwriteView
  <2>4. WinsOnDisk'
    BY <1>2, <2>1, <2>3 DEF vars, WinsOnDisk
  <2>5. ASSUME NEW n \in Names
        PROVE  Served(n)'
    <3>1. HasCompleted(rows, n)' = HasCompleted(rows, n) /\ Best(rows, n)' = Best(rows, n)
      BY <1>2 DEF vars, HasCompleted, RowsOf
    <3> QED
      BY <1>2, <2>1, <2>3, <3>1 DEF vars, Served
  <2> QED
    BY <2>2, <2>4, <2>5
<1> QED
  BY <1>1, <1>2

LEMMA QuietInit == Init => QuietInv
BY SessionsAssumption
   DEF Init, QuietInv, QuietProcess, WinsOnDisk, Served, Wins, HasCompleted,
       RowsOf, Workers

(* When no clean-up is under way nobody wins, and what is served is there. *)
LEMMA QuietServes == StoreInv /\ QuietInv => NewestOnDisk
<1> SUFFICES ASSUME StoreInv, QuietInv, faults = 0,
                    \A w \in Workers : tx[w] # "reserved",
                    NEW n \in Names, HasCompleted(rows, n)
             PROVE  <<n, Best(rows, n)>> \in disk
  BY DEF NewestOnDisk, ServedOnDisk, HasCompleted
<1>1. \A s \in Sessions : ~Wins(s)
  BY DEF StoreInv, LocksOK, Wins, Workers
<1> QED
  BY <1>1 DEF QuietInv, Served

(* As long as nothing is cut short, the version the next download is given *)
(* has its file whenever no clean-up is in the middle of its transaction,  *)
(* however uploads, downloads and clean-ups of a name overlap.             *)
THEOREM ServedVersionOnDisk == Spec => []NewestOnDisk
<1>1. Spec => []QuietInv
  BY QuietInit, QuietStep, StoreInvariant, DueInvariant, PTL DEF Spec
<1> QED
  BY <1>1, QuietServes, StoreInvariant, PTL
=============================================================================
