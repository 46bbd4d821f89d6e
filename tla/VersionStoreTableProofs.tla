----------------------- MODULE VersionStoreTableProofs -----------------------
(***************************************************************************)
(* What the table promises to the next download: the newest completed      *)
(* version is kept, replaced ones that nobody uses are not, and a start    *)
(* leaves one clean row per name.                                          *)
(***************************************************************************)
EXTENDS VersionStoreSafetyProofs, Sequences

-----------------------------------------------------------------------------
(* What Best and the statements that drop rows guarantee. *)

LEMMA BestIsLatest ==
  ASSUME NEW T, IsTable(T), NEW n, NEW u \in RowsOf(T, n)
  PROVE  /\ Best(T, n) \in RowsOf(T, n)
         /\ T[Best(T, n)].completed >= T[u].completed
<1>1. /\ Best(T, n) \in RowsOf(T, n)
      /\ \A v \in RowsOf(T, n) \ {Best(T, n)} : Newer(T, Best(T, n), v)
  BY BestIsNewest
<1>2. \A v \in RowsOf(T, n) : T[v].completed \in 0 .. MaxClock
  BY DEF RowsOf, IsTable, Row
<1> DEFINE b == Best(T, n)
<1> HIDE DEF b
<1>3. b \in RowsOf(T, n) /\ \A v \in RowsOf(T, n) \ {b} : Newer(T, b, v)
  BY <1>1 DEF b
<1>4. T[b].completed >= T[u].completed
  <2>1. CASE u = b
    BY <1>2, <1>3, <2>1
  <2>2. CASE u # b
    BY <1>2, <1>3, <2>2, BoundsAssumption DEF Newer
  <2> QED
    BY <2>1, <2>2
<1> QED
  BY <1>3, <1>4 DEF b

(* Neither statement that deletes replaced rows deletes the newest, and    *)
(* what they leave unused is as new as any.                                *)
LEMMA DroppedRows ==
  ASSUME NEW T, IsTable(T), NEW n
  PROVE  /\ Dropped(T, n) \subseteq RowsOf(T, n)
         /\ Best(T, n) \notin Dropped(T, n)
         /\ \A u \in RowsOf(T, n) \ Dropped(T, n) :
              Unused(T, u) =>
                \A v \in RowsOf(T, n) : T[v].completed <= T[u].completed
<1>1. \A v \in RowsOf(T, n) : T[v].completed \in 0 .. MaxClock
  BY DEF RowsOf, IsTable, Row
<1>2. Dropped(T, n) \subseteq RowsOf(T, n) /\ Best(T, n) \notin Dropped(T, n)
  BY DEF Dropped, SameCounts
<1>3. ASSUME NEW u \in RowsOf(T, n) \ Dropped(T, n), Unused(T, u),
             NEW v \in RowsOf(T, n)
      PROVE  T[v].completed <= T[u].completed
  <2>1. T[u].completed = T[Best(T, n)].completed
    BY <1>3 DEF Dropped, SameCounts
  <2>2. T[Best(T, n)].completed >= T[v].completed
    BY BestIsLatest
  <2> QED
    BY <1>1, <2>1, <2>2
<1> QED
  BY <1>2, <1>3

LEMMA PrunedRows ==
  ASSUME NEW T, IsTable(T)
  PROVE  \A n \in Names :
           /\ Best(T, n) \notin AllOutOfDate(T) \/ RowsOf(T, n) = {}
           /\ \A u \in RowsOf(T, n) \ AllOutOfDate(T) :
                Unused(T, u) => u = Best(T, n)
<1> SUFFICES ASSUME NEW n \in Names
             PROVE  /\ Best(T, n) \notin AllOutOfDate(T) \/ RowsOf(T, n) = {}
                    /\ \A u \in RowsOf(T, n) \ AllOutOfDate(T) :
                         Unused(T, u) => u = Best(T, n)
  OBVIOUS
<1>1. ASSUME RowsOf(T, n) # {}
      PROVE  Best(T, n) \notin AllOutOfDate(T)
  <2>1. T[Best(T, n)].name = n
    BY <1>1, BestIsNewest DEF RowsOf
  <2>2. \A m \in Names : Best(T, n) \in OutOfDate(T, m) => m = n
    BY <2>1 DEF OutOfDate, RowsOf
  <2>3. Best(T, n) \notin OutOfDate(T, n)
    BY DEF OutOfDate
  <2> QED
    BY <2>2, <2>3 DEF AllOutOfDate
<1>2. \A u \in RowsOf(T, n) \ AllOutOfDate(T) : Unused(T, u) => u = Best(T, n)
  BY DEF AllOutOfDate, OutOfDate
<1> QED
  BY <1>1, <1>2

LEMMA PruneDrops ==
  ASSUME TypeOK, PruneCommit
  PROVE  /\ DOMAIN rows' = DOMAIN rows \ AllOutOfDate(rows)
         /\ \A u \in DOMAIN rows \ AllOutOfDate(rows) : rows'[u] = rows[u]
<1>1. rows' = Without(rows, AllOutOfDate(rows))
  BY DEF PruneCommit
<1>2. IsTable(rows)
  BY TypedTable
<1> QED
  BY <1>1, <1>2, WithoutTable

-----------------------------------------------------------------------------
(* The steps of the store, told apart by what they do to the table. *)

(* Completed rows stay, and a row is new or has as many consumers.         *)
Keeps ==
  /\ \A u \in DOMAIN rows :
       rows[u].completed # 0 =>
         /\ u \in DOMAIN rows'
         /\ rows'[u].name = rows[u].name
         /\ rows'[u].completed = rows[u].completed
  /\ \A u \in DOMAIN rows' :
       \/ rows'[u].completed = 0
       \/ /\ u \in DOMAIN rows
          /\ rows'[u].name = rows[u].name
          /\ rows'[u].completed = rows[u].completed
          /\ rows'[u].consumers >= rows[u].consumers

(* The rows of n change as the view T of a transaction says, and those     *)
(* that T has replaced are dropped.                                        *)
Settles(T, n) ==
  /\ IsTable(T) /\ DOMAIN T = DOMAIN rows
  /\ \A u \in DOMAIN rows :
       /\ T[u].name = rows[u].name
       /\ T[u].name # n => T[u] = rows[u]
       /\ rows[u].completed # 0 => T[u].completed >= rows[u].completed
  /\ DOMAIN rows' = DOMAIN T \ Dropped(T, n)
  /\ \A u \in DOMAIN rows' : rows'[u] = T[u]

LEMMA UnchangedKeeps ==
  ASSUME TypeOK, UNCHANGED rows
  PROVE  Keeps
<1>1. \A u \in DOMAIN rows : rows[u].consumers \in Nat
  BY TypedTable DEF IsTable, Row
<1> QED
  BY <1>1 DEF Keeps

LEMMA BeginKeeps ==
  ASSUME TypeOK, StampsOK, NEW s \in Sessions, Begin(s)
  PROVE  Keeps
<1>1. clock \in Nat /\ \A u \in DOMAIN rows : u \in Nat /\ u <= clock
  BY DEF TypeOK, StampsOK, Stamps
<1>2. \A u \in DOMAIN rows : rows[u].consumers \in Nat
  BY TypedTable DEF IsTable, Row
<1>3. CASE /\ DOMAIN rows' = DOMAIN rows
           /\ \A u \in DOMAIN rows :
                /\ rows'[u].name = rows[u].name
                /\ rows'[u].completed = rows[u].completed
                /\ rows'[u].consumers >= rows[u].consumers
  BY <1>3 DEF Keeps
<1>4. CASE /\ clock' = clock + 1 /\ DOMAIN rows' = DOMAIN rows \cup {clock'}
           /\ \A u \in DOMAIN rows : u # clock' => rows'[u] = rows[u]
           /\ rows'[clock'].completed = 0
  <2>1. \A u \in DOMAIN rows : rows'[u] = rows[u]
    BY <1>1, <1>4
  <2> QED
    BY <1>2, <1>4, <2>1 DEF Keeps
<1>5. BeginKeepsRows(s)
  BY BeginRows
<1>6. CASE \E n \in Names :
             /\ clock' = clock + 1 /\ DOMAIN rows' = DOMAIN rows \cup {clock'}
             /\ \A u \in DOMAIN rows : u # clock' => rows'[u] = rows[u]
             /\ rows'[clock'] = [name |-> n, completed |-> 0, consumers |-> 0]
  BY <1>4, <1>6
<1> QED
  BY <1>3, <1>5, <1>6 DEF BeginKeepsRows

LEMMA ReleaseSettles ==
  ASSUME TypeOK, NEW s \in Sessions, ReleaseCommit(s)
  PROVE  Settles(ReleaseView(s), path[s][1])
<1> DEFINE T == ReleaseView(s)
           n == path[s][1]
<1>1. rows' = Without(T, Dropped(T, n))
  BY DEF ReleaseCommit
<1>2. /\ IsTable(T) /\ DOMAIN T = DOMAIN rows
      /\ \A u \in DOMAIN rows :
           /\ T[u].name = rows[u].name
           /\ T[u].completed = rows[u].completed
           /\ path[s] # <<rows[u].name, u>> => T[u] = rows[u]
  BY TypedTable, UnconsumedTable DEF ReleaseView
<1>3. \A u \in DOMAIN rows : rows[u].name # n => path[s] # <<rows[u].name, u>>
  OBVIOUS
<1>4. \A u \in DOMAIN rows : rows[u].completed \in Int
  BY TypedTable DEF IsTable, Row
<1> HIDE DEF T, n
<1>5. IsTable(T)
  BY <1>2
<1>6. /\ DOMAIN rows' = DOMAIN T \ Dropped(T, n)
      /\ \A u \in DOMAIN T \ Dropped(T, n) : rows'[u] = T[u]
  BY <1>1, <1>5, WithoutTable
<1>7. Settles(T, n)
  BY <1>2, <1>3, <1>4, <1>6 DEF Settles
<1> QED
  BY <1>7 DEF T, n

LEMMA OverwriteSettles ==
  ASSUME TypeOK, UploadsOK, NEW s \in Sessions, OverwriteCommit(s)
  PROVE  Settles(OverwriteView(s), path[s][1])
<1> DEFINE T == OverwriteView(s)
           n == path[s][1]
<1>1. rows' = Without(T, Dropped(T, n)) /\ pc[s] \in Uploading
  BY DEF OverwriteCommit, Uploading
<1>2. /\ IsTable(T) /\ DOMAIN T = DOMAIN rows
      /\ \A u \in DOMAIN rows :
           /\ T[u].name = rows[u].name
           /\ path[s] # <<rows[u].name, u>> => T[u] = rows[u]
  <2>1. stamp[s] \in 0 .. MaxClock
    BY DEF TypeOK
  <2> QED
    BY <2>1, TypedTable, CompletedTable DEF OverwriteView
<1>3. \A u \in DOMAIN rows :
        path[s] = <<rows[u].name, u>> =>
          rows[u].name = n /\ rows[u].completed = 0
  <2>1. path[s][2] \in DOMAIN rows /\ rows[path[s][2]].completed = 0
    BY <1>1, UploadPath
  <2> QED
    BY <2>1
<1>4. \A u \in DOMAIN rows : rows[u].completed \in Int
  BY TypedTable DEF IsTable, Row
<1> HIDE DEF T, n
<1>5. IsTable(T)
  BY <1>2
<1>6. /\ DOMAIN rows' = DOMAIN T \ Dropped(T, n)
      /\ \A u \in DOMAIN T \ Dropped(T, n) : rows'[u] = T[u]
  BY <1>1, <1>5, WithoutTable
<1>7. Settles(T, n)
  BY <1>2, <1>3, <1>4, <1>6 DEF Settles
<1> QED
  BY <1>7 DEF T, n

LEMMA UploadFailsKeeps ==
  ASSUME TypeOK, UploadsOK, NEW s \in Sessions, UploadFails(s)
  PROVE  Keeps
<1> DEFINE U == {u \in DOMAIN rows : IsRow(rows, u, path[s])}
<1>1. rows' = Without(rows, U) /\ pc[s] \in Uploading
  BY DEF UploadFails, Uploading
<1>2. path[s][2] \in DOMAIN rows /\ rows[path[s][2]].completed = 0
  BY <1>1, UploadPath
<1>3. \A u \in U : rows[u].completed = 0
  BY <1>2 DEF IsRow
<1>4. \A u \in DOMAIN rows : rows[u].consumers \in Nat
  BY TypedTable DEF IsTable, Row
<1> HIDE DEF U
<1>5. /\ DOMAIN rows' = DOMAIN rows \ U
      /\ \A u \in DOMAIN rows \ U : rows'[u] = rows[u]
  BY <1>1, TypedTable, WithoutTable
<1> QED
  BY <1>3, <1>4, <1>5 DEF Keeps

(* A session keeps the table, or settles the name it works on.             *)
LEMMA ProceedTable ==
  ASSUME TypeOK, UploadsOK, NEW s \in Sessions, Proceed(s)
  PROVE  Keeps \/ \E T, n : Settles(T, n)
<1>1. CASE UNCHANGED rows
  BY <1>1, UnchangedKeeps
<1>2. CASE UploadFails(s)
  BY <1>2, UploadFailsKeeps
<1>3. CASE ReleaseCommit(s)
  BY <1>3, ReleaseSettles
<1>4. CASE OverwriteCommit(s)
  BY <1>4, OverwriteSettles
<1> QED
  BY <1>1, <1>2, <1>3, <1>4
     DEF Proceed, OpenReserved, OpenFails, ReleaseBegin, ReleaseFails,
         CreateFile, CreateFails, FinishUpload, UploadUnrecorded,
         OverwriteBegin, OverwriteFails, Rollback, DeleteFile

-----------------------------------------------------------------------------
(* Replaced versions that nobody uses. *)

LEMMA KeepsNoneReplaced ==
  ASSUME TypeOK, NoUnusedOutOfDate, Keeps, phase' = phase
  PROVE  NoUnusedOutOfDate'
<1>1. \A u \in DOMAIN rows :
        rows[u].completed \in Nat /\ rows[u].consumers \in Nat
  BY TypedTable, BoundsAssumption DEF IsTable, Row
<1> SUFFICES ASSUME phase \in {"running", "accepted", "stopping"},
                    NEW u \in DOMAIN rows', NEW v \in DOMAIN rows',
                    rows'[u].name = rows'[v].name,
                    rows'[v].completed > rows'[u].completed,
                    rows'[u].completed # 0, rows'[u].consumers = 0
             PROVE  FALSE
  BY DEF NoUnusedOutOfDate, Unused
<1>2. /\ u \in DOMAIN rows /\ rows'[u].name = rows[u].name
      /\ rows'[u].completed = rows[u].completed /\ rows[u].consumers = 0
  BY <1>1 DEF Keeps
<1>3. /\ v \in DOMAIN rows /\ rows'[v].name = rows[v].name
      /\ rows'[v].completed = rows[v].completed
  <2>1. rows'[v].completed # 0
    BY <1>1, <1>2
  <2> QED
    BY <2>1 DEF Keeps
<1> QED
  BY <1>2, <1>3 DEF NoUnusedOutOfDate, Unused

LEMMA SettlesNoneReplaced ==
  ASSUME TypeOK, NoUnusedOutOfDate, NEW T, NEW n, Settles(T, n), phase' = phase
  PROVE  NoUnusedOutOfDate'
<1> SUFFICES ASSUME phase \in {"running", "accepted", "stopping"},
                    NEW u \in DOMAIN rows', NEW v \in DOMAIN rows',
                    rows'[u].name = rows'[v].name,
                    rows'[v].completed > rows'[u].completed,
                    Unused(rows', u)
             PROVE  FALSE
  BY DEF NoUnusedOutOfDate
<1>1. /\ IsTable(T)
      /\ u \in DOMAIN T \ Dropped(T, n) /\ rows'[u] = T[u]
      /\ v \in DOMAIN T \ Dropped(T, n) /\ rows'[v] = T[v]
  BY DEF Settles
<1>2. T[u].completed \in Nat /\ T[v].completed \in Nat
  BY <1>1, BoundsAssumption DEF IsTable, Row
<1>3. CASE T[u].name = n
  <2>1. u \in RowsOf(T, n) \ Dropped(T, n) /\ v \in RowsOf(T, n) /\ Unused(T, u)
    BY <1>1, <1>3 DEF RowsOf, Unused
  <2>2. T[v].completed <= T[u].completed
    BY <1>1, <2>1, DroppedRows
  <2> QED
    BY <1>1, <1>2, <2>2
<1>4. CASE T[u].name # n
  <2>1. /\ u \in DOMAIN rows /\ T[u] = rows[u]
        /\ v \in DOMAIN rows /\ T[v] = rows[v]
    BY <1>1, <1>4 DEF Settles
  <2> QED
    BY <1>1, <2>1 DEF NoUnusedOutOfDate, Unused
<1> QED
  BY <1>3, <1>4

LEMMA PruneNoneReplaced ==
  ASSUME TypeOK, PruneCommit
  PROVE  NoUnusedOutOfDate'
<1> DEFINE U == AllOutOfDate(rows)
<1>1. /\ DOMAIN rows' = DOMAIN rows \ U
      /\ \A u \in DOMAIN rows \ U : rows'[u] = rows[u]
  BY PruneDrops
<1> SUFFICES ASSUME NEW u \in DOMAIN rows', NEW v \in DOMAIN rows',
                    rows'[u].name = rows'[v].name,
                    rows'[v].completed > rows'[u].completed,
                    Unused(rows', u)
             PROVE  FALSE
  BY DEF NoUnusedOutOfDate
<1> DEFINE n == rows[u].name
<1>2. /\ n \in Names /\ rows[u].completed \in Nat /\ rows[v].completed \in Nat
      /\ rows'[u] = rows[u] /\ rows'[v] = rows[v]
      /\ u \in RowsOf(rows, n) \ U /\ v \in RowsOf(rows, n) /\ Unused(rows, u)
  BY <1>1, TypedTable, BoundsAssumption DEF IsTable, Row, RowsOf, Unused
<1> HIDE DEF n
<1>3. u = Best(rows, n)
  BY <1>2, TypedTable, PrunedRows
<1>4. rows[u].completed >= rows[v].completed
  BY <1>2, <1>3, TypedTable, BestIsLatest
<1> QED
  BY <1>2, <1>4

LEMMA NoneReplacedStep ==
  ASSUME TypeOK, PhasesOK, StampsOK, UploadsOK, NoUnusedOutOfDate, Next
  PROVE  NoUnusedOutOfDate'
<1>1. ASSUME NEW s \in Sessions, Begin(s)
      PROVE  NoUnusedOutOfDate'
  <2>1. phase' = phase
    BY <1>1, BeginFrame DEF SessionFrame
  <2> QED
    BY <1>1, <2>1, BeginKeeps, KeepsNoneReplaced
<1>2. ASSUME NEW s \in Sessions, Proceed(s)
      PROVE  NoUnusedOutOfDate'
  <2>1. phase' = phase
    BY <1>2, ProceedFrame DEF SessionFrame
  <2> QED
    BY <1>2, <2>1, ProceedTable, KeepsNoneReplaced, SettlesNoneReplaced
<1>3. CASE DatabaseStep
  <2>1. CASE UNCHANGED <<rows, phase>>
    BY <2>1, UnchangedKeeps, KeepsNoneReplaced
  <2>2. CASE ClearCommit
    BY <2>2 DEF ClearCommit, PhasesOK, NoUnusedOutOfDate
  <2>3. CASE PruneCommit
    BY <2>3, PruneNoneReplaced
  <2> QED
    BY <1>3, <2>1, <2>2, <2>3
       DEF DatabaseStep, DeleteFile, PruneSelect, PruneBusy, PruneFails,
           LeftOpenExpires
<1>4. CASE Boot \/ Exit \/ Crash
  BY <1>4 DEF Boot, Exit, Crash, ProcessEnds, NoUnusedOutOfDate
<1>5. CASE Stop \/ Cancel
  BY <1>5 DEF Stop, Cancel, NoUnusedOutOfDate, Unused
<1> QED
  BY <1>1, <1>2, <1>3, <1>4, <1>5 DEF Next

(* While the daemon serves, no committed state of the table holds a        *)
(* completed version that a newer one replaced and that no download uses:  *)
(* Release and OverwriteSuccess delete it in the transaction that makes it *)
(* so, and DatabaseInit what an earlier process left.                      *)
THEOREM ReplacedVersionsGo == Spec => []NoUnusedOutOfDate
<1>1. Init => NoUnusedOutOfDate
  BY DEF Init, NoUnusedOutOfDate
<1>2. StoreInv /\ NoUnusedOutOfDate /\ [Next]_vars => NoUnusedOutOfDate'
  <2> SUFFICES ASSUME StoreInv, NoUnusedOutOfDate, [Next]_vars
               PROVE  NoUnusedOutOfDate'
    OBVIOUS
  <2>1. CASE Next
    BY <2>1, NoneReplacedStep DEF StoreInv
  <2>2. CASE UNCHANGED vars
    BY <2>2 DEF vars, NoUnusedOutOfDate, Unused
  <2> QED
    BY <2>1, <2>2
<1> QED
  BY <1>1, <1>2, StoreInvariant, PTL DEF Spec

-----------------------------------------------------------------------------
(* The newest completed version. *)

LatestKept ==
  \A u \in DOMAIN rows :
    rows[u].completed # 0 =>
      \E v \in DOMAIN rows' :
        /\ rows'[v].name = rows[u].name
        /\ rows'[v].completed >= rows[u].completed

LEMMA CompletedStay ==
  ASSUME TypeOK,
         \A u \in DOMAIN rows :
           rows[u].completed # 0 =>
             /\ u \in DOMAIN rows'
             /\ rows'[u].name = rows[u].name
             /\ rows'[u].completed = rows[u].completed
  PROVE  LatestKept
<1>1. \A u \in DOMAIN rows : rows[u].completed \in Nat
  BY TypedTable, BoundsAssumption DEF IsTable, Row
<1> QED
  BY <1>1 DEF LatestKept

LEMMA SettlesLatest ==
  ASSUME TypeOK, NEW T, NEW n, Settles(T, n)
  PROVE  LatestKept
<1> SUFFICES ASSUME NEW u \in DOMAIN rows, rows[u].completed # 0
             PROVE  \E v \in DOMAIN rows' :
                      /\ rows'[v].name = rows[u].name
                      /\ rows'[v].completed >= rows[u].completed
  BY DEF LatestKept
<1>1. /\ IsTable(T) /\ u \in DOMAIN T /\ T[u].name = rows[u].name
      /\ T[u].completed >= rows[u].completed
      /\ DOMAIN rows' = DOMAIN T \ Dropped(T, n)
      /\ \A v \in DOMAIN rows' : rows'[v] = T[v]
  BY DEF Settles
<1>2. CASE u \notin Dropped(T, n)
  BY <1>1, <1>2
<1>3. CASE u \in Dropped(T, n)
  <2> DEFINE b == Best(T, n)
  <2>1. u \in RowsOf(T, n)
    BY <1>1, <1>3, DroppedRows
  <2>2. b \in RowsOf(T, n) /\ T[b].completed >= T[u].completed
    BY <1>1, <2>1, BestIsLatest
  <2>3. b \in DOMAIN T \ Dropped(T, n) /\ T[b].name = rows[u].name
    BY <1>1, <2>1, <2>2, DroppedRows DEF RowsOf
  <2> HIDE DEF b
  <2>4. /\ T[b].completed \in Nat /\ T[u].completed \in Nat
        /\ rows[u].completed \in Nat
    BY <1>1, <2>3, TypedTable, BoundsAssumption DEF IsTable, Row
  <2>5. b \in DOMAIN rows' /\ rows'[b] = T[b]
    BY <1>1, <2>3
  <2>6. rows'[b].completed >= rows[u].completed
    BY <1>1, <2>2, <2>4, <2>5 DEF b
  <2> QED
    BY <2>3, <2>5, <2>6
<1> QED
  BY <1>2, <1>3

LEMMA PruneLatest ==
  ASSUME TypeOK, PruneCommit
  PROVE  LatestKept
<1> DEFINE U == AllOutOfDate(rows)
<1>1. /\ DOMAIN rows' = DOMAIN rows \ U
      /\ \A u \in DOMAIN rows \ U : rows'[u] = rows[u]
  BY PruneDrops
<1> SUFFICES ASSUME NEW u \in DOMAIN rows, rows[u].completed # 0
             PROVE  \E v \in DOMAIN rows' :
                      /\ rows'[v].name = rows[u].name
                      /\ rows'[v].completed >= rows[u].completed
  BY DEF LatestKept
<1> DEFINE n == rows[u].name
           b == Best(rows, n)
<1>2. n \in Names /\ u \in RowsOf(rows, n)
  BY TypedTable DEF IsTable, Row, RowsOf
<1>3. b \in RowsOf(rows, n) /\ rows[b].completed >= rows[u].completed
  BY <1>2, TypedTable, BestIsLatest
<1>4. b \notin U
  BY <1>2, TypedTable, PrunedRows
<1> QED
  BY <1>1, <1>3, <1>4 DEF RowsOf

LEMMA LatestStep ==
  ASSUME TypeOK, PhasesOK, StampsOK, UploadsOK, Next
  PROVE  LatestKept
<1>1. ASSUME Keeps
      PROVE  LatestKept
  BY <1>1, CompletedStay DEF Keeps
<1>2. ASSUME NEW s \in Sessions, Begin(s) \/ Proceed(s)
      PROVE  LatestKept
  BY <1>1, <1>2, BeginKeeps, ProceedTable, SettlesLatest
<1>3. CASE UNCHANGED rows
  BY <1>1, <1>3, UnchangedKeeps
<1>4. CASE ClearCommit
  BY <1>4, TypedTable, CompletedStay DEF ClearCommit, IsTable, Row
<1>5. CASE PruneCommit
  BY <1>5, PruneLatest
<1> QED
  BY <1>2, <1>3, <1>4, <1>5
     DEF Next, DatabaseStep, DeleteFile, PruneSelect, PruneBusy, PruneFails,
         LeftOpenExpires, Boot, Stop, Cancel, Exit, Crash, ProcessEnds

(* No step, whatever failed, was cut short or restarted before it, takes a *)
(* completed upload away unless a version of the same file that completed  *)
(* at least as late stays: clean-ups never delete the newest.              *)
THEOREM LatestStays == Spec => LatestNeverRegresses
<1>1. StoreInv /\ [Next]_vars =>
        [\A u \in DOMAIN rows :
           rows[u].completed # 0 =>
             \E v \in DOMAIN rows' :
               /\ rows'[v].name = rows[u].name
               /\ rows'[v].completed >= rows[u].completed]_vars
  <2> SUFFICES ASSUME StoreInv, Next
               PROVE  LatestKept
    BY DEF LatestKept
  <2> QED
    BY LatestStep DEF StoreInv
<1> QED
  BY <1>1, StoreInvariant, PTL DEF Spec, LatestNeverRegresses

-----------------------------------------------------------------------------
(* The table a start leaves. *)

(* Between the two transactions of DatabaseInit every row is unused.       *)
ClearedUnused ==
  phase = "starting" /\ pc[DB] \in {"cleared", "pruning"} =>
    \A u \in DOMAIN rows : Unused(rows, u)

LEMMA ClearedStep ==
  ASSUME TypeOK, PhasesOK, ClearedUnused, Next
  PROVE  ClearedUnused'
<1>1. DB \in Workers /\ DB \notin Sessions
  BY SessionsAssumption DEF Workers
<1>2. ASSUME NEW s \in Sessions, Begin(s) \/ Proceed(s)
      PROVE  ClearedUnused'
  <2>1. phase' = phase
    BY <1>2, BeginFrame, ProceedFrame DEF SessionFrame
  <2>2. CASE phase = "starting"
    <3>1. pc[s] = "idle" /\ ~CtxAlive
      BY <2>2 DEF PhasesOK, CtxAlive
    <3> QED
      BY <1>2, <3>1
         DEF Begin, Reserve, Prepare, CanTransact, Proceed, OpenReserved, OpenFails,
             ReleaseBegin, ReleaseFails, ReleaseCommit, CreateFile, CreateFails,
             FinishUpload, UploadFails, UploadUnrecorded, OverwriteBegin,
             OverwriteCommit, OverwriteFails, Rollback, DeleteFile
  <2> QED
    BY <2>1, <2>2 DEF ClearedUnused
<1>3. ASSUME NEW lock, NEW l, NEW P, DatabaseTx(lock, l, P)
      PROVE  pc'[DB] = l
  BY <1>1, <1>3 DEF TypeOK, DatabaseTx, Goto
<1>4. CASE ClearCommit
  <2>1. \A u \in DOMAIN rows' : rows'[u].completed # 0 /\ rows'[u].consumers = 0
    BY <1>4, TypedTable DEF ClearCommit, IsTable, Row
  <2> QED
    BY <2>1 DEF ClearedUnused, Unused
<1>5. CASE PruneSelect
  <2>1. UNCHANGED <<rows, phase>> /\ (phase = "starting" => pc[DB] = "cleared")
    BY <1>5 DEF PruneSelect
  <2> QED
    BY <2>1 DEF ClearedUnused, Unused
<1>6. CASE PruneCommit \/ PruneBusy \/ PruneFails \/ LeftOpenExpires \/ Boot
  <2>1. pc'[DB] \notin {"cleared", "pruning"}
    BY <1>3, <1>6 DEF PruneCommit, PruneBusy, PruneFails, LeftOpenExpires, Boot
  <2> QED
    BY <2>1 DEF ClearedUnused
<1>7. CASE DeleteFile(DB)
  BY <1>7 DEF DeleteFile, ClearedUnused, Unused
<1>8. CASE Stop \/ Cancel \/ Exit \/ Crash
  BY <1>8 DEF Stop, Cancel, Exit, Crash, ProcessEnds, ClearedUnused
<1> QED
  BY <1>2, <1>4, <1>5, <1>6, <1>7, <1>8 DEF Next, DatabaseStep

LEMMA StartStep ==
  ASSUME TypeOK, PhasesOK, ClearedUnused, Next,
         phase = "starting", phase' = "running"
  PROVE  \A u \in DOMAIN rows' :
           /\ rows'[u].completed # 0
           /\ rows'[u].consumers = 0
           /\ \A v \in DOMAIN rows' : rows'[v].name = rows'[u].name => u = v
<1>1. PruneCommit
  <2>1. ASSUME NEW s \in Sessions, Begin(s) \/ Proceed(s)
        PROVE  FALSE
    BY <2>1, BeginFrame, ProceedFrame DEF SessionFrame
  <2> QED
    BY <2>1
       DEF Next, DatabaseStep, DeleteFile, ClearCommit, PruneSelect, PruneBusy,
           PruneFails, LeftOpenExpires, Boot, Stop, Cancel, Exit, Crash, ProcessEnds
<1>2. \A u \in DOMAIN rows : Unused(rows, u)
  BY <1>1 DEF PruneCommit, ClearedUnused
<1> DEFINE U == AllOutOfDate(rows)
<1>3. /\ DOMAIN rows' = DOMAIN rows \ U
      /\ \A u \in DOMAIN rows \ U : rows'[u] = rows[u]
  BY <1>1, PruneDrops
<1>4. \A u \in DOMAIN rows \ U : u = Best(rows, rows[u].name)
  <2>1. \A u \in DOMAIN rows : rows[u].name \in Names /\ u \in RowsOf(rows, rows[u].name)
    BY TypedTable DEF IsTable, Row, RowsOf
  <2> QED
    BY <1>2, <2>1, TypedTable, PrunedRows
<1> HIDE DEF U
<1>5. \A u \in DOMAIN rows' :
        /\ rows'[u] = rows[u] /\ Unused(rows, u) /\ u = Best(rows, rows[u].name)
  BY <1>2, <1>3, <1>4
<1> QED
  BY <1>5 DEF Unused

(* A start makes the table clean, whatever the process before it left in   *)
(* it: the next download finds one completed version of each name, and no  *)
(* consumer of a session that is gone keeps a version alive.               *)
THEOREM StartCleans == Spec => StartsClean
<1>1. Init => ClearedUnused
  BY DEF Init, ClearedUnused
<1>2. StoreInv /\ ClearedUnused /\ [Next]_vars => ClearedUnused'
  <2> SUFFICES ASSUME StoreInv, ClearedUnused, [Next]_vars
               PROVE  ClearedUnused'
    OBVIOUS
  <2>1. CASE UNCHANGED vars
    BY <2>1 DEF vars, ClearedUnused, Unused
  <2> QED
    BY <2>1, ClearedStep DEF StoreInv
<1>3. StoreInv /\ ClearedUnused /\ [Next]_vars =>
        [phase = "starting" /\ phase' = "running" =>
           \A u \in DOMAIN rows' :
             /\ rows'[u].completed # 0
             /\ rows'[u].consumers = 0
             /\ \A v \in DOMAIN rows' : rows'[v].name = rows'[u].name => u = v]_vars
  <2> SUFFICES ASSUME StoreInv, ClearedUnused, Next,
                      phase = "starting", phase' = "running"
               PROVE  \A u \in DOMAIN rows' :
                        /\ rows'[u].completed # 0
                        /\ rows'[u].consumers = 0
                        /\ \A v \in DOMAIN rows' :
                             rows'[v].name = rows'[u].name => u = v
    OBVIOUS
  <2> QED
    BY StartStep DEF StoreInv
<1> QED
  BY <1>1, <1>2, <1>3, StoreInvariant, PTL DEF Spec, StartsClean

-----------------------------------------------------------------------------
(* The store as a library: complete versions on a shelf, some of them lent.*)

Entry(T, u) == [name |-> T[u].name, began |-> u, completed |-> T[u].completed]
Complete(T) == {u \in DOMAIN T : T[u].completed # 0}
OnShelf(T)  == {Entry(T, u) : u \in Complete(T)}

LEMMA ShelfIs == Shelf = OnShelf(rows) /\ Shelf' = OnShelf(rows')
BY DEF Shelf, OnShelf, Entry, Complete

LEMMA LentIs ==
  /\ DOMAIN Lent = Sessions /\ DOMAIN Lent' = Sessions
  /\ Lent = [s \in Sessions |-> Lent[s]] /\ Lent' = [s \in Sessions |-> Lent'[s]]
  /\ \A s \in Sessions :
       /\ Lent[s] = IF pc[s] \in Reading THEN path[s] ELSE NoPath
       /\ Lent'[s] = IF pc'[s] \in Reading THEN path'[s] ELSE NoPath
BY DEF Lent, Reading

LEMMA VersionIsPath ==
  ASSUME NEW p \in Versions
  PROVE  p # NoPath
<1>1. PICK a \in Names, b \in Stamps : p = <<a, b>>
  BY DEF Versions
<1>2. Len(<<a, b>>) = 2 /\ Len(<<>>) = 0
  OBVIOUS
<1> QED
  BY <1>1, <1>2 DEF NoPath

(* Who keeps its side and its path keeps what it was lent.                 *)
LEMMA SameLent ==
  ASSUME \A s \in Sessions :
           \/ pc'[s] \notin Reading /\ pc[s] \notin Reading
           \/ pc'[s] \in Reading /\ pc[s] \in Reading /\ path'[s] = path[s]
  PROVE  Lent' = Lent
<1>1. \A s \in Sessions : Lent'[s] = Lent[s]
  BY LentIs
<1> QED
  BY <1>1, LentIs, Zenon

(* The completed rows are the same as before.                              *)
SameComplete ==
  /\ \A u \in DOMAIN rows :
       rows[u].completed # 0 =>
         /\ u \in DOMAIN rows'
         /\ rows'[u].name = rows[u].name
         /\ rows'[u].completed = rows[u].completed
  /\ \A u \in DOMAIN rows' :
       rows'[u].completed # 0 =>
         /\ u \in DOMAIN rows
         /\ rows'[u].name = rows[u].name
         /\ rows'[u].completed = rows[u].completed

LEMMA SameShelf ==
  ASSUME SameComplete
  PROVE  Shelf' = Shelf
<1>1. Complete(rows') = Complete(rows)
  BY DEF SameComplete, Complete
<1>2. \A u \in Complete(rows) : Entry(rows', u) = Entry(rows, u)
  BY DEF SameComplete, Complete, Entry
<1>3. OnShelf(rows') = OnShelf(rows)
  BY <1>1, <1>2 DEF OnShelf
<1> QED
  BY <1>3, ShelfIs

(* The rows of U are taken out of T: what was complete among them was      *)
(* replaced, and is lent to nobody.                                        *)
LEMMA LibrarySettles ==
  ASSUME NEW T, IsTable(T), NEW U,
         DOMAIN rows' = DOMAIN T \ U, \A u \in DOMAIN rows' : rows'[u] = T[u],
         \A u \in U \cap Complete(T) :
           /\ \E w \in DOMAIN T \ U :
                T[w].name = T[u].name /\ T[w].completed >= T[u].completed
           /\ \A r \in Sessions : Lent'[r] # <<T[u].name, u>>
  PROVE  Library!Settles(OnShelf(T))
<1>1. \A u \in DOMAIN T : T[u].completed \in Nat
  BY BoundsAssumption DEF IsTable, Row
<1>2. /\ \A u \in DOMAIN rows' : Entry(rows', u) = Entry(T, u)
      /\ Complete(rows') = Complete(T) \ U
  BY DEF Entry, Complete
<1>3. Shelf' \subseteq OnShelf(T)
  BY <1>2, ShelfIs DEF OnShelf, Complete
<1>4. ASSUME NEW v \in OnShelf(T) \ Shelf'
      PROVE  /\ \E w \in Shelf' : w.name = v.name /\ w.completed >= v.completed
             /\ \A r \in Sessions : Lent'[r] # Library!Path(v)
  <2>1. PICK u \in Complete(T) : v = Entry(T, u)
    BY DEF OnShelf
  <2>2. u \in U
    <3>1. SUFFICES ASSUME u \notin U
                   PROVE  v \in Shelf'
      OBVIOUS
    <3>2. u \in Complete(rows') /\ v = Entry(rows', u)
      BY <1>2, <2>1, <3>1 DEF Complete
    <3> QED
      BY <3>2, ShelfIs DEF OnShelf
  <2>3. PICK w \in DOMAIN T \ U :
          T[w].name = T[u].name /\ T[w].completed >= T[u].completed
    BY <2>1, <2>2
  <2>4. w \in Complete(rows') /\ Entry(rows', w) = Entry(T, w)
    BY <1>1, <1>2, <2>1, <2>3 DEF Complete
  <2>5. Entry(T, w) \in Shelf'
    BY <2>4, ShelfIs DEF OnShelf
  <2>6. /\ v.name = T[u].name /\ v.completed = T[u].completed /\ v.began = u
        /\ Entry(T, w).name = T[w].name /\ Entry(T, w).completed = T[w].completed
    BY <2>1 DEF Entry
  <2>7. \A r \in Sessions : Lent'[r] # <<T[u].name, u>>
    BY <2>1, <2>2
  <2> QED
    BY <2>3, <2>5, <2>6, <2>7 DEF Library!Path
<1> QED
  BY <1>3, <1>4 DEF Library!Settles

(* What a download has been given counts as used; if another has it too,   *)
(* it counts twice.                                                        *)
LEMMA LentCounted ==
  ASSUME TypeOK, ConsumersCover, NEW r \in Sessions, pc[r] \in Reading,
         NEW u \in DOMAIN rows, path[r] = <<rows[u].name, u>>
  PROVE  /\ rows[u].consumers >= 1
         /\ \A s \in Sessions \ {r} :
              pc[s] \in Reading /\ path[s] = path[r] => rows[u].consumers >= 2
<1> DEFINE D == Downloading(path[r])
<1>1. r \in D /\ Cardinality(D) \in Nat /\ Cardinality(D) >= 1
  <2>1. r \in D
    BY DEF Downloading, Reading
  <2> QED
    BY <2>1, OneDownload, DownloadingFinite
<1>2. Cardinality(D) <= rows[u].consumers /\ rows[u].consumers \in Nat
  BY DEF ConsumersCover, TypeOK, Row
<1>3. ASSUME NEW s \in Sessions \ {r}, pc[s] \in Reading, path[s] = path[r]
      PROVE  Cardinality(D) >= 2
  <2>1. s \in D
    BY <1>3 DEF Downloading, Reading
  <2> QED
    BY <1>1, <2>1, TwoDownloads
<1> HIDE DEF D
<1> QED
  BY <1>1, <1>2, <1>3

(* The newest row of n stays when Release or OverwriteSuccess drop others. *)
LEMMA DroppedReplaced ==
  ASSUME NEW T, IsTable(T), NEW n, NEW u \in Dropped(T, n)
  PROVE  \E w \in DOMAIN T \ Dropped(T, n) :
           T[w].name = T[u].name /\ T[w].completed >= T[u].completed
<1>1. u \in RowsOf(T, n)
  BY DroppedRows
<1>2. /\ Best(T, n) \in RowsOf(T, n) /\ Best(T, n) \notin Dropped(T, n)
      /\ T[Best(T, n)].completed >= T[u].completed
  BY <1>1, BestIsLatest, DroppedRows
<1> QED
  BY <1>1, <1>2 DEF RowsOf
(* A step that the clients of the store do not see.                        *)
Unseen == UNCHANGED <<Shelf, Lent>>

LEMMA ReserveLends ==
  ASSUME TypeOK, NEW s \in Sessions, NEW n \in Names, Reserve(s, n)
  PROVE  Library!Lend(s)
<1> DEFINE b == Best(rows, n)
<1>1. /\ IsTable(rows) /\ s \in Workers /\ RowsOf(rows, n) # {}
      /\ pc[s] = "idle" /\ pc'[s] = "reserved"
      /\ path'[s] = <<n, b>> /\ rows' = Consumed(rows, n)
  BY TypedTable DEF Workers, Reserve, Goto, TypeOK
<1>2. b \in RowsOf(rows, n)
  BY <1>1, BestIsNewest
<1>3. <<n, b>> \in Versions
  BY <1>1, <1>2 DEF IsTable, RowsOf, Versions
<1>4. Lent[s] = NoPath /\ Lent'[s] = <<n, b>> /\ <<n, b>> # NoPath
  BY <1>1, <1>3, LentIs, VersionIsPath DEF Reading
<1>5. \A q \in Sessions \ {s} : Lent'[q] = Lent[q]
  <2>1. \A q \in Sessions \ {s} : pc'[q] = pc[q] /\ path'[q] = path[q]
    BY DEF Reserve, Goto, TypeOK, Workers
  <2> QED
    BY <2>1, LentIs
<1>6. Shelf' = Shelf
  <2>1. SameComplete
    BY <1>1, ConsumedTable DEF SameComplete
  <2> QED
    BY <2>1, SameShelf
<1>7. ASSUME NEW w \in Shelf, w.name = n
      PROVE  /\ Entry(rows, b) \in Shelf /\ Entry(rows, b).name = n
             /\ Library!Path(Entry(rows, b)) = <<n, b>>
             /\ w.completed <= Entry(rows, b).completed
  <2>1. PICK u \in Complete(rows) : w = Entry(rows, u)
    BY ShelfIs DEF OnShelf
  <2>2. u \in RowsOf(rows, n) /\ rows[u].completed # 0 /\ w.completed = rows[u].completed
    BY <1>7, <2>1 DEF Entry, Complete, RowsOf
  <2>3. rows[b].completed >= rows[u].completed
    BY <1>1, <2>2, BestIsLatest
  <2>4. b \in Complete(rows) /\ rows[b].name = n
    BY <1>1, <1>2, <2>2, <2>3, BoundsAssumption DEF IsTable, Row, RowsOf, Complete
  <2> HIDE DEF b
  <2>5. /\ Entry(rows, b) \in OnShelf(rows) /\ Entry(rows, b).name = n
        /\ Entry(rows, b).completed = rows[b].completed /\ Entry(rows, b).began = b
    BY <2>4 DEF Entry, OnShelf
  <2>6. rows[b].completed \in Int /\ rows[u].completed \in Int
    BY <1>1, <2>2, <2>4, BoundsAssumption DEF IsTable, Row, RowsOf, Complete
  <2> QED
    BY <2>2, <2>3, <2>5, <2>6, ShelfIs DEF Library!Path
<1> HIDE DEF b
<1>8. Lent'[s][1] = n
  BY <1>4
<1>9. {v \in Shelf : v.name = n} # {} =>
        \E v \in {x \in Shelf : x.name = n} :
          /\ Lent'[s] = Library!Path(v)
          /\ \A w \in {x \in Shelf : x.name = n} : w.completed <= v.completed
  BY <1>4, <1>7
<1> QED
  BY <1>4, <1>5, <1>6, <1>8, <1>9 DEF Library!Lend, Library!Nothing, NoPath

LEMMA PrepareUnseen ==
  ASSUME TypeOK, StampsOK, NEW s \in Sessions, NEW n \in Names, Prepare(s, n)
  PROVE  Unseen
<1>1. Begin(s)
  BY DEF Begin
<1>2. SameComplete
  BY <1>1, BeginKeeps DEF Keeps, SameComplete
<1>3. /\ pc[s] = "idle" /\ pc'[s] = "prepared"
      /\ \A q \in Sessions \ {s} : pc'[q] = pc[q] /\ path'[q] = path[q]
  BY DEF Prepare, Goto, TypeOK, Workers
<1>4. Lent' = Lent
  BY <1>3, SameLent DEF Reading
<1> QED
  BY <1>2, <1>4, SameShelf DEF Unseen

(* A download that ends gives back what it was lent.                       *)
LEMMA LeaveReturns ==
  ASSUME TypeOK, NEW s \in Sessions, Leave(s), pc[s] \in Reading,
         Library!Settles(Shelf)
  PROVE  Library!Return(s)
<1>1. pc[s] # "idle" /\ path[s] \in Versions
  BY DEF TypeOK, Reading
<1>2. /\ pc'[s] = "idle"
      /\ \A q \in Sessions \ {s} : pc'[q] = pc[q] /\ path'[q] = path[q]
  BY LeaveFrame DEF Workers
<1>3. Lent[s] = path[s] /\ Lent[s] # NoPath /\ Lent'[s] = NoPath
  BY <1>1, <1>2, LentIs, VersionIsPath DEF Reading
<1>4. \A q \in Sessions \ {s} : Lent'[q] = Lent[q]
  BY <1>2, LentIs
<1>5. Lent' = [Lent EXCEPT ![s] = NoPath]
  <2>1. \A q \in Sessions : Lent'[q] = IF q = s THEN NoPath ELSE Lent[q]
    BY <1>3, <1>4
  <2> QED
    BY <2>1, LentIs
<1> QED
  BY <1>3, <1>5 DEF Library!Return, Library!Nothing, NoPath

(* An upload that ends has nothing to give back.                           *)
LEMMA LeaveLends ==
  ASSUME TypeOK, NEW s \in Sessions, Leave(s), pc[s] \notin Reading
  PROVE  Lent' = Lent
<1>1. /\ pc'[s] = "idle"
      /\ \A q \in Sessions \ {s} : pc'[q] = pc[q] /\ path'[q] = path[q]
  BY LeaveFrame DEF Workers
<1> QED
  BY <1>1, SameLent DEF Reading

LEMMA SameSettles ==
  ASSUME UNCHANGED Shelf
  PROVE  Library!Settles(Shelf)
BY DEF Library!Settles

LEMMA ReleaseReturns ==
  ASSUME TypeOK, ConsumersCover, NEW s \in Sessions, ReleaseCommit(s)
  PROVE  Library!Return(s)
<1> DEFINE T == ReleaseView(s)
           n == path[s][1]
           U == Dropped(T, n)
<1>1. Settles(T, n) /\ Leave(s) /\ pc[s] \in Reading
  BY ReleaseSettles DEF ReleaseCommit, Reading
<1>2. /\ IsTable(T) /\ DOMAIN T = DOMAIN rows
      /\ \A u \in DOMAIN rows :
           /\ T[u].name = rows[u].name
           /\ T[u].completed = rows[u].completed
           /\ path[s] # <<rows[u].name, u>> => T[u] = rows[u]
           /\ T[u].consumers >= rows[u].consumers - 1
  BY TypedTable, UnconsumedTable DEF ReleaseView
<1>3. \A u \in U : u \in DOMAIN rows /\ T[u].consumers = 0
  BY <1>2, DroppedRows DEF Dropped, Unused, RowsOf
<1>4. \A u \in DOMAIN rows : rows[u].consumers \in Nat
  BY TypedTable DEF IsTable, Row
<1> HIDE DEF T
<1>5. ASSUME NEW u \in U, NEW r \in Sessions
      PROVE  Lent'[r] # <<T[u].name, u>>
  <2>1. u \in DOMAIN rows /\ T[u].name = rows[u].name
    BY <1>2, <1>3
  <2>2. <<rows[u].name, u>> \in Versions
    BY <2>1, TypedTable DEF IsTable, Row, Versions
  <2>3. CASE pc'[r] \notin Reading
    BY <2>1, <2>2, <2>3, LentIs, VersionIsPath
  <2>4. CASE pc'[r] \in Reading
    <3>1. r # s /\ pc[r] \in Reading /\ path'[r] = path[r]
      BY <1>1, <2>4, LeaveFrame DEF Reading, Workers
    <3>2. SUFFICES ASSUME path[r] = <<rows[u].name, u>>
                   PROVE  FALSE
      BY <2>1, <2>4, <3>1, LentIs
    <3>3. rows[u].consumers >= 1
      BY <2>1, <3>1, <3>2, LentCounted
    <3>4. path[s] = path[r] => rows[u].consumers >= 2
      BY <1>1, <2>1, <3>1, <3>2, LentCounted
    <3> QED
      BY <1>2, <1>3, <1>4, <2>1, <3>2, <3>3, <3>4
  <2> QED
    BY <2>3, <2>4
<1>6. Library!Settles(OnShelf(T))
  BY <1>1, <1>2, <1>5, DroppedReplaced, LibrarySettles DEF Settles
<1>7. OnShelf(T) = Shelf
  <2>1. Complete(T) = Complete(rows)
    BY <1>2 DEF Complete
  <2>2. \A u \in Complete(rows) : Entry(T, u) = Entry(rows, u)
    BY <1>2 DEF Complete, Entry
  <2>3. OnShelf(T) = OnShelf(rows)
    BY <2>1, <2>2 DEF OnShelf
  <2> QED
    BY <2>3, ShelfIs
<1> QED
  BY <1>1, <1>6, <1>7, LeaveReturns
(* What a transaction of OverwriteSuccess or deleteOutOfDateGlobally drops,*)
(* which nobody uses, nobody has been lent.                                *)
LEMMA UnusedUnlent ==
  ASSUME TypeOK, ConsumersCover, Lent' = Lent,
         NEW u \in DOMAIN rows, rows[u].consumers = 0, NEW r \in Sessions
  PROVE  Lent'[r] # <<rows[u].name, u>>
<1>1. <<rows[u].name, u>> \in Versions
  BY TypedTable DEF IsTable, Row, Versions
<1>2. CASE pc[r] \notin Reading
  BY <1>1, <1>2, LentIs, VersionIsPath
<1>3. CASE pc[r] \in Reading
  <2>1. Lent[r] = path[r]
    BY <1>3, LentIs
  <2>2. path[r] = <<rows[u].name, u>> => rows[u].consumers >= 1
    BY <1>3, LentCounted
  <2> QED
    BY <2>1, <2>2
<1> QED
  BY <1>2, <1>3

LEMMA OverwritePublishes ==
  ASSUME TypeOK, UploadsOK, ConsumersCover,
         NEW s \in Sessions, OverwriteCommit(s)
  PROVE  Library!Publish \/ Library!Tidy
<1> DEFINE T == OverwriteView(s)
           n == path[s][1]
           x == path[s][2]
           U == Dropped(T, n)
<1>1. /\ Settles(T, n) /\ Leave(s)
      /\ pc[s] \in Uploading /\ pc[s] \notin Reading
  BY OverwriteSettles DEF OverwriteCommit, Uploading, Reading
<1>2. Lent' = Lent
  BY <1>1, LeaveLends
<1>3. /\ x \in DOMAIN rows /\ path[s] = <<rows[x].name, x>>
      /\ rows[x].completed = 0
  BY <1>1, UploadPath
<1>4. /\ IsTable(T) /\ DOMAIN T = DOMAIN rows
      /\ \A u \in DOMAIN rows :
           /\ T[u].name = rows[u].name
           /\ T[u].consumers = rows[u].consumers
           /\ path[s] # <<rows[u].name, u>> => T[u] = rows[u]
  <2>1. stamp[s] \in 0 .. MaxClock
    BY DEF TypeOK
  <2> QED
    BY <2>1, TypedTable, CompletedTable DEF OverwriteView
<1> HIDE DEF T
<1>5. \A u \in DOMAIN rows : u # x => T[u] = rows[u]
  BY <1>3, <1>4
<1>6. \A u \in U : u \in DOMAIN rows /\ rows[u].consumers = 0
  BY <1>4, DroppedRows DEF Dropped, Unused, RowsOf
<1>7. \A u \in U, r \in Sessions : Lent'[r] # <<T[u].name, u>>
  BY <1>2, <1>4, <1>6, UnusedUnlent
<1>8. Library!Settles(OnShelf(T))
  BY <1>1, <1>4, <1>7, DroppedReplaced, LibrarySettles DEF Settles
<1> HIDE DEF x
<1>9. Complete(rows) = Complete(T) \ {x}
  <2>1. x \notin Complete(rows)
    BY <1>3 DEF Complete
  <2>2. \A u \in DOMAIN rows \ {x} : u \in Complete(T) <=> u \in Complete(rows)
    BY <1>4, <1>5 DEF Complete
  <2>3. Complete(T) \subseteq DOMAIN rows /\ Complete(rows) \subseteq DOMAIN rows
    BY <1>4 DEF Complete
  <2> QED
    BY <2>1, <2>2, <2>3
<1>10. \A u \in Complete(rows) : Entry(T, u) = Entry(rows, u)
  <2>1. \A u \in Complete(rows) : u \in DOMAIN rows /\ u # x
    BY <1>9 DEF Complete
  <2> QED
    BY <1>5, <2>1 DEF Entry
<1>11. x \notin Complete(T) => OnShelf(T) = Shelf
  BY <1>9, <1>10, ShelfIs DEF OnShelf
<1>12. x \in Complete(T) => OnShelf(T) = Shelf \cup {Entry(T, x)}
  BY <1>9, <1>10, ShelfIs DEF OnShelf
<1>13. CASE x \notin Complete(T)
  BY <1>2, <1>8, <1>11, <1>13 DEF Library!Tidy
<1>14. CASE x \in Complete(T) /\ Entry(T, x) \in Shelf'
  <2>1. \A w \in Shelf : Library!Path(w) # Library!Path(Entry(T, x))
    <3>1. \A w \in Shelf : w.began # x
      BY <1>9, ShelfIs DEF OnShelf, Entry
    <3>2. Entry(T, x).began = x
      BY DEF Entry
    <3> QED
      BY <3>1, <3>2 DEF Library!Path
  <2> QED
    BY <1>2, <1>8, <1>12, <1>14, <2>1 DEF Library!Publish
<1>15. CASE x \in Complete(T) /\ Entry(T, x) \notin Shelf'
  <2>1. Library!Settles(Shelf)
    BY <1>8, <1>12, <1>15 DEF Library!Settles
  <2> QED
    BY <1>2, <2>1 DEF Library!Tidy
<1> QED
  BY <1>13, <1>14, <1>15

LEMMA PruneTidies ==
  ASSUME TypeOK, ConsumersCover, PruneCommit
  PROVE  Library!Tidy
<1> DEFINE U == AllOutOfDate(rows)
<1>1. Lent' = Lent
  <2>1. DatabaseStep
    BY DEF DatabaseStep
  <2> QED
    BY <2>1, DatabaseFrame, SameLent
<1>2. /\ DOMAIN rows' = DOMAIN rows \ U
      /\ \A u \in DOMAIN rows \ U : rows'[u] = rows[u]
  BY PruneDrops
<1>3. \A u \in U : u \in DOMAIN rows /\ rows[u].consumers = 0
  BY DEF AllOutOfDate, OutOfDate, RowsOf, Unused
<1>4. ASSUME NEW u \in U
      PROVE  \E w \in DOMAIN rows \ U :
               rows[w].name = rows[u].name /\ rows[w].completed >= rows[u].completed
  <2> DEFINE n == rows[u].name
  <2>1. n \in Names /\ u \in RowsOf(rows, n)
    BY <1>3, <1>4, TypedTable DEF IsTable, Row, RowsOf
  <2>2. /\ Best(rows, n) \in RowsOf(rows, n) /\ Best(rows, n) \notin U
        /\ rows[Best(rows, n)].completed >= rows[u].completed
    BY <2>1, TypedTable, BestIsLatest, PrunedRows
  <2> QED
    BY <2>2 DEF RowsOf
<1>5. \A u \in U, r \in Sessions : Lent'[r] # <<rows[u].name, u>>
  BY <1>1, <1>3, UnusedUnlent
<1>6. Library!Settles(OnShelf(rows))
  BY <1>2, <1>4, <1>5, TypedTable, LibrarySettles
<1> QED
  BY <1>1, <1>6, ShelfIs DEF Library!Tidy

LEMMA SessionLibrary ==
  ASSUME TypeOK, StampsOK, UploadsOK, ConsumersCover,
         NEW s \in Sessions, Begin(s) \/ Proceed(s)
  PROVE  Library!Next \/ Unseen
<1>1. ASSUME NEW n \in Names, Reserve(s, n) \/ Prepare(s, n)
      PROVE  Library!Next \/ Unseen
  BY <1>1, ReserveLends, PrepareUnseen DEF Library!Next
<1>2. CASE Proceed(s) /\ pc'[s] # "idle"
  <2>1. /\ UNCHANGED <<rows, path>>
        /\ pc'[s] \in Reading <=> pc[s] \in Reading
        /\ \A q \in Sessions \ {s} : pc'[q] = pc[q]
    BY <1>2, ProceedSide, ProceedFrame DEF ProceedKeepsSide, SessionFrame, Workers
  <2>2. Lent' = Lent
    BY <2>1, SameLent
  <2>3. SameComplete
    BY <2>1 DEF SameComplete
  <2> QED
    BY <2>2, <2>3, SameShelf DEF Unseen
<1>3. CASE Proceed(s) /\ pc'[s] = "idle"
  <2>1. CASE ReleaseCommit(s)
    BY <2>1, ReleaseReturns DEF Library!Next
  <2>2. CASE OverwriteCommit(s)
    BY <2>2, OverwritePublishes DEF Library!Next
  <2>3. CASE UploadFails(s)
    <3>1. Leave(s) /\ pc[s] \notin Reading
      BY <2>3 DEF UploadFails, Reading
    <3>2. SameComplete
      BY <2>3, UploadFailsKeeps DEF Keeps, SameComplete
    <3> QED
      BY <3>1, <3>2, LeaveLends, SameShelf DEF Unseen
  <2>4. CASE \/ OpenFails(s) \/ ReleaseFails(s) \/ CreateFails(s)
             \/ UploadUnrecorded(s) \/ OverwriteFails(s) \/ Rollback(s)
    <3>1. Leave(s) /\ rows' = rows
      BY <2>4, Zenon
         DEF OpenFails, ReleaseFails, CreateFails, UploadUnrecorded,
             OverwriteFails, Rollback
    <3>2. Shelf' = Shelf
      BY <3>1, ShelfIs
    <3>3. CASE pc[s] \in Reading
      BY <3>1, <3>2, <3>3, SameSettles, LeaveReturns DEF Library!Next
    <3>4. CASE pc[s] \notin Reading
      BY <3>1, <3>2, <3>4, LeaveLends DEF Unseen
    <3> QED
      BY <3>3, <3>4
  <2>5. CASE \/ OpenReserved(s) \/ ReleaseBegin(s) \/ CreateFile(s)
             \/ FinishUpload(s) \/ OverwriteBegin(s) \/ DeleteFile(s)
    <3>1. pc'[s] = "idle" /\ pc[s] \in SessionPcs /\ s \in Workers
      BY <1>3 DEF TypeOK, Workers
    <3>2. DeleteFile(s)
      BY <2>5, <3>1
         DEF OpenReserved, ReleaseBegin, CreateFile, FinishUpload,
             OverwriteBegin, Goto, TypeOK
    <3>3. UNCHANGED <<rows, pc, path>>
      BY <3>2 DEF DeleteFile
    <3>4. Lent' = Lent
      BY <3>3, SameLent
    <3> QED
      BY <3>3, <3>4, ShelfIs DEF Unseen
  <2> QED
    BY <1>3, <2>1, <2>2, <2>3, <2>4, <2>5 DEF Proceed
<1> QED
  BY <1>1, <1>2, <1>3 DEF Begin

LEMMA StoreLibrary ==
  ASSUME StoreInv, [Next]_vars
  PROVE  [Library!Next]_<<Shelf, Lent>>
<1> SUFFICES Library!Next \/ Unseen
  BY DEF Unseen
<1>1. /\ TypeOK /\ StampsOK /\ UploadsOK /\ ConsumersCover
  BY DEF StoreInv
<1>2. ASSUME NEW s \in Sessions, Begin(s) \/ Proceed(s)
      PROVE  Library!Next \/ Unseen
  BY <1>1, <1>2, SessionLibrary
<1>3. CASE DatabaseStep \/ Boot
  <2>1. Lent' = Lent
    BY <1>1, <1>3, DatabaseFrame, SameLent
  <2>2. CASE PruneCommit
    BY <1>1, <2>2, PruneTidies DEF Library!Next
  <2>3. CASE ClearCommit
    <3>1. SameComplete
      BY <1>1, <2>3, TypedTable DEF ClearCommit, SameComplete, IsTable, Row
    <3> QED
      BY <2>1, <3>1, SameShelf DEF Unseen
  <2>4. CASE rows' = rows
    BY <2>1, <2>4, ShelfIs DEF Unseen
  <2> QED
    BY <1>3, <2>2, <2>3, <2>4
       DEF DatabaseStep, DeleteFile, PruneSelect, PruneBusy, PruneFails,
           LeftOpenExpires, Boot
<1>4. CASE Stop \/ Cancel \/ UNCHANGED vars
  <2>1. UNCHANGED <<rows, pc, path>>
    BY <1>4 DEF Stop, Cancel, vars
  <2>2. Lent' = Lent
    BY <2>1, SameLent
  <2> QED
    BY <2>1, <2>2, ShelfIs DEF Unseen
<1>5. CASE Exit \/ Crash
  <2>1. rows' = rows /\ \A s \in Sessions : pc'[s] = "idle"
    BY <1>5, ProcessEndsFrame DEF Exit, Crash
  <2>2. Lent' = [s \in Sessions |-> NoPath]
    BY <2>1, LentIs DEF Reading
  <2> QED
    BY <2>1, <2>2, ShelfIs DEF Library!Next, Library!Restart, Library!Nothing, NoPath
<1> QED
  BY <1>2, <1>3, <1>4, <1>5 DEF Next

LEMMA StoreOpensLibrary == Init => Library!Init
<1> SUFFICES ASSUME Init
             PROVE  Library!Init
  OBVIOUS
<1>1. DOMAIN rows = {} /\ \A s \in Sessions : pc[s] = "idle"
  BY SessionsAssumption DEF Init, Workers
<1>2. Shelf = {}
  BY <1>1 DEF Shelf
<1>3. Lent = [s \in Sessions |-> NoPath]
  BY <1>1, LentIs DEF Reading
<1> QED
  BY <1>2, <1>3 DEF Library!Init, Library!Nothing, NoPath

(* The table, the locks, the counts and the clean-ups together are the     *)
(* library that clients are promised: Reserve lends the newest complete    *)
(* version, what is lent stays until it is given back, and no release,     *)
(* upload, clean-up, failure or restart takes a version off the shelf that *)
(* no newer one of its name replaces.                                      *)
THEOREM StoreIsLibrary == Spec => LibrarySpec
<1>1. Init => Library!Init
  BY StoreOpensLibrary
<1>2. StoreInv /\ [Next]_vars => [Library!Next]_<<Shelf, Lent>>
  BY StoreLibrary
<1> QED
  BY <1>1, <1>2, StoreInvariant, PTL DEF Spec, LibrarySpec, Library!Spec
=============================================================================
