---------------------- MODULE VersionStoreSafetyProofs ----------------------
(***************************************************************************)
(* No clean-up takes a file away from the session that uses it: the        *)
(* inductive invariant StoreInv and the safety properties it implies.      *)
(***************************************************************************)
EXTENDS VersionStoreProofs

-----------------------------------------------------------------------------
(* What a step leaves alone. *)

SessionFrame(s) ==
  /\ phase' = phase
  /\ \A w \in Workers \ {s} :
       pc'[w] = pc[w] /\ tx'[w] = tx[w] /\ doomed'[w] = doomed[w]
  /\ \A r \in Sessions \ {s} : path'[r] = path[r]

LEMMA LeaveFrame ==
  ASSUME TypeOK, NEW s \in Sessions, Leave(s)
  PROVE  /\ pc'[s] = "idle" /\ tx'[s] = "none" /\ doomed'[s] = {}
         /\ \A w \in Workers \ {s} :
              pc'[w] = pc[w] /\ tx'[w] = tx[w] /\ doomed'[w] = doomed[w]
         /\ \A r \in Sessions \ {s} : path'[r] = path[r]
BY DEF TypeOK, Leave, Workers

LEMMA BeginFrame ==
  ASSUME TypeOK, NEW s \in Sessions, Begin(s)
  PROVE  SessionFrame(s) /\ UNCHANGED <<disk, tx, doomed>>
BY DEF TypeOK, Begin, Reserve, Prepare, Goto, SessionFrame, Workers

LEMMA ProceedFrame ==
  ASSUME TypeOK, NEW s \in Sessions, Proceed(s)
  PROVE  SessionFrame(s)
<1>1. s \in Workers
  BY DEF Workers
<1>2. CASE \/ OpenFails(s) \/ ReleaseFails(s) \/ ReleaseCommit(s)
           \/ CreateFails(s) \/ UploadFails(s) \/ UploadUnrecorded(s)
           \/ OverwriteCommit(s) \/ OverwriteFails(s) \/ Rollback(s)
  <2>1. Leave(s) /\ phase' = phase
    BY <1>2, Zenon
       DEF OpenFails, ReleaseFails, ReleaseCommit, CreateFails, UploadFails,
           UploadUnrecorded, OverwriteCommit, OverwriteFails, Rollback
  <2> QED
    BY <2>1, LeaveFrame DEF SessionFrame
<1>3. CASE OpenReserved(s) \/ CreateFile(s) \/ FinishUpload(s)
  BY <1>1, <1>3
     DEF TypeOK, OpenReserved, CreateFile, FinishUpload, Goto, SessionFrame
<1>4. CASE ReleaseBegin(s) \/ OverwriteBegin(s)
  BY <1>1, <1>4 DEF TypeOK, ReleaseBegin, OverwriteBegin, Goto, SessionFrame
<1>5. CASE DeleteFile(s)
  BY <1>1, <1>5 DEF TypeOK, DeleteFile, SessionFrame
<1> QED
  BY <1>2, <1>3, <1>4, <1>5 DEF Proceed

LEMMA DatabaseFrame ==
  ASSUME TypeOK, DatabaseStep \/ Boot
  PROVE  /\ UNCHANGED path
         /\ \A s \in Sessions :
              pc'[s] = pc[s] /\ tx'[s] = tx[s] /\ doomed'[s] = doomed[s]
<1>1. DB \notin Sessions /\ Sessions \subseteq Workers
  BY SessionsAssumption DEF Workers
<1>2. CASE DeleteFile(DB)
  BY <1>1, <1>2 DEF TypeOK, DeleteFile
<1>3. ASSUME NEW lock, NEW l, NEW P, DatabaseTx(lock, l, P)
      PROVE  \A s \in Sessions :
               pc'[s] = pc[s] /\ tx'[s] = tx[s] /\ doomed'[s] = doomed[s]
  BY <1>1, <1>3 DEF TypeOK, DatabaseTx, Goto
<1>4. CASE ClearCommit \/ PruneSelect \/ PruneBusy \/ PruneFails \/ LeftOpenExpires
  BY <1>3, <1>4
     DEF ClearCommit, PruneSelect, PruneBusy, PruneFails, LeftOpenExpires
<1>5. CASE PruneCommit \/ Boot
  BY <1>3, <1>5 DEF PruneCommit, Boot
<1> QED
  BY <1>2, <1>4, <1>5 DEF DatabaseStep

LEMMA ProcessEndsFrame ==
  ASSUME ProcessEnds
  PROVE  /\ \A s \in Sessions : pc'[s] = "idle" /\ tx'[s] = "none"
         /\ \A w \in Workers : doomed'[w] = {}
         /\ pc'[DB] = "off" /\ tx'[DB] = "none"
         /\ UNCHANGED <<rows, disk, clock>>
BY SessionsAssumption DEF ProcessEnds, Workers

-----------------------------------------------------------------------------
(* The phases of the process. *)

LEMMA PhasesStep ==
  ASSUME TypeOK, PhasesOK, Next
  PROVE  PhasesOK'
<1>1. DB \in Workers /\ DB \notin Sessions /\ Sessions \subseteq Workers
  BY SessionsAssumption DEF Workers
<1>2. ASSUME NEW s \in Sessions, Begin(s) \/ Proceed(s)
      PROVE  PhasesOK'
  <2>1. SessionFrame(s)
    BY <1>2, BeginFrame, ProceedFrame
  <2>2. CASE phase \in {"running", "accepted", "stopping"}
    BY <1>1, <2>1, <2>2 DEF SessionFrame, PhasesOK
  <2>3. CASE phase \in {"down", "starting"}
    <3>1. pc[s] = "idle" /\ ~CtxAlive
      BY <2>3 DEF PhasesOK, CtxAlive
    <3>2. FALSE
      BY <1>2, <3>1
         DEF Begin, Reserve, Prepare, CanTransact, Proceed, OpenReserved,
             OpenFails, ReleaseBegin, ReleaseFails, ReleaseCommit, CreateFile,
             CreateFails, FinishUpload, UploadFails, UploadUnrecorded,
             OverwriteBegin, OverwriteCommit, OverwriteFails, Rollback,
             DeleteFile
    <3> QED
      BY <3>2
  <2> QED
    BY <2>2, <2>3 DEF TypeOK
<1>3. CASE DatabaseStep
  <2>1. \A s \in Sessions : pc'[s] = pc[s]
    BY <1>3, DatabaseFrame
  <2>2. CASE DeleteFile(DB)
    BY <2>2 DEF DeleteFile, PhasesOK
  <2>3. CASE ClearCommit
    BY <1>1, <2>1, <2>3 DEF ClearCommit, DatabaseTx, Goto, PhasesOK, TypeOK
  <2>4. CASE PruneSelect \/ PruneBusy \/ PruneFails \/ LeftOpenExpires
    BY <1>1, <2>1, <2>4
       DEF PruneSelect, PruneBusy, PruneFails, LeftOpenExpires, DatabaseTx,
           Goto, PhasesOK, TypeOK
  <2>5. CASE PruneCommit
    BY <1>1, <2>1, <2>5 DEF PruneCommit, DatabaseTx, Goto, PhasesOK, TypeOK
  <2> QED
    BY <1>3, <2>2, <2>3, <2>4, <2>5 DEF DatabaseStep
<1>4. CASE Boot
  BY <1>4, DatabaseFrame DEF Boot, PhasesOK
<1>5. CASE Stop \/ Cancel
  BY <1>5 DEF Stop, Cancel, PhasesOK
<1>6. CASE Exit \/ Crash
  BY <1>6, ProcessEndsFrame DEF Exit, Crash, PhasesOK
<1> QED
  BY <1>2, <1>3, <1>4, <1>5, <1>6 DEF Next

-----------------------------------------------------------------------------
(* The locks. *)

LEMMA LocksStep ==
  ASSUME TypeOK, LocksOK, Next
  PROVE  LocksOK'
<1>1. DB \in Workers /\ DB \notin Sessions /\ Sessions \subseteq Workers
  BY SessionsAssumption DEF Workers
<1>2. ASSUME NEW s \in Sessions, SessionFrame(s),
             pc'[s] \notin {"releasing", "overwriting"},
             tx'[s] = "none", doomed'[s] = {}
      PROVE  LocksOK'
  BY <1>1, <1>2 DEF SessionFrame, LocksOK
<1>3. ASSUME NEW s \in Sessions, Leave(s), SessionFrame(s)
      PROVE  LocksOK'
  BY <1>2, <1>3, LeaveFrame
<1>4. ASSUME NEW s \in Sessions, Begin(s)
      PROVE  LocksOK'
  <2>1. /\ SessionFrame(s) /\ UNCHANGED <<tx, doomed>>
        /\ pc[s] = "idle" /\ pc'[s] \in {"reserved", "prepared"}
    BY <1>1, <1>4, BeginFrame DEF Begin, Reserve, Prepare, Goto, TypeOK
  <2>2. tx[s] = "none" /\ doomed[s] = {}
    BY <2>1 DEF LocksOK
  <2> QED
    BY <1>2, <2>1, <2>2
<1>5. ASSUME NEW s \in Sessions, Proceed(s)
      PROVE  LocksOK'
  <2>1. SessionFrame(s)
    BY <1>5, ProceedFrame
  <2>2. CASE \/ OpenFails(s) \/ ReleaseFails(s) \/ ReleaseCommit(s)
             \/ CreateFails(s) \/ UploadFails(s) \/ UploadUnrecorded(s)
             \/ OverwriteCommit(s) \/ OverwriteFails(s) \/ Rollback(s)
    <3>1. Leave(s)
      BY <2>2, Zenon
         DEF OpenFails, ReleaseFails, ReleaseCommit, CreateFails, UploadFails,
             UploadUnrecorded, OverwriteCommit, OverwriteFails, Rollback
    <3> QED
      BY <1>3, <2>1, <3>1
  <2>3. CASE OpenReserved(s) \/ CreateFile(s) \/ FinishUpload(s)
    <3>1. /\ pc[s] \in {"reserved", "prepared", "writing"}
          /\ pc'[s] \in {"reading", "writing", "uploaded"}
          /\ UNCHANGED <<tx, doomed>>
      BY <1>1, <2>3 DEF OpenReserved, CreateFile, FinishUpload, Goto, TypeOK
    <3>2. tx[s] = "none" /\ doomed[s] = {}
      BY <3>1 DEF LocksOK
    <3> QED
      BY <1>2, <2>1, <3>1, <3>2
  <2>4. CASE ReleaseBegin(s) \/ OverwriteBegin(s)
    <3>1. /\ pc'[s] \in {"releasing", "overwriting"} /\ tx'[s] = "reserved"
          /\ \A r \in Sessions \ {s} : tx[r] # "reserved"
      BY <1>1, <2>4 DEF ReleaseBegin, OverwriteBegin, Goto, TypeOK, CanWrite
    <3> QED
      BY <1>1, <2>1, <3>1 DEF SessionFrame, LocksOK
  <2>5. CASE DeleteFile(s)
    <3>1. UNCHANGED <<pc, tx>> /\ \A w \in Workers : doomed'[w] \subseteq doomed[w]
      BY <2>5 DEF DeleteFile, TypeOK
    <3> QED
      BY <1>1, <3>1 DEF LocksOK
  <2> QED
    BY <1>5, <2>2, <2>3, <2>4, <2>5 DEF Proceed
<1>6. CASE DatabaseStep
  <2>1. \A s \in Sessions :
          pc'[s] = pc[s] /\ tx'[s] = tx[s] /\ doomed'[s] = doomed[s]
    BY <1>6, DatabaseFrame
  <2>2. ASSUME NEW lock \in {"none", "shared"}, NEW l, NEW P,
               DatabaseTx(lock, l, P),
               l \in {"clearing", "pruning"} => lock = "shared",
               P # {} => l \in {"clearing", "pruning"}
        PROVE  LocksOK'
    BY <1>1, <2>1, <2>2 DEF DatabaseTx, Goto, LocksOK, TypeOK
  <2>3. CASE DeleteFile(DB)
    <3>1. UNCHANGED <<pc, tx>> /\ \A w \in Workers : doomed'[w] \subseteq doomed[w]
      BY <2>3 DEF DeleteFile, TypeOK
    <3> QED
      BY <1>1, <3>1 DEF LocksOK
  <2>4. CASE ClearCommit \/ PruneSelect \/ PruneBusy \/ PruneFails \/ LeftOpenExpires
    BY <2>2, <2>4
       DEF ClearCommit, PruneSelect, PruneBusy, PruneFails, LeftOpenExpires
  <2>5. CASE PruneCommit
    BY <2>2, <2>5 DEF PruneCommit
  <2> QED
    BY <1>6, <2>3, <2>4, <2>5 DEF DatabaseStep
<1>7. CASE Boot
  BY <1>1, <1>7, DatabaseFrame DEF Boot, DatabaseTx, Goto, LocksOK, TypeOK
<1>8. CASE Stop \/ Cancel
  BY <1>8 DEF Stop, Cancel, LocksOK
<1>9. CASE Exit \/ Crash
  BY <1>1, <1>9, ProcessEndsFrame DEF Exit, Crash, LocksOK
<1> QED
  BY <1>4, <1>5, <1>6, <1>7, <1>8, <1>9 DEF Next
-----------------------------------------------------------------------------
(* What a step does to the rows of the others. *)

LEMMA TypedTable ==
  ASSUME TypeOK
  PROVE  IsTable(rows)
BY DEF TypeOK, IsTable

(* A session deletes no unfinished row but its own, and takes no consumer  *)
(* from a row but its own, when it is done with it.                        *)
ProceedKeepsRows(s) ==
  /\ DOMAIN rows' \subseteq DOMAIN rows
  /\ \A u \in DOMAIN rows :
       /\ rows[u].completed = 0
       /\ pc[s] \in Uploading => path[s] # <<rows[u].name, u>>
       => /\ u \in DOMAIN rows'
          /\ rows'[u].completed = 0
  /\ \A u \in DOMAIN rows' :
       /\ rows'[u].name = rows[u].name
       /\ \/ rows'[u].consumers >= rows[u].consumers
          \/ /\ rows'[u].consumers >= rows[u].consumers - 1
             /\ path[s] = <<rows[u].name, u>>
             /\ pc[s] = "releasing" /\ pc'[s] = "idle"

LEMMA ProceedRows ==
  ASSUME TypeOK, NEW s \in Sessions, Proceed(s)
  PROVE  ProceedKeepsRows(s)
<1>1. IsTable(rows) /\ \A u \in DOMAIN rows : rows[u].consumers \in Nat
  BY TypedTable DEF IsTable, Row
<1>2. CASE UNCHANGED rows
  BY <1>1, <1>2 DEF ProceedKeepsRows
<1>3. CASE UploadFails(s)
  <2> DEFINE U == {u \in DOMAIN rows : IsRow(rows, u, path[s])}
  <2>1. rows' = Without(rows, U) /\ pc[s] \in Uploading
    BY <1>3 DEF UploadFails, Uploading
  <2>2. \A u \in U : path[s] = <<rows[u].name, u>>
    BY DEF IsRow
  <2> HIDE DEF U
  <2>3. /\ DOMAIN rows' = DOMAIN rows \ U
        /\ \A u \in DOMAIN rows \ U : rows'[u] = rows[u]
    BY <1>1, <2>1, WithoutTable
  <2> QED
    BY <1>1, <2>1, <2>2, <2>3 DEF ProceedKeepsRows
<1>4. CASE ReleaseCommit(s)
  <2> DEFINE T == ReleaseView(s)
             U == Dropped(T, path[s][1])
  <2>1. rows' = Without(T, U) /\ pc[s] = "releasing" /\ pc'[s] = "idle"
    BY <1>4, LeaveFrame DEF ReleaseCommit
  <2>2. /\ IsTable(T) /\ DOMAIN T = DOMAIN rows
        /\ \A u \in DOMAIN rows :
             /\ T[u].name = rows[u].name
             /\ T[u].completed = rows[u].completed
             /\ path[s] # <<rows[u].name, u>> => T[u] = rows[u]
             /\ T[u].consumers >= rows[u].consumers - 1
    BY <1>1, UnconsumedTable DEF ReleaseView
  <2>3. \A u \in U : T[u].completed # 0
    BY DEF Dropped, Unused
  <2> HIDE DEF T, U
  <2>4. /\ DOMAIN rows' = DOMAIN T \ U
        /\ \A u \in DOMAIN T \ U : rows'[u] = T[u]
    <3>1. IsTable(T)
      BY <2>2
    <3>2. /\ DOMAIN Without(T, U) = DOMAIN T \ U
          /\ \A u \in DOMAIN T \ U : Without(T, U)[u] = T[u]
      BY <3>1, WithoutTable
    <3> QED
      BY <2>1, <3>2
  <2> QED
    BY <1>1, <2>1, <2>2, <2>3, <2>4 DEF ProceedKeepsRows, Uploading
<1>5. CASE OverwriteCommit(s)
  <2> DEFINE T == OverwriteView(s)
             U == Dropped(T, path[s][1])
  <2>1. rows' = Without(T, U) /\ pc[s] = "overwriting"
    BY <1>5 DEF OverwriteCommit
  <2>2. /\ IsTable(T) /\ DOMAIN T = DOMAIN rows
        /\ \A u \in DOMAIN rows :
             /\ T[u].name = rows[u].name
             /\ T[u].consumers = rows[u].consumers
             /\ path[s] # <<rows[u].name, u>> => T[u] = rows[u]
    <3>1. stamp[s] \in 0 .. MaxClock
      BY DEF TypeOK
    <3> QED
      BY <1>1, <3>1, CompletedTable DEF OverwriteView
  <2>3. \A u \in U : T[u].completed # 0
    BY DEF Dropped, Unused
  <2> HIDE DEF T, U
  <2>4. /\ DOMAIN rows' = DOMAIN T \ U
        /\ \A u \in DOMAIN T \ U : rows'[u] = T[u]
    <3>1. IsTable(T)
      BY <2>2
    <3>2. /\ DOMAIN Without(T, U) = DOMAIN T \ U
          /\ \A u \in DOMAIN T \ U : Without(T, U)[u] = T[u]
      BY <3>1, WithoutTable
    <3> QED
      BY <2>1, <3>2
  <2> QED
    BY <1>1, <2>1, <2>2, <2>3, <2>4 DEF ProceedKeepsRows, Uploading
<1> QED
  BY <1>2, <1>3, <1>4, <1>5
     DEF Proceed, OpenReserved, OpenFails, ReleaseBegin, ReleaseFails,
         CreateFile, CreateFails, FinishUpload, UploadUnrecorded,
         OverwriteBegin, OverwriteFails, Rollback, DeleteFile

(* A session that begins adds at most one row, with a stamp that is new.   *)
BeginKeepsRows(s) ==
  \/ \E n \in Names :
       /\ clock' = clock /\ DOMAIN rows' = DOMAIN rows
       /\ \A u \in DOMAIN rows :
            /\ rows'[u].name = rows[u].name
            /\ rows'[u].completed = rows[u].completed
            /\ rows'[u].consumers >= rows[u].consumers
       /\ path'[s][2] \in DOMAIN rows
       /\ path'[s] = <<n, path'[s][2]>> /\ rows[path'[s][2]].name = n
       /\ rows'[path'[s][2]].consumers = rows[path'[s][2]].consumers + 1
       /\ pc'[s] = "reserved"
  \/ \E n \in Names :
       /\ clock' = clock + 1 /\ DOMAIN rows' = DOMAIN rows \cup {clock'}
       /\ \A u \in DOMAIN rows : u # clock' => rows'[u] = rows[u]
       /\ rows'[clock'] = [name |-> n, completed |-> 0, consumers |-> 0]
       /\ path'[s] = <<n, clock'>> /\ path'[s][2] = clock'
       /\ pc'[s] = "prepared"

LEMMA BeginRows ==
  ASSUME TypeOK, NEW s \in Sessions, Begin(s)
  PROVE  BeginKeepsRows(s) /\ pc[s] = "idle"
<1>1. IsTable(rows) /\ s \in Workers
  BY TypedTable DEF Workers
<1>2. ASSUME NEW n \in Names, Reserve(s, n)
      PROVE  BeginKeepsRows(s) /\ pc[s] = "idle"
  <2> DEFINE b == Best(rows, n)
  <2>1. /\ rows' = Consumed(rows, n) /\ pc[s] = "idle" /\ pc'[s] = "reserved"
        /\ clock' = clock /\ path'[s] = <<n, b>> /\ RowsOf(rows, n) # {}
    BY <1>1, <1>2 DEF Reserve, Goto, TypeOK
  <2>2. b \in RowsOf(rows, n)
    BY <1>1, <2>1, BestIsNewest
  <2>3. /\ DOMAIN Consumed(rows, n) = DOMAIN rows
        /\ \A u \in DOMAIN rows :
             /\ Consumed(rows, n)[u].name = rows[u].name
             /\ Consumed(rows, n)[u].completed = rows[u].completed
             /\ Consumed(rows, n)[u].consumers \in
                  {rows[u].consumers, rows[u].consumers + 1}
        /\ \A u \in RowsOf(rows, n) :
             SameCounts(rows, u, Best(rows, n)) =>
               Consumed(rows, n)[u].consumers = rows[u].consumers + 1
    BY <1>1, ConsumedTable
  <2>4. \A u \in DOMAIN rows : rows[u].consumers \in Nat
    BY <1>1 DEF IsTable, Row
  <2>5. SameCounts(rows, b, b) /\ b \in DOMAIN rows /\ rows[b].name = n
    BY <2>2 DEF SameCounts, RowsOf
  <2> HIDE DEF b
  <2>6. rows'[b].consumers = rows[b].consumers + 1
    BY <2>1, <2>2, <2>3, <2>5 DEF b
  <2>7. path'[s][2] = b
    BY <2>1
  <2> QED
    BY <2>1, <2>3, <2>4, <2>5, <2>6, <2>7 DEF BeginKeepsRows
<1>3. ASSUME NEW n \in Names, Prepare(s, n)
      PROVE  BeginKeepsRows(s) /\ pc[s] = "idle"
  <2>1. clock' \in Stamps /\ clock' = clock + 1
    BY <1>3, BoundsAssumption, TypeParts DEF Prepare, Stamps
  <2>2. /\ pc[s] = "idle" /\ pc'[s] = "prepared"
        /\ path'[s] = <<n, clock'>> /\ path'[s][2] = clock'
    BY <1>1, <1>3 DEF Prepare, Goto, TypeOK
  <2>3. /\ DOMAIN rows' = DOMAIN rows \cup {clock'}
        /\ \A u \in DOMAIN rows : u # clock' => rows'[u] = rows[u]
        /\ rows'[clock'] = [name |-> n, completed |-> 0, consumers |-> 0]
    BY <1>1, <1>3, <2>1, InsertedTable DEF Prepare
  <2> QED
    BY <2>1, <2>2, <2>3 DEF BeginKeepsRows
<1> QED
  BY <1>2, <1>3 DEF Begin

(* The database routine drops rows and zeroes consumers; an unfinished row *)
(* or a consumer goes only while the daemon does not serve.                *)
DatabaseKeepsRows ==
  /\ DOMAIN rows' \subseteq DOMAIN rows
  /\ \A u \in DOMAIN rows' : rows'[u].name = rows[u].name
  /\ \/ phase = "starting"
     \/ /\ \A u \in DOMAIN rows' : rows'[u] = rows[u]
        /\ \A u \in DOMAIN rows : rows[u].completed = 0 => u \in DOMAIN rows'

LEMMA DatabaseRows ==
  ASSUME TypeOK, PhasesOK, DatabaseStep
  PROVE  DatabaseKeepsRows /\ clock' = clock
<1>1. CASE ClearCommit
  <2>1. phase = "starting"
    BY <1>1 DEF ClearCommit, PhasesOK
  <2>2. /\ DOMAIN rows' \subseteq DOMAIN rows /\ clock' = clock
        /\ \A u \in DOMAIN rows' : rows'[u] = [rows[u] EXCEPT !.consumers = 0]
    BY <1>1 DEF ClearCommit
  <2>3. \A u \in DOMAIN rows : rows[u] \in Row
    BY DEF TypeOK
  <2> QED
    BY <2>1, <2>2, <2>3 DEF DatabaseKeepsRows, Row
<1>2. CASE PruneCommit
  <2>1. rows' = Without(rows, AllOutOfDate(rows)) /\ clock' = clock
    BY <1>2 DEF PruneCommit
  <2>2. /\ DOMAIN rows' = DOMAIN rows \ AllOutOfDate(rows)
        /\ \A u \in DOMAIN rows \ AllOutOfDate(rows) : rows'[u] = rows[u]
    BY <2>1, TypedTable, WithoutTable
  <2>3. \A u \in AllOutOfDate(rows) : rows[u].completed # 0
    BY DEF AllOutOfDate, OutOfDate, Unused
  <2> QED
    BY <2>1, <2>2, <2>3 DEF DatabaseKeepsRows
<1>3. CASE UNCHANGED <<rows, clock>>
  BY <1>3 DEF DatabaseKeepsRows
<1> QED
  BY <1>1, <1>2, <1>3
     DEF DatabaseStep, DeleteFile, PruneSelect, PruneBusy, PruneFails,
         LeftOpenExpires

Reading == {"reserved", "reading", "releasing"}

(* A session that goes on keeps its path, its side and the table.          *)
ProceedKeepsSide(s) ==
  /\ clock \in Nat /\ clock' \in Nat /\ clock <= clock'
  /\ pc'[s] # "idle" =>
       /\ pc[s] # "idle" /\ UNCHANGED <<rows, path>>
       /\ pc'[s] \in Uploading <=> pc[s] \in Uploading
       /\ pc'[s] \in Reading <=> pc[s] \in Reading

LEMMA ProceedSide ==
  ASSUME TypeOK, NEW s \in Sessions, Proceed(s)
  PROVE  ProceedKeepsSide(s)
<1>1. s \in Workers /\ clock \in Nat
  BY DEF Workers, TypeOK
<1>2. CASE \/ OpenFails(s) \/ ReleaseFails(s) \/ ReleaseCommit(s)
           \/ CreateFails(s) \/ UploadFails(s) \/ UploadUnrecorded(s)
           \/ OverwriteCommit(s) \/ OverwriteFails(s) \/ Rollback(s)
  <2>1. Leave(s) /\ clock' = clock
    BY <1>2, Zenon
       DEF OpenFails, ReleaseFails, ReleaseCommit, CreateFails, UploadFails,
           UploadUnrecorded, OverwriteCommit, OverwriteFails, Rollback
  <2> QED
    BY <1>1, <2>1, LeaveFrame DEF ProceedKeepsSide
<1>3. CASE OpenReserved(s) \/ CreateFile(s)
  BY <1>1, <1>3
     DEF TypeOK, OpenReserved, CreateFile, Goto, ProceedKeepsSide, Uploading,
         Reading
<1>4. CASE FinishUpload(s)
  <2>1. clock' \in {clock, clock + 1}
    BY <1>4 DEF FinishUpload
  <2> QED
    BY <1>1, <1>4, <2>1
       DEF TypeOK, FinishUpload, Goto, ProceedKeepsSide, Uploading, Reading
<1>5. CASE ReleaseBegin(s) \/ OverwriteBegin(s)
  BY <1>1, <1>5
     DEF TypeOK, ReleaseBegin, OverwriteBegin, Goto, ProceedKeepsSide,
         Uploading, Reading
<1>6. CASE DeleteFile(s)
  BY <1>1, <1>6 DEF TypeOK, DeleteFile, ProceedKeepsSide
<1> QED
  BY <1>2, <1>3, <1>4, <1>5, <1>6 DEF Proceed

-----------------------------------------------------------------------------
(* Stamps. *)

LEMMA StampsStep ==
  ASSUME TypeOK, PhasesOK, StampsOK, Next
  PROVE  StampsOK'
<1>1. clock \in Nat /\ \A s \in Sessions : pc[s] # "idle" => path[s][2] \in Nat
  BY DEF TypeOK, Versions, Stamps
<1>2. ASSUME NEW s \in Sessions, Begin(s)
      PROVE  StampsOK'
  <2>1. SessionFrame(s) /\ BeginKeepsRows(s)
    BY <1>2, BeginFrame, BeginRows
  <2>2. Sessions \subseteq Workers /\ DOMAIN rows \subseteq Nat
    BY DEF Workers, TypeOK, Stamps
  <2>3. CASE clock' = clock /\ DOMAIN rows' = DOMAIN rows /\ path'[s][2] \in DOMAIN rows
    BY <1>1, <2>1, <2>2, <2>3 DEF SessionFrame, StampsOK
  <2>4. CASE /\ clock' = clock + 1 /\ DOMAIN rows' = DOMAIN rows \cup {clock'}
             /\ path'[s][2] = clock'
    BY <1>1, <2>1, <2>2, <2>4 DEF SessionFrame, StampsOK
  <2> QED
    BY <2>1, <2>3, <2>4 DEF BeginKeepsRows
<1>3. ASSUME NEW s \in Sessions, Proceed(s)
      PROVE  StampsOK'
  <2>1. SessionFrame(s) /\ ProceedKeepsRows(s) /\ ProceedKeepsSide(s)
    BY <1>3, ProceedFrame, ProceedRows, ProceedSide
  <2>2. Sessions \subseteq Workers /\ DOMAIN rows \subseteq Nat
    BY DEF Workers, TypeOK, Stamps
  <2>3. clock \in Nat /\ clock' \in Nat /\ clock <= clock'
    BY <2>1 DEF ProceedKeepsSide
  <2>4. \A u \in DOMAIN rows' : u <= clock'
    BY <2>1, <2>2, <2>3 DEF ProceedKeepsRows, StampsOK
  <2>5. \A r \in Sessions : pc'[r] # "idle" => pc[r] # "idle" /\ path'[r] = path[r]
    BY <2>1, <2>2 DEF SessionFrame, ProceedKeepsSide
  <2>6. \A r \in Sessions : pc'[r] # "idle" => path'[r][2] <= clock'
    BY <1>1, <2>3, <2>5 DEF StampsOK
  <2> QED
    BY <2>4, <2>6 DEF StampsOK
<1>4. CASE DatabaseStep
  BY <1>4, DatabaseFrame, DatabaseRows DEF DatabaseKeepsRows, StampsOK
<1>5. CASE Boot
  BY <1>5, DatabaseFrame DEF Boot, StampsOK
<1>6. CASE Stop \/ Cancel
  BY <1>6 DEF Stop, Cancel, StampsOK
<1>7. CASE Exit \/ Crash
  BY <1>7, ProcessEndsFrame DEF Exit, Crash, StampsOK
<1> QED
  BY <1>2, <1>3, <1>4, <1>5, <1>6, <1>7 DEF Next

-----------------------------------------------------------------------------
(* Unfinished uploads. *)

LEMMA UploadPath ==
  ASSUME TypeOK, UploadsOK, NEW s \in Sessions, pc[s] \in Uploading
  PROVE  /\ path[s][2] \in DOMAIN rows /\ path[s][2] \in Nat
         /\ path[s] = <<rows[path[s][2]].name, path[s][2]>>
         /\ rows[path[s][2]].completed = 0
<1>1. path[s] \in Versions
  BY DEF TypeOK, Uploading
<1>2. path[s] = <<path[s][1], path[s][2]>> /\ path[s][2] \in Nat
  BY <1>1 DEF Versions, Stamps
<1> QED
  BY <1>2 DEF UploadsOK

LEMMA UploadsStep ==
  ASSUME TypeOK, PhasesOK, StampsOK, UploadsOK, Next
  PROVE  UploadsOK'
<1>1. /\ Sessions \subseteq Workers /\ DOMAIN rows \subseteq Nat /\ clock \in Nat
      /\ \A u \in DOMAIN rows : u <= clock
  BY DEF Workers, TypeOK, Stamps, StampsOK
<1>2. ASSUME NEW s \in Sessions, Begin(s)
      PROVE  UploadsOK'
  <2>1. SessionFrame(s) /\ BeginKeepsRows(s) /\ pc[s] = "idle"
    BY <1>2, BeginFrame, BeginRows
  <2>2. \A r \in Sessions \ {s} : pc'[r] = pc[r] /\ path'[r] = path[r]
    BY <1>1, <2>1 DEF SessionFrame
  <2>3. CASE /\ clock' = clock /\ DOMAIN rows' = DOMAIN rows
             /\ \A u \in DOMAIN rows :
                  /\ rows'[u].name = rows[u].name
                  /\ rows'[u].completed = rows[u].completed
             /\ pc'[s] = "reserved"
    BY <2>2, <2>3 DEF UploadsOK, Uploading
  <2>4. ASSUME NEW n \in Names,
               clock' = clock + 1, DOMAIN rows' = DOMAIN rows \cup {clock'},
               \A u \in DOMAIN rows : u # clock' => rows'[u] = rows[u],
               rows'[clock'] = [name |-> n, completed |-> 0, consumers |-> 0],
               path'[s] = <<n, clock'>>, path'[s][2] = clock'
        PROVE  UploadsOK'
    <3>1. clock' \notin DOMAIN rows
      BY <1>1, <2>4
    <3>2. \A r \in Sessions \ {s} :
            pc'[r] \in Uploading =>
              path'[r][2] \in DOMAIN rows /\ path'[r] # path'[s]
      BY <2>2, <2>4, <3>1 DEF UploadsOK
    <3>3. path'[s][1] = n
      BY <2>4
    <3> QED
      BY <2>2, <2>4, <3>1, <3>2, <3>3 DEF UploadsOK
  <2> QED
    BY <2>1, <2>3, <2>4 DEF BeginKeepsRows
<1>3. ASSUME NEW s \in Sessions, Proceed(s)
      PROVE  UploadsOK'
  <2>1. SessionFrame(s) /\ ProceedKeepsRows(s) /\ ProceedKeepsSide(s)
    BY <1>3, ProceedFrame, ProceedRows, ProceedSide
  <2>2. \A r \in Sessions \ {s} : pc'[r] = pc[r] /\ path'[r] = path[r]
    BY <1>1, <2>1 DEF SessionFrame
  <2>3. \A r \in Sessions :
          pc'[r] \in Uploading => pc[r] \in Uploading /\ path'[r] = path[r]
    BY <2>1, <2>2 DEF ProceedKeepsSide, Uploading
  <2>4. ASSUME NEW r \in Sessions, pc'[r] \in Uploading
        PROVE  /\ path[r][2] \in DOMAIN rows'
               /\ rows'[path[r][2]].name = rows[path[r][2]].name
               /\ rows'[path[r][2]].completed = 0
    <3> DEFINE u == path[r][2]
    <3>1. pc[r] \in Uploading
      BY <2>3, <2>4
    <3>2. /\ u \in DOMAIN rows /\ path[r] = <<rows[u].name, u>>
          /\ rows[u].completed = 0
      BY <3>1, UploadPath
    <3>3. CASE r = s
      BY <2>1, <2>4, <3>2, <3>3 DEF ProceedKeepsSide, Uploading
    <3>4. CASE r # s
      <4>1. pc[s] \in Uploading => path[s] # <<rows[u].name, u>>
        BY <3>1, <3>2, <3>4 DEF UploadsOK
      <4> QED
        BY <2>1, <3>2, <4>1 DEF ProceedKeepsRows
    <3> QED
      BY <3>3, <3>4
  <2> QED
    BY <2>3, <2>4 DEF UploadsOK
<1>4. CASE DatabaseStep
  <2>1. /\ UNCHANGED path /\ \A s \in Sessions : pc'[s] = pc[s]
        /\ DatabaseKeepsRows
    BY <1>4, DatabaseFrame, DatabaseRows
  <2>2. CASE phase = "starting"
    BY <2>1, <2>2 DEF PhasesOK, UploadsOK, Uploading
  <2>3. CASE phase # "starting"
    BY <2>1, <2>3 DEF DatabaseKeepsRows, UploadsOK
  <2> QED
    BY <2>2, <2>3
<1>5. CASE Boot
  BY <1>5, DatabaseFrame DEF Boot, UploadsOK
<1>6. CASE Stop \/ Cancel
  BY <1>6 DEF Stop, Cancel, UploadsOK
<1>7. CASE Exit \/ Crash
  BY <1>7, ProcessEndsFrame DEF Exit, Crash, UploadsOK, Uploading
<1> QED
  BY <1>2, <1>3, <1>4, <1>5, <1>6, <1>7 DEF Next

-----------------------------------------------------------------------------
(* Consumers count the downloads. *)

LEMMA DownloadingFinite ==
  ASSUME NEW p
  PROVE  IsFiniteSet(Downloading(p)) /\ Cardinality(Downloading(p)) \in Nat
<1>1. IsFiniteSet(Sessions) /\ Downloading(p) \subseteq Sessions
  BY SessionsAssumption DEF Downloading
<1> QED
  BY <1>1, FS_Subset, FS_CardinalityType

(* A download counts for one, two of the same version for two.             *)
LEMMA OneDownload ==
  ASSUME NEW p, NEW r \in Downloading(p)
  PROVE  Cardinality(Downloading(p)) >= 1
<1> DEFINE S == Downloading(p)
<1>1. IsFiniteSet(S) /\ Cardinality(S) \in Nat
  BY DownloadingFinite
<1> HIDE DEF S
<1>2. r \in S
  BY DEF S
<1>3. Cardinality(S) # 0
  BY <1>1, <1>2, FS_EmptySet
<1> QED
  BY <1>1, <1>3 DEF S

LEMMA TwoDownloads ==
  ASSUME NEW p, NEW r \in Downloading(p), NEW s \in Downloading(p), r # s
  PROVE  Cardinality(Downloading(p)) >= 2
<1> DEFINE S == Downloading(p)
<1>1. IsFiniteSet(S) /\ Cardinality(S) \in Nat
  BY DownloadingFinite
<1>2. r \in S /\ s \in S
  OBVIOUS
<1> HIDE DEF S
<1>3. IsFiniteSet(S \ {r}) /\ Cardinality(S \ {r}) = Cardinality(S) - 1
  BY <1>1, <1>2, FS_RemoveElement
<1>4. s \in S \ {r} /\ Cardinality(S \ {r}) \in Nat
  BY <1>2, <1>3, FS_CardinalityType
<1>5. Cardinality(S \ {r}) # 0
  BY <1>3, <1>4, FS_EmptySet
<1> QED
  BY <1>1, <1>3, <1>4, <1>5 DEF S

LEMMA FewerDownloads ==
  ASSUME NEW p, NEW D, D \subseteq Downloading(p)
  PROVE  Cardinality(D) \in Nat /\ Cardinality(D) <= Cardinality(Downloading(p))
BY DownloadingFinite, FS_Subset, FS_CardinalityType

LEMMA CoverStep ==
  ASSUME TypeOK, TypeOK', PhasesOK, StampsOK, ConsumersCover, Next
  PROVE  ConsumersCover'
<1> DEFINE Now(u) == Downloading(<<rows[u].name, u>>)
           Then(u) == {r \in Sessions : /\ pc'[r] \in Reading
                                       /\ path'[r] = <<rows'[u].name, u>>}
<1>1. /\ Sessions \subseteq Workers /\ clock \in Nat
      /\ \A u \in DOMAIN rows : u \in Nat /\ u <= clock /\ rows[u].consumers \in Nat
      /\ \A u \in DOMAIN rows' : rows'[u].consumers \in Nat
  BY DEF Workers, TypeOK, Stamps, StampsOK, Row
<1>2. SUFFICES ASSUME NEW u \in DOMAIN rows'
               PROVE  Cardinality(Then(u)) <= rows'[u].consumers
  BY <1>2 DEF ConsumersCover, Downloading, Reading
<1>3. ASSUME u \in DOMAIN rows
      PROVE  /\ Cardinality(Now(u)) \in Nat
             /\ Cardinality(Now(u)) <= rows[u].consumers
  BY <1>3, DownloadingFinite DEF ConsumersCover
<1>4. ASSUME u \in DOMAIN rows, Then(u) \subseteq Now(u),
             rows'[u].consumers >= rows[u].consumers
      PROVE  Cardinality(Then(u)) <= rows'[u].consumers
  <2>1. /\ Cardinality(Then(u)) \in Nat
        /\ Cardinality(Then(u)) <= Cardinality(Now(u))
    BY <1>4, FewerDownloads
  <2> HIDE DEF Then, Now
  <2> QED
    BY <1>1, <1>3, <1>4, <2>1
<1>5. ASSUME Then(u) = {}
      PROVE  Cardinality(Then(u)) <= rows'[u].consumers
  <2>1. Cardinality(Then(u)) = 0
    BY <1>5, FS_EmptySet, Zenon
  <2> QED
    BY <1>1, <2>1
<1>6. ASSUME NEW s \in Sessions, Begin(s)
      PROVE  Cardinality(Then(u)) <= rows'[u].consumers
  <2>1. SessionFrame(s) /\ BeginKeepsRows(s) /\ pc[s] = "idle"
    BY <1>6, BeginFrame, BeginRows
  <2>2. \A r \in Sessions \ {s} : pc'[r] = pc[r] /\ path'[r] = path[r]
    BY <1>1, <2>1 DEF SessionFrame
  <2>3. ASSUME NEW n \in Names, DOMAIN rows' = DOMAIN rows,
               \A v \in DOMAIN rows :
                  /\ rows'[v].name = rows[v].name
                  /\ rows'[v].consumers >= rows[v].consumers,
               path'[s] = <<n, path'[s][2]>>,
               rows'[path'[s][2]].consumers = rows[path'[s][2]].consumers + 1
        PROVE  Cardinality(Then(u)) <= rows'[u].consumers
    <3>1. Then(u) \subseteq Now(u) \cup {s} /\ s \notin Now(u)
      BY <2>1, <2>2, <2>3 DEF Downloading, Reading
    <3>2. CASE path'[s] = <<rows'[u].name, u>>
      <4>1. path'[s][2] = u
        BY <3>2
      <4>2. /\ IsFiniteSet(Now(u)) /\ Cardinality(Now(u)) \in Nat
        BY DownloadingFinite
      <4> HIDE DEF Now, Then
      <4>3. /\ IsFiniteSet(Now(u) \cup {s})
            /\ Cardinality(Now(u) \cup {s}) = Cardinality(Now(u)) + 1
        BY <3>1, <4>2, FS_AddElement
      <4>4. /\ Cardinality(Then(u)) \in Nat
            /\ Cardinality(Then(u)) <= Cardinality(Now(u)) + 1
        BY <3>1, <4>3, FS_Subset, FS_CardinalityType
      <4> QED
        BY <1>1, <1>3, <2>3, <4>1, <4>2, <4>4
    <3>3. CASE path'[s] # <<rows'[u].name, u>>
      <4>1. Then(u) \subseteq Now(u)
        BY <3>1, <3>3
      <4> QED
        BY <1>4, <2>3, <4>1
    <3> QED
      BY <3>2, <3>3
  <2>4. ASSUME NEW n \in Names,
               clock' = clock + 1, DOMAIN rows' = DOMAIN rows \cup {clock'},
               \A v \in DOMAIN rows : v # clock' => rows'[v] = rows[v],
               pc'[s] = "prepared"
        PROVE  Cardinality(Then(u)) <= rows'[u].consumers
    <3>1. CASE u = clock'
      <4>1. \A r \in Sessions : pc[r] # "idle" => path[r][2] <= clock
        BY DEF StampsOK
      <4>2. \A r \in Sessions : pc[r] # "idle" => path[r][2] # u
        BY <1>1, <2>4, <3>1, <4>1
      <4>3. Then(u) = {}
        BY <2>2, <2>4, <4>2 DEF Reading
      <4> QED
        BY <1>5, <4>3
    <3>2. CASE u # clock'
      <4>1. u \in DOMAIN rows /\ rows'[u] = rows[u]
        BY <2>4, <3>2
      <4>2. Then(u) \subseteq Now(u)
        BY <2>2, <2>4, <4>1 DEF Downloading, Reading
      <4> QED
        BY <1>1, <1>4, <4>1, <4>2
    <3> QED
      BY <3>1, <3>2
  <2> QED
    BY <2>1, <2>3, <2>4 DEF BeginKeepsRows
<1>7. ASSUME NEW s \in Sessions, Proceed(s)
      PROVE  Cardinality(Then(u)) <= rows'[u].consumers
  <2>1. SessionFrame(s) /\ ProceedKeepsRows(s) /\ ProceedKeepsSide(s)
    BY <1>7, ProceedFrame, ProceedRows, ProceedSide
  <2>2. \A r \in Sessions \ {s} : pc'[r] = pc[r] /\ path'[r] = path[r]
    BY <1>1, <2>1 DEF SessionFrame
  <2>3. u \in DOMAIN rows /\ rows'[u].name = rows[u].name
    BY <2>1 DEF ProceedKeepsRows
  <2>4. pc'[s] \in Reading => pc[s] \in Reading /\ path'[s] = path[s]
    BY <2>1 DEF ProceedKeepsSide, Reading
  <2>5. Then(u) \subseteq Now(u)
    BY <2>2, <2>3, <2>4 DEF Downloading, Reading
  <2>6. CASE rows'[u].consumers >= rows[u].consumers
    BY <1>4, <2>3, <2>5, <2>6
  <2>7. CASE /\ rows'[u].consumers >= rows[u].consumers - 1
             /\ path[s] = <<rows[u].name, u>>
             /\ pc[s] = "releasing" /\ pc'[s] = "idle"
    <3>1. s \in Now(u) /\ s \notin Then(u)
      BY <2>7 DEF Downloading, Reading
    <3>2. IsFiniteSet(Now(u)) /\ Cardinality(Now(u)) \in Nat
      BY DownloadingFinite
    <3> HIDE DEF Now, Then
    <3>3. Then(u) \subseteq Now(u) \ {s}
      BY <2>5, <3>1
    <3>4. /\ IsFiniteSet(Now(u) \ {s})
          /\ Cardinality(Now(u) \ {s}) = Cardinality(Now(u)) - 1
      BY <3>1, <3>2, FS_RemoveElement
    <3>5. /\ Cardinality(Then(u)) \in Nat
          /\ Cardinality(Then(u)) <= Cardinality(Now(u)) - 1
      BY <3>3, <3>4, FS_Subset, FS_CardinalityType
    <3> QED
      BY <1>1, <1>3, <2>3, <2>7, <3>2, <3>5
  <2> QED
    BY <2>1, <2>6, <2>7 DEF ProceedKeepsRows
<1>8. CASE DatabaseStep
  <2>1. /\ UNCHANGED path /\ \A r \in Sessions : pc'[r] = pc[r]
        /\ DatabaseKeepsRows
    BY <1>8, DatabaseFrame, DatabaseRows
  <2>2. CASE phase = "starting"
    <3>1. Then(u) = {}
      BY <2>1, <2>2 DEF PhasesOK, Reading
    <3> QED
      BY <1>5, <3>1
  <2>3. CASE phase # "starting"
    <3>1. u \in DOMAIN rows /\ rows'[u] = rows[u]
      BY <2>1, <2>3 DEF DatabaseKeepsRows
    <3>2. Then(u) \subseteq Now(u)
      BY <2>1, <3>1 DEF Downloading, Reading
    <3> QED
      BY <1>1, <1>4, <3>1, <3>2
  <2> QED
    BY <2>2, <2>3
<1>9. CASE Boot \/ Stop \/ Cancel
  <2>1. UNCHANGED <<rows, path>> /\ \A r \in Sessions : pc'[r] = pc[r]
    BY <1>9, DatabaseFrame DEF Boot, Stop, Cancel
  <2>2. Then(u) \subseteq Now(u)
    BY <2>1 DEF Downloading, Reading
  <2> QED
    BY <1>1, <1>4, <2>1, <2>2
<1>10. CASE Exit \/ Crash
  <2>1. Then(u) = {}
    BY <1>10, ProcessEndsFrame DEF Exit, Crash, Reading
  <2> QED
    BY <1>5, <2>1
<1> QED
  BY <1>6, <1>7, <1>8, <1>9, <1>10 DEF Next

-----------------------------------------------------------------------------
(* What is due for removal. *)

Needed == {"reserved", "reading", "prepared", "writing", "uploaded"}

(* A path that a clean-up selects from a table is not the path of a        *)
(* session, if the table counts the session or knows its upload.           *)
LEMMA SelectedUnneeded ==
  ASSUME NEW T, NEW r \in Sessions, NEW U \in SUBSET DOMAIN T,
         \A u \in U : T[u].completed # 0 /\ T[u].consumers = 0,
         \A u \in DOMAIN T :
           path[r] = <<T[u].name, u>> => T[u].completed = 0 \/ T[u].consumers # 0
  PROVE  path[r] \notin Paths(T, U)
BY DEF Paths

LEMMA NeededRows ==
  ASSUME TypeOK, UploadsOK, ConsumersCover, NEW r \in Sessions, pc[r] \in Needed,
         NEW u \in DOMAIN rows, path[r] = <<rows[u].name, u>>
  PROVE  \/ pc[r] \in Uploading /\ rows[u].completed = 0
         \/ r \in Downloading(path[r]) /\ rows[u].consumers >= 1
<1>1. CASE pc[r] \in Uploading
  <2>1. path[r][2] = u
    OBVIOUS
  <2> QED
    BY <1>1, <2>1, UploadPath
<1>2. CASE pc[r] \notin Uploading
  <2>1. r \in Downloading(path[r])
    BY <1>2 DEF Needed, Uploading, Downloading
  <2>2. Cardinality(Downloading(path[r])) \in Nat
        /\ Cardinality(Downloading(path[r])) >= 1
    BY <2>1, OneDownload, DownloadingFinite
  <2>3. Cardinality(Downloading(path[r])) <= rows[u].consumers
    BY DEF ConsumersCover
  <2>4. rows[u].consumers \in Nat
    BY DEF TypeOK, Row
  <2> QED
    BY <2>1, <2>2, <2>3, <2>4
<1> QED
  BY <1>1, <1>2

(* What Release, OverwriteSuccess and deleteOutOfDateGlobally select.      *)
LEMMA ReleaseSelects ==
  ASSUME TypeOK, UploadsOK, ConsumersCover,
         NEW s \in Sessions, pc[s] = "reading",
         NEW r \in Sessions \ {s}, pc[r] \in Needed
  PROVE  path[r] \notin Paths(ReleaseView(s), OutOfDate(ReleaseView(s), path[s][1]))
<1> DEFINE T == ReleaseView(s)
           U == OutOfDate(T, path[s][1])
<1>1. IsTable(rows) /\ \A u \in DOMAIN rows : rows[u].consumers \in Nat
  BY TypedTable DEF IsTable, Row
<1>2. /\ IsTable(T) /\ DOMAIN T = DOMAIN rows
      /\ \A u \in DOMAIN rows :
           /\ T[u].name = rows[u].name
           /\ T[u].completed = rows[u].completed
           /\ path[s] # <<rows[u].name, u>> => T[u] = rows[u]
           /\ T[u].consumers >= rows[u].consumers - 1
  BY <1>1, UnconsumedTable DEF ReleaseView
<1>3. U \in SUBSET DOMAIN T /\ \A u \in U : T[u].completed # 0 /\ T[u].consumers = 0
  BY DEF OutOfDate, Unused, RowsOf
<1> HIDE DEF T, U
<1>4. ASSUME NEW u \in DOMAIN T, path[r] = <<T[u].name, u>>
      PROVE  T[u].completed = 0 \/ T[u].consumers # 0
  <2>1. u \in DOMAIN rows /\ path[r] = <<rows[u].name, u>>
    BY <1>2, <1>4
  <2>2. CASE rows[u].completed = 0
    BY <1>2, <2>1, <2>2
  <2>3. CASE rows[u].completed # 0
    <3>1. r \in Downloading(path[r]) /\ rows[u].consumers >= 1
      BY <2>1, <2>3, NeededRows
    <3>2. CASE path[s] # path[r]
      BY <1>1, <1>2, <2>1, <3>1, <3>2
    <3>3. CASE path[s] = path[r]
      <4>1. s \in Downloading(path[r])
        BY <3>3 DEF Downloading
      <4>2. /\ Cardinality(Downloading(path[r])) \in Nat
            /\ Cardinality(Downloading(path[r])) >= 2
        BY <3>1, <4>1, TwoDownloads, DownloadingFinite
      <4>3. Cardinality(Downloading(path[r])) <= rows[u].consumers
        BY <2>1 DEF ConsumersCover
      <4>4. T[u] \in Row /\ T[u].consumers >= rows[u].consumers - 1
        BY <1>2, <2>1 DEF IsTable
      <4> QED
        BY <1>1, <2>1, <4>2, <4>3, <4>4 DEF Row
    <3> QED
      BY <3>2, <3>3
  <2> QED
    BY <2>2, <2>3
<1> QED
  BY <1>3, <1>4, SelectedUnneeded DEF T, U

LEMMA OverwriteSelects ==
  ASSUME TypeOK, UploadsOK, ConsumersCover,
         NEW s \in Sessions, pc[s] = "uploaded",
         NEW r \in Sessions \ {s}, pc[r] \in Needed
  PROVE  path[r] \notin
           Paths(OverwriteView(s), OutOfDate(OverwriteView(s), path[s][1]))
<1> DEFINE T == OverwriteView(s)
           U == OutOfDate(T, path[s][1])
<1>1. IsTable(rows) /\ stamp[s] \in 0 .. MaxClock
      /\ \A u \in DOMAIN rows : rows[u].consumers \in Nat
  BY TypedTable DEF IsTable, Row, TypeOK
<1>2. /\ DOMAIN T = DOMAIN rows
      /\ \A u \in DOMAIN rows :
           /\ T[u].name = rows[u].name
           /\ T[u].consumers = rows[u].consumers
           /\ path[s] # <<rows[u].name, u>> => T[u] = rows[u]
  BY <1>1, CompletedTable DEF OverwriteView
<1>3. U \in SUBSET DOMAIN T /\ \A u \in U : T[u].completed # 0 /\ T[u].consumers = 0
  BY DEF OutOfDate, Unused, RowsOf
<1> HIDE DEF T, U
<1>4. ASSUME NEW u \in DOMAIN T, path[r] = <<T[u].name, u>>
      PROVE  T[u].completed = 0 \/ T[u].consumers # 0
  <2>1. u \in DOMAIN rows /\ path[r] = <<rows[u].name, u>>
    BY <1>2, <1>4
  <2>2. CASE pc[r] \in Uploading /\ rows[u].completed = 0
    <3>1. path[r] # path[s]
      BY <2>2 DEF UploadsOK, Uploading
    <3> QED
      BY <1>2, <2>1, <2>2, <3>1
  <2>3. CASE rows[u].consumers >= 1
    BY <1>1, <1>2, <2>1, <2>3
  <2> QED
    BY <2>1, <2>2, <2>3, NeededRows
<1> QED
  BY <1>3, <1>4, SelectedUnneeded DEF T, U

LEMMA PruneSelects ==
  ASSUME TypeOK, UploadsOK, ConsumersCover,
         NEW r \in Sessions, pc[r] \in Needed
  PROVE  path[r] \notin Paths(rows, AllOutOfDate(rows))
<1> DEFINE U == AllOutOfDate(rows)
<1>1. U \in SUBSET DOMAIN rows
      /\ \A u \in U : rows[u].completed # 0 /\ rows[u].consumers = 0
  BY DEF AllOutOfDate, OutOfDate, Unused, RowsOf
<1>2. ASSUME NEW u \in DOMAIN rows, path[r] = <<rows[u].name, u>>
      PROVE  rows[u].completed = 0 \/ rows[u].consumers # 0
  BY <1>2, NeededRows
<1> HIDE DEF U
<1> QED
  BY <1>1, <1>2, SelectedUnneeded DEF U

LEMMA NeededGoesOn ==
  ASSUME TypeOK, NEW s \in Sessions, Proceed(s), pc'[s] \in Needed
  PROVE  pc[s] \in Needed /\ path'[s] = path[s]
<1>1. s \in Workers
  BY DEF Workers
<1>2. pc'[s] # "idle" /\ path'[s] = path[s]
  BY ProceedSide DEF ProceedKeepsSide, Needed
<1>3. CASE \/ OpenFails(s) \/ ReleaseFails(s) \/ ReleaseCommit(s)
           \/ CreateFails(s) \/ UploadFails(s) \/ UploadUnrecorded(s)
           \/ OverwriteCommit(s) \/ OverwriteFails(s) \/ Rollback(s)
  <2>1. Leave(s)
    BY <1>3, Zenon
       DEF OpenFails, ReleaseFails, ReleaseCommit, CreateFails, UploadFails,
           UploadUnrecorded, OverwriteCommit, OverwriteFails, Rollback
  <2> QED
    BY <1>2, <2>1, LeaveFrame
<1>4. CASE OpenReserved(s) \/ CreateFile(s) \/ FinishUpload(s)
  BY <1>2, <1>4 DEF OpenReserved, CreateFile, FinishUpload, Needed
<1>5. CASE ReleaseBegin(s) \/ OverwriteBegin(s)
  BY <1>1, <1>5 DEF TypeOK, ReleaseBegin, OverwriteBegin, Goto, Needed
<1>6. CASE DeleteFile(s)
  BY <1>2, <1>6 DEF DeleteFile
<1> QED
  BY <1>2, <1>3, <1>4, <1>5, <1>6 DEF Proceed

LEMMA DoomedStep ==
  ASSUME TypeOK, PhasesOK, LocksOK, UploadsOK, ConsumersCover, DoomedUnused, Next
  PROVE  DoomedUnused'
<1>1. DB \in Workers /\ DB \notin Sessions /\ Workers = Sessions \cup {DB}
  BY SessionsAssumption DEF Workers
<1>2. ASSUME NEW s \in Sessions, Begin(s)
      PROVE  DoomedUnused'
  <2>1. pc[s] = "idle" /\ CanCommit(s) /\ UNCHANGED doomed
    BY <1>2, BeginRows, BeginFrame
       DEF Begin, Reserve, Prepare, CanTransact
  <2>2. \A w \in Workers : tx[w] = "none"
    BY <1>1, <2>1 DEF CanCommit, LocksOK
  <2>3. \A w \in Workers : doomed'[w] = {}
    BY <1>1, <2>1, <2>2 DEF LocksOK
  <2> QED
    BY <2>3 DEF DoomedUnused
<1>3. ASSUME NEW s \in Sessions, Proceed(s)
      PROVE  DoomedUnused'
  <2>1. SessionFrame(s)
    BY <1>3, ProceedFrame
  <2>2. \A r \in Sessions :
          pc'[r] \in Needed => pc[r] \in Needed /\ path'[r] = path[r]
    BY <1>1, <1>3, <2>1, NeededGoesOn DEF SessionFrame
  <2>3. ASSUME \A r \in Sessions \ {s} :
                  pc[r] \in Needed => path[r] \notin doomed'[s],
               pc'[s] \notin Needed
        PROVE  DoomedUnused'
    <3>1. \A w \in Workers \ {s} : doomed'[w] = doomed[w]
      BY <2>1 DEF SessionFrame
    <3> QED
      BY <1>1, <2>2, <2>3, <3>1 DEF DoomedUnused, Needed
  <2>4. ASSUME \A w \in Workers : doomed'[w] \subseteq doomed[w]
        PROVE  DoomedUnused'
    BY <2>2, <2>4 DEF DoomedUnused, Needed
  <2>5. CASE ReleaseBegin(s)
    <3>1. /\ pc[s] = "reading" /\ pc'[s] = "releasing"
          /\ doomed'[s] = Paths(ReleaseView(s), OutOfDate(ReleaseView(s), path[s][1]))
      BY <1>1, <2>5 DEF TypeOK, ReleaseBegin, Goto
    <3> QED
      BY <2>3, <3>1, ReleaseSelects DEF Needed
  <2>6. CASE OverwriteBegin(s)
    <3>1. /\ pc[s] = "uploaded" /\ pc'[s] = "overwriting"
          /\ doomed'[s] =
               Paths(OverwriteView(s), OutOfDate(OverwriteView(s), path[s][1]))
      BY <1>1, <2>6 DEF TypeOK, OverwriteBegin, Goto
    <3> QED
      BY <2>3, <3>1, OverwriteSelects DEF Needed
  <2>7. CASE \/ OpenFails(s) \/ ReleaseFails(s) \/ ReleaseCommit(s)
             \/ CreateFails(s) \/ UploadFails(s) \/ UploadUnrecorded(s)
             \/ OverwriteCommit(s) \/ OverwriteFails(s) \/ Rollback(s)
    <3>1. Leave(s)
      BY <2>7, Zenon
         DEF OpenFails, ReleaseFails, ReleaseCommit, CreateFails, UploadFails,
             UploadUnrecorded, OverwriteCommit, OverwriteFails, Rollback
    <3> QED
      BY <2>3, <3>1, LeaveFrame DEF Needed
  <2>8. CASE OpenReserved(s) \/ CreateFile(s) \/ FinishUpload(s)
    BY <2>4, <2>8 DEF OpenReserved, CreateFile, FinishUpload
  <2>9. CASE DeleteFile(s)
    BY <2>4, <2>9 DEF DeleteFile, TypeOK
  <2> QED
    BY <1>3, <2>5, <2>6, <2>7, <2>8, <2>9 DEF Proceed
<1>4. CASE DatabaseStep
  <2>1. /\ UNCHANGED path
        /\ \A s \in Sessions : pc'[s] = pc[s] /\ doomed'[s] = doomed[s]
    BY <1>4, DatabaseFrame
  <2>2. ASSUME \A r \in Sessions : pc[r] \in Needed => path[r] \notin doomed'[DB]
        PROVE  DoomedUnused'
    BY <1>1, <2>1, <2>2 DEF DoomedUnused, Needed
  <2>3. CASE DeleteFile(DB)
    <3>1. doomed'[DB] \subseteq doomed[DB]
      BY <1>1, <2>3 DEF DeleteFile, TypeOK
    <3> QED
      BY <1>1, <2>2, <3>1 DEF DoomedUnused, Needed
  <2>4. CASE PruneSelect
    <3>1. doomed'[DB] = Paths(rows, AllOutOfDate(rows))
      BY <1>1, <2>4 DEF PruneSelect, DatabaseTx, TypeOK
    <3> QED
      BY <2>2, <3>1, PruneSelects
  <2>5. CASE ClearCommit \/ PruneBusy \/ PruneFails \/ LeftOpenExpires
    <3>1. doomed'[DB] = {}
      BY <1>1, <2>5
         DEF ClearCommit, PruneBusy, PruneFails, LeftOpenExpires, DatabaseTx, TypeOK
    <3> QED
      BY <2>2, <3>1
  <2>6. CASE PruneCommit
    <3>1. doomed'[DB] = {}
      BY <1>1, <2>6 DEF PruneCommit, DatabaseTx, TypeOK
    <3> QED
      BY <2>2, <3>1
  <2> QED
    BY <1>4, <2>3, <2>4, <2>5, <2>6 DEF DatabaseStep
<1>5. CASE Boot
  <2>1. \A s \in Sessions : pc'[s] = "idle"
    BY <1>5, DatabaseFrame DEF Boot, PhasesOK
  <2> QED
    BY <2>1 DEF DoomedUnused
<1>6. CASE Stop \/ Cancel
  BY <1>6 DEF Stop, Cancel, DoomedUnused
<1>7. CASE Exit \/ Crash
  BY <1>7, ProcessEndsFrame DEF Exit, Crash, DoomedUnused
<1> QED
  BY <1>2, <1>3, <1>4, <1>5, <1>6, <1>7 DEF Next

-----------------------------------------------------------------------------
(* The files in use. *)

Holding == {"reading", "writing", "uploaded"}

LEMMA FilesStep ==
  ASSUME TypeOK, PhasesOK, DoomedUnused, FilesInUseKept, Next
  PROVE  FilesInUseKept'
<1>1. DB \in Workers /\ DB \notin Sessions /\ Workers = Sessions \cup {DB}
  BY SessionsAssumption DEF Workers
<1>2. ASSUME \A r \in Sessions :
                pc'[r] \in Holding => pc[r] \in Holding /\ path'[r] = path[r],
             disk \subseteq disk'
      PROVE  FilesInUseKept'
  BY <1>2 DEF FilesInUseKept, Holding
<1>3. ASSUME NEW w \in Workers, DeleteFile(w)
      PROVE  FilesInUseKept'
  <2>1. UNCHANGED <<pc, path>> /\ \E p \in doomed[w] : disk' = disk \ {p}
    BY <1>3 DEF DeleteFile
  <2> QED
    BY <2>1 DEF FilesInUseKept, DoomedUnused
<1>4. ASSUME NEW s \in Sessions, Begin(s)
      PROVE  FilesInUseKept'
  <2>1. SessionFrame(s) /\ UNCHANGED disk /\ BeginKeepsRows(s)
    BY <1>4, BeginFrame, BeginRows
  <2>2. pc'[s] \notin Holding
    BY <2>1 DEF BeginKeepsRows, Holding
  <2> QED
    BY <1>1, <1>2, <2>1, <2>2 DEF SessionFrame
<1>5. ASSUME NEW s \in Sessions, Proceed(s)
      PROVE  FilesInUseKept'
  <2>1. \A r \in Sessions \ {s} : pc'[r] = pc[r] /\ path'[r] = path[r]
    BY <1>1, <1>5, ProceedFrame DEF SessionFrame
  <2>2. CASE OpenReserved(s) \/ CreateFile(s)
    <3>1. path' = path /\ path'[s] \in disk' /\ disk \subseteq disk'
      BY <2>2 DEF OpenReserved, CreateFile
    <3> QED
      BY <2>1, <3>1 DEF FilesInUseKept
  <2>3. CASE \/ OpenFails(s) \/ ReleaseFails(s) \/ ReleaseCommit(s)
             \/ CreateFails(s) \/ UploadFails(s) \/ UploadUnrecorded(s)
             \/ OverwriteCommit(s) \/ OverwriteFails(s) \/ Rollback(s)
    <3>1. Leave(s) /\ UNCHANGED disk
      BY <2>3, Zenon
         DEF OpenFails, ReleaseFails, ReleaseCommit, CreateFails, UploadFails,
             UploadUnrecorded, OverwriteCommit, OverwriteFails, Rollback
    <3> QED
      BY <1>2, <2>1, <3>1, LeaveFrame DEF Holding
  <2>4. CASE FinishUpload(s)
    BY <1>2, <2>1, <2>4 DEF FinishUpload, Holding
  <2>5. CASE ReleaseBegin(s) \/ OverwriteBegin(s)
    <3>1. pc'[s] \notin Holding /\ UNCHANGED disk
      BY <1>1, <2>5 DEF TypeOK, ReleaseBegin, OverwriteBegin, Goto, Holding
    <3> QED
      BY <1>2, <2>1, <3>1
  <2>6. CASE DeleteFile(s)
    BY <1>1, <1>3, <2>6
  <2> QED
    BY <1>5, <2>2, <2>3, <2>4, <2>5, <2>6 DEF Proceed
<1>6. CASE DatabaseStep
  <2>1. UNCHANGED path /\ \A s \in Sessions : pc'[s] = pc[s]
    BY <1>6, DatabaseFrame
  <2>2. CASE DeleteFile(DB)
    BY <1>1, <1>3, <2>2
  <2>3. CASE UNCHANGED disk
    BY <1>2, <2>1, <2>3
  <2> QED
    BY <1>6, <2>2, <2>3
       DEF DatabaseStep, ClearCommit, PruneSelect, PruneCommit, PruneBusy,
           PruneFails, LeftOpenExpires
<1>7. CASE Boot \/ Stop \/ Cancel
  <2>1. /\ UNCHANGED <<path, disk>>
        /\ \A s \in Sessions : pc'[s] = pc[s]
    BY <1>7, DatabaseFrame DEF Boot, Stop, Cancel
  <2> QED
    BY <1>2, <2>1
<1>8. CASE Exit \/ Crash
  BY <1>2, <1>8, ProcessEndsFrame DEF Exit, Crash, Holding
<1> QED
  BY <1>4, <1>5, <1>6, <1>7, <1>8 DEF Next

-----------------------------------------------------------------------------
(* The invariant. *)

LEMMA StoreInit == Init => StoreInv
<1> SUFFICES ASSUME Init
             PROVE  StoreInv
  OBVIOUS
<1>1. TypeOK
  BY TypeInit
<1>2. /\ rows = [u \in {} |-> 0] /\ phase = "down"
      /\ \A s \in Sessions : pc[s] = "idle" /\ tx[s] = "none" /\ doomed[s] = {}
      /\ pc[DB] = "off" /\ tx[DB] = "none" /\ doomed[DB] = {}
  BY SessionsAssumption DEF Init, Workers
<1>3. PhasesOK /\ LocksOK /\ UploadsOK /\ FilesInUseKept
  BY <1>2 DEF PhasesOK, LocksOK, UploadsOK, Uploading, FilesInUseKept
<1>4. StampsOK /\ ConsumersCover
  BY <1>2 DEF StampsOK, ConsumersCover
<1>5. DoomedUnused
  BY <1>2 DEF DoomedUnused
<1> QED
  BY <1>1, <1>3, <1>4, <1>5 DEF StoreInv

LEMMA StoreStep == StoreInv /\ [Next]_vars => StoreInv'
<1> SUFFICES ASSUME StoreInv, [Next]_vars
             PROVE  StoreInv'
  OBVIOUS
<1>1. CASE Next
  <2>1. TypeOK'
    BY <1>1, TypeStep DEF StoreInv
  <2>2. PhasesOK' /\ LocksOK' /\ StampsOK' /\ UploadsOK'
    BY <1>1, PhasesStep, LocksStep, StampsStep, UploadsStep DEF StoreInv
  <2>3. ConsumersCover'
    BY <1>1, <2>1, CoverStep DEF StoreInv
  <2>4. DoomedUnused' /\ FilesInUseKept'
    BY <1>1, DoomedStep, FilesStep DEF StoreInv
  <2> QED
    BY <2>1, <2>2, <2>3, <2>4 DEF StoreInv
<1>2. CASE UNCHANGED vars
  BY <1>2
     DEF StoreInv, TypeOK, PhasesOK, LocksOK, StampsOK, UploadsOK,
         ConsumersCover, Downloading, DoomedUnused, FilesInUseKept, vars
<1> QED
  BY <1>1, <1>2

LEMMA StoreInvariant == Spec => []StoreInv
  BY StoreInit, StoreStep, PTL DEF Spec

(* However sessions, clean-ups, failures, stops and crashes interleave, the*)
(* file a download reads or an upload has not finished is never removed by *)
(* deleteFiles, whichever of its callers runs it.                          *)
THEOREM FilesInUse == Spec => []FilesInUseKept
<1>1. StoreInv => FilesInUseKept
  BY DEF StoreInv
<1> QED
  BY <1>1, StoreInvariant, PTL

(* The column consumers never counts fewer downloads than there are: leaks *)
(* and the loose comparison of ReserveStatementUpdate only make it greater.*)
THEOREM ConsumersCounted == Spec => []ConsumersCover
<1>1. StoreInv => ConsumersCover
  BY DEF StoreInv
<1> QED
  BY <1>1, StoreInvariant, PTL
=============================================================================
