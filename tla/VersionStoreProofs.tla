------------------------- MODULE VersionStoreProofs -------------------------
(***************************************************************************)
(* Proofs about VersionStore, for every number of sessions, names, faults  *)
(* and clock ticks.                                                        *)
(***************************************************************************)
EXTENDS VersionStoreProps, FiniteSetTheorems, WellFoundedInduction, TLAPS

-----------------------------------------------------------------------------
(* Lemmas about tables. *)

IsTable(T) == DOMAIN T \subseteq Stamps /\ \A u \in DOMAIN T : T[u] \in Row

LEMMA LeastNat ==
  ASSUME NEW S \in SUBSET Nat, S # {}
  PROVE  \E x \in S : \A y \in S : x <= y
<1>1. PICK x \in S : \A y \in S : <<y, x>> \notin OpToRel(<, Nat)
  BY NatLessThanWellFounded, WFMin, Zenon
<1>2. \A y \in S : ~(y < x)
  BY <1>1 DEF OpToRel
<1> QED
  BY <1>2

(* A name that has rows has a newest one, which Best chooses: the row the  *)
(* GROUP BY of every statement settles on.                                 *)
LEMMA BestIsNewest ==
  ASSUME NEW T, IsTable(T), NEW n, RowsOf(T, n) # {}
  PROVE  /\ Best(T, n) \in RowsOf(T, n)
         /\ \A v \in RowsOf(T, n) \ {Best(T, n)} : Newer(T, Best(T, n), v)
<1> DEFINE R == RowsOf(T, n)
           Age(u) == MaxClock - T[u].completed
           Ages == {Age(u) : u \in R}
<1>1. \A u \in R : u \in Nat /\ T[u].completed \in 0 .. MaxClock
  BY BoundsAssumption DEF IsTable, RowsOf, Stamps, Row
<1>2. PICK a \in Ages : \A b \in Ages : a <= b
  <2>1. Ages \in SUBSET Nat /\ Ages # {}
    BY <1>1, BoundsAssumption
  <2> QED
    BY <2>1, LeastNat
<1> DEFINE Top == {u \in R : Age(u) = a}
<1>3. PICK x \in Top : \A y \in Top : x <= y
  <2>1. Top \in SUBSET Nat /\ Top # {}
    BY <1>1, <1>2
  <2> QED
    BY <2>1, LeastNat
<1>4. \A v \in R \ {x} : Newer(T, x, v)
  <2> SUFFICES ASSUME NEW v \in R \ {x}
               PROVE  Newer(T, x, v)
    OBVIOUS
  <2>1. Age(x) = a /\ a <= Age(v)
    BY <1>2, <1>3
  <2>2. CASE v \in Top
    BY <2>1, <2>2, <1>1, <1>3, BoundsAssumption DEF Newer
  <2>3. CASE v \notin Top
    BY <2>1, <2>3, <1>1, <1>3, BoundsAssumption DEF Newer
  <2> QED
    BY <2>2, <2>3
<1>5. \E u \in R : \A v \in R \ {u} : Newer(T, u, v)
  BY <1>3, <1>4
<1> QED
  BY <1>5 DEF Best

LEMMA WithoutTable ==
  ASSUME NEW T, IsTable(T), NEW U
  PROVE  /\ IsTable(Without(T, U))
         /\ DOMAIN Without(T, U) = DOMAIN T \ U
         /\ \A u \in DOMAIN T \ U : Without(T, U)[u] = T[u]
BY DEF IsTable, Without, Restrict

LEMMA ConsumedTable ==
  ASSUME NEW T, IsTable(T), NEW n
  PROVE  /\ IsTable(Consumed(T, n))
         /\ DOMAIN Consumed(T, n) = DOMAIN T
         /\ \A u \in DOMAIN T :
              /\ Consumed(T, n)[u].name = T[u].name
              /\ Consumed(T, n)[u].completed = T[u].completed
              /\ Consumed(T, n)[u].consumers \in {T[u].consumers, T[u].consumers + 1}
         /\ \A u \in RowsOf(T, n) :
              SameCounts(T, u, Best(T, n)) =>
                Consumed(T, n)[u].consumers = T[u].consumers + 1
BY DEF IsTable, Consumed, Row, RowsOf

LEMMA UnconsumedTable ==
  ASSUME NEW T, IsTable(T), NEW p
  PROVE  /\ IsTable(Unconsumed(T, p))
         /\ DOMAIN Unconsumed(T, p) = DOMAIN T
         /\ \A u \in DOMAIN T :
              /\ Unconsumed(T, p)[u].name = T[u].name
              /\ Unconsumed(T, p)[u].completed = T[u].completed
              /\ p # <<T[u].name, u>> => Unconsumed(T, p)[u] = T[u]
              /\ Unconsumed(T, p)[u].consumers >= T[u].consumers - 1
BY DEF IsTable, Unconsumed, IsRow, Row

LEMMA CompletedTable ==
  ASSUME NEW T, IsTable(T), NEW p, NEW t \in 0 .. MaxClock
  PROVE  /\ IsTable(Completed(T, p, t))
         /\ DOMAIN Completed(T, p, t) = DOMAIN T
         /\ \A u \in DOMAIN T :
              /\ Completed(T, p, t)[u].name = T[u].name
              /\ Completed(T, p, t)[u].consumers = T[u].consumers
              /\ Completed(T, p, t)[u].completed =
                   IF p = <<T[u].name, u>> THEN t ELSE T[u].completed
              /\ p # <<T[u].name, u>> => Completed(T, p, t)[u] = T[u]
BY DEF IsTable, Completed, IsRow, Row

LEMMA InsertedTable ==
  ASSUME NEW T, IsTable(T), NEW n \in Names, NEW t \in Stamps
  PROVE  /\ IsTable(Inserted(T, n, t))
         /\ DOMAIN Inserted(T, n, t) = DOMAIN T \cup {t}
         /\ \A u \in DOMAIN T : u # t => Inserted(T, n, t)[u] = T[u]
         /\ Inserted(T, n, t)[t] = [name |-> n, completed |-> 0, consumers |-> 0]
<1>1. [name |-> n, completed |-> 0, consumers |-> 0] \in Row
  BY BoundsAssumption DEF Row
<1> QED
  BY <1>1 DEF IsTable, Inserted

LEMMA PathsType ==
  ASSUME NEW T, IsTable(T), NEW U, U \subseteq DOMAIN T
  PROVE  Paths(T, U) \subseteq Versions
BY DEF IsTable, Paths, Versions, Row

LEMMA OutOfDateRows ==
  ASSUME NEW T
  PROVE  /\ \A n : OutOfDate(T, n) \subseteq RowsOf(T, n)
         /\ \A n : RowsOf(T, n) \subseteq DOMAIN T
         /\ AllOutOfDate(T) \subseteq DOMAIN T
BY DEF OutOfDate, RowsOf, AllOutOfDate

-----------------------------------------------------------------------------
(* Type correctness. *)

(* The parts of TypeOK that speak of the workers. *)
WorkersOK ==
  /\ pc \in [Workers -> SessionPcs \cup DatabasePcs]
  /\ pc[DB] \in DatabasePcs
  /\ \A s \in Sessions : pc[s] \in SessionPcs
  /\ tx \in [Workers -> {"none", "shared", "reserved"}]
  /\ path \in [Sessions -> Versions \cup {NoPath}]
  /\ \A s \in Sessions : pc[s] # "idle" => path[s] \in Versions
  /\ stamp \in [Sessions -> 0 .. MaxClock]
  /\ doomed \in [Workers -> SUBSET Versions]

LEMMA TypeParts ==
  TypeOK <=> /\ IsTable(rows) /\ WorkersOK
             /\ disk \subseteq Versions
             /\ clock \in 0 .. MaxClock
             /\ phase \in {"down", "starting", "running", "accepted", "stopping"}
             /\ faults \in 0 .. MaxFaults
BY Zenon DEF TypeOK, WorkersOK, IsTable

LEMMA TypePartsPrimed ==
  TypeOK' <=> /\ IsTable(rows') /\ WorkersOK'
              /\ disk' \subseteq Versions
              /\ clock' \in 0 .. MaxClock
              /\ phase' \in {"down", "starting", "running", "accepted", "stopping"}
              /\ faults' \in 0 .. MaxFaults
BY Zenon DEF TypeOK, WorkersOK, IsTable

LEMMA FaultType ==
  ASSUME faults \in 0 .. MaxFaults, NEW kind, UNCHANGED faults \/ Fault(kind)
  PROVE  faults' \in 0 .. MaxFaults
BY BoundsAssumption DEF Fault

LEMMA LeaveType ==
  ASSUME WorkersOK, NEW s \in Sessions, Leave(s)
  PROVE  WorkersOK'
<1>1. s # DB /\ s \in Workers /\ DB \in Workers
  BY SessionsAssumption DEF Workers
<1>2. 0 \in 0 .. MaxClock
  BY BoundsAssumption
<1> QED
  BY <1>1, <1>2 DEF WorkersOK, Leave, SessionPcs, NoPath

(* A session goes on with its version, another lock and other files to     *)
(* remove.                                                                 *)
LEMMA GotoType ==
  ASSUME WorkersOK, NEW s \in Sessions, NEW l \in SessionPcs, Goto(s, l),
         tx' \in [Workers -> {"none", "shared", "reserved"}],
         path' \in [Sessions -> Versions \cup {NoPath}],
         path'[s] \in Versions,
         \A r \in Sessions \ {s} : path'[r] = path[r],
         stamp' \in [Sessions -> 0 .. MaxClock],
         doomed' \in [Workers -> SUBSET Versions]
  PROVE  WorkersOK'
<1>1. s # DB /\ s \in Workers /\ DB \in Workers /\ Sessions \subseteq Workers
  BY SessionsAssumption DEF Workers
<1>2. /\ pc' \in [Workers -> SessionPcs \cup DatabasePcs]
      /\ pc'[DB] \in DatabasePcs
      /\ \A r \in Sessions : pc'[r] \in SessionPcs
      /\ \A r \in Sessions \ {s} : pc'[r] = pc[r]
  BY <1>1 DEF WorkersOK, Goto
<1>3. \A r \in Sessions : pc'[r] # "idle" => path'[r] \in Versions
  BY <1>2 DEF WorkersOK
<1> QED
  BY <1>2, <1>3 DEF WorkersOK

LEMMA DatabaseTxType ==
  ASSUME WorkersOK, NEW lock \in {"none", "shared"}, NEW l \in DatabasePcs,
         NEW P, P \subseteq Versions, DatabaseTx(lock, l, P),
         UNCHANGED <<path, stamp>>
  PROVE  WorkersOK'
<1>1. DB \in Workers /\ DB \notin Sessions
  BY SessionsAssumption DEF Workers
<1> QED
  BY <1>1 DEF WorkersOK, DatabaseTx, Goto

LEMMA ProcessEndsType ==
  ASSUME ProcessEnds
  PROVE  WorkersOK'
<1>1. DB \notin Sessions /\ 0 \in 0 .. MaxClock
  BY SessionsAssumption, BoundsAssumption
<1> QED
  BY <1>1 DEF ProcessEnds, WorkersOK, Workers, SessionPcs, DatabasePcs, NoPath

LEMMA TypeInit == Init => TypeOK
<1> SUFFICES ASSUME Init PROVE TypeOK
  OBVIOUS
<1>1. DB \notin Sessions /\ 0 \in 0 .. MaxClock /\ 0 \in 0 .. MaxFaults
  BY SessionsAssumption, BoundsAssumption
<1>2. IsTable(rows)
  BY DEF Init, IsTable
<1>3. WorkersOK
  BY <1>1 DEF Init, WorkersOK, Workers, SessionPcs, DatabasePcs, NoPath
<1> QED
  BY <1>1, <1>2, <1>3, TypeParts, TypePartsPrimed DEF Init

(* The version a session with a path works on, and the views its           *)
(* transactions have of the table.                                         *)
LEMMA ViewType ==
  ASSUME TypeOK, NEW s \in Sessions, pc[s] # "idle"
  PROVE  /\ path[s] \in Versions
         /\ path[s] = <<path[s][1], path[s][2]>>
         /\ IsTable(ReleaseView(s)) /\ IsTable(OverwriteView(s))
<1>1. path[s] \in Versions /\ stamp[s] \in 0 .. MaxClock /\ IsTable(rows)
  BY TypeParts DEF WorkersOK
<1> QED
  BY <1>1, UnconsumedTable, CompletedTable
     DEF ReleaseView, OverwriteView, Versions

LEMMA BeginType ==
  ASSUME TypeOK, NEW s \in Sessions, Begin(s)
  PROVE  TypeOK'
<1> PICK n \in Names : Reserve(s, n) \/ Prepare(s, n)
  BY DEF Begin
<1>1. IsTable(rows) /\ WorkersOK
  BY TypeParts
<1>2. CASE Reserve(s, n)
  <2>1. Best(rows, n) \in DOMAIN rows
    BY <1>1, <1>2, BestIsNewest DEF Reserve, RowsOf
  <2>2. <<n, Best(rows, n)>> \in Versions
    BY <1>1, <2>1 DEF IsTable, Versions
  <2>3. IsTable(rows')
    BY <1>1, <1>2, ConsumedTable DEF Reserve
  <2>4. WorkersOK'
    BY <1>1, <1>2, <2>2, GotoType DEF Reserve, WorkersOK, SessionPcs
  <2> QED
    BY <1>2, <2>3, <2>4, TypeParts, TypePartsPrimed DEF Reserve
<1>3. CASE Prepare(s, n)
  <2>1. clock' \in Stamps /\ clock' \in 0 .. MaxClock
    BY <1>3, BoundsAssumption, TypeParts DEF Prepare, Stamps
  <2>2. <<n, clock'>> \in Versions
    BY <2>1 DEF Versions
  <2>3. IsTable(rows')
    BY <1>1, <1>3, <2>1, InsertedTable DEF Prepare
  <2>4. WorkersOK'
    BY <1>1, <1>3, <2>2, GotoType DEF Prepare, WorkersOK, SessionPcs
  <2> QED
    BY <1>3, <2>1, <2>3, <2>4, TypeParts, TypePartsPrimed DEF Prepare
<1> QED
  BY <1>2, <1>3

(* The steps of a session that only leave, and keep the table or take rows *)
(* out of it.                                                              *)
LEMMA LeavingType ==
  ASSUME TypeOK, NEW s \in Sessions, Leave(s),
         IsTable(rows'), UNCHANGED <<disk, clock, phase>>,
         faults' \in 0 .. MaxFaults
  PROVE  TypeOK'
BY LeaveType, TypeParts, TypePartsPrimed

LEMMA DeleteFileType ==
  ASSUME TypeOK, NEW w \in Workers, DeleteFile(w)
  PROVE  TypeOK'
<1>1. /\ disk' \subseteq disk
      /\ doomed' \in [Workers -> SUBSET Versions]
  BY TypeParts DEF DeleteFile, WorkersOK
<1>2. WorkersOK'
  BY <1>1, TypeParts DEF DeleteFile, WorkersOK
<1> QED
  BY <1>1, <1>2, TypeParts, TypePartsPrimed DEF DeleteFile

LEMMA ProceedType ==
  ASSUME TypeOK, NEW s \in Sessions, Proceed(s)
  PROVE  TypeOK'
<1>1. /\ IsTable(rows) /\ WorkersOK /\ faults \in 0 .. MaxFaults
      /\ disk \subseteq Versions /\ clock \in 0 .. MaxClock
  BY TypeParts
<1>2. s \in Workers
  BY DEF Workers
<1>3. CASE OpenReserved(s)
  <2>1. WorkersOK'
    BY <1>1, <1>3, GotoType, ViewType DEF OpenReserved, WorkersOK, SessionPcs
  <2> QED
    BY <1>3, <2>1, TypeParts, TypePartsPrimed DEF OpenReserved
<1>4. CASE OpenFails(s) \/ CreateFails(s)
  BY <1>1, <1>4, FaultType, LeavingType DEF OpenFails, CreateFails
<1>5. CASE ReleaseFails(s) \/ OverwriteFails(s)
  BY <1>1, <1>5, FaultType, LeavingType
     DEF ReleaseFails, OverwriteFails, CannotWrite
<1>6. CASE UploadUnrecorded(s) \/ Rollback(s)
  BY <1>1, <1>6, FaultType, LeavingType DEF UploadUnrecorded, Rollback
<1>7. CASE ReleaseCommit(s)
  <2>1. IsTable(rows')
    BY <1>7, ViewType, WithoutTable DEF ReleaseCommit
  <2> QED
    BY <1>1, <1>7, <2>1, LeavingType DEF ReleaseCommit
<1>8. CASE OverwriteCommit(s)
  <2>1. IsTable(rows')
    BY <1>8, ViewType, WithoutTable DEF OverwriteCommit
  <2> QED
    BY <1>1, <1>8, <2>1, LeavingType DEF OverwriteCommit
<1>9. CASE UploadFails(s)
  <2>1. IsTable(rows')
    BY <1>1, <1>9, WithoutTable DEF UploadFails
  <2> QED
    BY <1>1, <1>9, <2>1, LeavingType DEF UploadFails
<1>10. CASE ReleaseBegin(s)
  <2> DEFINE T == ReleaseView(s)
             P == Paths(T, OutOfDate(T, path[s][1]))
  <2>1. P \subseteq Versions
    BY <1>10, ViewType, OutOfDateRows, PathsType DEF ReleaseBegin
  <2>2. /\ tx' \in [Workers -> {"none", "shared", "reserved"}]
        /\ doomed' \in [Workers -> SUBSET Versions]
    BY <1>1, <1>2, <1>10, <2>1 DEF ReleaseBegin, WorkersOK
  <2>3. WorkersOK'
    BY <1>1, <1>10, <2>2, GotoType, ViewType
       DEF ReleaseBegin, WorkersOK, SessionPcs
  <2> QED
    BY <1>1, <1>10, <2>3, TypeParts, TypePartsPrimed DEF ReleaseBegin
<1>11. CASE OverwriteBegin(s)
  <2> DEFINE T == OverwriteView(s)
             P == Paths(T, OutOfDate(T, path[s][1]))
  <2>1. P \subseteq Versions
    BY <1>11, ViewType, OutOfDateRows, PathsType DEF OverwriteBegin
  <2>2. /\ tx' \in [Workers -> {"none", "shared", "reserved"}]
        /\ doomed' \in [Workers -> SUBSET Versions]
    BY <1>1, <1>2, <1>11, <2>1 DEF OverwriteBegin, WorkersOK
  <2>3. WorkersOK'
    BY <1>1, <1>11, <2>2, GotoType, ViewType
       DEF OverwriteBegin, WorkersOK, SessionPcs
  <2> QED
    BY <1>1, <1>11, <2>3, TypeParts, TypePartsPrimed DEF OverwriteBegin
<1>12. CASE CreateFile(s)
  <2>1. WorkersOK' /\ disk' \subseteq Versions
    BY <1>1, <1>12, GotoType, ViewType DEF CreateFile, WorkersOK, SessionPcs
  <2> QED
    BY <1>1, <1>12, <2>1, TypeParts, TypePartsPrimed DEF CreateFile
<1>13. CASE FinishUpload(s)
  <2>1. PICK t \in {clock, clock + 1} :
          t <= MaxClock /\ clock' = t /\ stamp' = [stamp EXCEPT ![s] = t]
    BY <1>13 DEF FinishUpload
  <2>2. t \in 0 .. MaxClock
    BY <1>1, <2>1, BoundsAssumption
  <2>3. stamp' \in [Sessions -> 0 .. MaxClock]
    BY <1>1, <2>1, <2>2 DEF WorkersOK
  <2>4. WorkersOK'
    BY <1>1, <1>13, <2>3, GotoType, ViewType
       DEF FinishUpload, WorkersOK, SessionPcs
  <2> QED
    BY <1>1, <1>13, <2>1, <2>2, <2>4, TypeParts, TypePartsPrimed DEF FinishUpload
<1>14. CASE DeleteFile(s)
  BY <1>2, <1>14, DeleteFileType
<1> QED
  BY <1>3, <1>4, <1>5, <1>6, <1>7, <1>8, <1>9, <1>10, <1>11, <1>12, <1>13,
     <1>14 DEF Proceed

LEMMA DatabaseStepType ==
  ASSUME TypeOK, DatabaseStep
  PROVE  TypeOK'
<1>1. /\ IsTable(rows) /\ WorkersOK /\ faults \in 0 .. MaxFaults
      /\ phase \in {"down", "starting", "running", "accepted", "stopping"}
  BY TypeParts
<1>2. DB \in Workers
  BY DEF Workers
<1>3. CASE DeleteFile(DB)
  BY <1>2, <1>3, DeleteFileType
<1>4. CASE ClearCommit
  <2>1. IsTable(rows')
    BY <1>1, <1>4 DEF ClearCommit, IsTable, Row
  <2>2. WorkersOK'
    BY <1>1, <1>4, DatabaseTxType DEF ClearCommit, DatabasePcs
  <2> QED
    BY <1>1, <1>4, <2>1, <2>2, TypeParts, TypePartsPrimed DEF ClearCommit
<1>5. CASE PruneSelect
  <2>1. Paths(rows, AllOutOfDate(rows)) \subseteq Versions
    BY <1>1, OutOfDateRows, PathsType
  <2>2. WorkersOK'
    BY <1>1, <1>5, <2>1, DatabaseTxType DEF PruneSelect, DatabasePcs
  <2> QED
    BY <1>1, <1>5, <2>2, TypeParts, TypePartsPrimed DEF PruneSelect
<1>6. CASE PruneCommit
  <2>1. IsTable(rows')
    BY <1>1, <1>6, WithoutTable DEF PruneCommit
  <2>2. WorkersOK'
    BY <1>1, <1>6, DatabaseTxType DEF PruneCommit, DatabasePcs
  <2>3. phase' \in {phase, "running"}
    BY <1>6 DEF PruneCommit
  <2> QED
    BY <1>1, <1>6, <2>1, <2>2, <2>3, TypeParts, TypePartsPrimed DEF PruneCommit
<1>7. CASE PruneBusy \/ LeftOpenExpires
  <2>1. WorkersOK'
    BY <1>1, <1>7, DatabaseTxType DEF PruneBusy, LeftOpenExpires, DatabasePcs
  <2> QED
    BY <1>1, <1>7, <2>1, TypeParts, TypePartsPrimed DEF PruneBusy, LeftOpenExpires
<1>8. CASE PruneFails
  <2>1. WorkersOK'
    BY <1>1, <1>8, DatabaseTxType DEF PruneFails, DatabasePcs
  <2> QED
    BY <1>1, <1>8, <2>1, FaultType, TypeParts, TypePartsPrimed DEF PruneFails
<1> QED
  BY <1>3, <1>4, <1>5, <1>6, <1>7, <1>8 DEF DatabaseStep

LEMMA ProcessType ==
  ASSUME TypeOK, Boot \/ Stop \/ Cancel \/ Exit \/ Crash
  PROVE  TypeOK'
<1>1. /\ IsTable(rows) /\ WorkersOK /\ faults \in 0 .. MaxFaults
  BY TypeParts
<1>2. CASE Boot
  <2>1. Paths(rows, {u \in DOMAIN rows : rows[u].completed = 0})
          \subseteq Versions
    BY <1>1, PathsType
  <2>2. WorkersOK'
    BY <1>1, <1>2, <2>1, DatabaseTxType DEF Boot, DatabasePcs
  <2> QED
    BY <1>1, <1>2, <2>2, TypeParts, TypePartsPrimed DEF Boot
<1>3. CASE Stop \/ Cancel
  <2>1. WorkersOK'
    BY <1>1, <1>3 DEF Stop, Cancel, WorkersOK
  <2> QED
    BY <1>1, <1>3, <2>1, FaultType, TypeParts, TypePartsPrimed DEF Stop, Cancel
<1>4. CASE Exit \/ Crash
  <2>1. WorkersOK'
    BY <1>4, ProcessEndsType DEF Exit, Crash
  <2>2. /\ phase' = "down" /\ UNCHANGED <<rows, disk, clock>>
        /\ faults' \in 0 .. MaxFaults
    BY <1>1, <1>4, FaultType DEF Exit, Crash, ProcessEnds
  <2> QED
    BY <2>1, <2>2, TypeParts, TypePartsPrimed
<1> QED
  BY <1>2, <1>3, <1>4

LEMMA TypeStep == TypeOK /\ [Next]_vars => TypeOK'
<1> SUFFICES ASSUME TypeOK, [Next]_vars PROVE TypeOK'
  OBVIOUS
<1>1. CASE UNCHANGED vars
  BY <1>1 DEF vars, TypeOK
<1>2. CASE Next
  BY <1>2, BeginType, ProceedType, DatabaseStepType, ProcessType DEF Next
<1> QED
  BY <1>1, <1>2

(* Type correctness of the version store.                                  *)
THEOREM TypeCorrect == Spec => []TypeOK
BY TypeInit, TypeStep, PTL DEF Spec
=============================================================================
