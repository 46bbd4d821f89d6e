-------------------------- MODULE SupervisorProofs --------------------------
(***************************************************************************)
(* Proofs about Supervisor, for every number of sessions, every capacity   *)
(* of Log and every choice of what may fail: main closes Log after the     *)
(* server and database routines have written to it, and nobody waits to    *)
(* send a signal.                                                          *)
(***************************************************************************)
EXTENDS Supervisor, TLAPS

-----------------------------------------------------------------------------
(* The inductive invariant. *)

(* Where a child has not yet told main anything.                           *)
Silent == {"starting", "serving", "ready", "polling", "listening", "failing"}

(* A child tells main one thing in its life: a plea or an acceptance.      *)
UpInv ==
  \A c \in Children :
    Len(up[c]) <= 1 /\ (pc[c] \in Silent => up[c] = <<>>)

(* main signals a child once.                                              *)
DownInv ==
  /\ main = Waiting => \A c \in Children : down[c] = <<>>
  /\ \A c \in Children :
       /\ Len(down[c]) <= 1
       /\ \A i \in 1 .. Len(main) : main[i] = <<"signal", c>> =>
            down[c] = <<>> /\ \A j \in 1 .. i - 1 : main[j] # main[i]

(* A routine that logs only while it starts has started before Log is      *)
(* closed: it has told main so, or main still waits to hear it first.      *)
LogInv ==
  \A c \in {"server", "database"} :
    /\ ~logOpen => pc[c] # "starting"
    /\ \A i \in 1 .. Len(main) : main[i] = <<"close", "log">> =>
         \/ pc[c] # "starting"
         \/ \E j \in 1 .. i - 1 : main[j] = <<"await", c>>

SupervisorInv ==
  TypeOK /\ UpInv /\ DownInv /\ LogInv /\ RoutinesDoneWithLog

LEMMA InitInv == Init => SupervisorInv
<1> SUFFICES ASSUME Init PROVE SupervisorInv
  OBVIOUS
<1>1. /\ main = Waiting /\ log = 0 /\ logOpen = TRUE /\ ended = "no"
      /\ \A c \in Children : up[c] = <<>> /\ down[c] = <<>> /\ pc[c] = "starting"
  BY DEF Init
<1>2. TypeOK
  <2>1. /\ up \in [Children -> Seq({"terminate"})]
        /\ down \in [Children -> Seq({"terminate"})]
    BY DEF Init
  <2>2. pc \in [Children ->
          {"starting", "serving", "draining", "ready", "cleaning",
           "polling", "listening", "failing", "pleading", "returned"}]
    BY DEF Init
  <2>3. session \in
          [Sessions -> {"none", "beginning", "transferring", "ending", "over"}]
    BY DEF Init
  <2>4. log \in 0 .. LogCapacity
    BY <1>1, SupervisorAssumption
  <2>5. logOpen \in BOOLEAN
    BY <1>1
  <2>6. ended \in {"no", "exited", "server", "database", "session"}
    BY <1>1
  <2> QED
    BY <1>1, <2>1, <2>2, <2>3, <2>4, <2>5, <2>6, Zenon DEF TypeOK
<1>3. UpInv
  BY <1>1 DEF UpInv
<1>4. Len(main) = 1 /\ main[1] = <<"select", "select">>
  BY <1>1 DEF Waiting
<1>5. DownInv
  BY <1>1, <1>4 DEF DownInv
<1>6. LogInv
  BY <1>1, <1>4 DEF LogInv
<1>7. RoutinesDoneWithLog
  BY <1>1 DEF RoutinesDoneWithLog
<1> QED
  BY <1>2, <1>3, <1>5, <1>6, <1>7 DEF SupervisorInv

-----------------------------------------------------------------------------
(* Channels. *)

IsChannels(ch) == ch \in [Children -> Seq({"terminate"})]

LEMMA TailOfOne ==
  ASSUME NEW s \in Seq({"terminate"}), Len(s) <= 1, s # <<>>
  PROVE  Tail(s) = <<>>
<1>1. Len(s) = 1
  <2>1. Len(s) = 0 => s = <<>>
    OBVIOUS
  <2>2. Len(s) # 0
    BY <2>1, Zenon
  <2>3. Len(s) \in Nat
    OBVIOUS
  <2>4. \A n \in Nat : n <= 1 /\ n # 0 => n = 1
    OBVIOUS
  <2> QED
    BY <2>2, <2>3, <2>4, Zenon
<1>2. Tail(s) \in Seq({"terminate"}) /\ Len(Tail(s)) = 0
  BY <1>1
<1> QED
  BY <1>2

-----------------------------------------------------------------------------
(* The steps of a child.  It stays silent, or speaks and is not silent any *)
(* more; it may take a signal meanwhile.                                   *)

States == {"starting", "serving", "draining", "ready", "cleaning",
           "polling", "listening", "failing", "pleading", "returned"}

LEMMA ChildStep ==
  ASSUME SupervisorInv, NEW c \in Children, NEW to \in States \ {"starting"},
         pc' = [pc EXCEPT ![c] = to],
         UNCHANGED <<main, session, logOpen>>,
         \/ UNCHANGED up /\ (to \in Silent => pc[c] \in Silent)
         \/ Send(up, c) /\ pc[c] \in Silent /\ to \notin Silent,
         UNCHANGED down \/ Take(down, c),
         log' \in 0 .. LogCapacity,
         ended' \in {"no", "exited", "session"}
  PROVE  SupervisorInv'
<1>1. /\ IsChannels(up) /\ IsChannels(down)
      /\ pc \in [Children -> States]
      /\ Len(down[c]) <= 1 /\ Len(up[c]) <= 1 /\ (pc[c] \in Silent => up[c] = <<>>)
  BY DEF SupervisorInv, TypeOK, IsChannels, States, UpInv, DownInv
<1>2. /\ pc' \in [Children -> States] /\ pc'[c] = to
      /\ \A d \in Children : d # c => pc'[d] = pc[d]
  BY <1>1
<1>3. /\ IsChannels(up') /\ Len(up'[c]) <= 1 /\ (to \in Silent => up'[c] = <<>>)
      /\ \A d \in Children : d # c => up'[d] = up[d]
  <2>1. CASE UNCHANGED up /\ (to \in Silent => pc[c] \in Silent)
    BY <1>1, <2>1
  <2>2. CASE Send(up, c) /\ pc[c] \in Silent /\ to \notin Silent
    <3>1. up' = [up EXCEPT ![c] = <<"terminate">>]
      BY <1>1, <2>2 DEF Send, IsChannels
    <3> QED
      BY <1>1, <2>2, <3>1 DEF IsChannels
  <2> QED
    BY <2>1, <2>2
<1>4. /\ IsChannels(down') /\ Len(down'[c]) <= 1
      /\ down[c] = <<>> => down'[c] = <<>>
      /\ \A d \in Children : d # c => down'[d] = down[d]
  <2>1. CASE UNCHANGED down
    BY <1>1, <2>1
  <2>2. CASE Take(down, c)
    <3>1. down' = [down EXCEPT ![c] = <<>>]
      BY <1>1, <2>2, TailOfOne DEF Take, IsChannels
    <3> QED
      BY <1>1, <3>1 DEF IsChannels
  <2> QED
    BY <2>1, <2>2
<1>5. TypeOK'
  BY <1>2, <1>3, <1>4 DEF SupervisorInv, TypeOK, IsChannels, States
<1>6. UpInv'
  BY <1>2, <1>3 DEF SupervisorInv, UpInv
<1>7. DownInv'
  BY <1>4 DEF SupervisorInv, DownInv
<1>8. LogInv'
  BY <1>1, <1>2 DEF SupervisorInv, LogInv, Children
<1>9. RoutinesDoneWithLog'
  BY DEF RoutinesDoneWithLog
<1> QED
  BY <1>5, <1>6, <1>7, <1>8, <1>9 DEF SupervisorInv

(* A step that signals nothing and moves neither main nor a child.         *)
LEMMA EventStep ==
  ASSUME SupervisorInv, UNCHANGED <<main, up, down, pc, logOpen>>,
         session' \in
           [Sessions -> {"none", "beginning", "transferring", "ending", "over"}],
         log' \in 0 .. LogCapacity,
         ended' \in {"no", "exited", "session"}
  PROVE  SupervisorInv'
<1>1. TypeOK'
  BY DEF SupervisorInv, TypeOK
<1>2. UpInv'
  BY DEF SupervisorInv, UpInv
<1>3. DownInv'
  BY DEF SupervisorInv, DownInv
<1>4. LogInv'
  BY DEF SupervisorInv, LogInv
<1>5. RoutinesDoneWithLog'
  BY DEF RoutinesDoneWithLog
<1> QED
  BY <1>1, <1>2, <1>3, <1>4, <1>5 DEF SupervisorInv

(* A routine that has not started yet finds Log open.                      *)
LEMMA StartingLogs ==
  ASSUME SupervisorInv, NEW who \in {"server", "database"}, Logs(who),
         pc[who] = "starting"
  PROVE  log' \in 0 .. LogCapacity /\ UNCHANGED ended
<1>1. log \in 0 .. LogCapacity
  BY DEF SupervisorInv, TypeOK
<1>2. logOpen
  BY DEF SupervisorInv, LogInv, TypeOK
<1> QED
  BY <1>1, <1>2, SupervisorAssumption DEF Logs

LEMMA RunningEnded ==
  ASSUME SupervisorInv, Running
  PROVE  /\ ended \in {"no", "exited", "session"} /\ log \in 0 .. LogCapacity
         /\ ended = "no"
BY DEF SupervisorInv, TypeOK, Running

LEMMA PleaSteps ==
  ASSUME SupervisorInv, NEW c \in Children, ChildPleads(c) \/ PleaAnswered(c)
  PROVE  SupervisorInv'
<1>1. CASE ChildPleads(c)
  BY <1>1, ChildStep, RunningEnded DEF ChildPleads, Child, Silent, States
<1>2. CASE PleaAnswered(c)
  BY <1>2, ChildStep, RunningEnded DEF PleaAnswered, Child, Silent, States
<1> QED
  BY <1>1, <1>2

LEMMA ServerSteps ==
  ASSUME SupervisorInv,
         ServerStarts \/ ServerAccepts \/ ServerReturns \/ ServerReadFails
  PROVE  SupervisorInv'
<1>0. "server" \in Children
  BY DEF Children
<1>1. CASE ServerStarts
  <2>1. /\ Running /\ pc["server"] = "starting" /\ Logs("server")
        /\ \E to \in {"serving", "failing"} : pc' = [pc EXCEPT !["server"] = to]
        /\ UNCHANGED <<main, up, down, session, logOpen>>
    BY <1>1 DEF ServerStarts, Child
  <2>2. log' \in 0 .. LogCapacity /\ ended' = "no"
    BY <2>1, StartingLogs, RunningEnded
  <2> QED
    BY <1>0, <2>1, <2>2, ChildStep DEF Silent, States
<1>2. CASE ServerAccepts
  BY <1>0, <1>2, ChildStep, RunningEnded DEF ServerAccepts, Child, Silent, States
<1>3. CASE ServerReturns
  BY <1>0, <1>3, ChildStep, RunningEnded DEF ServerReturns, Child, Silent, States
<1>4. CASE ServerReadFails
  BY <1>0, <1>4, ChildStep, RunningEnded DEF ServerReadFails, Child, Silent, States
<1> QED
  BY <1>1, <1>2, <1>3, <1>4

LEMMA DatabaseSteps ==
  ASSUME SupervisorInv, Database
  PROVE  SupervisorInv'
<1>0. "database" \in Children
  BY DEF Children
<1>1. CASE DatabaseStarts
  <2>1. /\ Running /\ pc["database"] = "starting" /\ Logs("database")
        /\ pc' = [pc EXCEPT !["database"] = "ready"]
        /\ UNCHANGED <<main, up, down, session, logOpen>>
    BY <1>1 DEF DatabaseStarts, Child
  <2>2. log' \in 0 .. LogCapacity /\ ended' = "no"
    BY <2>1, StartingLogs, RunningEnded
  <2> QED
    BY <1>0, <2>1, <2>2, ChildStep DEF Silent, States
<1>2. CASE DatabaseAccepts
  BY <1>0, <1>2, ChildStep, RunningEnded DEF DatabaseAccepts, Child, Silent, States
<1>3. CASE DatabaseReturns
  BY <1>0, <1>3, ChildStep, RunningEnded DEF DatabaseReturns, Child, Silent, States
<1> QED
  BY <1>1, <1>2, <1>3 DEF Database

LEMMA LoggerSteps ==
  ASSUME SupervisorInv,
         LoggerStarts \/ LoggerWrites \/ LoggerFindsEmpty \/ LoggerListens
  PROVE  SupervisorInv'
<1>0. "logger" \in Children
  BY DEF Children
<1>1. CASE LoggerStarts
  BY <1>0, <1>1, ChildStep, RunningEnded DEF LoggerStarts, Child, Silent, States
<1>2. CASE LoggerWrites
  <2>1. log' \in 0 .. LogCapacity /\ UNCHANGED <<main, up, down, pc, session, logOpen, ended>>
    BY <1>2, RunningEnded, SupervisorAssumption DEF LoggerWrites
  <2> QED
    BY <1>2, <2>1, RunningEnded, EventStep DEF LoggerWrites, SupervisorInv, TypeOK
<1>3. CASE LoggerFindsEmpty
  <2>1. \E to \in {"listening", "failing"} : pc' = [pc EXCEPT !["logger"] = to]
    BY <1>3 DEF LoggerFindsEmpty, Child
  <2> QED
    BY <1>0, <1>3, <2>1, ChildStep, RunningEnded
    DEF LoggerFindsEmpty, Child, Silent, States
<1>4. CASE LoggerListens
  <2>1. /\ Running /\ UNCHANGED <<main, session, log, logOpen, ended>>
        /\ pc["logger"] = "listening"
    BY <1>4 DEF LoggerListens, Child
  <2>2. CASE down["logger"] # <<>>
    <3>1. /\ Take(down, "logger") /\ Send(up, "logger")
          /\ pc' = [pc EXCEPT !["logger"] = "returned"]
      BY <1>4, <2>2 DEF LoggerListens, Child
    <3> QED
      BY <1>0, <2>1, <3>1, ChildStep, RunningEnded DEF Silent, States
  <2>3. CASE down["logger"] = <<>>
    <3>1. UNCHANGED <<up, down>> /\ pc' = [pc EXCEPT !["logger"] = "polling"]
      BY <1>4, <2>3 DEF LoggerListens, Child
    <3> QED
      BY <1>0, <2>1, <3>1, ChildStep, RunningEnded DEF Silent, States
  <2> QED
    BY <2>2, <2>3
<1> QED
  BY <1>1, <1>2, <1>3, <1>4

LEMMA SessionSteps ==
  ASSUME SupervisorInv, NEW s \in Sessions, ServerSpawns(s) \/ SessionStep(s)
  PROVE  SupervisorInv'
<1>1. UNCHANGED <<main, up, down, pc, logOpen>>
  BY DEF ServerSpawns, SessionStep
<1>2. session' \in
        [Sessions -> {"none", "beginning", "transferring", "ending", "over"}]
  BY DEF SupervisorInv, TypeOK, ServerSpawns, SessionStep
<1>3. log' \in 0 .. LogCapacity /\ ended' \in {"no", "session"}
  BY RunningEnded, SupervisorAssumption DEF ServerSpawns, SessionStep, Logs
<1> QED
  BY <1>1, <1>2, <1>3, EventStep

-----------------------------------------------------------------------------
(* The steps of main. *)

LEMMA PlanIsGood ==
  ASSUME NEW cause \in {"interrupt", "logger", "server"}
  PROVE  /\ Plan(cause) # Waiting /\ Plan(cause) \in Seq(Statements)
         /\ \A c \in Children : \A i \in 1 .. Len(Plan(cause)) :
              Plan(cause)[i] = <<"signal", c>> =>
                \A j \in 1 .. i - 1 : Plan(cause)[j] # Plan(cause)[i]
         /\ \A c \in {"server", "database"} : \A i \in 1 .. Len(Plan(cause)) :
              Plan(cause)[i] = <<"close", "log">> =>
                \/ c = cause
                \/ \E j \in 1 .. i - 1 : Plan(cause)[j] = <<"await", c>>
<1>1. CASE cause = "interrupt"
  BY <1>1 DEF Plan, Waiting, Statements, Children
<1>2. CASE cause = "logger"
  BY <1>2 DEF Plan, Waiting, Statements, Children
<1>3. CASE cause = "server"
  BY <1>3 DEF Plan, Waiting, Statements, Children
<1> QED
  BY <1>1, <1>2, <1>3

(* What a suffix of a plan keeps when main has gone on by one statement.   *)
LEMMA Remaining ==
  ASSUME TypeOK, main # Waiting, main # <<>>, main' = Tail(main)
  PROVE  /\ main \in Seq(Statements) /\ main' \in Seq(Statements)
         /\ Len(main) \in Nat \ {0} /\ Len(main') = Len(main) - 1
         /\ \A i \in 1 .. Len(main') : main'[i] = main[i + 1]
         /\ Head(main) = main[1] /\ main[1] \in Statements
         /\ main' # Waiting
<1>1. main \in Seq(Statements)
  BY DEF TypeOK
<1>2. Len(main) \in Nat \ {0}
  <2>1. Len(main) \in Nat
    BY <1>1
  <2>2. Len(main) = 0 => main = <<>>
    BY <1>1
  <2>3. Len(main) # 0
    BY <2>2, Zenon
  <2> QED
    BY <2>1, <2>3
<1>3. /\ main' \in Seq(Statements) /\ Len(main') = Len(main) - 1
      /\ \A i \in 1 .. Len(main') : main'[i] = main[i + 1]
      /\ Head(main) = main[1] /\ main[1] \in Statements
  BY <1>1, <1>2
<1>4. main' # Waiting
  <2>1. \A i \in 1 .. Len(main') : main'[i] \in Statements
    BY <1>3
  <2>2. Len(Waiting) = 1 /\ Waiting[1] = <<"select", "select">>
    BY DEF Waiting
  <2>3. <<"select", "select">> \notin Statements
    BY DEF Statements
  <2>4. 1 \in 1 .. 1
    OBVIOUS
  <2>5. Len(main') = 1 => main'[1] \in Statements
    BY <2>1, <2>4, Zenon
  <2> QED
    BY <2>2, <2>3, <2>5, Zenon
<1> QED
  BY <1>1, <1>2, <1>3, <1>4

(* main goes on to the next statement, having signalled a child or not,    *)
(* and having heard a child or not.                                        *)
LEMMA PlanStep ==
  ASSUME SupervisorInv, NEW op, Statement(op), main # Waiting,
         UNCHANGED <<pc, session, log, ended>>,
         IsChannels(up'), IsChannels(down'), logOpen' \in BOOLEAN,
         \A c \in Children : Len(up'[c]) <= 1 /\ (up[c] = <<>> => up'[c] = <<>>),
         \A c \in Children :
           \/ down'[c] = down[c]
           \/ main[1] = <<"signal", c>> /\ Len(down'[c]) = 1,
         \A c \in {"server", "database"} :
           /\ ~logOpen' => pc[c] # "starting"
           /\ main[1] = <<"await", c>> => pc[c] # "starting"
  PROVE  SupervisorInv'
<1>0. main # <<>> /\ main' = Tail(main) /\ TypeOK
  BY DEF Statement, SupervisorInv
<1>1. /\ main' \in Seq(Statements) /\ main' # Waiting
      /\ Len(main) \in Nat \ {0} /\ Len(main') = Len(main) - 1
      /\ \A i \in 1 .. Len(main') : main'[i] = main[i + 1]
  BY <1>0, Remaining
<1>2. TypeOK'
  BY <1>0, <1>1 DEF TypeOK, IsChannels
<1>3. UpInv'
  BY DEF SupervisorInv, UpInv
<1>4. DownInv'
  <2> SUFFICES ASSUME NEW c \in Children
               PROVE  /\ Len(down'[c]) <= 1
                      /\ \A i \in 1 .. Len(main') : main'[i] = <<"signal", c>> =>
                           down'[c] = <<>> /\ \A j \in 1 .. i - 1 : main'[j] # main'[i]
    BY <1>1 DEF DownInv
  <2>1. /\ Len(down[c]) <= 1
        /\ \A i \in 1 .. Len(main) : main[i] = <<"signal", c>> =>
             down[c] = <<>> /\ \A j \in 1 .. i - 1 : main[j] # main[i]
    BY DEF SupervisorInv, DownInv
  <2>2. Len(down'[c]) <= 1
    <3>1. 1 <= 1
      OBVIOUS
    <3> QED
      BY <2>1, <3>1, Zenon
  <2>3. ASSUME NEW i \in 1 .. Len(main'), main'[i] = <<"signal", c>>
        PROVE  down'[c] = <<>> /\ \A j \in 1 .. i - 1 : main'[j] # main'[i]
    <3>1. i + 1 \in 1 .. Len(main) /\ main[i + 1] = <<"signal", c>>
      BY <1>1, <2>3
    <3>2. down[c] = <<>> /\ \A j \in 1 .. i : main[j] # <<"signal", c>>
      BY <2>1, <3>1
    <3>3. down'[c] = <<>>
      BY <3>2
    <3>4. \A j \in 1 .. i - 1 : main'[j] = main[j + 1] /\ j + 1 \in 1 .. i
      BY <1>1
    <3> QED
      BY <2>3, <3>2, <3>3, <3>4
  <2> QED
    BY <2>2, <2>3
<1>5. LogInv'
  <2> SUFFICES ASSUME NEW c \in {"server", "database"}, pc[c] = "starting",
                      NEW i \in 1 .. Len(main'), main'[i] = <<"close", "log">>
               PROVE  \E j \in 1 .. i - 1 : main'[j] = <<"await", c>>
    BY DEF LogInv
  <2>1. i + 1 \in 1 .. Len(main) /\ main[i + 1] = <<"close", "log">>
    BY <1>1
  <2>2. PICK j \in 1 .. i : main[j] = <<"await", c>>
    <3>1. \A k \in 1 .. Len(main) : main[k] = <<"close", "log">> =>
            \E j \in 1 .. k - 1 : main[j] = <<"await", c>>
      BY DEF SupervisorInv, LogInv
    <3>2. \E j \in 1 .. (i + 1) - 1 : main[j] = <<"await", c>>
      BY <2>1, <3>1
    <3> QED
      BY <3>2
  <2>3. j # 1
    BY <2>2
  <2>4. j - 1 \in 1 .. i - 1 /\ main'[j - 1] = main[j]
    BY <1>1, <2>3
  <2> QED
    BY <2>2, <2>4
<1>6. RoutinesDoneWithLog'
  BY DEF SupervisorInv, RoutinesDoneWithLog
<1> QED
  BY <1>2, <1>3, <1>4, <1>5, <1>6 DEF SupervisorInv

(* The first signal wakes main: it starts on a plan.                       *)
LEMMA PlanChosen ==
  ASSUME SupervisorInv, main = Waiting,
         NEW cause \in {"interrupt", "logger", "server"}, main' = Plan(cause),
         IsChannels(up'),
         \A c \in Children : Len(up'[c]) <= 1 /\ (up[c] = <<>> => up'[c] = <<>>),
         cause = "server" => pc["server"] # "starting",
         UNCHANGED <<down, pc, session, log, logOpen, ended>>
  PROVE  SupervisorInv'
<1>1. TypeOK'
  BY PlanIsGood DEF SupervisorInv, TypeOK, IsChannels
<1>2. UpInv'
  BY DEF SupervisorInv, UpInv
<1>3. DownInv'
  <2>1. \A c \in Children : down[c] = <<>> /\ Len(down[c]) <= 1
    BY DEF SupervisorInv, DownInv
  <2>2. /\ main' # Waiting
        /\ \A c \in Children : \A i \in 1 .. Len(main') : main'[i] = <<"signal", c>> =>
             \A j \in 1 .. i - 1 : main'[j] # main'[i]
    BY PlanIsGood
  <2> QED
    BY <2>1, <2>2 DEF DownInv
<1>4. LogInv'
  <2>1. \A c \in {"server", "database"} : ~logOpen => pc[c] # "starting"
    BY DEF SupervisorInv, LogInv
  <2>2. \A c \in {"server", "database"} :
          \A i \in 1 .. Len(main') : main'[i] = <<"close", "log">> =>
            \/ c = cause
            \/ \E j \in 1 .. i - 1 : main'[j] = <<"await", c>>
    <3>1. \A c \in {"server", "database"} :
            \A i \in 1 .. Len(Plan(cause)) : Plan(cause)[i] = <<"close", "log">> =>
              \/ c = cause
              \/ \E j \in 1 .. i - 1 : Plan(cause)[j] = <<"await", c>>
      BY PlanIsGood
    <3> QED
      BY <3>1, Zenon
  <2> QED
    BY <2>1, <2>2 DEF LogInv
<1>5. RoutinesDoneWithLog'
  BY DEF SupervisorInv, RoutinesDoneWithLog
<1> QED
  BY <1>1, <1>2, <1>3, <1>4, <1>5 DEF SupervisorInv

(* A child whose signal main takes is past its start.                      *)
LEMMA TakeUp ==
  ASSUME SupervisorInv, NEW c \in Children, Take(up, c)
  PROVE  /\ IsChannels(up') /\ pc[c] # "starting"
         /\ \A d \in Children : Len(up'[d]) <= 1 /\ (up[d] = <<>> => up'[d] = <<>>)
<1>1. /\ up \in [Children -> Seq({"terminate"})] /\ up[c] # <<>>
      /\ \A d \in Children : Len(up[d]) <= 1
      /\ pc[c] \in Silent => up[c] = <<>>
  BY DEF Take, SupervisorInv, TypeOK, UpInv
<1>2. up' = [up EXCEPT ![c] = <<>>]
  BY <1>1, TailOfOne DEF Take
<1>3. pc[c] # "starting"
  BY <1>1, Zenon DEF Silent
<1> QED
  BY <1>1, <1>2, <1>3 DEF IsChannels

LEMMA WakingSteps ==
  ASSUME SupervisorInv, Interrupt \/ \E c \in Children : ChildAsks(c)
  PROVE  SupervisorInv'
<1>1. CASE Interrupt
  <2>1. IsChannels(up') /\ \A c \in Children : Len(up'[c]) <= 1 /\ (up[c] = <<>> => up'[c] = <<>>)
    BY <1>1 DEF Interrupt, SupervisorInv, TypeOK, UpInv, IsChannels
  <2> QED
    BY <1>1, <2>1, PlanChosen DEF Interrupt
<1>2. ASSUME NEW c \in Children, ChildAsks(c) PROVE SupervisorInv'
  BY <1>2, TakeUp, PlanChosen DEF ChildAsks
<1> QED
  BY <1>1, <1>2

LEMMA MainSteps ==
  ASSUME SupervisorInv, Main
  PROVE  SupervisorInv'
<1>0. /\ IsChannels(up) /\ IsChannels(down) /\ logOpen \in BOOLEAN
      /\ \A c \in Children : Len(up[c]) <= 1
      /\ \A c \in {"server", "database"} : ~logOpen => pc[c] # "starting"
  BY DEF SupervisorInv, TypeOK, IsChannels, UpInv, LogInv
<1>1. ASSUME NEW op \in {"signal", "await", "close"}, Statement(op)
      PROVE  /\ main # Waiting /\ 1 \in 1 .. Len(main)
             /\ Head(main) = main[1] /\ main[1][1] = op /\ main[1] \in Statements
             /\ op # "close" => main[1][2] \in Children /\ main[1] = <<op, main[1][2]>>
             /\ op = "close" => main[1] = <<"close", "log">>
  <2>1. main # <<>> /\ main' = Tail(main) /\ Head(main)[1] = op /\ TypeOK
    BY <1>1 DEF Statement, SupervisorInv
  <2>2. main # Waiting
    BY <2>1 DEF Waiting
  <2>3. /\ Head(main) = main[1] /\ main[1] \in Statements
        /\ Len(main) \in Nat \ {0}
    BY <2>1, <2>2, Remaining
  <2> QED
    BY <2>1, <2>2, <2>3 DEF Statements
<1>2. CASE MainSignals
  <2>1. Statement("signal") /\ Send(down, main[1][2])
    BY <1>1, <1>2 DEF MainSignals
  <2> DEFINE c == main[1][2]
  <2>2. main[1] = <<"signal", c>> /\ c \in Children
    BY <1>1, <2>1
  <2>3. down[c] = <<>>
    BY <1>1, <2>1, <2>2 DEF SupervisorInv, DownInv
  <2>4. down' = [down EXCEPT ![c] = <<"terminate">>]
    BY <2>1, <2>3 DEF Send
  <2>5. /\ IsChannels(down')
        /\ \A d \in Children : \/ down'[d] = down[d]
                               \/ main[1] = <<"signal", d>> /\ Len(down'[d]) = 1
    BY <1>0, <2>2, <2>4 DEF IsChannels
  <2>6. \A d \in {"server", "database"} : main[1] # <<"await", d>>
    BY <2>2
  <2> HIDE DEF c
  <2> QED
    BY <1>0, <1>1, <1>2, <2>1, <2>5, <2>6, PlanStep DEF MainSignals
<1>3. CASE MainAwaits
  <2>1. Statement("await") /\ Take(up, main[1][2])
    BY <1>1, <1>3 DEF MainAwaits
  <2>2. main[1] = <<"await", main[1][2]>> /\ main[1][2] \in Children
    BY <1>1, <2>1
  <2>3. /\ IsChannels(up') /\ pc[main[1][2]] # "starting"
        /\ \A d \in Children : Len(up'[d]) <= 1 /\ (up[d] = <<>> => up'[d] = <<>>)
    BY <2>1, <2>2, TakeUp
  <2>4. \A d \in {"server", "database"} : main[1] = <<"await", d>> => pc[d] # "starting"
    BY <2>3
  <2> QED
    BY <1>0, <1>1, <1>3, <2>1, <2>3, <2>4, PlanStep DEF MainAwaits
<1>4. CASE MainCloses
  <2>1. Statement("close") /\ logOpen' = FALSE
    BY <1>4 DEF MainCloses
  <2>2. main[1] = <<"close", "log">> /\ 1 \in 1 .. Len(main)
    BY <1>1, <2>1
  <2>3. \A c \in {"server", "database"} : pc[c] # "starting"
    BY <2>2 DEF SupervisorInv, LogInv
  <2> QED
    BY <1>0, <1>1, <1>4, <2>1, <2>3, PlanStep DEF MainCloses
<1>5. CASE MainExits
  BY <1>5, RunningEnded, EventStep DEF MainExits, SupervisorInv, TypeOK
<1> QED
  BY <1>2, <1>3, <1>4, <1>5 DEF Main

LEMMA NextInv == SupervisorInv /\ [Next]_vars => SupervisorInv'
<1> SUFFICES ASSUME SupervisorInv, [Next]_vars PROVE SupervisorInv'
  OBVIOUS
<1>0. "server" \in Children /\ "logger" \in Children
  BY DEF Children
<1>1. CASE Interrupt \/ \E c \in Children : ChildAsks(c)
  BY <1>1, WakingSteps
<1>2. CASE Main
  BY <1>2, MainSteps
<1>3. CASE Server \/ ServerReadFails
  BY <1>0, <1>3, ServerSteps, PleaSteps DEF Server
<1>4. CASE Database
  BY <1>4, DatabaseSteps
<1>5. CASE Logger
  BY <1>0, <1>5, LoggerSteps, PleaSteps DEF Logger
<1>6. CASE \E s \in Sessions : ServerSpawns(s) \/ SessionStep(s)
  BY <1>6, SessionSteps
<1>7. CASE UNCHANGED vars
  BY <1>7 DEF vars, SupervisorInv, TypeOK, UpInv, DownInv, LogInv, RoutinesDoneWithLog
<1> QED
  BY <1>1, <1>2, <1>3, <1>4, <1>5, <1>6, <1>7 DEF Next

-----------------------------------------------------------------------------
(* The theorems. *)

LEMMA SupervisorInvariant == Spec => []SupervisorInv
BY InitInv, NextInv, PTL DEF Spec

(* The variables of the supervisor keep their types.                       *)
THEOREM TypeCorrect == Spec => []TypeOK
BY SupervisorInvariant, PTL DEF SupervisorInv

(* Neither the server nor the database routine ever writes to Log after    *)
(* main has closed it.                                                     *)
THEOREM LogClosedLast == Spec => []RoutinesDoneWithLog
BY SupervisorInvariant, PTL DEF SupervisorInv

(* A signal channel always has a place left: no signal is waited for to    *)
(* be sent.                                                                *)
THEOREM SignalsFit == Spec => []SignalsNeverBlock
<1>1. SupervisorInv => SignalsNeverBlock
  <2> SUFFICES ASSUME SupervisorInv, NEW c \in Children
               PROVE  Len(up[c]) < ChannelCapacity /\ Len(down[c]) < ChannelCapacity
    BY DEF SignalsNeverBlock
  <2>1. \A n \in Nat : n <= 1 => n < ChannelCapacity
    BY DEF ChannelCapacity
  <2>2. up[c] \in Seq({"terminate"}) /\ down[c] \in Seq({"terminate"})
    BY DEF SupervisorInv, TypeOK
  <2>3. Len(up[c]) \in Nat /\ Len(down[c]) \in Nat
    BY <2>2
  <2>4. Len(up[c]) <= 1 /\ Len(down[c]) <= 1
    BY Zenon DEF SupervisorInv, UpInv, DownInv
  <2> QED
    BY <2>1, <2>3, <2>4, Zenon
<1> QED
  BY <1>1, SupervisorInvariant, PTL
=============================================================================
