----------------------------- MODULE Supervisor -----------------------------
(***************************************************************************)
(* The goroutines of tftpcpd and how they stop: main (cmd/tftpcpd), the    *)
(* server, database and logger routines with their signal channels, the    *)
(* session goroutines, and the channel Log that all of them write to and   *)
(* the logger reads (internal/server.go, database.go, logger.go).          *)
(*                                                                         *)
(* Every signal has the kind SignalTerminate.  IsResponse compares that    *)
(* kind with the two message values and is never true, so main does not    *)
(* tell a child's answer from its request; neither does this module.  The  *)
(* database routine sends nothing but answers, which leaves the last case  *)
(* of main's select without a sender.                                      *)
(* Definitions named Wrong... are mistakes a property is to notice.        *)
(***************************************************************************)
EXTENDS Integers, Sequences

CONSTANTS
  Sessions,    \* the sessions clients may start, each once
  LogCapacity, \* of the channel Log, 150 in the code
  Faults       \* what may happen: interrupt, bind, read, open

ASSUME SupervisorAssumption ==
  /\ LogCapacity \in Nat \ {0}
  /\ Faults \subseteq {"interrupt", "bind", "read", "open"}

VARIABLES
  main,      \* what main has still to do, or that it waits in its select
  up, down,  \* childToParent and parentToChild of each child
  pc,        \* where each child is
  session,   \* where each session is
  log,       \* how many events wait in Log
  logOpen,   \* whether Log is open
  ended      \* no, exited, or the goroutine that panicked

vars == <<main, up, down, pc, session, log, logOpen, ended>>

Children == {"server", "database", "logger"}
ChannelCapacity == 2
Waiting == <<<<"select", "select">>>>

-----------------------------------------------------------------------------
(* Channels. *)

Send(ch, c) ==
  /\ Len(ch[c]) < ChannelCapacity
  /\ ch' = [ch EXCEPT ![c] = Append(@, "terminate")]

Take(ch, c) ==
  /\ ch[c] # <<>>
  /\ ch' = [ch EXCEPT ![c] = Tail(@)]

(* Never waits.                                                            *)
WrongLogs(who) ==
  \/ /\ logOpen
     /\ log' = log + 1 /\ UNCHANGED ended
  \/ /\ ~logOpen
     /\ ended' = who /\ UNCHANGED log

(* Log <- event: waits while Log is full, panics once it is closed.        *)
Logs(who) ==
  \/ /\ logOpen /\ log < LogCapacity
     /\ log' = log + 1 /\ UNCHANGED ended
  \/ /\ ~logOpen
     /\ ended' = who /\ UNCHANGED log

Running == ended = "no"

Child(c, from, to) == pc[c] = from /\ pc' = [pc EXCEPT ![c] = to]

-----------------------------------------------------------------------------
(* main *)

(* Closes Log before the database routine has answered.                    *)
WrongPlan(cause) ==
  CASE cause = "interrupt" ->
         << <<"signal", "server">>, <<"await", "server">>, <<"close", "log">>,
            <<"signal", "database">>, <<"await", "database">>,
            <<"signal", "logger">>, <<"await", "logger">> >>
    [] cause = "logger" ->
         << <<"signal", "server">>, <<"await", "server">>, <<"close", "log">>,
            <<"signal", "database">>, <<"await", "database">>,
            <<"signal", "logger">> >>
    [] cause = "server" ->
         << <<"close", "log">>, <<"signal", "server">>,
            <<"signal", "database">>, <<"await", "database">>,
            <<"signal", "logger">>, <<"await", "logger">> >>

(* What the cases of main's select do, by what woke it.                    *)
Plan(cause) ==
  CASE cause = "interrupt" ->
         << <<"signal", "server">>, <<"await", "server">>,
            <<"signal", "database">>, <<"await", "database">>, <<"close", "log">>,
            <<"signal", "logger">>, <<"await", "logger">> >>
    [] cause = "logger" ->
         << <<"signal", "server">>, <<"await", "server">>,
            <<"signal", "database">>, <<"await", "database">>, <<"close", "log">>,
            <<"signal", "logger">> >>
    [] cause = "server" ->
         << <<"signal", "server">>,
            <<"signal", "database">>, <<"await", "database">>, <<"close", "log">>,
            <<"signal", "logger">>, <<"await", "logger">> >>

Interrupt ==
  /\ Running /\ main = Waiting /\ "interrupt" \in Faults
  /\ main' = Plan("interrupt")
  /\ UNCHANGED <<up, down, pc, session, log, logOpen, ended>>

ChildAsks(c) ==
  /\ Running /\ main = Waiting /\ c \in {"logger", "server"}
  /\ Take(up, c)
  /\ main' = Plan(c)
  /\ UNCHANGED <<down, pc, session, log, logOpen, ended>>

(* The next statement of the case main is in.                              *)
Statement(op) == Running /\ main # <<>> /\ Head(main)[1] = op /\ main' = Tail(main)

MainSignals ==
  /\ Statement("signal") /\ Send(down, Head(main)[2])
  /\ UNCHANGED <<up, pc, session, log, logOpen, ended>>

MainAwaits ==
  /\ Statement("await") /\ Take(up, Head(main)[2])
  /\ UNCHANGED <<down, pc, session, log, logOpen, ended>>

MainCloses ==
  /\ Statement("close") /\ logOpen' = FALSE
  /\ UNCHANGED <<up, down, pc, session, log, ended>>

(* wg.Wait returns. *)
MainExits ==
  /\ Running /\ main = <<>> /\ \A c \in Children : pc[c] = "returned"
  /\ ended' = "exited"
  /\ UNCHANGED <<main, up, down, pc, session, log, logOpen>>

-----------------------------------------------------------------------------
(* A child that has failed, or whose channel Log was closed, asks main to  *)
(* terminate everything and waits for a signal.                            *)

(* Asks again and again.                                                   *)
WrongChildPleads(c) ==
  /\ Running /\ Child(c, "failing", "failing") /\ Send(up, c)
  /\ UNCHANGED <<main, down, session, log, logOpen, ended>>
ChildPleads(c) ==
  /\ Running /\ Child(c, "failing", "pleading") /\ Send(up, c)
  /\ UNCHANGED <<main, down, session, log, logOpen, ended>>

PleaAnswered(c) ==
  /\ Running /\ Take(down, c)
  /\ Child(c, "pleading", IF c = "server" THEN "draining" ELSE "returned")
  /\ UNCHANGED <<main, up, session, log, logOpen, ended>>

(* The server routine and its sessions. *)

ServerStarts ==
  /\ Running
  /\ \/ Child("server", "starting", "serving")
     \/ "bind" \in Faults /\ Child("server", "starting", "failing")
  /\ Logs("server")
  /\ UNCHANGED <<main, up, down, session, logOpen>>

(* A datagram starts a session unless a signal has arrived meanwhile.      *)
ServerSpawns(s) ==
  /\ Running /\ pc["server"] = "serving" /\ down["server"] = <<>>
  /\ session[s] = "none" /\ session' = [session EXCEPT ![s] = "beginning"]
  /\ UNCHANGED <<main, up, down, pc, log, logOpen, ended>>

ServerReadFails ==
  /\ Running /\ "read" \in Faults /\ down["server"] = <<>>
  /\ Child("server", "serving", "failing")
  /\ UNCHANGED <<main, up, down, session, log, logOpen, ended>>

(* It accepts before it cancels the context of the sessions and waits for  *)
(* them, so main goes on while they still run.                             *)
ServerAccepts ==
  /\ Running /\ Take(down, "server") /\ Send(up, "server")
  /\ Child("server", "serving", "draining")
  /\ UNCHANGED <<main, session, log, logOpen, ended>>

ServerReturns ==
  /\ Running /\ Child("server", "draining", "returned")
  /\ \A s \in Sessions : session[s] \in {"none", "over"}
  /\ UNCHANGED <<main, up, down, session, log, logOpen, ended>>

(* sessionRoutine logs that the client began, transfers, and logs how the  *)
(* transfer ended.  Its last wait for a datagram may outlive the context.  *)
SessionStep(s) ==
  /\ Running
  /\ \/ /\ session[s] = "beginning" /\ Logs("session")
        /\ session' = [session EXCEPT ![s] = "transferring"]
     \/ /\ session[s] = "transferring" /\ UNCHANGED <<log, ended>>
        /\ session' = [session EXCEPT ![s] = "ending"]
     \/ /\ session[s] = "ending" /\ Logs("session")
        /\ session' = [session EXCEPT ![s] = "over"]
  /\ UNCHANGED <<main, up, down, pc, logOpen>>

(* The database routine. *)

DatabaseStarts ==
  /\ Running /\ Child("database", "starting", "ready") /\ Logs("database")
  /\ UNCHANGED <<main, up, down, session, logOpen>>

DatabaseAccepts ==
  /\ Running /\ Take(down, "database") /\ Send(up, "database")
  /\ Child("database", "ready", "cleaning")
  /\ UNCHANGED <<main, session, log, logOpen, ended>>

DatabaseReturns ==
  /\ Running /\ Child("database", "cleaning", "returned")
  /\ UNCHANGED <<main, up, down, session, log, logOpen, ended>>

(* The logger routine.  It looks for a signal only after it has found Log  *)
(* empty and open, and then looks at Log again.                            *)

LoggerStarts ==
  /\ Running
  /\ \/ Child("logger", "starting", "polling")
     \/ "open" \in Faults /\ Child("logger", "starting", "failing")
  /\ UNCHANGED <<main, up, down, session, log, logOpen, ended>>

LoggerWrites ==
  /\ Running /\ pc["logger"] = "polling" /\ log > 0
  /\ log' = log - 1
  /\ UNCHANGED <<main, up, down, pc, session, logOpen, ended>>

LoggerFindsEmpty ==
  /\ Running /\ log = 0
  /\ Child("logger", "polling", IF logOpen THEN "listening" ELSE "failing")
  /\ UNCHANGED <<main, up, down, session, log, logOpen, ended>>

(* Answers a signal without returning to the caller.                       *)
WrongLoggerListens ==
  /\ Running /\ UNCHANGED <<main, session, log, logOpen, ended>>
  /\ Child("logger", "listening", "polling")
  /\ IF down["logger"] # <<>>
     THEN Take(down, "logger") /\ Send(up, "logger")
     ELSE UNCHANGED <<up, down>>
LoggerListens ==
  /\ Running /\ UNCHANGED <<main, session, log, logOpen, ended>>
  /\ IF down["logger"] # <<>>
     THEN /\ Take(down, "logger") /\ Send(up, "logger")
          /\ Child("logger", "listening", "returned")
     ELSE Child("logger", "listening", "polling") /\ UNCHANGED <<up, down>>

-----------------------------------------------------------------------------
Init ==
  /\ main = Waiting
  /\ up = [c \in Children |-> <<>>] /\ down = [c \in Children |-> <<>>]
  /\ pc = [c \in Children |-> "starting"]
  /\ session = [s \in Sessions |-> "none"]
  /\ log = 0 /\ logOpen = TRUE /\ ended = "no"

Main == MainSignals \/ MainAwaits \/ MainCloses \/ MainExits
Server ==
  \/ ServerStarts \/ ServerAccepts \/ ServerReturns
  \/ ChildPleads("server") \/ PleaAnswered("server")
Database == DatabaseStarts \/ DatabaseAccepts \/ DatabaseReturns
Logger ==
  \/ LoggerStarts \/ LoggerWrites \/ LoggerFindsEmpty \/ LoggerListens
  \/ ChildPleads("logger") \/ PleaAnswered("logger")

Next ==
  \/ Interrupt \/ \E c \in Children : ChildAsks(c)
  \/ Main \/ Server \/ Database \/ Logger
  \/ ServerReadFails
  \/ \E s \in Sessions : ServerSpawns(s) \/ SessionStep(s)

Spec == Init /\ [][Next]_vars

(* Goroutines that can run do, read deadlines end every wait of a session, *)
(* and main's select takes a signal that is there.                         *)
Fairness ==
  /\ WF_vars(Main) /\ WF_vars(Server) /\ WF_vars(Database) /\ WF_vars(Logger)
  /\ WF_vars(\E c \in Children : ChildAsks(c))
  /\ \A s \in Sessions : WF_vars(SessionStep(s))

FairSpec == Spec /\ Fairness

-----------------------------------------------------------------------------
Statements == ({"signal", "await"} \X Children) \cup {<<"close", "log">>}

TypeOK ==
  /\ main = Waiting \/ main \in Seq(Statements)
  /\ up \in [Children -> Seq({"terminate"})]
  /\ down \in [Children -> Seq({"terminate"})]
  /\ pc \in [Children ->
       {"starting", "serving", "draining", "ready", "cleaning",
        "polling", "listening", "failing", "pleading", "returned"}]
  /\ session \in
       [Sessions -> {"none", "beginning", "transferring", "ending", "over"}]
  /\ log \in 0 .. LogCapacity /\ logOpen \in BOOLEAN
  /\ ended \in {"no", "exited", "server", "database", "session"}

(* main closes Log only when neither the server nor the database routine   *)
(* can write to it any more, whoever asked for the end and in whatever     *)
(* order requests, answers and failures crossed: only a session can find   *)
(* it closed.                                                              *)
RoutinesDoneWithLog == ended \notin {"server", "database"}

(* The two places of each signal channel are enough: nobody ever waits to  *)
(* send a signal, also when a child asks to terminate while it is told to. *)
SignalsNeverBlock ==
  \A c \in Children : Len(up[c]) < ChannelCapacity /\ Len(down[c]) < ChannelCapacity

(* A daemon that was told to end, or one of whose routines failed, does end*)
(* - whatever fails besides, with Log full and a logger that could not open*)
(* its files - provided that the database routine has announced itself.    *)
TerminationEnds ==
  main # Waiting /\ pc["database"] # "starting" ~> ended # "no"

(* "do not modify exit code because this is the expected termination       *)
(* method" (main, on ^C): the process then ends by itself, not by a panic. *)
InterruptExitsCleanly == ended \in {"no", "exited"}
=============================================================================
