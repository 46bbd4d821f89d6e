------------------------------ MODULE Dialogue ------------------------------
(***************************************************************************)
(* One dialogue between a client and the daemon: the request, the sessions *)
(* it starts (server.go, session.go), the negotiation of options with the  *)
(* buffers they need, the client's move to the session's port (client.go), *)
(* the copy, and what the client's exit code and the table say of it.      *)
(*                                                                         *)
(* The copy goes in lock-step, as Transfer shows of the two loops; what    *)
(* Transfer lets go wrong in it is the fault "transfer" here.  A request   *)
(* is by tftpcpc, or by another client that follows the RFCs and has       *)
(* buffers of any size.  Definitions named Wrong... are mistakes a         *)
(* property is to notice.                                                  *)
(***************************************************************************)
EXTENDS Codec, Integers, FiniteSets, Bags, TLC

CONSTANTS
  Requests,  \* what clients ask: by whom, the message, the size of the file
  Sessions,  \* the sessions the daemon may start; one per request it gets
  Parsed,    \* strconv.ParseInt: the texts that are numbers, with their value
  Faults,    \* what may go wrong
  MaxFaults  \* bound: how often

ASSUME SessionsAssumption == Sessions \cap {"client", "port", "nobody"} = {}
ASSUME DialogueAssumption ==
  /\ \A r \in Requests : r.by \in {"tftpcpc", "other"} /\ r.size \in Nat \cup {-1}
  /\ MaxFaults \in Nat
  /\ Faults \subseteq {"lose", "duplicate", "io", "transfer", "interrupt", "kill"}

VARIABLES
  request,      \* what the client was started for, never changed
  at,           \* of each end: where it is, BlockSize, its buffers, bytes copied
  net,          \* the datagrams on their way, a bag
  peer,         \* the session the client's socket is connected to
  reply,        \* the message the client has received first
  exit,         \* the client's exit code
  interrupted,  \* the client's main has cancelled its context and closed Log
  daemon,       \* running, panicked or killed
  recorded,     \* the uploads OverwriteSuccess has committed
  faults        \* how many faults there have been

vars == <<request, at, net, peer, reply, exit, interrupted, daemon,
          recorded, faults>>

Client  == "client"
Daemon  == "port"      \* the port of ServerRoutine
Ends    == Sessions \cup {Client}
Nobody  == "nobody"
Absent  == -1
Running == -1

Reading == request.message.kind = "RRQ"
Other   == request.by = "other"

(* The size of the file asked for, if there is one, or to be uploaded.     *)
size == request.size

(* NewTftpSession; DataPreambleLength is added to the size of the buffers. *)
Preamble == 4
NewSession(where) ==
  [pc |-> where, block |-> 512, room |-> 512 + Preamble, bytes |-> 0]

Fault(kind) == kind \in Faults /\ faults < MaxFaults /\ faults' = faults + 1

-----------------------------------------------------------------------------
(* Datagrams. *)

Datagram(from, to, m) == [from |-> from, to |-> to, message |-> m]
Mail(from, to, m)     == SetToBag({Datagram(from, to, m)})
Inbox(x) == {d \in BagToSet(net) : d.to = x}
Swap(d, sent) == net' = (net (-) SetToBag({d})) (+) sent
Post(sent)    == net' = net (+) sent

(* What an end may understand of a datagram.  Receive slices its buffer to *)
(* the block size; ServerRoutine's buffer takes any datagram.              *)
Window(x) == IF x = Daemon THEN 65535 ELSE at[x].block + Preamble
Understood(x, d) ==
  {Decode(v) : v \in {Cut(w, Window(x)) : w \in Encodings(d.message)}}

Failure(text) == Error(0, text)
BadOptions == "One or more options contain invalid values"

(* Every reason an end may give, long enough to be read as one.            *)
Reasons ==
  {BadOptions, "<nil>", "Unable to download to: file",
   "Client sent unknown message type", "Client requested invalid operation",
   "File does not exist!", "Did not acknowledge the options",
   "Cannot prepare the upload", "Cannot record the upload",
   "Client connection (likely) dead", "Client failed"}

ASSUME ReasonsAssumption == \A t \in Reasons : Text(t, 5)

-----------------------------------------------------------------------------
(* UpdateOptions.  The operation is that of the end that calls it.         *)

BlockSizes == 8 .. 65464

Unparsable(o) == {k \in DOMAIN o : o[k] \notin DOMAIN Parsed}

(* Takes any size of a block.                                              *)
WrongRefused(operation, o) ==
  {k \in DOMAIN o \ Unparsable(o) :
     k = "tsize" /\ Parsed[o[k]] = 0 /\ operation # "ReadAsServer"}
Refused(operation, o) ==
  {k \in DOMAIN o \ Unparsable(o) :
     \/ k = "blksize" /\ Parsed[o[k]] \notin BlockSizes
     \/ k = "tsize" /\ Parsed[o[k]] = 0 /\ operation # "ReadAsServer"}

AsksSize(o) == "tsize" \in DOMAIN o \ Unparsable(o) /\ Parsed[o["tsize"]] = 0

Agreeable(operation, o) == Unparsable(o) = {} /\ Refused(operation, o) = {}

(* Sends the size back as it was asked for.                                *)
WrongUpdated(o) == o
(* tsize 0 is a download's question for the size, n.  Other options, known *)
(* or not, go back as they came.                                           *)
Answered(o, n) ==
  IF "tsize" \in DOMAIN o
  THEN [o EXCEPT !["tsize"] =
          ToString(IF Parsed[@] = 0 THEN n ELSE Parsed[@])]
  ELSE o
Updated(o) == Answered(o, size)

BlockOf(o) == IF "blksize" \in DOMAIN o THEN Parsed[o["blksize"]] ELSE 512

(* A request fits a datagram.  As RFC 2347 has it, it names an option once *)
(* and, being short, gets an answer that the first buffer of its client    *)
(* holds and that parses; an option of one letter with an empty value      *)
(* would not.  tftpcpc uploads a file that it has, and does not ask for a  *)
(* size of a block.                                                        *)
ASSUME RequestsAssumption ==
  \A r \in Requests :
    LET m == r.message
        o == LowerCased(m.options)
    IN  /\ IsMessage(m)
        /\ \A w \in Encodings(m) : Size(w) <= 65535
        /\ m.kind \in {"RRQ", "WRQ"} =>
             /\ o # NoOptions /\ Unparsable(o) = {} =>
                  \A w \in Encodings(OptionAck(Answered(o, r.size))) :
                    Size(w) <= 512 + Preamble /\ Decode(w) # Invalid
             /\ r.by = "tftpcpc" => "blksize" \notin DOMAIN o
        /\ m.kind = "WRQ" => r.size # Absent

-----------------------------------------------------------------------------
(* The ends of the client process. *)

FailCode == IF Other THEN 1 ELSE IF Reading THEN 22 ELSE 21

(* ClientRoutine exits the process.  If the error is logged, and Log is    *)
(* closed, it panics instead.                                              *)
Exit(code)       == at' = [at EXCEPT ![Client].pc = "over"] /\ exit' = code
LogAndExit(code) == Exit(IF interrupted THEN 2 ELSE code)

-----------------------------------------------------------------------------
(* DoReadAsClient and DoWriteAsClient up to their loops. *)

SendRequest ==
  /\ at[Client].pc = "idle"
  /\ at' = [at EXCEPT ![Client].pc = "opening"]
  /\ Post(Mail(Client, Daemon, request.message))
  /\ UNCHANGED <<request, peer, reply, exit, interrupted, daemon, recorded, faults>>

(* No address to listen on, or no socket.                                  *)
CannotStart ==
  /\ at[Client].pc = "idle" /\ Fault("io")
  /\ Exit(FailCode)
  /\ UNCHANGED <<request, net, peer, reply, interrupted, daemon, recorded>>

(* The temporary socket takes a datagram from anyone.                      *)
TakeReply(d, m) ==
  /\ at[Client].pc = "opening"
  /\ reply' = m /\ peer' = d.from
  /\ Swap(d, EmptyBag)
  /\ IF m = Invalid
     THEN Exit(FailCode)
     ELSE at' = [at EXCEPT ![Client].pc = "redialling"] /\ UNCHANGED exit
  /\ UNCHANGED <<request, interrupted, daemon, recorded, faults>>

(* Sets no deadline.                                                       *)
WrongReplyTimeout ==
  /\ at[Client].pc = "opening" /\ interrupted
  /\ Exit(FailCode)
  /\ UNCHANGED <<request, net, peer, reply, interrupted, daemon, recorded, faults>>
(* Receive returns at the first deadline, or finds its context cancelled.  *)
ReplyTimeout ==
  /\ at[Client].pc = "opening"
  /\ interrupted \/ \A d \in BagToSet(net) : d.to \notin {Client, Daemon}
  /\ Exit(FailCode)
  /\ UNCHANGED <<request, net, peer, reply, interrupted, daemon, recorded, faults>>

(* The temporary socket is closed and one that is connected to the session *)
(* dialled from the same port: what arrives meanwhile is lost.             *)
Miss(d) ==
  /\ at[Client].pc = "redialling" /\ ~Other
  /\ Swap(d, EmptyBag)
  /\ UNCHANGED <<request, at, peer, reply, exit, interrupted, daemon, recorded, faults>>

CannotRedial ==
  /\ at[Client].pc = "redialling" /\ Fault("io")
  /\ Exit(FailCode)
  /\ UNCHANGED <<request, net, peer, reply, interrupted, daemon, recorded>>

ClientOperation == IF Reading THEN "ReadAsClient" ELSE "WriteAsClient"

(* What begins the copy.  The session never acknowledges another block     *)
(* than 0, and other clients take a file to be empty.                      *)
Welcome ==
  \/ reply.kind = "OACK" /\ (Other \/ Agreeable(ClientOperation, reply.options))
  \/ reply.kind = "DATA" /\ Reading
  \/ reply.kind = "ACK" /\ request.message.kind = "WRQ"

(* A download acknowledges the options.                                    *)
Answer ==
  IF reply.kind = "OACK" /\ Reading THEN Mail(Client, peer, Ack(0)) ELSE EmptyBag

(* Forgets to take over what the OACK says.                                *)
WrongAcceptReply ==
  /\ at[Client].pc = "redialling" /\ Welcome
  /\ at' = [at EXCEPT ![Client].pc = "copying"]
  /\ Post(Answer)
  /\ UNCHANGED <<request, peer, reply, exit, interrupted, daemon, recorded, faults>>
(* tftpcpc does not adjust its buffers.                                    *)
AcceptReply ==
  /\ at[Client].pc = "redialling" /\ Welcome
  /\ LET b == IF reply.kind = "OACK" THEN BlockOf(reply.options) ELSE 512
         r == IF Other THEN b + Preamble ELSE at[Client].room
     IN  at' = [at EXCEPT ![Client] =
                  [@ EXCEPT !.pc = "copying", !.block = b, !.room = r]]
  /\ Post(Answer)
  /\ UNCHANGED <<request, peer, reply, exit, interrupted, daemon, recorded, faults>>

(* os.Create or os.Open fails.                                             *)
CannotOpenFile ==
  /\ at[Client].pc = "redialling" /\ Welcome /\ Fault("io")
  /\ Post(Answer (+) Mail(Client, peer, Failure("Unable to download to: file")))
  /\ LogAndExit(FailCode)
  /\ UNCHANGED <<request, peer, reply, interrupted, daemon, recorded>>

RefuseOptions ==
  /\ at[Client].pc = "redialling" /\ reply.kind = "OACK" /\ ~Welcome
  /\ Post(Mail(Client, peer, Failure(BadOptions)))
  /\ Exit(FailCode)
  /\ UNCHANGED <<request, peer, reply, interrupted, daemon, recorded, faults>>

(* An ERROR or a reply of another kind: err is nil, so is the error that   *)
(* is sent, logged and returned.                                           *)
RefuseReply ==
  /\ at[Client].pc = "redialling" /\ reply.kind # "OACK" /\ ~Welcome
  /\ Post(Mail(Client, peer, Failure("<nil>")))
  /\ LogAndExit(IF Other THEN FailCode ELSE 0)
  /\ UNCHANGED <<request, peer, reply, interrupted, daemon, recorded, faults>>

(* ^C in main, which then waits for a ClientRoutine that never returns.    *)
Interrupt ==
  /\ at[Client].pc \notin {"idle", "over"} /\ ~Other /\ ~interrupted
  /\ Fault("interrupt")
  /\ interrupted' = TRUE
  /\ UNCHANGED <<request, at, net, peer, reply, exit, daemon, recorded>>

-----------------------------------------------------------------------------
(* sessionRoutine: Accept, and the opening of ReadAsServer, WriteAsServer. *)

(* The session fails and tells the client the reason as often as it says.  *)
Fail(s, text) == at' = [at EXCEPT ![s].pc = "over"] /\ Post(Mail(s, Client, Failure(text)))

(* A new session s gets the message m out of datagram d.                   *)
Accepts(s, d, m, kinds) ==
  daemon = "running" /\ at[s].pc = "unused" /\ m.kind \in kinds

(* The opening fails: the session has sent the reason once or twice.       *)
Rejects(s, d, times, text) ==
  /\ at' = [at EXCEPT ![s] = NewSession("over")]
  /\ Swap(d, [e \in {Datagram(s, Client, Failure(text))} |-> times])

(* Accept: a datagram that does not parse, or is no request; the latter    *)
(* both Accept and sessionRoutine answer.                                  *)
RejectDatagram(s, d, m) ==
  /\ \/ /\ Accepts(s, d, m, {"invalid"})
        /\ Rejects(s, d, 1, "Client sent unknown message type")
     \/ /\ Accepts(s, d, m, {"DATA", "ACK", "ERROR", "OACK"})
        /\ Rejects(s, d, 2, "Client requested invalid operation")
  /\ UNCHANGED <<request, peer, reply, exit, interrupted, daemon, recorded, faults>>

(* Reserve finds no version of the file, or cannot open it.                *)
RejectRead(s, d, m) ==
  /\ Accepts(s, d, m, {"RRQ"})
  /\ (size = Absent /\ UNCHANGED faults) \/ Fault("io")
  /\ Rejects(s, d, 1, "File does not exist!")
  /\ UNCHANGED <<request, peer, reply, exit, interrupted, daemon, recorded>>

Served(s, d, m, kinds) ==
  Accepts(s, d, m, kinds) /\ (m.kind = "RRQ" => size # Absent)

Operation(m) == IF m.kind = "RRQ" THEN "ReadAsServer" ELSE "WriteAsServer"

(* UpdateOptions meets an option it refuses, or Lstat fails when a download*)
(* asks for the size.  The loop takes the options in any order.            *)
RejectOptions(s, d, m) ==
  /\ Served(s, d, m, {"RRQ", "WRQ"})
  /\ \/ Refused(Operation(m), m.options) # {} /\ UNCHANGED faults
     \/ m.kind = "RRQ" /\ AsksSize(m.options) /\ Fault("io")
  /\ Rejects(s, d, 2, BadOptions)
  /\ UNCHANGED <<request, peer, reply, exit, interrupted, daemon, recorded>>

(* A goroutine that panics ends the process, a kill does, too.             *)
Dies(how) ==
  /\ daemon' = how
  /\ at' = [x \in Ends |->
              IF x = Client \/ at[x].pc = "unused" THEN at[x] ELSE [at[x] EXCEPT !.pc = "over"]]

PanicOnOption(s, d, m) ==
  /\ Served(s, d, m, {"RRQ", "WRQ"})
  /\ Unparsable(m.options) # {}
  /\ Dies("panicked")
  /\ Swap(d, EmptyBag)
  /\ UNCHANGED <<request, peer, reply, exit, interrupted, recorded, faults>>

(* Starts to send without waiting for the client's acknowledgement.        *)
WrongAcceptRead(s, d, m) ==
  LET b == BlockOf(m.options)
  IN  /\ Served(s, d, m, {"RRQ"}) /\ Agreeable("ReadAsServer", m.options)
      /\ at' = [at EXCEPT ![s] =
                  [NewSession("copying") EXCEPT !.block = b, !.room = b + Preamble]]
      /\ Swap(d, Mail(s, Client, Data(1, IF size < b THEN size ELSE b)) (+)
                 IF m.options = NoOptions THEN EmptyBag
                 ELSE Mail(s, Client, OptionAck(Updated(m.options))))
      /\ UNCHANGED <<request, peer, reply, exit, interrupted, daemon, recorded, faults>>
(* ReadAsServer acknowledges the options and waits for the client to       *)
(* acknowledge that; without any it sends the first block.                 *)
AcceptRead(s, d, m) ==
  LET b == BlockOf(m.options)
  IN  /\ Served(s, d, m, {"RRQ"}) /\ Agreeable("ReadAsServer", m.options)
      /\ IF m.options = NoOptions
         THEN /\ at' = [at EXCEPT ![s] = NewSession("copying")]
              /\ Swap(d, Mail(s, Client, Data(1, IF size < b THEN size ELSE b)))
         ELSE /\ at' = [at EXCEPT ![s] = [NewSession("awaiting") EXCEPT !.block = b]]
              /\ Swap(d, Mail(s, Client, OptionAck(Updated(m.options))))
      /\ UNCHANGED <<request, peer, reply, exit, interrupted, daemon, recorded, faults>>

(* Leaves the buffers as NewTftpSession made them.                         *)
WrongAcceptWrite(s, d, m) ==
  /\ Served(s, d, m, {"WRQ"}) /\ Agreeable("WriteAsServer", m.options)
  /\ at' = [at EXCEPT ![s] = [NewSession("preparing") EXCEPT !.block = BlockOf(m.options)]]
  /\ Swap(d, Mail(s, Client, IF m.options = NoOptions THEN Ack(0) ELSE OptionAck(Updated(m.options))))
  /\ UNCHANGED <<request, peer, reply, exit, interrupted, daemon, recorded, faults>>
(* WriteAsServer answers, then adjusts its buffers.                        *)
AcceptWrite(s, d, m) ==
  LET b == BlockOf(m.options)
  IN  /\ Served(s, d, m, {"WRQ"}) /\ Agreeable("WriteAsServer", m.options)
      /\ at' = [at EXCEPT ![s] =
                  [NewSession("preparing") EXCEPT !.block = b, !.room = b + Preamble]]
      /\ Swap(d, Mail(s, Client, IF m.options = NoOptions THEN Ack(0) ELSE OptionAck(Updated(m.options))))
      /\ UNCHANGED <<request, peer, reply, exit, interrupted, daemon, recorded, faults>>

(* The buffers of a download still have their first size when the session  *)
(* receives the client's acknowledgement.                                  *)
Overruns(s) == at[s].block + Preamble > at[s].room

PanicOnSlice(s) ==
  /\ daemon = "running" /\ at[s].pc \in {"awaiting", "copying"} /\ Overruns(s)
  /\ Dies("panicked")
  /\ UNCHANGED <<request, net, peer, reply, exit, interrupted, recorded, faults>>

TakeAnswer(s, d, m) ==
  /\ at[s].pc = "awaiting" /\ ~Overruns(s)
  /\ IF m = Ack(0)
     THEN /\ at' = [at EXCEPT ![s].pc = "copying", ![s].room = at[s].block + Preamble]
          /\ Swap(d, EmptyBag)
     ELSE /\ at' = [at EXCEPT ![s].pc = "over"]
          /\ Swap(d, Mail(s, Client, Failure("Did not acknowledge the options")))
  /\ UNCHANGED <<request, peer, reply, exit, interrupted, daemon, recorded, faults>>

(* Prepare, before the first block is taken.                               *)
PrepareUpload(s) ==
  /\ at[s].pc = "preparing"
  /\ \/ at' = [at EXCEPT ![s].pc = "copying"] /\ UNCHANGED <<net, faults>>
     \/ Fault("io") /\ Fail(s, "Cannot prepare the upload")
  /\ UNCHANGED <<request, peer, reply, exit, interrupted, daemon, recorded>>

(* OverwriteSuccess, after the last block has been acknowledged.           *)
SaveUpload(s) ==
  /\ at[s].pc = "saving"
  /\ \/ /\ recorded' = recorded \cup {s}
        /\ at' = [at EXCEPT ![s].pc = "over"] /\ UNCHANGED <<net, faults>>
     \/ /\ Fault("io") /\ Fail(s, "Cannot record the upload") /\ UNCHANGED recorded
  /\ UNCHANGED <<request, peer, reply, exit, interrupted, daemon>>

-----------------------------------------------------------------------------
(* The copy. *)

From == IF Reading THEN peer ELSE Client
To   == IF Reading THEN Client ELSE peer

(* A block that is not full is the last one.                               *)
WrongLastBlock(x, n) == n <= at[x].block
LastBlock(x, n) == n < at[x].block

(* One block is read, sent, written and acknowledged.  After the last one  *)
(* the sender has its acknowledgement still to receive, while the receiver *)
(* is done: tftpcpc exits, a session records the upload.                   *)
CopyBlock ==
  /\ peer # Nobody /\ at[Client].pc = "copying" /\ at[peer].pc = "copying"
  /\ ~Overruns(Client) /\ ~Overruns(peer)
  /\ LET left == size - at[From].bytes
         sent == IF left < at[From].block THEN left ELSE at[From].block
         got  == IF sent < at[To].block THEN sent ELSE at[To].block
         last == LastBlock(To, got)
     IN  /\ at' = [at EXCEPT
              ![From] = [@ EXCEPT !.bytes = at[From].bytes + sent,
                           !.pc = IF LastBlock(From, sent) THEN "closing" ELSE "copying"],
              ![To] = [@ EXCEPT !.bytes = at[To].bytes + got,
                         !.pc = IF ~last THEN "copying" ELSE IF Reading THEN "over" ELSE "saving"]]
         /\ exit' = IF last /\ Reading THEN 0 ELSE exit
  /\ UNCHANGED <<request, net, peer, reply, interrupted, daemon, recorded, faults>>

(* The sender gets the last acknowledgement.                               *)
LastAck ==
  /\ peer # Nobody /\ at[From].pc = "closing"
  /\ IF Reading THEN at' = [at EXCEPT ![peer].pc = "over"] /\ UNCHANGED exit ELSE Exit(0)
  /\ UNCHANGED <<request, net, peer, reply, interrupted, daemon, recorded, faults>>

(* What may still reach a session, or the client.                          *)
Expected(x) ==
  IF x = Client
  THEN at[peer].pc \in {"awaiting", "preparing", "copying"}
  ELSE \/ \E d \in BagToSet(net) : d.from = Client /\ d.to = x
       \/ at[Client].pc = "opening" /\ \E d \in BagToSet(net) : d.from = x
       \/ peer = x /\ at[Client].pc = "redialling"
       \/ peer = x /\ at[Client].pc = "copying" /\ at[x].pc = "copying"

(* An end fails: the client without a word.                                *)
Quit(x) ==
  IF x = Client THEN Exit(FailCode) /\ UNCHANGED net
  ELSE Fail(x, "Client connection (likely) dead") /\ UNCHANGED exit

(* Takes an upload whose client has gone silent to be complete.            *)
WrongGoSilent(x) ==
  /\ at[x].pc \in {"awaiting", "copying"} /\ ~Expected(x)
  /\ IF x # Client /\ at[x].pc = "copying" /\ ~Reading
     THEN at' = [at EXCEPT ![x].pc = "saving"] /\ UNCHANGED <<net, exit>>
     ELSE Quit(x)
  /\ UNCHANGED <<request, peer, reply, interrupted, daemon, recorded, faults>>
(* The other end is gone or has not heard: the read deadline passes.       *)
GoSilent(x) ==
  /\ at[x].pc \in {"awaiting", "copying"} /\ ~Expected(x)
  /\ Quit(x)
  /\ UNCHANGED <<request, peer, reply, interrupted, daemon, recorded, faults>>

(* A loop fails, or finds its context cancelled.                           *)
GiveUp(x) ==
  /\ at[x].pc \in {"copying", "closing"}
  /\ \/ x = Client /\ interrupted /\ UNCHANGED faults
     \/ Fault("transfer")
  /\ Quit(x)
  /\ UNCHANGED <<request, peer, reply, interrupted, daemon, recorded>>

(* A loop gets a datagram of the opening, or an ERROR.  Repeated answers   *)
(* and first blocks are retransmissions to it.                             *)
TakeStray(x, d, m) ==
  /\ at[x].pc \in {"copying", "closing"}
  /\ x = Client => d.from = peer
  /\ IF m.kind \in {"ACK", "DATA"}
     THEN Swap(d, EmptyBag) /\ UNCHANGED <<at, exit>>
     ELSE IF x = Client
     THEN Swap(d, EmptyBag) /\ Exit(FailCode)
     ELSE /\ Swap(d, Mail(x, Client, Failure("Client failed")))
          /\ at' = [at EXCEPT ![x].pc = "over"] /\ UNCHANGED exit
  /\ UNCHANGED <<request, peer, reply, interrupted, daemon, recorded, faults>>

-----------------------------------------------------------------------------
(* The network and the process. *)

Lose(d) ==
  /\ Fault("lose")
  /\ Swap(d, EmptyBag)
  /\ UNCHANGED <<request, at, peer, reply, exit, interrupted, daemon, recorded>>

Duplicate(d) ==
  /\ Fault("duplicate")
  /\ Post(SetToBag({d}))
  /\ UNCHANGED <<request, at, peer, reply, exit, interrupted, daemon, recorded>>

(* Nobody reads from the port, or its socket is connected to another one.  *)
Unheard(d) ==
  CASE d.to = Daemon -> daemon # "running" \/ \A s \in Sessions : at[s].pc # "unused"
    [] d.to = Client -> \/ at[Client].pc = "over"
                        \/ at[Client].pc \in {"copying", "closing"} /\ d.from # peer
    [] OTHER         -> at[d.to].pc \in {"saving", "over"}

Drop(d) ==
  /\ Unheard(d)
  /\ Swap(d, EmptyBag)
  /\ UNCHANGED <<request, at, peer, reply, exit, interrupted, daemon, recorded, faults>>

Kill ==
  /\ daemon = "running" /\ Fault("kill")
  /\ Dies("killed")
  /\ UNCHANGED <<request, net, peer, reply, exit, interrupted, recorded>>

-----------------------------------------------------------------------------
Init ==
  /\ request \in Requests
  /\ at = [x \in Ends |-> NewSession(IF x = Client THEN "idle" ELSE "unused")]
  /\ net = EmptyBag /\ peer = Nobody /\ reply = Invalid /\ exit = Running
  /\ interrupted = FALSE /\ daemon = "running" /\ recorded = {} /\ faults = 0

ClientStep ==
  \/ SendRequest \/ CannotStart \/ ReplyTimeout \/ CannotRedial
  \/ AcceptReply \/ CannotOpenFile \/ RefuseOptions \/ RefuseReply \/ Interrupt
  \/ \E d \in Inbox(Client) :
       Miss(d) \/ \E m \in Understood(Client, d) : TakeReply(d, m)

SessionOpens(s, d, m) ==
  \/ RejectDatagram(s, d, m) \/ RejectRead(s, d, m) \/ RejectOptions(s, d, m)
  \/ PanicOnOption(s, d, m) \/ AcceptRead(s, d, m) \/ AcceptWrite(s, d, m)

SessionStep(s) ==
  \/ PanicOnSlice(s) \/ PrepareUpload(s) \/ SaveUpload(s)
  \/ \E d \in Inbox(Daemon) : \E m \in Understood(Daemon, d) : SessionOpens(s, d, m)
  \/ \E d \in Inbox(s) : \E m \in Understood(s, d) : TakeAnswer(s, d, m)

CopyStep ==
  \/ CopyBlock \/ LastAck
  \/ \E x \in Ends :
       \/ GoSilent(x) \/ GiveUp(x)
       \/ \E d \in Inbox(x) : \E m \in Understood(x, d) : TakeStray(x, d, m)

NetworkStep == Kill \/ \E d \in BagToSet(net) : Lose(d) \/ Duplicate(d) \/ Drop(d)

Next ==
  \/ ClientStep \/ CopyStep \/ NetworkStep
  \/ \E s \in Sessions : SessionStep(s)

Spec == Init /\ [][Next]_vars

(* Every goroutine runs, what is not lost arrives and deadlines pass; the  *)
(* faults need not happen.  There is no cycle of such steps.               *)
FairSpec == Spec /\ WF_vars(UNCHANGED faults /\ Next)

-----------------------------------------------------------------------------
Pcs == {"idle", "opening", "redialling", "unused", "awaiting",
        "preparing", "copying", "closing", "saving", "over"}
Rooms == 12 .. 65468
EndType == [pc : Pcs, block : BlockSizes, room : Rooms, bytes : Nat]

TypeOK ==
  /\ request \in Requests
  /\ at \in [Ends -> EndType]
  /\ \A x \in Ends : at[x].bytes > 0 => at[x].bytes <= size
  /\ IsABag(net)
  /\ \A d \in BagToSet(net) : d.from \in Ends /\ d.to \in Ends \cup {Daemon}
  /\ peer \in Sessions \cup {Nobody} /\ exit \in {Running, 0, 1, 2, 21, 22}
  /\ interrupted \in BOOLEAN /\ daemon \in {"running", "panicked", "killed"}
  /\ recorded \subseteq Sessions /\ faults \in 0 .. MaxFaults

(* Two ends that copy agree on the size of a block, and the buffers of     *)
(* both hold one: otherwise every block of the sender is cut short, and    *)
(* the first one taken for the last, without an error at either end.       *)
BlockSizesAgree ==
  peer # Nobody /\ at[Client].pc = "copying" /\ at[peer].pc = "copying" =>
    /\ at[Client].block = at[peer].block
    /\ at[From].room >= at[From].block + Preamble
    /\ at[To].room >= at[To].block + Preamble

(* While the client closes one socket and dials the next, its session      *)
(* sends nothing that matters: nothing but copies of the message the       *)
(* client already has and, if it has failed meanwhile, the reasons.        *)
RedialLosesNoData ==
  at[Client].pc = "redialling" /\ reply.kind # "ERROR" =>
    \A d \in BagToSet(net) :
      d.to = Client /\ d.from = peer =>
        d.message.kind = "ERROR" \/ Decode(CHOOSE w \in Encodings(d.message) : TRUE) = reply

(* One client can end the daemon for all others only by a value that is no *)
(* number, or by a block size for a download that its first buffer does    *)
(* not hold.                                                               *)
DaemonSurvives ==
  daemon = "panicked" =>
    LET o == LowerCased(request.message.options)
    IN  Unparsable(o) # {} \/ (Reading /\ BlockOf(o) > 512)

(* Whatever order the options are written in, a datagram on its way is     *)
(* understood as it was meant.  Only an ERROR that the receiver's buffer   *)
(* cuts and a request without a name are not understood at all; an OACK    *)
(* that comes too late is refused, whatever it says.                       *)
NothingMisread ==
  \A d \in {e \in BagToSet(net) : ~Unheard(e)} : \A w \in Encodings(d.message) :
    LET m == Decode(Cut(w, Window(d.to)))
    IN  \/ m = Canonical(d.message)
        \/ m = Invalid /\ d.message.kind = "ERROR" /\ Size(w) > Window(d.to)
        \/ m = Invalid /\ d.message.kind \in {"RRQ", "WRQ"} /\ d.message.name = ""
        \/ m.kind \in {"OACK", "invalid"} /\ d.message.kind = "OACK"
             /\ at[d.to].pc \in {"copying", "closing"}

(* Success is true: tftpcpc exits with 0 only when the copy is whole, be   *)
(* it there or at the daemon, unless its request was refused; and the      *)
(* table never calls an upload complete that is not.                       *)
WholeOrReported ==
  /\ exit = 0 /\ Welcome => at[To].bytes = size
  /\ \A s \in recorded : at[s].bytes = size

(* A request that arrives twice starts two sessions, and at most one of    *)
(* them leaves a version.                                                  *)
OneVersionPerUpload == Cardinality(recorded) <= 1

(* A dialogue ends at both ends, whatever happens to it.                   *)
DialogueEnds ==
  <>(at[Client].pc = "over" /\ \A s \in Sessions : at[s].pc \in {"unused", "over"})

(* What the daemon can serve: a file that is there, options it can take,   *)
(* and for tftpcpc one that is not empty.                                  *)
Servable ==
  LET m == request.message
      o == LowerCased(m.options)
  IN  /\ m.kind \in {"RRQ", "WRQ"} /\ m.name # "" /\ size # Absent
      /\ Agreeable(Operation(m), o)
      /\ Reading => BlockOf(o) <= 512 /\ (size = 0 => Other)

(* Undisturbed, such a dialogue succeeds at both ends.                     *)
UndisturbedSucceeds ==
  [](faults = 0 /\ Servable) =>
    <>(exit = 0 /\ at[To].bytes = size /\ (~Reading => recorded # {}))

(* "tsize of 0 as in read request is special: server responds in           *)
(* optionAcknowledge message with size of file" (UpdateOptions): a file    *)
(* that exists can be downloaded when nothing goes wrong.                  *)
EmptyFileDownloads == exit = 22 => faults > 0 \/ size = Absent

(* "client routine exits with 0 if it completes successfully" (main of     *)
(* tftpcpc): it does so only when the file has been copied.                *)
ExitZeroMeansCopied == exit = 0 => at[To].bytes = size
=============================================================================
