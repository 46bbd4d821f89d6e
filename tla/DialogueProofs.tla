--------------------------- MODULE DialogueProofs ---------------------------
(***************************************************************************)
(* One dialogue, whatever is lost, sent twice, interrupted or killed: the  *)
(* two ends that copy agree on the size of a block, and success is true.   *)
(***************************************************************************)
EXTENDS Dialogue, CodecProofs

-----------------------------------------------------------------------------
(* The inductive invariant. *)

Requested == request.message.kind \in Asking
Asked == LowerCased(request.message.options)

(* What a session says first, when it takes the request.                   *)
Greeting ==
  IF Asked # NoOptions THEN OptionAck(Updated(Asked))
  ELSE IF Reading THEN Data(1, IF size < 512 THEN size ELSE 512) ELSE Ack(0)

(* Session s has taken the request, with the block that it asks for.       *)
Opened(s) ==
  /\ Requested /\ Agreeable(Operation(request.message), Asked)
  /\ Reading => size \in Nat
  /\ at[s].pc # "unused" /\ at[s].block = BlockOf(Asked)

AtOK == at \in [Ends -> EndType]

RestOK ==
  /\ request \in Requests /\ IsABag(net)
  /\ peer \in Sessions \cup {Nobody} /\ exit \in {Running, 0, 1, 2, 21, 22}
  /\ interrupted \in BOOLEAN /\ daemon \in {"running", "panicked", "killed"}
  /\ recorded \subseteq Sessions /\ faults \in 0 .. MaxFaults

(* The port gets the request; a session gets what the client says; and the *)
(* client gets the greeting of a session, or its failure.                  *)
Proper(d) ==
  \/ /\ d.to = Daemon /\ d.from = Client /\ d.message = request.message
     /\ at[Client].pc # "idle"
  \/ d.to \in Sessions /\ d.from = Client
  \/ /\ d.to = Client /\ d.from \in Sessions /\ at[d.from].pc # "unused"
     /\ \/ d.message.kind = "ERROR"
        \/ d.message = Greeting /\ Opened(d.from)

NetInv == \A d \in BagToSet(net) : Proper(d)

SessionInv(s) ==
  /\ at[s].pc \in {"unused", "awaiting", "preparing", "copying", "closing", "saving", "over"}
  /\ at[s].pc = "unused" => at[s] = NewSession("unused")
  /\ at[s].pc \notin {"unused", "over"} => Opened(s)
  /\ at[s].pc = "awaiting" => Reading /\ at[s].room = 512 + Preamble
  /\ at[s].pc \in {"preparing", "copying", "closing", "saving"} =>
       at[s].room = at[s].block + Preamble
  /\ at[s].pc \in {"preparing", "saving"} => ~Reading

ClientInv ==
  /\ at[Client].pc \in {"idle", "opening", "redialling", "copying", "closing", "over"}
  /\ at[Client].pc \in {"idle", "opening"} => peer = Nobody
  /\ at[Client].pc \in {"idle", "opening", "redialling"} =>
       at[Client].block = 512 /\ at[Client].room = 512 + Preamble
  /\ at[Client].pc \in {"redialling", "copying", "closing"} =>
       /\ peer \in Sessions
       /\ \/ reply.kind = "ERROR"
          \/ reply = Greeting /\ Opened(peer)
  /\ at[Client].pc \in {"copying", "closing"} =>
       /\ reply = Greeting /\ Requested
       /\ at[Client].block = BlockOf(Asked)
       /\ at[Client].room >= at[Client].block + Preamble
  /\ at[Client].pc = "over" <=> exit # Running

(* Both ends of the copy have come equally far; nobody else has copied.    *)
CopyInv ==
  /\ \A x \in Ends : at[x].bytes > 0 => at[x].bytes <= size
  /\ peer = Nobody => \A x \in Ends : at[x].bytes = 0
  /\ peer # Nobody =>
       /\ at[peer].bytes = at[Client].bytes
       /\ \A s \in Sessions \ {peer} : at[s].bytes = 0
  /\ \A x \in Ends :
       at[x].pc = "closing" => peer # Nobody /\ x = From /\ at[Client].bytes = size
  /\ \A s \in Sessions :
       at[s].pc = "saving" \/ s \in recorded => s = peer /\ at[Client].bytes = size
  /\ exit = 0 /\ Welcome => peer # Nobody /\ at[Client].bytes = size

DialogueInv ==
  /\ AtOK /\ RestOK /\ NetInv /\ \A s \in Sessions : SessionInv(s)
  /\ ClientInv /\ CopyInv /\ DaemonSurvives

-----------------------------------------------------------------------------
(* Bags of datagrams. *)

LEMMA MailBag ==
  ASSUME NEW from, NEW to, NEW m
  PROVE  /\ IsABag(Mail(from, to, m))
         /\ BagToSet(Mail(from, to, m)) = {Datagram(from, to, m)}
BY DEF Mail, IsABag, SetToBag, BagToSet

LEMMA EmptyMail == IsABag(EmptyBag) /\ BagToSet(EmptyBag) = {}
BY DEF IsABag, EmptyBag, SetToBag, BagToSet

LEMMA BagSum ==
  ASSUME NEW b, NEW c, IsABag(b), IsABag(c)
  PROVE  IsABag(b (+) c) /\ BagToSet(b (+) c) = BagToSet(b) \cup BagToSet(c)
BY DEF IsABag, BagToSet, (+)

LEMMA BagRest ==
  ASSUME NEW b, IsABag(b), NEW d
  PROVE  IsABag(b (-) SetToBag({d})) /\ BagToSet(b (-) SetToBag({d})) \subseteq BagToSet(b)
BY DEF IsABag, BagToSet, SetToBag, (-)

LEMMA Posts ==
  ASSUME IsABag(net), NEW sent, IsABag(sent), Post(sent)
  PROVE  IsABag(net') /\ BagToSet(net') = BagToSet(net) \cup BagToSet(sent)
BY BagSum DEF Post

LEMMA Swaps ==
  ASSUME IsABag(net), NEW d, NEW sent, IsABag(sent), Swap(d, sent)
  PROVE  IsABag(net') /\ BagToSet(net') \subseteq BagToSet(net) \cup BagToSet(sent)
<1> DEFINE rest == net (-) SetToBag({d})
<1>1. IsABag(rest) /\ BagToSet(rest) \subseteq BagToSet(net)
  BY BagRest
<1>2. net' = rest (+) sent
  BY DEF Swap
<1> HIDE DEF rest
<1> QED
  BY <1>1, <1>2, BagSum

LEMMA CopiesBag ==
  ASSUME NEW d, NEW times \in {1, 2}
  PROVE  LET b == [e \in {d} |-> times] IN IsABag(b) /\ BagToSet(b) = {d}
BY DEF IsABag, BagToSet

-----------------------------------------------------------------------------
(* What the ends understand. *)

(* The buffer of the port takes a request whole, and nothing but a request *)
(* reads like one.                                                         *)
LEMMA PortUnderstands ==
  ASSUME request \in Requests, NEW d, d.message = request.message,
         NEW m \in Understood(Daemon, d), m.kind \in Asking
  PROVE  Requested /\ m.kind = request.message.kind /\ m.options = Asked
<1> DEFINE q == request.message
<1>1. PICK w \in Encodings(q) : m = Decode(Cut(w, 65535))
  BY DEF Understood, Window
<1>2. Size(w) <= 65535
  BY RequestsAssumption
<1>3. m = Decode(w)
  BY <1>1, <1>2 DEF Cut
<1>4. IsMessage(q)
  BY RequestsAssumption
<1>5. m # Invalid
  BY DEF Invalid, Asking
<1>6. m = Canonical(q)
  BY <1>1, <1>3, <1>4, <1>5, ReadAsMeant
<1>7. m.kind = q.kind /\ (q.kind \in Asking => m.options = LowerCased(q.options))
  BY <1>4, <1>6, CanonicalKinds
<1> QED
  BY <1>7 DEF Requested, Asked

(* The options of the request, once they have been read.                   *)
LEMMA AskedLowered ==
  ASSUME request \in Requests, Requested
  PROVE  Writable(request.message.options) /\ Lowered(Asked)
<1>1. IsMessage(request.message)
  BY RequestsAssumption
<1>2. Writable(request.message.options)
  BY <1>1, MessageKinds DEF Requested
<1> QED
  BY <1>2, LowerCasedLowered DEF Asked

(* An OACK echoes the keys of the request.                                 *)
LEMMA AnsweredLowered ==
  ASSUME NEW o, Lowered(o), NEW n
  PROVE  Lowered(Answered(o, n))
<1>1. CASE "tsize" \in DOMAIN o
  <2> DEFINE v == ToString(IF Parsed[o["tsize"]] = 0 THEN n ELSE Parsed[o["tsize"]])
             a == [o EXCEPT !["tsize"] = v]
  <2>1. Answered(o, n) = a
    BY <1>1 DEF Answered
  <2>2. DOMAIN a = DOMAIN o /\ a = [k \in DOMAIN a |-> a[k]]
    OBVIOUS
  <2> QED
    BY <2>1, <2>2 DEF Lowered
<1>2. CASE "tsize" \notin DOMAIN o
  BY <1>2 DEF Answered
<1> QED
  BY <1>1, <1>2

(* A greeting arrives whole in the client's first buffer.                  *)
LEMMA GreetingRead ==
  ASSUME request \in Requests, NEW s, Opened(s), NEW w \in Encodings(Greeting)
  PROVE  Size(w) <= 512 + Preamble /\ Decode(w) = Greeting
<1>1. CASE Asked # NoOptions
  <2> DEFINE o == Updated(Asked)
  <2>1. Greeting = OptionAck(o)
    BY <1>1 DEF Greeting
  <2>2. Unparsable(Asked) = {}
    BY DEF Opened, Agreeable
  <2>3. \A v \in Encodings(OptionAck(Answered(Asked, size))) :
          Size(v) <= 512 + Preamble /\ Decode(v) # Invalid
    BY <1>1, <2>2, RequestsAssumption DEF Opened, Requested, Asking, Asked, size
  <2>4. Size(w) <= 512 + Preamble /\ Decode(w) # Invalid
    BY <2>1, <2>3 DEF Updated
  <2>5. Lowered(o)
    BY AskedLowered, AnsweredLowered DEF Updated, Opened
  <2>6. Writable(o) /\ LowerCased(o) = o
    BY <2>5, LoweredTwice
  <2>7. Decode(w) = IF Size(Tail(w)) < ShortestOptions THEN Invalid ELSE OptionAck(o)
    BY <2>1, <2>6, OptionAckRead
  <2> QED
    BY <2>1, <2>4, <2>7
<1>2. CASE Asked = NoOptions /\ Reading
  <2>1. PICK b \in Nat : b <= 512 /\ Greeting = Data(1, b)
    BY <1>2 DEF Greeting, Opened
  <2> QED
    BY <2>1, DataRead DEF Preamble
<1>3. CASE Asked = NoOptions /\ ~Reading
  <2>1. Greeting = Ack(0)
    BY <1>3 DEF Greeting
  <2> QED
    BY <2>1, AckRead DEF Preamble
<1> QED
  BY <1>1, <1>2, <1>3

(* What a session sends to the client reads as what it is, or not at all.  *)
LEMMA ClientUnderstands ==
  ASSUME request \in Requests, at[Client].block = 512,
         NEW d, d.message.kind = "ERROR" \/ (d.message = Greeting /\ Opened(d.from)),
         NEW m \in Understood(Client, d), m # Invalid
  PROVE  m.kind = "ERROR" \/ (m = Greeting /\ Opened(d.from))
<1>1. PICK w \in Encodings(d.message) : m = Decode(Cut(w, 512 + Preamble))
  BY DEF Understood, Window, Client, Daemon
<1>2. CASE d.message.kind = "ERROR"
  <2>1. 512 + Preamble \in Nat /\ 512 + Preamble >= 4
    BY DEF Preamble
  <2> QED
    BY <1>1, <1>2, <2>1, ErrorRead
<1>3. CASE d.message = Greeting /\ Opened(d.from)
  <2>1. w \in Encodings(Greeting)
    BY <1>1, <1>3
  <2>2. Size(w) <= 512 + Preamble /\ Decode(w) = Greeting
    BY <1>3, <2>1, GreetingRead
  <2>3. m = Decode(w)
    BY <1>1, <2>2 DEF Cut
  <2> QED
    BY <1>3, <2>2, <2>3
<1> QED
  BY <1>2, <1>3

-----------------------------------------------------------------------------
(* What no step undoes: a session has taken the request and agreed on the  *)
(* size of a block, the client has sent it.                                *)

Persists ==
  /\ request' = request
  /\ at[Client].pc # "idle" => at'[Client].pc # "idle"
  /\ \A s \in Sessions :
       at[s].pc # "unused" => at'[s].pc # "unused" /\ at'[s].block = at[s].block

(* The step adds no other datagrams than those of new.                     *)
Adds(new) == IsABag(net') /\ BagToSet(net') \subseteq BagToSet(net) \cup new

LEMMA OpenedPersists ==
  ASSUME Persists, NEW s \in Sessions, Opened(s)
  PROVE  Opened(s)'
BY DEF Persists, Opened, Requested, Asked, Reading, size

LEMMA GreetingPersists ==
  ASSUME Persists
  PROVE  Greeting' = Greeting /\ Asked' = Asked /\ (Requested' <=> Requested)
BY DEF Persists, Greeting, Asked, Reading, size, Updated, Requested

LEMMA ProperPersists ==
  ASSUME Persists, NEW d, Proper(d)
  PROVE  Proper(d)'
BY OpenedPersists, GreetingPersists DEF Proper, Persists

LEMMA NetPersists ==
  ASSUME Persists, NetInv, NEW new, Adds(new), \A d \in new : Proper(d)'
  PROVE  NetInv'
BY ProperPersists DEF NetInv, Adds

(* Nothing is added by taking a datagram.                                  *)
LEMMA TakenAdds ==
  ASSUME IsABag(net), NEW d, Swap(d, EmptyBag)
  PROVE  Adds({})
BY Swaps, EmptyMail DEF Adds

LEMMA SwapMailAdds ==
  ASSUME IsABag(net), NEW d, NEW from, NEW to, NEW m, Swap(d, Mail(from, to, m))
  PROVE  Adds({Datagram(from, to, m)})
BY Swaps, MailBag DEF Adds

LEMMA PostMailAdds ==
  ASSUME IsABag(net), NEW from, NEW to, NEW m, Post(Mail(from, to, m))
  PROVE  Adds({Datagram(from, to, m)})
BY Posts, MailBag DEF Adds

LEMMA RejectsAdds ==
  ASSUME IsABag(net), NEW s, NEW d, NEW times \in {1, 2}, NEW text, Rejects(s, d, times, text)
  PROVE  Adds({Datagram(s, Client, Failure(text))})
<1> DEFINE e == Datagram(s, Client, Failure(text))
           b == [x \in {e} |-> times]
<1>1. IsABag(b) /\ BagToSet(b) = {e}
  BY CopiesBag
<1>2. Swap(d, b)
  BY DEF Rejects
<1> HIDE DEF b
<1> QED
  BY <1>1, <1>2, Swaps DEF Adds

(* Every failure a session reports, and every word of the client to a      *)
(* session, is proper.                                                     *)
LEMMA FailureProper ==
  ASSUME NEW s \in Sessions, at'[s].pc # "unused", NEW text
  PROVE  Proper(Datagram(s, Client, Failure(text)))'
BY DEF Proper, Datagram, Failure, Error

LEMMA ClientProper ==
  ASSUME NEW s \in Sessions, NEW m
  PROVE  Proper(Datagram(Client, s, m))'
BY DEF Proper, Datagram

-----------------------------------------------------------------------------
(* Steps that only end something: ends go over, nothing else of theirs     *)
(* changes.                                                                *)

Withdraws ==
  /\ UNCHANGED <<request, peer, reply>>
  /\ at' = [x \in Ends |-> at'[x]]
  /\ \A x \in Ends :
       \/ at'[x] = at[x]
       \/ at[x].pc # "unused" /\ at'[x] = [at[x] EXCEPT !.pc = "over"]

LEMMA Sizes ==
  /\ BlockSizes \subseteq Nat /\ Rooms \subseteq Nat
  /\ \A b \in BlockSizes : b > 0
<1>1. BlockSizes \subseteq Nat
  BY DEF BlockSizes
<1>2. Rooms \subseteq Nat
  BY DEF Rooms
<1>3. \A b \in BlockSizes : b > 0
  BY DEF BlockSizes
<1> QED
  BY <1>1, <1>2, <1>3

LEMMA EndFields ==
  ASSUME AtOK, NEW x \in Ends
  PROVE  /\ at[x] \in EndType
         /\ at[x].pc \in Pcs
         /\ at[x].block \in BlockSizes /\ at[x].room \in Rooms /\ at[x].bytes \in Nat
<1>1. at[x] \in EndType
  BY DEF AtOK
<1> QED
  BY <1>1 DEF EndType

(* An end that moves on to another place only.                             *)
LEMMA MovedFields ==
  ASSUME NEW e \in EndType, NEW where \in Pcs
  PROVE  LET o == [e EXCEPT !.pc = where]
         IN  /\ o.pc = where /\ o.block = e.block
             /\ o.room = e.room /\ o.bytes = e.bytes /\ o \in EndType
BY DEF EndType

LEMMA EndsApart ==
  /\ Client \in Ends /\ Client \notin Sessions
  /\ Daemon \notin Ends /\ Nobody \notin Ends /\ Client # Daemon
  /\ \A s \in Sessions : s \in Ends /\ s # Client /\ s # Daemon /\ s # Nobody
BY SessionsAssumption DEF Ends, Client, Daemon, Nobody

LEMMA WithdrawFields ==
  ASSUME AtOK, Withdraws, NEW x \in Ends
  PROVE  /\ at'[x].block = at[x].block /\ at'[x].room = at[x].room
         /\ at'[x].bytes = at[x].bytes
         /\ at'[x].pc = at[x].pc \/ (at'[x].pc = "over" /\ at[x].pc # "unused")
         /\ at[x].pc = "unused" => at'[x] = at[x]
         /\ at'[x] \in EndType
<1>1. at[x] \in EndType /\ "over" \in Pcs
  BY EndFields DEF Pcs
<1> DEFINE o == [at[x] EXCEPT !.pc = "over"]
<1>2. /\ o.pc = "over" /\ o.block = at[x].block
      /\ o.room = at[x].room /\ o.bytes = at[x].bytes /\ o \in EndType
  BY <1>1, MovedFields
<1>3. at'[x] = at[x] \/ (at[x].pc # "unused" /\ at'[x] = o)
  BY DEF Withdraws
<1> HIDE DEF o
<1> QED
  BY <1>1, <1>2, <1>3

LEMMA WithdrawPersists ==
  ASSUME AtOK, Withdraws
  PROVE  Persists /\ AtOK'
<1>1. Persists
  BY WithdrawFields, EndsApart DEF Persists, Withdraws
<1>2. AtOK'
  <2>1. \A x \in Ends : at'[x] \in EndType
    BY WithdrawFields
  <2>2. at' = [x \in Ends |-> at'[x]]
    BY DEF Withdraws
  <2>3. at' \in [Ends -> EndType]
    BY <2>1, <2>2
  <2> QED
    BY <2>3 DEF AtOK
<1> QED
  BY <1>1, <1>2

LEMMA WithdrawSessions ==
  ASSUME AtOK, Withdraws, NEW s \in Sessions, SessionInv(s)
  PROVE  SessionInv(s)'
<1>1. Opened(s) => Opened(s)'
  BY WithdrawPersists, OpenedPersists
<1>2. (Reading' <=> Reading) /\ s \in Ends
  BY EndsApart DEF Withdraws, Reading
<1> QED
  BY <1>1, <1>2, WithdrawFields DEF SessionInv, NewSession

LEMMA WithdrawClient ==
  ASSUME AtOK, Withdraws, ClientInv, at'[Client].pc = "over" <=> exit' # Running
  PROVE  ClientInv'
<1>1. Greeting' = Greeting /\ Asked' = Asked /\ (Requested' <=> Requested)
  BY WithdrawPersists, GreetingPersists
<1>2. \A s \in Sessions : Opened(s) => Opened(s)'
  BY WithdrawPersists, OpenedPersists
<1>3. peer' = peer /\ reply' = reply
  BY DEF Withdraws
<1>5. peer \in Sessions /\ Opened(peer) => Opened(peer)'
  BY <1>2, <1>3 DEF Opened
<1>4. Client \in Ends
  BY EndsApart
<1> QED
  BY <1>1, <1>3, <1>4, <1>5, WithdrawFields DEF ClientInv

LEMMA WithdrawCopy ==
  ASSUME AtOK, Withdraws, CopyInv, peer \in Sessions \cup {Nobody},
         \A s \in recorded' : s \in recorded \/ (s = peer /\ at[Client].bytes = size),
         exit' = 0 /\ Welcome => peer # Nobody /\ at[Client].bytes = size
  PROVE  CopyInv'
<1>1. /\ size' = size /\ From' = From /\ (Welcome' <=> Welcome)
      /\ peer' = peer
  <2>1. request' = request /\ peer' = peer /\ reply' = reply
    BY DEF Withdraws
  <2>2. size' = size /\ (Reading' <=> Reading) /\ (Other' <=> Other)
    BY <2>1 DEF size, Reading, Other
  <2>3. From' = From
    BY <2>1, <2>2 DEF From
  <2>4. ClientOperation' = ClientOperation
    BY <2>2 DEF ClientOperation
  <2>5. Welcome' <=> Welcome
    BY <2>1, <2>2, <2>4 DEF Welcome
  <2> QED
    BY <2>1, <2>2, <2>3, <2>5
<1>2. Client \in Ends /\ \A s \in Sessions : s \in Ends
  BY EndsApart
<1>3. \A x \in Ends :
        /\ at'[x].bytes = at[x].bytes
        /\ at'[x].pc \in {"closing", "saving"} => at[x].pc = at'[x].pc
  BY WithdrawFields
<1> QED
  BY <1>1, <1>2, <1>3 DEF CopyInv

LEMMA WithdrawStep ==
  ASSUME DialogueInv, Withdraws, RestOK', DaemonSurvives',
         NEW new, Adds(new), \A d \in new : Proper(d)',
         \A s \in recorded' : s \in recorded \/ (s = peer /\ at[Client].bytes = size),
         at'[Client].pc = "over" <=> exit' # Running,
         exit' = 0 /\ Welcome => peer # Nobody /\ at[Client].bytes = size
  PROVE  DialogueInv'
<1>1. Persists /\ AtOK' /\ NetInv'
  BY WithdrawPersists, NetPersists DEF DialogueInv
<1>2. \A s \in Sessions : SessionInv(s)'
  BY WithdrawSessions DEF DialogueInv
<1>3. ClientInv' /\ CopyInv'
  BY WithdrawClient, WithdrawCopy DEF DialogueInv, RestOK
<1> QED
  BY <1>1, <1>2, <1>3 DEF DialogueInv

LEMMA FaultCounts ==
  ASSUME RestOK, faults' = faults \/ \E kind : Fault(kind)
  PROVE  faults' \in 0 .. MaxFaults
<1>1. MaxFaults \in Nat /\ faults \in 0 .. MaxFaults
  BY DialogueAssumption DEF RestOK
<1>2. faults' = faults \/ (faults < MaxFaults /\ faults' = faults + 1)
  BY DEF Fault
<1> QED
  BY <1>1, <1>2

LEMMA StaysIsWithdrawal ==
  ASSUME AtOK, UNCHANGED <<at, request, peer, reply>>
  PROVE  Withdraws
BY DEF Withdraws, AtOK

LEMMA LeavingIsWithdrawal ==
  ASSUME AtOK, NEW x \in Ends, at[x].pc # "unused",
         at' = [at EXCEPT ![x].pc = "over"],
         UNCHANGED <<request, peer, reply>>
  PROVE  /\ Withdraws /\ at'[x].pc = "over"
         /\ \A y \in Ends \ {x} : at'[y] = at[y]
<1> DEFINE o == [at[x] EXCEPT !.pc = "over"]
<1>1. o.pc = "over"
  BY EndFields, MovedFields DEF Pcs
<1>2. /\ at' = [y \in Ends |-> at'[y]] /\ at'[x] = o
      /\ \A y \in Ends \ {x} : at'[y] = at[y]
  BY DEF AtOK
<1> QED
  BY <1>1, <1>2 DEF Withdraws

LEMMA DeathIsWithdrawal ==
  ASSUME AtOK, NEW how, Dies(how), UNCHANGED <<request, peer, reply>>
  PROVE  Withdraws /\ at'[Client] = at[Client]
<1>1. /\ at' = [x \in Ends |-> at'[x]]
      /\ \A x \in Ends : at'[x] = IF x = Client \/ at[x].pc = "unused" THEN at[x]
                                  ELSE [at[x] EXCEPT !.pc = "over"]
  BY DEF Dies
<1>2. at'[Client] = at[Client]
  BY <1>1, EndsApart
<1> QED
  BY <1>1, <1>2 DEF Withdraws

(* Only the network changes, or what main of the client knows.             *)
LEMMA StaysKeeps ==
  ASSUME DialogueInv,
         UNCHANGED <<at, request, peer, reply, exit, daemon, recorded>>,
         interrupted' \in BOOLEAN, faults' \in 0 .. MaxFaults,
         NEW new, Adds(new), \A d \in new : Proper(d)'
  PROVE  DialogueInv'
<1>1. Withdraws
  BY StaysIsWithdrawal DEF DialogueInv
<1>2. RestOK' /\ DaemonSurvives'
  BY DEF DialogueInv, RestOK, DaemonSurvives, Reading, Adds
<1>3. at'[Client].pc = "over" <=> exit' # Running
  BY DEF DialogueInv, ClientInv, Running
<1>4. exit' = 0 /\ Welcome => peer # Nobody /\ at[Client].bytes = size
  BY DEF DialogueInv, CopyInv
<1> QED
  BY <1>1, <1>2, <1>3, <1>4, WithdrawStep

LEMMA ClientLeaves ==
  ASSUME DialogueInv, NEW code \in {0, 1, 2, 21, 22}, Exit(code),
         code = 0 /\ Welcome => peer # Nobody /\ at[Client].bytes = size,
         UNCHANGED <<request, peer, reply, interrupted, daemon, recorded>>,
         faults' \in 0 .. MaxFaults,
         NEW new, Adds(new), \A d \in new : Proper(d)'
  PROVE  DialogueInv'
<1>1. Client \in Ends /\ at[Client].pc # "unused"
  BY EndsApart DEF DialogueInv, ClientInv
<1>2. Withdraws /\ at'[Client].pc = "over"
  BY <1>1, LeavingIsWithdrawal DEF DialogueInv, Exit
<1>3. exit' = code /\ exit' # Running
  BY DEF Exit, Running
<1>4. RestOK' /\ DaemonSurvives'
  BY <1>3 DEF DialogueInv, RestOK, DaemonSurvives, Reading, Adds
<1> QED
  BY <1>2, <1>3, <1>4, WithdrawStep

LEMMA SessionLeaves ==
  ASSUME DialogueInv, NEW s \in Sessions, at[s].pc # "unused",
         at' = [at EXCEPT ![s].pc = "over"],
         UNCHANGED <<request, peer, reply, exit, interrupted, daemon, recorded>>,
         faults' \in 0 .. MaxFaults,
         NEW new, Adds(new), \A d \in new : Proper(d)'
  PROVE  DialogueInv'
<1>1. s \in Ends /\ s # Client /\ Client \in Ends
  BY EndsApart
<1>2. Withdraws /\ at'[Client] = at[Client]
  BY <1>1, LeavingIsWithdrawal DEF DialogueInv
<1>3. RestOK' /\ DaemonSurvives'
  BY DEF DialogueInv, RestOK, DaemonSurvives, Reading, Adds
<1>4. at'[Client].pc = "over" <=> exit' # Running
  <2>1. at[Client].pc = "over" <=> exit # Running
    BY DEF DialogueInv, ClientInv
  <2> QED
    BY <1>2, <2>1, Zenon
<1>5. exit' = 0 /\ Welcome => peer # Nobody /\ at[Client].bytes = size
  BY DEF DialogueInv, CopyInv
<1> QED
  BY <1>2, <1>3, <1>4, <1>5, WithdrawStep

LEMMA DaemonDies ==
  ASSUME DialogueInv, NEW how \in {"panicked", "killed"}, Dies(how),
         how = "panicked" => Unparsable(Asked) # {} \/ (Reading /\ BlockOf(Asked) > 512),
         UNCHANGED <<request, peer, reply, exit, interrupted, recorded>>,
         faults' \in 0 .. MaxFaults,
         NEW new, Adds(new), \A d \in new : Proper(d)'
  PROVE  DialogueInv'
<1>1. Withdraws /\ at'[Client] = at[Client]
  BY DeathIsWithdrawal DEF DialogueInv
<1>2. daemon' = how
  BY DEF Dies
<1>3. RestOK'
  BY <1>2 DEF DialogueInv, RestOK, Adds
<1>4. DaemonSurvives'
  BY <1>2 DEF DaemonSurvives, Reading, Asked
<1>5. at'[Client].pc = "over" <=> exit' # Running
  BY <1>1 DEF DialogueInv, ClientInv, Running
<1>6. exit' = 0 /\ Welcome => peer # Nobody /\ at[Client].bytes = size
  BY DEF DialogueInv, CopyInv
<1> QED
  BY <1>1, <1>3, <1>4, <1>5, <1>6, WithdrawStep

-----------------------------------------------------------------------------
(* The steps of which that is true. *)

LEMMA NetStays ==
  ASSUME IsABag(net), net' = net
  PROVE  Adds({})
BY DEF Adds

LEMMA FailCodes == FailCode \in {1, 21, 22}
BY DEF FailCode

LEMMA LoggedExits ==
  ASSUME NEW code \in {0, 1, 2, 21, 22}, LogAndExit(code)
  PROVE  \E c \in {code, 2} : Exit(c)
BY DEF LogAndExit

LEMMA AnswerBag ==
  /\ IsABag(Answer)
  /\ BagToSet(Answer) \subseteq {Datagram(Client, peer, Ack(0))}
BY MailBag, EmptyMail DEF Answer

LEMMA CannotStartKeeps ==
  ASSUME DialogueInv, CannotStart
  PROVE  DialogueInv'
<1>1. FailCode \in {0, 1, 2, 21, 22} /\ FailCode # 0
  BY FailCodes
<1>2. faults' \in 0 .. MaxFaults
  BY FaultCounts DEF DialogueInv, CannotStart
<1>3. Adds({})
  BY NetStays DEF DialogueInv, RestOK, CannotStart
<1> QED
  BY <1>1, <1>2, <1>3, ClientLeaves DEF CannotStart

LEMMA ReplyTimeoutKeeps ==
  ASSUME DialogueInv, ReplyTimeout
  PROVE  DialogueInv'
<1>1. FailCode \in {0, 1, 2, 21, 22} /\ FailCode # 0
  BY FailCodes
<1>2. faults' \in 0 .. MaxFaults
  BY FaultCounts DEF DialogueInv, ReplyTimeout
<1>3. Adds({})
  BY NetStays DEF DialogueInv, RestOK, ReplyTimeout
<1> QED
  BY <1>1, <1>2, <1>3, ClientLeaves DEF ReplyTimeout

LEMMA CannotRedialKeeps ==
  ASSUME DialogueInv, CannotRedial
  PROVE  DialogueInv'
<1>1. FailCode \in {0, 1, 2, 21, 22} /\ FailCode # 0
  BY FailCodes
<1>2. faults' \in 0 .. MaxFaults
  BY FaultCounts DEF DialogueInv, CannotRedial
<1>3. Adds({})
  BY NetStays DEF DialogueInv, RestOK, CannotRedial
<1> QED
  BY <1>1, <1>2, <1>3, ClientLeaves DEF CannotRedial

LEMMA CannotOpenFileKeeps ==
  ASSUME DialogueInv, CannotOpenFile
  PROVE  DialogueInv'
<1>1. PICK code \in {1, 2, 21, 22} : Exit(code)
  BY FailCodes, LoggedExits DEF CannotOpenFile
<1>2. faults' \in 0 .. MaxFaults
  BY FaultCounts DEF DialogueInv, CannotOpenFile
<1>3. peer \in Sessions
  BY DEF DialogueInv, ClientInv, CannotOpenFile
<1> DEFINE text == "Unable to download to: file"
           no == Mail(Client, peer, Failure(text))
           new == {Datagram(Client, peer, Ack(0)), Datagram(Client, peer, Failure(text))}
<1>4. IsABag(no) /\ BagToSet(no) \subseteq new
  <2>1. IsABag(no) /\ BagToSet(no) = {Datagram(Client, peer, Failure(text))}
    BY MailBag
  <2> QED
    BY <2>1
<1>5. Post(Answer (+) no)
  BY DEF CannotOpenFile
<1>6. BagToSet(Answer) \subseteq new /\ IsABag(Answer)
  BY AnswerBag
<1> HIDE DEF no
<1>7. \A d \in new : Proper(d)'
  BY <1>3, ClientProper
<1> HIDE DEF new
<1>8. IsABag(Answer (+) no) /\ BagToSet(Answer (+) no) \subseteq new
  BY <1>4, <1>6, BagSum
<1>9. Adds(new)
  BY <1>5, <1>8, Posts DEF Adds, DialogueInv, RestOK
<1>10. UNCHANGED <<request, peer, reply, interrupted, daemon, recorded>>
  BY DEF CannotOpenFile
<1>11. code \in {0, 1, 2, 21, 22} /\ code # 0
  OBVIOUS
<1> QED
  BY <1>1, <1>2, <1>7, <1>9, <1>10, <1>11, ClientLeaves

LEMMA RefuseOptionsKeeps ==
  ASSUME DialogueInv, RefuseOptions
  PROVE  DialogueInv'
<1>1. FailCode \in {0, 1, 2, 21, 22} /\ FailCode # 0
  BY FailCodes
<1>2. faults' \in 0 .. MaxFaults
  BY FaultCounts DEF DialogueInv, RefuseOptions
<1>3. peer \in Sessions
  BY DEF DialogueInv, ClientInv, RefuseOptions
<1> DEFINE new == {Datagram(Client, peer, Failure(BadOptions))}
<1>4. Adds(new)
  BY PostMailAdds DEF DialogueInv, RestOK, RefuseOptions
<1>5. \A d \in new : Proper(d)'
  BY <1>3, ClientProper
<1> QED
  BY <1>1, <1>2, <1>4, <1>5, ClientLeaves DEF RefuseOptions

LEMMA RefuseReplyKeeps ==
  ASSUME DialogueInv, RefuseReply
  PROVE  DialogueInv'
<1>1. PICK code \in {0, 1, 2, 21, 22} : Exit(code)
  BY FailCodes, LoggedExits DEF RefuseReply
<1>2. faults' \in 0 .. MaxFaults /\ ~Welcome
  BY FaultCounts DEF DialogueInv, RefuseReply
<1>3. peer \in Sessions
  BY DEF DialogueInv, ClientInv, RefuseReply
<1> DEFINE new == {Datagram(Client, peer, Failure("<nil>"))}
<1>4. Adds(new)
  BY PostMailAdds DEF DialogueInv, RestOK, RefuseReply
<1>5. \A d \in new : Proper(d)'
  BY <1>3, ClientProper
<1> QED
  BY <1>1, <1>2, <1>4, <1>5, ClientLeaves DEF RefuseReply

LEMMA MissKeeps ==
  ASSUME DialogueInv, NEW d, Miss(d)
  PROVE  DialogueInv'
<1>1. faults' \in 0 .. MaxFaults /\ interrupted' \in BOOLEAN
  BY FaultCounts DEF DialogueInv, RestOK, Miss
<1>2. Adds({})
  BY TakenAdds DEF DialogueInv, RestOK, Miss
<1> QED
  BY <1>1, <1>2, StaysKeeps DEF Miss

LEMMA InterruptKeeps ==
  ASSUME DialogueInv, Interrupt
  PROVE  DialogueInv'
<1>1. faults' \in 0 .. MaxFaults /\ interrupted' \in BOOLEAN
  BY FaultCounts DEF DialogueInv, Interrupt
<1>2. Adds({})
  BY NetStays DEF DialogueInv, RestOK, Interrupt
<1> QED
  BY <1>1, <1>2, StaysKeeps DEF Interrupt

LEMMA NetworkKeeps ==
  ASSUME DialogueInv, NEW d \in BagToSet(net), Lose(d) \/ Duplicate(d) \/ Drop(d)
  PROVE  DialogueInv'
<1>1. faults' \in 0 .. MaxFaults /\ interrupted' \in BOOLEAN
  BY FaultCounts DEF DialogueInv, RestOK, Lose, Duplicate, Drop
<1>2. Adds({})
  <2>1. CASE Swap(d, EmptyBag)
    BY <2>1, TakenAdds DEF DialogueInv, RestOK
  <2>2. CASE Post(SetToBag({d}))
    <3>1. IsABag(SetToBag({d})) /\ BagToSet(SetToBag({d})) = {d}
      BY DEF IsABag, SetToBag, BagToSet
    <3> QED
      BY <2>2, <3>1, Posts DEF Adds, DialogueInv, RestOK
  <2> QED
    BY <2>1, <2>2 DEF Lose, Duplicate, Drop
<1> QED
  BY <1>1, <1>2, StaysKeeps DEF Lose, Duplicate, Drop

LEMMA KillKeeps ==
  ASSUME DialogueInv, Kill
  PROVE  DialogueInv'
<1>1. faults' \in 0 .. MaxFaults
  BY FaultCounts DEF DialogueInv, Kill
<1>2. Adds({})
  BY NetStays DEF DialogueInv, RestOK, Kill
<1> QED
  BY <1>1, <1>2, DaemonDies DEF Kill

(* A session fails and says so.                                            *)
LEMMA SessionFails ==
  ASSUME DialogueInv, NEW s \in Sessions, at[s].pc # "unused",
         at' = [at EXCEPT ![s].pc = "over"],
         UNCHANGED <<request, peer, reply, exit, interrupted, daemon, recorded>>,
         faults' \in 0 .. MaxFaults,
         NEW text, Adds({Datagram(s, Client, Failure(text))})
  PROVE  DialogueInv'
<1>1. at'[s].pc # "unused"
  <2>1. s \in Ends
    BY EndsApart
  <2> QED
    BY <2>1, LeavingIsWithdrawal DEF DialogueInv
<1>2. \A d \in {Datagram(s, Client, Failure(text))} : Proper(d)'
  BY <1>1, FailureProper
<1> DEFINE new == {Datagram(s, Client, Failure(text))}
<1> HIDE DEF new
<1> QED
  BY <1>2, SessionLeaves DEF new

LEMMA QuitKeeps ==
  ASSUME DialogueInv, NEW x \in Ends, at[x].pc # "unused", Quit(x),
         UNCHANGED <<request, peer, reply, interrupted, daemon, recorded>>,
         faults' \in 0 .. MaxFaults
  PROVE  DialogueInv'
<1>1. CASE x = Client
  <2>1. FailCode \in {0, 1, 2, 21, 22} /\ FailCode # 0
    BY FailCodes
  <2>2. Exit(FailCode) /\ Adds({})
    BY <1>1, NetStays DEF Quit, DialogueInv, RestOK
  <2> QED
    BY <2>1, <2>2, ClientLeaves
<1>2. CASE x # Client
  <2> DEFINE text == "Client connection (likely) dead"
  <2>1. x \in Sessions
    BY <1>2 DEF Ends
  <2>2. at' = [at EXCEPT ![x].pc = "over"] /\ Post(Mail(x, Client, Failure(text)))
        /\ UNCHANGED exit
    BY <1>2 DEF Quit, Fail
  <2>3. Adds({Datagram(x, Client, Failure(text))})
    BY <2>2, PostMailAdds DEF DialogueInv, RestOK
  <2> QED
    BY <2>1, <2>2, <2>3, SessionFails
<1> QED
  BY <1>1, <1>2

LEMMA GoSilentKeeps ==
  ASSUME DialogueInv, NEW x \in Ends, GoSilent(x)
  PROVE  DialogueInv'
<1>1. at[x].pc # "unused" /\ Quit(x)
      /\ UNCHANGED <<request, peer, reply, interrupted, daemon, recorded>>
  BY DEF GoSilent
<1>2. faults' \in 0 .. MaxFaults
  BY FaultCounts DEF DialogueInv, GoSilent
<1> QED
  BY <1>1, <1>2, QuitKeeps

LEMMA GiveUpKeeps ==
  ASSUME DialogueInv, NEW x \in Ends, GiveUp(x)
  PROVE  DialogueInv'
<1>1. at[x].pc # "unused" /\ Quit(x)
      /\ UNCHANGED <<request, peer, reply, interrupted, daemon, recorded>>
  BY DEF GiveUp
<1>2. faults' \in 0 .. MaxFaults
  BY FaultCounts DEF DialogueInv, GiveUp
<1> QED
  BY <1>1, <1>2, QuitKeeps

LEMMA TakeStrayKeeps ==
  ASSUME DialogueInv, NEW x \in Ends, NEW d, NEW m, TakeStray(x, d, m)
  PROVE  DialogueInv'
<1>1. /\ at[x].pc # "unused"
      /\ UNCHANGED <<request, peer, reply, interrupted, daemon, recorded, faults>>
  BY DEF TakeStray
<1>2. faults' \in 0 .. MaxFaults /\ interrupted' \in BOOLEAN
  BY <1>1, FaultCounts DEF DialogueInv, RestOK
<1>3. CASE m.kind \in {"ACK", "DATA"}
  <2>1. Adds({}) /\ UNCHANGED <<at, exit>>
    BY <1>3, TakenAdds DEF DialogueInv, RestOK, TakeStray
  <2> QED
    BY <1>1, <1>2, <2>1, StaysKeeps
<1>4. CASE m.kind \notin {"ACK", "DATA"} /\ x = Client
  <2>1. Adds({}) /\ Exit(FailCode)
    BY <1>4, TakenAdds DEF DialogueInv, RestOK, TakeStray
  <2>2. FailCode \in {0, 1, 2, 21, 22} /\ FailCode # 0
    BY FailCodes
  <2> QED
    BY <1>1, <1>2, <2>1, <2>2, ClientLeaves
<1>5. CASE m.kind \notin {"ACK", "DATA"} /\ x # Client
  <2> DEFINE text == "Client failed"
  <2>1. x \in Sessions
    BY <1>5 DEF Ends
  <2>2. /\ Swap(d, Mail(x, Client, Failure(text)))
        /\ at' = [at EXCEPT ![x].pc = "over"] /\ UNCHANGED exit
    BY <1>5 DEF TakeStray
  <2>3. Adds({Datagram(x, Client, Failure(text))})
    BY <2>2, SwapMailAdds DEF DialogueInv, RestOK
  <2> QED
    BY <1>1, <1>2, <2>1, <2>2, <2>3, SessionFails
<1> QED
  BY <1>3, <1>4, <1>5

LEMMA PanicOnSliceKeeps ==
  ASSUME DialogueInv, NEW s \in Sessions, PanicOnSlice(s)
  PROVE  DialogueInv'
<1>1. /\ Dies("panicked") /\ at[s].pc \in {"awaiting", "copying"} /\ Overruns(s)
      /\ UNCHANGED <<request, net, peer, reply, exit, interrupted, recorded, faults>>
  BY DEF PanicOnSlice
<1>2. Opened(s) /\ SessionInv(s)
  BY <1>1 DEF DialogueInv, SessionInv
<1>3. at[s].block \in Nat /\ at[s].room \in Nat
  <2>1. at[s].block \in BlockSizes /\ at[s].room \in Rooms
    BY EndsApart, EndFields DEF DialogueInv
  <2> QED
    BY <2>1, Sizes
<1>4. at[s].room # at[s].block + Preamble
  BY <1>1, <1>3 DEF Overruns, Preamble
<1>5. Reading /\ at[s].room = 512 + Preamble
  BY <1>1, <1>2, <1>4 DEF SessionInv
<1>6. at[s].block > 512
  BY <1>1, <1>3, <1>5 DEF Overruns, Preamble
<1>7. Reading /\ BlockOf(Asked) > 512
  BY <1>2, <1>5, <1>6 DEF Opened
<1>8. faults' \in 0 .. MaxFaults /\ Adds({})
  BY <1>1, FaultCounts, NetStays DEF DialogueInv, RestOK
<1> QED
  BY <1>1, <1>7, <1>8, DaemonDies

(* What reaches the port is the request.                                   *)
LEMMA PortGets ==
  ASSUME DialogueInv, NEW d \in Inbox(Daemon)
  PROVE  d.message = request.message /\ at[Client].pc # "idle"
<1>1. d \in BagToSet(net) /\ d.to = Daemon
  BY DEF Inbox
<1> QED
  BY <1>1, EndsApart DEF DialogueInv, NetInv, Proper

LEMMA PanicOnOptionKeeps ==
  ASSUME DialogueInv, NEW s \in Sessions, NEW d \in Inbox(Daemon),
         NEW m \in Understood(Daemon, d), PanicOnOption(s, d, m)
  PROVE  DialogueInv'
<1>1. /\ Dies("panicked") /\ Swap(d, EmptyBag) /\ Unparsable(m.options) # {}
      /\ m.kind \in Asking
      /\ UNCHANGED <<request, peer, reply, exit, interrupted, recorded, faults>>
  BY DEF PanicOnOption, Served, Accepts, Asking
<1>2. m.options = Asked
  BY <1>1, PortGets, PortUnderstands DEF DialogueInv, RestOK
<1>3. faults' \in 0 .. MaxFaults /\ Adds({})
  BY <1>1, FaultCounts, TakenAdds DEF DialogueInv, RestOK
<1> QED
  BY <1>1, <1>2, <1>3, DaemonDies

LEMMA LastAckKeeps ==
  ASSUME DialogueInv, LastAck
  PROVE  DialogueInv'
<1>1. /\ peer # Nobody /\ at[From].pc = "closing"
      /\ UNCHANGED <<request, net, peer, reply, interrupted, daemon, recorded, faults>>
  BY DEF LastAck
<1>2. faults' \in 0 .. MaxFaults /\ Adds({})
  BY <1>1, FaultCounts, NetStays DEF DialogueInv, RestOK
<1>3. peer \in Sessions
  BY <1>1 DEF DialogueInv, RestOK
<1>4. CASE Reading
  <2>1. at[peer].pc # "unused"
    BY <1>1, <1>4 DEF From
  <2>2. at' = [at EXCEPT ![peer].pc = "over"] /\ UNCHANGED exit
    BY <1>4 DEF LastAck
  <2> QED
    BY <1>1, <1>2, <1>3, <2>1, <2>2, SessionLeaves
<1>5. CASE ~Reading
  <2>1. Exit(0) /\ at[Client].pc = "closing"
    BY <1>1, <1>5 DEF LastAck, From
  <2>2. at[Client].bytes = size
    BY <2>1, EndsApart DEF DialogueInv, CopyInv
  <2> QED
    BY <1>1, <1>2, <2>1, <2>2, ClientLeaves
<1> QED
  BY <1>4, <1>5

-----------------------------------------------------------------------------
(* The steps of a session that takes the request or prepares the copy.     *)

LEMMA ClientStays ==
  ASSUME Persists, ClientInv, at'[Client] = at[Client], UNCHANGED <<peer, reply, exit>>
  PROVE  ClientInv'
<1>1. Greeting' = Greeting /\ Asked' = Asked /\ (Requested' <=> Requested)
  BY GreetingPersists
<1>2. \A s \in Sessions : Opened(s) => Opened(s)'
  BY OpenedPersists
<1>3. peer \in Sessions /\ Opened(peer) => Opened(peer)'
  BY <1>2 DEF Opened
<1> QED
  BY <1>1, <1>3 DEF ClientInv

(* Nothing is copied, and nobody gets to the end of the copy.              *)
LEMMA CopyStays ==
  ASSUME CopyInv, UNCHANGED <<request, peer, reply, exit, recorded>>,
         peer \in Sessions \cup {Nobody},
         \A x \in Ends : /\ at'[x].bytes = at[x].bytes
                         /\ at'[x].pc \in {"closing", "saving"} => at[x].pc = at'[x].pc
  PROVE  CopyInv'
<1>1. size' = size /\ (Reading' <=> Reading) /\ (Other' <=> Other)
  BY DEF size, Reading, Other
<1>2. From' = From /\ ClientOperation' = ClientOperation
  BY <1>1 DEF From, ClientOperation
<1>3. Welcome' <=> Welcome
  BY <1>1, <1>2 DEF Welcome
<1>4. Client \in Ends /\ \A s \in Sessions : s \in Ends
  BY EndsApart
<1> QED
  BY <1>1, <1>2, <1>3, <1>4 DEF CopyInv

LEMMA SessionMoves ==
  ASSUME DialogueInv, NEW s \in Sessions, NEW e \in EndType,
         at' = [at EXCEPT ![s] = e],
         e.pc \notin {"unused", "closing", "saving"}, e.bytes = at[s].bytes,
         at[s].pc # "unused" => e.block = at[s].block,
         Persists => SessionInv(s)',
         UNCHANGED <<request, peer, reply, exit, interrupted, daemon, recorded>>,
         faults' \in 0 .. MaxFaults,
         NEW new, Adds(new), at'[s] = e => \A d \in new : Proper(d)'
  PROVE  DialogueInv'
<1>1. s \in Ends /\ Client \in Ends /\ s # Client /\ \A t \in Sessions : t \in Ends
  BY EndsApart
<1>2. at'[s] = e /\ \A x \in Ends \ {s} : at'[x] = at[x]
  BY <1>1 DEF DialogueInv, AtOK
<1>3. Persists
  BY <1>1, <1>2 DEF Persists
<1>4. AtOK'
  BY <1>1 DEF DialogueInv, AtOK
<1>5. NetInv'
  BY <1>2, <1>3, NetPersists DEF DialogueInv
<1>6. ASSUME NEW t \in Sessions PROVE SessionInv(t)'
  <2>1. CASE t = s
    BY <1>3, <2>1
  <2>2. CASE t # s
    <3>1. at'[t] = at[t] /\ (Reading' <=> Reading)
      BY <1>1, <1>2, <2>2 DEF Reading
    <3>2. Opened(t) => Opened(t)'
      BY <1>3, OpenedPersists
    <3>3. SessionInv(t)
      BY DEF DialogueInv
    <3> QED
      BY <3>1, <3>2, <3>3 DEF SessionInv, NewSession
  <2> QED
    BY <2>1, <2>2
<1>7. ClientInv'
  BY <1>1, <1>2, <1>3, ClientStays DEF DialogueInv
<1>8. CopyInv'
  <2>1. \A x \in Ends :
          /\ at'[x].bytes = at[x].bytes
          /\ at'[x].pc \in {"closing", "saving"} => at[x].pc = at'[x].pc
    BY <1>1, <1>2
  <2>2. CopyInv /\ peer \in Sessions \cup {Nobody}
    BY DEF DialogueInv, RestOK
  <2> QED
    BY <2>1, <2>2, CopyStays
<1>9. RestOK' /\ DaemonSurvives'
  BY DEF DialogueInv, RestOK, DaemonSurvives, Reading, Adds
<1> QED
  BY <1>4, <1>5, <1>6, <1>7, <1>8, <1>9 DEF DialogueInv

LEMMA AgreedBlock ==
  ASSUME NEW operation, NEW o, Agreeable(operation, o)
  PROVE  BlockOf(o) \in BlockSizes
<1>1. CASE "blksize" \in DOMAIN o
  <2>1. "blksize" \notin Unparsable(o) /\ "blksize" \notin Refused(operation, o)
    BY DEF Agreeable
  <2>2. Parsed[o["blksize"]] \in BlockSizes
    BY <1>1, <2>1 DEF Refused
  <2> QED
    BY <1>1, <2>2 DEF BlockOf
<1>2. CASE "blksize" \notin DOMAIN o
  <2>1. 512 \in BlockSizes
    BY DEF BlockSizes
  <2> QED
    BY <1>2, <2>1 DEF BlockOf
<1> QED
  BY <1>1, <1>2

LEMMA RoomForBlock ==
  ASSUME NEW b \in BlockSizes
  PROVE  b + Preamble \in Rooms /\ 512 + Preamble \in Rooms
<1>1. b + Preamble \in Rooms
  <2>1. b \in Int /\ 8 <= b /\ b <= 65464
    BY DEF BlockSizes
  <2>2. b + 4 \in Int /\ 12 <= b + 4 /\ b + 4 <= 65468
    BY <2>1
  <2>3. b + 4 \in Rooms
    <3> DEFINE low == 12
               high == 65468
    <3>1. /\ low \in Int /\ high \in Int
          /\ low <= b + 4 /\ b + 4 <= high /\ Rooms = low .. high
      BY <2>2 DEF Rooms
    <3> HIDE DEF low, high
    <3> QED
      BY <2>2, <3>1
  <2> QED
    BY <2>3 DEF Preamble
<1>2. 512 + Preamble \in Rooms
  BY DEF Rooms, Preamble
<1> QED
  BY <1>1, <1>2

LEMMA NewSessionFields ==
  ASSUME NEW where \in Pcs
  PROVE  LET n == NewSession(where)
         IN  /\ n \in EndType /\ n.pc = where /\ n.block = 512
             /\ n.room = 512 + Preamble /\ n.bytes = 0
<1>1. 512 \in BlockSizes
  BY DEF BlockSizes
<1>2. 512 + Preamble \in Rooms
  BY <1>1, RoomForBlock
<1> QED
  BY <1>1, <1>2 DEF NewSession, EndType

LEMMA UnusedFields ==
  ASSUME DialogueInv, NEW s \in Sessions, at[s].pc = "unused"
  PROVE  at[s].bytes = 0
<1>1. at[s] = NewSession("unused")
  BY DEF DialogueInv, SessionInv
<1> QED
  BY <1>1, NewSessionFields DEF Pcs

LEMMA RejectsKeeps ==
  ASSUME DialogueInv, NEW s \in Sessions, at[s].pc = "unused",
         NEW d, NEW times \in {1, 2}, NEW text, Rejects(s, d, times, text),
         UNCHANGED <<request, peer, reply, exit, interrupted, daemon, recorded>>,
         faults' \in 0 .. MaxFaults
  PROVE  DialogueInv'
<1> DEFINE e == NewSession("over")
           new == {Datagram(s, Client, Failure(text))}
<1>1. e \in EndType /\ e.pc = "over" /\ e.bytes = at[s].bytes
  BY NewSessionFields, UnusedFields DEF Pcs
<1>2. at' = [at EXCEPT ![s] = e]
  BY DEF Rejects
<1> HIDE DEF e
<1>3. at'[s] = e
  BY <1>2, EndsApart DEF DialogueInv, AtOK
<1>4. SessionInv(s)'
  BY <1>1, <1>3 DEF SessionInv
<1>5. Adds(new)
  BY RejectsAdds DEF DialogueInv, RestOK
<1>6. \A x \in new : Proper(x)'
  BY <1>1, <1>3, FailureProper
<1> HIDE DEF new
<1> QED
  BY <1>1, <1>2, <1>4, <1>5, <1>6, SessionMoves

LEMMA RejectionsKeep ==
  ASSUME DialogueInv, NEW s \in Sessions, NEW d, NEW m,
         RejectDatagram(s, d, m) \/ RejectRead(s, d, m) \/ RejectOptions(s, d, m)
  PROVE  DialogueInv'
<1>1. /\ at[s].pc = "unused"
      /\ UNCHANGED <<request, peer, reply, exit, interrupted, daemon, recorded>>
  BY DEF RejectDatagram, RejectRead, RejectOptions, Served, Accepts
<1>2. \E times \in {1, 2} : \E text : Rejects(s, d, times, text)
  BY DEF RejectDatagram, RejectRead, RejectOptions
<1>3. faults' = faults \/ \E kind : Fault(kind)
  BY DEF RejectDatagram, RejectRead, RejectOptions
<1>4. faults' \in 0 .. MaxFaults
  BY <1>3, FaultCounts DEF DialogueInv
<1> QED
  BY <1>1, <1>2, <1>4, RejectsKeeps

(* A session that takes a request it understands opens properly.           *)
LEMMA Opens ==
  ASSUME request' = request, NEW s \in Sessions, Requested,
         Agreeable(Operation(request.message), Asked), Reading => size \in Nat,
         at'[s].pc # "unused", at'[s].block = BlockOf(Asked),
         NEW g, g = Greeting
  PROVE  Opened(s)' /\ Proper(Datagram(s, Client, g))'
<1>1. /\ Requested' /\ Asked' = Asked /\ (Reading' <=> Reading) /\ size' = size
  BY DEF Requested, Asked, Reading, size
<1>2. Opened(s)'
  BY <1>1 DEF Opened
<1>3. Greeting' = Greeting
  BY <1>1 DEF Greeting, Updated
<1> QED
  BY <1>2, <1>3 DEF Proper, Datagram

LEMMA AcceptReadKeeps ==
  ASSUME DialogueInv, NEW s \in Sessions, NEW d \in Inbox(Daemon),
         NEW m \in Understood(Daemon, d), AcceptRead(s, d, m)
  PROVE  DialogueInv'
<1> DEFINE b == BlockOf(m.options)
<1>1. /\ at[s].pc = "unused" /\ m.kind = "RRQ" /\ size # Absent
      /\ Agreeable("ReadAsServer", m.options)
      /\ UNCHANGED <<request, peer, reply, exit, interrupted, daemon, recorded, faults>>
  BY DEF AcceptRead, Served, Accepts
<1>2. Requested /\ m.kind = request.message.kind /\ m.options = Asked
  BY <1>1, PortGets, PortUnderstands DEF DialogueInv, RestOK, Asking
<1>3. Reading /\ Operation(request.message) = "ReadAsServer" /\ size \in Nat
  <2>1. size \in Nat \cup {-1}
    BY DialogueAssumption DEF DialogueInv, RestOK, size
  <2> QED
    BY <1>1, <1>2, <2>1 DEF Reading, Operation, Absent
<1>4. b \in BlockSizes /\ b = BlockOf(Asked)
  BY <1>1, <1>2, AgreedBlock
<1>5. faults' \in 0 .. MaxFaults
  BY <1>1, FaultCounts DEF DialogueInv
<1> DEFINE new == {Datagram(s, Client, Greeting)}
           e == IF m.options = NoOptions THEN NewSession("copying")
                ELSE [NewSession("awaiting") EXCEPT !.block = b]
<1>6. /\ e \in EndType /\ e.pc \in {"copying", "awaiting"} /\ e.bytes = 0
      /\ e.block = b /\ e.room = 512 + Preamble
      /\ e.pc = "copying" => e.block = 512
  <2>1. CASE m.options = NoOptions
    <3>1. b = 512
      BY <2>1 DEF BlockOf, NoOptions
    <3> QED
      BY <2>1, <3>1, NewSessionFields DEF Pcs
  <2>2. CASE m.options # NoOptions
    <3> DEFINE n == NewSession("awaiting")
               f == [n EXCEPT !.block = b]
    <3>1. n \in EndType /\ n.pc = "awaiting" /\ n.room = 512 + Preamble /\ n.bytes = 0
      BY NewSessionFields DEF Pcs
    <3>2. e = f
      BY <2>2
    <3> HIDE DEF n, b
    <3>3. /\ f \in EndType /\ f.pc = n.pc /\ f.bytes = n.bytes
          /\ f.block = b /\ f.room = n.room
      BY <1>4, <3>1 DEF EndType
    <3> HIDE DEF e, f
    <3> QED
      BY <3>1, <3>2, <3>3
  <2> QED
    BY <2>1, <2>2
<1>7. at' = [at EXCEPT ![s] = e]
  BY DEF AcceptRead
<1>8. Adds(new)
  <2>1. CASE m.options = NoOptions
    <3>1. Swap(d, Mail(s, Client, Data(1, IF size < b THEN size ELSE b)))
      BY <2>1 DEF AcceptRead
    <3>2. b = 512
      BY <2>1 DEF BlockOf, NoOptions
    <3>3. Greeting = Data(1, IF size < b THEN size ELSE b)
      BY <1>2, <1>3, <2>1, <3>2 DEF Greeting
    <3> QED
      BY <3>1, <3>3, SwapMailAdds DEF DialogueInv, RestOK
  <2>2. CASE m.options # NoOptions
    <3>1. Swap(d, Mail(s, Client, OptionAck(Updated(m.options))))
      BY <2>2 DEF AcceptRead
    <3>2. Greeting = OptionAck(Updated(m.options))
      BY <1>2, <2>2 DEF Greeting
    <3> QED
      BY <3>1, <3>2, SwapMailAdds DEF DialogueInv, RestOK
  <2> QED
    BY <2>1, <2>2
<1>9. at[s].bytes = 0
  BY <1>1, UnusedFields
<1> HIDE DEF e, b
<1>10. at'[s] = e
  BY <1>7, EndsApart DEF DialogueInv, AtOK
<1>11. Opened(s)' /\ \A x \in new : Proper(x)'
  <2>1. Agreeable(Operation(request.message), Asked)
    BY <1>1, <1>2, <1>3
  <2>2. request' = request /\ at'[s].pc # "unused" /\ at'[s].block = BlockOf(Asked)
    BY <1>1, <1>4, <1>6, <1>10
  <2>3. PICK g : g = Greeting
    OBVIOUS
  <2>4. Opened(s)' /\ Proper(Datagram(s, Client, g))'
    BY <1>2, <1>3, <2>1, <2>2, <2>3, Opens
  <2> QED
    BY <2>3, <2>4
<1> HIDE DEF new
<1>12. SessionInv(s)'
  <2>1. Reading'
    BY <1>1, <1>3 DEF Reading
  <2> QED
    BY <1>6, <1>10, <1>11, <2>1 DEF SessionInv
<1>13. /\ e.pc \notin {"unused", "closing", "saving"} /\ e.bytes = at[s].bytes
       /\ e \in EndType
  BY <1>6, <1>9
<1>14. at[s].pc # "unused" => e.block = at[s].block
  BY <1>1
<1> QED
  BY <1>1, <1>5, <1>7, <1>8, <1>11, <1>12, <1>13, <1>14, SessionMoves

LEMMA AcceptWriteKeeps ==
  ASSUME DialogueInv, NEW s \in Sessions, NEW d \in Inbox(Daemon),
         NEW m \in Understood(Daemon, d), AcceptWrite(s, d, m)
  PROVE  DialogueInv'
<1> DEFINE b == BlockOf(m.options)
<1>1. /\ at[s].pc = "unused" /\ m.kind = "WRQ"
      /\ Agreeable("WriteAsServer", m.options)
      /\ UNCHANGED <<request, peer, reply, exit, interrupted, daemon, recorded, faults>>
  BY DEF AcceptWrite, Served, Accepts
<1>2. Requested /\ m.kind = request.message.kind /\ m.options = Asked
  BY <1>1, PortGets, PortUnderstands DEF DialogueInv, RestOK, Asking
<1>3. ~Reading /\ Operation(request.message) = "WriteAsServer"
  BY <1>1, <1>2 DEF Reading, Operation
<1>4. b \in BlockSizes /\ b = BlockOf(Asked) /\ b + Preamble \in Rooms
  BY <1>1, <1>2, AgreedBlock, RoomForBlock
<1>5. faults' \in 0 .. MaxFaults
  BY <1>1, FaultCounts DEF DialogueInv
<1> DEFINE new == {Datagram(s, Client, Greeting)}
           n == NewSession("preparing")
           e == [n EXCEPT !.block = b, !.room = b + Preamble]
<1>6. /\ e \in EndType /\ e.pc = "preparing" /\ e.bytes = 0
      /\ e.block = b /\ e.room = b + Preamble
  <2>1. n \in EndType /\ n.pc = "preparing" /\ n.bytes = 0
    BY NewSessionFields DEF Pcs
  <2> DEFINE r == b + Preamble
  <2>2. r \in Rooms /\ e = [n EXCEPT !.block = b, !.room = r]
    BY <1>4
  <2> HIDE DEF n, b, r
  <2>3. LET f == [n EXCEPT !.block = b, !.room = r]
        IN  /\ f \in EndType /\ f.pc = n.pc /\ f.bytes = n.bytes
            /\ f.block = b /\ f.room = r
    BY <1>4, <2>1, <2>2 DEF EndType
  <2> QED
    BY <2>1, <2>2, <2>3 DEF r
<1>7. at' = [at EXCEPT ![s] = e]
  BY DEF AcceptWrite
<1>8. Adds(new)
  <2>1. Swap(d, Mail(s, Client, IF m.options = NoOptions THEN Ack(0)
                                ELSE OptionAck(Updated(m.options))))
    BY DEF AcceptWrite
  <2>2. Greeting = IF m.options = NoOptions THEN Ack(0) ELSE OptionAck(Updated(m.options))
    BY <1>2, <1>3 DEF Greeting
  <2> QED
    BY <2>1, <2>2, SwapMailAdds DEF DialogueInv, RestOK
<1>9. at[s].bytes = 0
  BY <1>1, UnusedFields
<1> HIDE DEF e, b, n
<1>10. at'[s] = e
  BY <1>7, EndsApart DEF DialogueInv, AtOK
<1>11. Opened(s)' /\ \A x \in new : Proper(x)'
  <2>1. Agreeable(Operation(request.message), Asked)
    BY <1>1, <1>2, <1>3
  <2>2. request' = request /\ at'[s].pc # "unused" /\ at'[s].block = BlockOf(Asked)
    BY <1>1, <1>4, <1>6, <1>10
  <2>3. PICK g : g = Greeting
    OBVIOUS
  <2>4. Opened(s)' /\ Proper(Datagram(s, Client, g))'
    BY <1>2, <1>3, <2>1, <2>2, <2>3, Opens
  <2> QED
    BY <2>3, <2>4
<1> HIDE DEF new
<1>12. SessionInv(s)'
  <2>1. ~Reading'
    BY <1>1, <1>3 DEF Reading
  <2> QED
    BY <1>6, <1>10, <1>11, <2>1 DEF SessionInv
<1> QED
  BY <1>1, <1>5, <1>6, <1>7, <1>8, <1>9, <1>11, <1>12, SessionMoves

LEMMA TakeAnswerKeeps ==
  ASSUME DialogueInv, NEW s \in Sessions, NEW d, NEW m, TakeAnswer(s, d, m)
  PROVE  DialogueInv'
<1>1. /\ at[s].pc = "awaiting"
      /\ UNCHANGED <<request, peer, reply, exit, interrupted, daemon, recorded, faults>>
  BY DEF TakeAnswer
<1>2. faults' \in 0 .. MaxFaults
  BY <1>1, FaultCounts DEF DialogueInv
<1>3. Opened(s)
  BY <1>1 DEF DialogueInv, SessionInv
<1>4. CASE m = Ack(0)
  <2> DEFINE r == at[s].block + Preamble
             f == at[s]
             e == [f EXCEPT !.pc = "copying", !.room = r]
  <2>1. at' = [at EXCEPT ![s] = e] /\ Adds({})
    BY <1>4, TakenAdds DEF TakeAnswer, DialogueInv, RestOK
  <2>2. f \in EndType /\ r \in Rooms /\ "copying" \in Pcs
    BY EndsApart, EndFields, RoomForBlock DEF DialogueInv, Pcs
  <2> HIDE DEF f, r
  <2>3. /\ e \in EndType /\ e.pc = "copying" /\ e.bytes = f.bytes
        /\ e.block = f.block /\ e.room = r
    BY <2>2 DEF EndType
  <2>4. /\ e.bytes = at[s].bytes /\ e.block = at[s].block
        /\ e.room = e.block + Preamble
    BY <2>3 DEF f, r
  <2> HIDE DEF e
  <2>5. at'[s] = e
    BY <2>1, EndsApart DEF DialogueInv, AtOK
  <2>6. SessionInv(s)'
    <3>1. Opened(s)'
      BY <1>1, <1>3, <2>3, <2>4, <2>5 DEF Opened, Requested, Asked, Reading, size
    <3> QED
      BY <2>3, <2>4, <2>5, <3>1 DEF SessionInv
  <2> QED
    BY <1>1, <1>2, <2>1, <2>3, <2>4, <2>6, SessionMoves
<1>5. CASE m # Ack(0)
  <2> DEFINE text == "Did not acknowledge the options"
  <2>1. /\ Swap(d, Mail(s, Client, Failure(text)))
        /\ at' = [at EXCEPT ![s].pc = "over"]
    BY <1>5 DEF TakeAnswer
  <2>2. Adds({Datagram(s, Client, Failure(text))})
    BY <2>1, SwapMailAdds DEF DialogueInv, RestOK
  <2> QED
    BY <1>1, <1>2, <2>1, <2>2, SessionFails
<1> QED
  BY <1>4, <1>5

LEMMA PrepareUploadKeeps ==
  ASSUME DialogueInv, NEW s \in Sessions, PrepareUpload(s)
  PROVE  DialogueInv'
<1>1. /\ at[s].pc = "preparing"
      /\ UNCHANGED <<request, peer, reply, exit, interrupted, daemon, recorded>>
      /\ faults' \in 0 .. MaxFaults
  BY FaultCounts DEF PrepareUpload, DialogueInv
<1>2. Opened(s) /\ at[s].room = at[s].block + Preamble
  BY <1>1 DEF DialogueInv, SessionInv
<1>3. CASE at' = [at EXCEPT ![s].pc = "copying"] /\ UNCHANGED net
  <2> DEFINE f == at[s]
             e == [f EXCEPT !.pc = "copying"]
  <2>1. at' = [at EXCEPT ![s] = e] /\ Adds({})
    BY <1>3, NetStays DEF DialogueInv, RestOK
  <2>2. f \in EndType /\ "copying" \in Pcs
    BY EndsApart, EndFields DEF DialogueInv, Pcs
  <2>3. /\ e \in EndType /\ e.pc = "copying" /\ e.bytes = at[s].bytes
        /\ e.block = at[s].block /\ e.room = at[s].room
    BY <2>2, MovedFields
  <2> HIDE DEF f, e
  <2>4. at'[s] = e
    BY <2>1, EndsApart DEF DialogueInv, AtOK
  <2>5. SessionInv(s)'
    <3>1. Opened(s)'
      BY <1>1, <1>2, <2>3, <2>4 DEF Opened, Requested, Asked, Reading, size
    <3> QED
      BY <1>2, <2>3, <2>4, <3>1 DEF SessionInv
  <2> QED
    BY <1>1, <2>1, <2>3, <2>5, SessionMoves
<1>4. CASE Fail(s, "Cannot prepare the upload")
  <2> DEFINE text == "Cannot prepare the upload"
  <2>1. /\ Post(Mail(s, Client, Failure(text)))
        /\ at' = [at EXCEPT ![s].pc = "over"]
    BY <1>4 DEF Fail
  <2>2. Adds({Datagram(s, Client, Failure(text))})
    BY <2>1, PostMailAdds DEF DialogueInv, RestOK
  <2> QED
    BY <1>1, <2>1, <2>2, SessionFails
<1> QED
  BY <1>3, <1>4 DEF PrepareUpload

LEMMA SaveUploadKeeps ==
  ASSUME DialogueInv, NEW s \in Sessions, SaveUpload(s)
  PROVE  DialogueInv'
<1>1. /\ at[s].pc = "saving"
      /\ UNCHANGED <<request, peer, reply, exit, interrupted, daemon>>
      /\ faults' \in 0 .. MaxFaults
      /\ at' = [at EXCEPT ![s].pc = "over"]
  BY FaultCounts DEF SaveUpload, DialogueInv, Fail
<1>2. CASE recorded' = recorded \cup {s} /\ UNCHANGED net
  <2>1. s \in Ends /\ s # Client /\ Client \in Ends
    BY EndsApart
  <2>2. Withdraws /\ at'[Client] = at[Client]
    BY <1>1, <2>1, LeavingIsWithdrawal DEF DialogueInv
  <2>3. \A t \in recorded' : t \in recorded \/ (t = peer /\ at[Client].bytes = size)
    BY <1>1, <1>2 DEF DialogueInv, CopyInv
  <2>4. Adds({})
    BY <1>2, NetStays DEF DialogueInv, RestOK
  <2>5. RestOK' /\ DaemonSurvives'
    BY <1>1, <1>2, <2>4 DEF DialogueInv, RestOK, DaemonSurvives, Reading, Adds
  <2>6. at'[Client].pc = "over" <=> exit' # Running
    <3>1. at[Client].pc = "over" <=> exit # Running
      BY DEF DialogueInv, ClientInv
    <3>2. exit' = exit
      BY <1>1
    <3> QED
      BY <2>2, <3>1, <3>2, Zenon
  <2>7. exit' = 0 /\ Welcome => peer # Nobody /\ at[Client].bytes = size
    BY <1>1 DEF DialogueInv, CopyInv
  <2> QED
    BY <2>2, <2>3, <2>4, <2>5, <2>6, <2>7, WithdrawStep
<1>3. CASE Fail(s, "Cannot record the upload") /\ UNCHANGED recorded
  <2> DEFINE text == "Cannot record the upload"
  <2>1. Post(Mail(s, Client, Failure(text)))
    BY <1>3 DEF Fail
  <2>2. Adds({Datagram(s, Client, Failure(text))})
    BY <2>1, PostMailAdds DEF DialogueInv, RestOK
  <2> QED
    BY <1>1, <1>3, <2>2, SessionFails
<1> QED
  BY <1>2, <1>3 DEF SaveUpload

-----------------------------------------------------------------------------
(* The steps of the client up to its loop. *)

LEMMA ClientMoves ==
  ASSUME DialogueInv, NEW e \in EndType, at' = [at EXCEPT ![Client] = e],
         e.pc \notin {"idle", "closing", "saving"}, e.bytes = at[Client].bytes,
         UNCHANGED <<request, interrupted, daemon, recorded, faults>>,
         peer' = peer \/ (peer = Nobody /\ peer' \in Sessions),
         exit' \in {Running, 1, 21, 22},
         Persists /\ at'[Client] = e => ClientInv',
         NEW new, Adds(new), at'[Client] = e => \A d \in new : Proper(d)'
  PROVE  DialogueInv'
<1>1. Client \in Ends /\ \A s \in Sessions : s \in Ends /\ s # Client /\ s # Nobody
  BY EndsApart
<1>2. at'[Client] = e /\ \A x \in Ends \ {Client} : at'[x] = at[x]
  BY <1>1 DEF DialogueInv, AtOK
<1>3. \A s \in Sessions : at'[s] = at[s]
  BY <1>1, <1>2
<1>4. Persists
  BY <1>2, <1>3 DEF Persists
<1>5. AtOK' /\ NetInv' /\ ClientInv'
  BY <1>1, <1>2, <1>4, NetPersists DEF DialogueInv, AtOK
<1>6. ASSUME NEW s \in Sessions PROVE SessionInv(s)'
  <2>1. Reading' <=> Reading
    BY DEF Reading
  <2>2. Opened(s) => Opened(s)'
    BY <1>4, OpenedPersists
  <2>3. SessionInv(s)
    BY DEF DialogueInv
  <2> QED
    BY <1>3, <2>1, <2>2, <2>3 DEF SessionInv, NewSession
<1>7. CopyInv'
  <2>1. size' = size /\ (peer # Nobody => peer' = peer) /\ (Reading' <=> Reading)
    BY DEF size, Reading
  <2>2. \A x \in Ends : at'[x].bytes = at[x].bytes
    BY <1>2
  <2>3. \A x \in Ends :
          at'[x].pc \in {"closing", "saving"} => x # Client /\ at[x].pc = at'[x].pc
    BY <1>2
  <2>4. exit' # 0
    BY DEF Running
  <2>5. peer # Nobody => From' = From
    BY <2>1 DEF From
  <2>6. peer \in Sessions \cup {Nobody}
    BY DEF DialogueInv, RestOK
  <2>7. CopyInv
    BY DEF DialogueInv
  <2>8. \A x \in Ends : at'[x].bytes > 0 => at'[x].bytes <= size'
    BY <2>1, <2>2, <2>7 DEF CopyInv
  <2>9. peer' = Nobody => \A x \in Ends : at'[x].bytes = 0
    BY <1>1, <2>2, <2>7 DEF CopyInv
  <2>10. peer' # Nobody => /\ at'[peer'].bytes = at'[Client].bytes
                           /\ \A s \in Sessions \ {peer'} : at'[s].bytes = 0
    BY <1>1, <2>1, <2>2, <2>6, <2>7 DEF CopyInv
  <2>11. \A x \in Ends : at'[x].pc = "closing" =>
                           peer' # Nobody /\ x = From' /\ at'[Client].bytes = size'
    BY <1>1, <2>1, <2>2, <2>3, <2>5, <2>7 DEF CopyInv
  <2>12. \A s \in Sessions :
           at'[s].pc = "saving" \/ s \in recorded' => s = peer' /\ at'[Client].bytes = size'
    BY <1>1, <2>1, <2>2, <2>3, <2>7 DEF CopyInv
  <2> QED
    BY <2>4, <2>8, <2>9, <2>10, <2>11, <2>12 DEF CopyInv
<1>8. RestOK' /\ DaemonSurvives'
  BY <1>1 DEF DialogueInv, RestOK, DaemonSurvives, Reading, Adds
<1> QED
  BY <1>5, <1>6, <1>7, <1>8 DEF DialogueInv

LEMMA ClientFields ==
  ASSUME DialogueInv, NEW where \in Pcs
  PROVE  LET e == [at[Client] EXCEPT !.pc = where]
         IN  /\ e \in EndType /\ e.pc = where /\ e.bytes = at[Client].bytes
             /\ e.block = at[Client].block /\ e.room = at[Client].room
<1>1. at[Client] \in EndType
  BY EndsApart, EndFields DEF DialogueInv
<1> QED
  BY <1>1, MovedFields

LEMMA SendRequestKeeps ==
  ASSUME DialogueInv, SendRequest
  PROVE  DialogueInv'
<1> DEFINE e == [at[Client] EXCEPT !.pc = "opening"]
<1>1. /\ at[Client].pc = "idle" /\ at' = [at EXCEPT ![Client] = e]
      /\ Post(Mail(Client, Daemon, request.message))
      /\ UNCHANGED <<request, peer, reply, exit, interrupted, daemon, recorded, faults>>
  BY DEF SendRequest
<1>2. /\ e \in EndType /\ e.pc = "opening" /\ e.bytes = at[Client].bytes
      /\ e.block = at[Client].block /\ e.room = at[Client].room
  BY ClientFields DEF Pcs
<1> HIDE DEF e
<1>3. PICK q : q = request.message
  OBVIOUS
<1> DEFINE new == {Datagram(Client, Daemon, q)}
<1>4. Adds(new)
  BY <1>1, <1>3, PostMailAdds DEF DialogueInv, RestOK
<1>5. at'[Client] = e => \A d \in new : Proper(d)'
  BY <1>1, <1>2, <1>3 DEF Proper, Datagram
<1> HIDE DEF new
<1>6. ClientInv /\ peer = Nobody /\ exit = Running
  BY <1>1 DEF DialogueInv, ClientInv
<1>7. at'[Client] = e => ClientInv'
  BY <1>1, <1>2, <1>6 DEF ClientInv
<1> QED
  BY <1>1, <1>2, <1>4, <1>5, <1>6, <1>7, ClientMoves

LEMMA TakeReplyKeeps ==
  ASSUME DialogueInv, NEW d \in Inbox(Client), NEW m \in Understood(Client, d),
         TakeReply(d, m)
  PROVE  DialogueInv'
<1>1. /\ at[Client].pc = "opening" /\ reply' = m /\ peer' = d.from
      /\ Swap(d, EmptyBag)
      /\ UNCHANGED <<request, interrupted, daemon, recorded, faults>>
  BY DEF TakeReply
<1>2. /\ peer = Nobody /\ exit = Running
      /\ at[Client].block = 512 /\ at[Client].room = 512 + Preamble
  BY <1>1 DEF DialogueInv, ClientInv
<1>3. /\ d.from \in Sessions
      /\ d.message.kind = "ERROR" \/ (d.message = Greeting /\ Opened(d.from))
  <2>1. d \in BagToSet(net) /\ d.to = Client
    BY DEF Inbox
  <2> QED
    BY <2>1, EndsApart DEF DialogueInv, NetInv, Proper
<1>4. Adds({})
  BY <1>1, TakenAdds DEF DialogueInv, RestOK
<1>5. CASE m = Invalid
  <2> DEFINE e == [at[Client] EXCEPT !.pc = "over"]
  <2>1. at' = [at EXCEPT ![Client] = e] /\ exit' = FailCode
    BY <1>5 DEF TakeReply, Exit
  <2>2. /\ e \in EndType /\ e.pc = "over" /\ e.bytes = at[Client].bytes
    BY ClientFields DEF Pcs
  <2> HIDE DEF e
  <2>3. exit' \in {1, 21, 22} /\ exit' # Running
    BY <2>1, FailCodes DEF Running
  <2>4. at'[Client] = e => ClientInv'
    BY <2>2, <2>3 DEF ClientInv
  <2>5. /\ e.pc \notin {"idle", "closing", "saving"} /\ peer' \in Sessions
        /\ exit' \in {Running, 1, 21, 22}
    BY <1>1, <1>3, <2>2, <2>3
  <2>6. /\ peer' = peer \/ (peer = Nobody /\ peer' \in Sessions)
        /\ UNCHANGED <<request, interrupted, daemon, recorded, faults>>
    BY <1>1, <1>2, <2>5
  <2>7. at' = [at EXCEPT ![Client] = e] /\ e \in EndType /\ e.bytes = at[Client].bytes
    BY <2>1, <2>2
  <2> QED
    BY <1>4, <2>4, <2>5, <2>6, <2>7, ClientMoves
<1>6. CASE m # Invalid
  <2> DEFINE e == [at[Client] EXCEPT !.pc = "redialling"]
  <2>1. at' = [at EXCEPT ![Client] = e] /\ exit' = exit
    BY <1>6 DEF TakeReply
  <2>2. /\ e \in EndType /\ e.pc = "redialling" /\ e.bytes = at[Client].bytes
        /\ e.block = 512 /\ e.room = 512 + Preamble
    BY <1>2, ClientFields DEF Pcs
  <2> HIDE DEF e
  <2>3. m.kind = "ERROR" \/ (m = Greeting /\ Opened(d.from))
    BY <1>2, <1>3, <1>6, ClientUnderstands DEF DialogueInv, RestOK
  <2>4. ASSUME Persists, at'[Client] = e PROVE ClientInv'
    <3>1. m.kind = "ERROR" \/ (m = Greeting' /\ Opened(d.from)')
      BY <1>3, <2>3, <2>4, OpenedPersists, GreetingPersists
    <3>2. peer' \in Sessions /\ (reply'.kind = "ERROR" \/ (reply' = Greeting' /\ Opened(peer)'))
      BY <1>1, <1>3, <3>1 DEF Opened
    <3>3. at'[Client].pc = "redialling" /\ at'[Client].block = 512
          /\ at'[Client].room = 512 + Preamble /\ exit' = Running
      BY <1>2, <2>1, <2>2, <2>4
    <3> QED
      BY <3>2, <3>3 DEF ClientInv
  <2> QED
    BY <1>1, <1>2, <1>3, <1>4, <2>1, <2>2, <2>4, ClientMoves
<1> QED
  BY <1>5, <1>6

(* The answer to the options names the block that was asked for.           *)
LEMMA AnswerKeepsBlock ==
  ASSUME NEW o, NEW n
  PROVE  BlockOf(Answered(o, n)) = BlockOf(o)
<1>1. CASE "tsize" \in DOMAIN o
  <2> DEFINE v == ToString(IF Parsed[o["tsize"]] = 0 THEN n ELSE Parsed[o["tsize"]])
             a == [o EXCEPT !["tsize"] = v]
  <2>1. Answered(o, n) = a
    BY <1>1 DEF Answered
  <2>2. DOMAIN a = DOMAIN o /\ ("blksize" \in DOMAIN o => a["blksize"] = o["blksize"])
    OBVIOUS
  <2> QED
    BY <2>1, <2>2 DEF BlockOf
<1>2. CASE "tsize" \notin DOMAIN o
  BY <1>2 DEF Answered
<1> QED
  BY <1>1, <1>2

LEMMA AcceptReplyKeeps ==
  ASSUME DialogueInv, AcceptReply
  PROVE  DialogueInv'
<1> DEFINE b == IF reply.kind = "OACK" THEN BlockOf(reply.options) ELSE 512
           r == IF Other THEN b + Preamble ELSE at[Client].room
           f == at[Client]
           e == [f EXCEPT !.pc = "copying", !.block = b, !.room = r]
<1>1. /\ at[Client].pc = "redialling" /\ Welcome /\ Post(Answer)
      /\ UNCHANGED <<request, peer, reply, exit, interrupted, daemon, recorded, faults>>
  BY DEF AcceptReply
<1>2. at' = [at EXCEPT ![Client] = e]
  BY DEF AcceptReply
<1>3. peer \in Sessions /\ exit = Running /\ f.room = 512 + Preamble
  BY <1>1 DEF DialogueInv, ClientInv
<1>4. reply = Greeting /\ Opened(peer)
  <2>1. reply.kind # "ERROR"
    BY <1>1 DEF Welcome
  <2> QED
    BY <1>1, <2>1 DEF DialogueInv, ClientInv
<1>5. b = BlockOf(Asked)
  <2>1. CASE Asked # NoOptions
    <3>1. reply = OptionAck(Updated(Asked))
      BY <1>4, <2>1 DEF Greeting
    <3>2. reply.kind = "OACK" /\ reply.options = Updated(Asked)
      BY <3>1 DEF OptionAck
    <3> QED
      BY <3>2, AnswerKeepsBlock DEF Updated
  <2>2. CASE Asked = NoOptions
    <3>1. reply.kind # "OACK"
      BY <1>4, <2>2 DEF Greeting, Data, Ack
    <3>2. BlockOf(Asked) = 512
      BY <2>2 DEF BlockOf, NoOptions
    <3> QED
      BY <3>1, <3>2
  <2> QED
    BY <2>1, <2>2
<1>6. Requested /\ Agreeable(Operation(request.message), Asked)
  BY <1>4 DEF Opened
<1>7. b \in BlockSizes
  BY <1>5, <1>6, AgreedBlock
<1>8. ~Other => b = 512
  <2>1. request \in Requests /\ (~Other => request.by = "tftpcpc")
    BY DialogueAssumption DEF DialogueInv, RestOK, Other
  <2>2. ~Other => "blksize" \notin DOMAIN Asked
    BY <1>6, <2>1, RequestsAssumption DEF Asked, Requested, Asking
  <2> QED
    BY <1>5, <2>2 DEF BlockOf
<1>9. r \in Rooms /\ r = b + Preamble
  BY <1>3, <1>7, <1>8, RoomForBlock
<1>10. f \in EndType
  BY EndsApart, EndFields DEF DialogueInv
<1> HIDE DEF b, r, f
<1>11. /\ e \in EndType /\ e.pc = "copying" /\ e.block = b /\ e.room = r
       /\ e.bytes = f.bytes
  BY <1>7, <1>9, <1>10 DEF EndType, Pcs
<1>12. e.bytes = at[Client].bytes
  BY <1>11 DEF f
<1> HIDE DEF e
<1> DEFINE new == BagToSet(Answer)
<1>13. Adds(new)
  BY <1>1, AnswerBag, Posts DEF Adds, DialogueInv, RestOK
<1>14. \A d \in new : Proper(d)'
  BY <1>3, AnswerBag, ClientProper
<1> HIDE DEF new
<1>15. ASSUME Persists, at'[Client] = e PROVE ClientInv'
  <2>1. Greeting' = Greeting /\ Asked' = Asked /\ Requested'
    BY <1>6, <1>15, GreetingPersists
  <2>2. \A s \in Sessions : Opened(s) => Opened(s)'
    BY <1>15, OpenedPersists
  <2>3. Opened(peer)'
    BY <1>1, <1>3, <1>4, <2>2 DEF Opened
  <2>4. peer' \in Sessions /\ reply' = Greeting' /\ exit' = Running
    BY <1>1, <1>3, <1>4, <2>1
  <2>5. /\ at'[Client].pc = "copying" /\ at'[Client].block = BlockOf(Asked')
        /\ at'[Client].room >= at'[Client].block + Preamble
    <3>1. r >= b + Preamble
      <4>1. b \in Nat
        BY <1>7, Sizes
      <4> QED
        BY <1>9, <4>1 DEF Preamble
    <3> QED
      BY <1>5, <1>11, <1>15, <2>1, <3>1
  <2> QED
    BY <2>1, <2>3, <2>4, <2>5 DEF ClientInv
<1> QED
  BY <1>1, <1>2, <1>3, <1>11, <1>12, <1>13, <1>14, <1>15, ClientMoves

-----------------------------------------------------------------------------
(* The copy. *)

(* What one block is to both ends, of which one has read sent bytes and    *)
(* the other one got as many.                                              *)
Copied(sent, last) ==
  /\ at'[Client].bytes = at[Client].bytes + sent
  /\ at'[peer].bytes = at[peer].bytes + sent
  /\ at[Client].bytes + sent <= size
  /\ last => at[Client].bytes + sent = size
  /\ at'[Client].block = at[Client].block /\ at'[peer].block = at[peer].block
  /\ at'[Client].room = at[Client].room /\ at'[peer].room = at[peer].room
  /\ at'[peer].pc = IF ~last THEN "copying" ELSE IF Reading THEN "closing" ELSE "saving"
  /\ at'[Client].pc = IF ~last THEN "copying" ELSE IF Reading THEN "over" ELSE "closing"
  /\ exit' = IF last /\ Reading THEN 0 ELSE exit
  /\ \A x \in Ends \ {peer, Client} : at'[x] = at[x]

LEMMA Copies ==
  ASSUME DialogueInv, CopyBlock
  PROVE  /\ peer \in Sessions /\ at[Client].pc = "copying" /\ at[peer].pc = "copying"
         /\ at[peer].bytes = at[Client].bytes
         /\ UNCHANGED <<request, net, peer, reply, interrupted, daemon, recorded, faults>>
         /\ AtOK'
         /\ \E sent \in Nat, last \in BOOLEAN : Copied(sent, last)
<1> DEFINE left == size - at[From].bytes
           sent == IF left < at[From].block THEN left ELSE at[From].block
           got  == IF sent < at[To].block THEN sent ELSE at[To].block
           last == LastBlock(To, got)
           ef == [at[From] EXCEPT !.bytes = at[From].bytes + sent,
                    !.pc = IF LastBlock(From, sent) THEN "closing" ELSE "copying"]
           et == [at[To] EXCEPT !.bytes = at[To].bytes + got,
                    !.pc = IF ~last THEN "copying" ELSE IF Reading THEN "over" ELSE "saving"]
<1>1. /\ peer # Nobody /\ at[Client].pc = "copying" /\ at[peer].pc = "copying"
      /\ UNCHANGED <<request, net, peer, reply, interrupted, daemon, recorded, faults>>
      /\ exit' = IF last /\ Reading THEN 0 ELSE exit
  BY DEF CopyBlock
<1>2. at' = [at EXCEPT ![From] = ef, ![To] = et]
  BY DEF CopyBlock
<1>3. /\ peer \in Sessions /\ peer \in Ends /\ Client \in Ends /\ peer # Client
      /\ From \in {peer, Client} /\ To = (IF From = peer THEN Client ELSE peer)
      /\ Reading <=> From = peer
  BY <1>1, EndsApart DEF DialogueInv, RestOK, From, To
<1>4. at[peer].block = at[Client].block /\ at[peer].bytes = at[Client].bytes
  BY <1>1, <1>3 DEF DialogueInv, SessionInv, Opened, ClientInv, CopyInv
<1>5. at[Client].block \in Nat /\ at[Client].block > 0
  <2>1. at[Client].block \in BlockSizes
    BY EndsApart, EndFields DEF DialogueInv
  <2> QED
    BY <2>1, Sizes
<1>6. at[Client].bytes \in Nat /\ size \in Nat /\ at[Client].bytes <= size
  <2>1. at[Client].bytes \in Nat
    BY EndsApart, EndFields DEF DialogueInv
  <2>2. size \in Nat
    <3>1. Opened(peer)
      BY <1>1, <1>3 DEF DialogueInv, SessionInv
    <3>2. CASE Reading
      BY <3>1, <3>2 DEF Opened
    <3>3. CASE ~Reading
      <4>1. request.message.kind = "WRQ" /\ request \in Requests
        BY <3>1, <3>3 DEF Opened, Requested, Asking, Reading, DialogueInv, RestOK
      <4>2. size # Absent
        BY <4>1, RequestsAssumption DEF size
      <4>3. size \in Nat \cup {-1}
        BY <4>1, DialogueAssumption DEF size
      <4> QED
        BY <4>2, <4>3 DEF Absent
    <3> QED
      BY <3>2, <3>3
  <2>3. at[Client].bytes > 0 => at[Client].bytes <= size
    BY EndsApart DEF DialogueInv, CopyInv
  <2> QED
    BY <2>1, <2>2, <2>3
<1>7. /\ at[From].bytes = at[Client].bytes /\ at[To].bytes = at[Client].bytes
      /\ at[From].block = at[Client].block /\ at[To].block = at[Client].block
      /\ at[From] \in EndType /\ at[To] \in EndType
  BY <1>3, <1>4, EndFields DEF DialogueInv
<1>8. /\ sent \in Nat /\ got = sent /\ at[Client].bytes + sent <= size
      /\ LastBlock(From, sent) <=> last
      /\ last => at[Client].bytes + sent = size
  BY <1>5, <1>6, <1>7 DEF LastBlock
<1>9. last \in BOOLEAN
  BY DEF LastBlock
<1> HIDE DEF left, sent, got, last
<1>10. /\ ef \in EndType /\ ef.bytes = at[Client].bytes + sent
       /\ ef.block = at[From].block /\ ef.room = at[From].room
       /\ ef.pc = IF last THEN "closing" ELSE "copying"
  <2> DEFINE e == at[From]
             p == IF last THEN "closing" ELSE "copying"
             n == at[Client].bytes + sent
  <2>1. ef = [e EXCEPT !.bytes = n, !.pc = p]
    BY <1>7, <1>8, <1>9
  <2>2. e \in EndType /\ n \in Nat /\ p \in Pcs
    BY <1>6, <1>7, <1>8 DEF Pcs
  <2> HIDE DEF ef, e, p, n
  <2>3. LET f == [e EXCEPT !.bytes = n, !.pc = p]
        IN  f \in EndType /\ f.bytes = n /\ f.block = e.block /\ f.room = e.room /\ f.pc = p
    BY <2>2 DEF EndType
  <2> QED
    BY <2>1, <2>3 DEF e, p, n
<1>11. /\ et \in EndType /\ et.bytes = at[Client].bytes + sent
       /\ et.block = at[To].block /\ et.room = at[To].room
       /\ et.pc = IF ~last THEN "copying" ELSE IF Reading THEN "over" ELSE "saving"
  <2> DEFINE e == at[To]
             p == IF ~last THEN "copying" ELSE IF Reading THEN "over" ELSE "saving"
             n == at[Client].bytes + sent
  <2>1. et = [e EXCEPT !.bytes = n, !.pc = p]
    BY <1>7, <1>8
  <2>2. e \in EndType /\ n \in Nat /\ p \in Pcs
    BY <1>6, <1>7, <1>8 DEF Pcs
  <2> HIDE DEF et, e, p, n
  <2>3. LET f == [e EXCEPT !.bytes = n, !.pc = p]
        IN  f \in EndType /\ f.bytes = n /\ f.block = e.block /\ f.room = e.room /\ f.pc = p
    BY <2>2 DEF EndType
  <2> QED
    BY <2>1, <2>3 DEF e, p, n
<1> HIDE DEF ef, et
<1>12. /\ at'[From] = ef /\ at'[To] = et /\ AtOK'
       /\ \A x \in Ends \ {peer, Client} : at'[x] = at[x]
  BY <1>2, <1>3, <1>10, <1>11 DEF DialogueInv, AtOK
<1>13. Copied(sent, last)
  BY <1>1, <1>3, <1>4, <1>7, <1>8, <1>10, <1>11, <1>12 DEF Copied
<1> QED
  BY <1>1, <1>3, <1>4, <1>8, <1>9, <1>12, <1>13

LEMMA CopyBlockKeeps ==
  ASSUME DialogueInv, CopyBlock
  PROVE  DialogueInv'
<1>1. /\ peer \in Sessions /\ at[Client].pc = "copying" /\ at[peer].pc = "copying"
      /\ at[peer].bytes = at[Client].bytes
      /\ UNCHANGED <<request, net, peer, reply, interrupted, daemon, recorded, faults>>
      /\ AtOK'
  BY Copies
<1>2. PICK sent \in Nat, last \in BOOLEAN : Copied(sent, last)
  BY Copies
<1>3. peer \in Ends /\ Client \in Ends /\ peer # Client /\ peer # Nobody
      /\ \A s \in Sessions : s \in Ends /\ s # Client
  BY <1>1, EndsApart
<1>4. /\ at'[Client].bytes = at[Client].bytes + sent
      /\ at'[peer].bytes = at[Client].bytes + sent
      /\ at[Client].bytes + sent <= size
      /\ last => at[Client].bytes + sent = size
  BY <1>1, <1>2 DEF Copied
<1>5. /\ at'[Client].block = at[Client].block /\ at'[peer].block = at[peer].block
      /\ at'[Client].room = at[Client].room /\ at'[peer].room = at[peer].room
      /\ at'[peer].pc = IF ~last THEN "copying" ELSE IF Reading THEN "closing" ELSE "saving"
      /\ at'[Client].pc = IF ~last THEN "copying" ELSE IF Reading THEN "over" ELSE "closing"
      /\ exit' = IF last /\ Reading THEN 0 ELSE exit
      /\ \A x \in Ends \ {peer, Client} : at'[x] = at[x]
  BY <1>2 DEF Copied
<1>6. /\ size' = size /\ (Reading' <=> Reading) /\ From' = From
      /\ From = IF Reading THEN peer ELSE Client
  BY <1>1 DEF size, Reading, From
<1>7. ClientInv /\ CopyInv /\ RestOK /\ NetInv /\ SessionInv(peer) /\ DaemonSurvives
  BY <1>1 DEF DialogueInv
<1>8. exit = Running
  BY <1>1, <1>7 DEF ClientInv
<1>9. Persists
  BY <1>1, <1>3, <1>5 DEF Persists
<1>10. NetInv'
  <2>1. Adds({})
    BY <1>1, <1>7, NetStays DEF RestOK
  <2> QED
    BY <1>7, <1>9, <2>1, NetPersists
<1>11. Opened(peer)'
  <2>1. Opened(peer)
    BY <1>1, <1>7 DEF SessionInv
  <2> QED
    BY <1>1, <1>5, <2>1 DEF Opened, Requested, Asked, Reading, size
<1>12. ASSUME NEW s \in Sessions PROVE SessionInv(s)'
  <2>1. CASE s = peer
    <3>1. Opened(s)'
      BY <1>1, <1>11, <2>1 DEF Opened
    <3>2. at'[s].room = at'[s].block + Preamble
      BY <1>1, <1>5, <1>7, <2>1 DEF SessionInv
    <3>3. at'[s].pc \in {"copying", "closing", "saving"} /\ (at'[s].pc = "saving" => ~Reading')
      BY <1>5, <1>6, <2>1
    <3> QED
      BY <3>1, <3>2, <3>3 DEF SessionInv
  <2>2. CASE s # peer
    <3>1. at'[s] = at[s]
      BY <1>3, <1>5, <2>2
    <3>2. SessionInv(s) /\ (Opened(s) => Opened(s)')
      BY <1>9, OpenedPersists DEF DialogueInv
    <3> QED
      BY <1>6, <3>1, <3>2 DEF SessionInv, NewSession
  <2> QED
    BY <2>1, <2>2
<1>13. ClientInv'
  <2>1. Greeting' = Greeting /\ Asked' = Asked /\ (Requested' <=> Requested)
    BY <1>9, GreetingPersists
  <2>2. /\ reply = Greeting /\ Requested /\ at[Client].block = BlockOf(Asked)
        /\ at[Client].room >= at[Client].block + Preamble
    BY <1>1, <1>7 DEF ClientInv
  <2>3. at'[Client].pc \in {"copying", "closing", "over"}
    BY <1>5
  <2>4. /\ peer' \in Sessions /\ reply' = Greeting' /\ Requested'
        /\ at'[Client].block = BlockOf(Asked')
        /\ at'[Client].room >= at'[Client].block + Preamble
    BY <1>1, <1>5, <2>1, <2>2
  <2>5. at'[Client].pc = "over" <=> exit' # Running
    BY <1>5, <1>8 DEF Running
  <2> QED
    BY <1>11, <2>3, <2>4, <2>5 DEF ClientInv
<1>14. CopyInv'
  <2>1. at[Client].bytes \in Nat
    BY <1>3, EndFields DEF DialogueInv
  <2>2. \A x \in Ends : at'[x].bytes > 0 => at'[x].bytes <= size'
    <3> SUFFICES ASSUME NEW x \in Ends, at'[x].bytes > 0
                 PROVE  at'[x].bytes <= size'
      OBVIOUS
    <3>1. CASE x \in {peer, Client}
      BY <1>4, <1>6, <3>1
    <3>2. CASE x \notin {peer, Client}
      BY <1>5, <1>6, <1>7, <3>2 DEF CopyInv
    <3> QED
      BY <3>1, <3>2
  <2>3. at'[peer'].bytes = at'[Client].bytes
    BY <1>1, <1>4
  <2>4. \A s \in Sessions \ {peer'} : at'[s].bytes = 0
    BY <1>1, <1>3, <1>5, <1>7 DEF CopyInv
  <2>5. ASSUME NEW x \in Ends, at'[x].pc = "closing"
        PROVE  peer' # Nobody /\ x = From' /\ at'[Client].bytes = size'
    <3>1. CASE x \in {peer, Client}
      <4>1. last /\ x = From
        BY <1>3, <1>5, <1>6, <2>5, <3>1
      <4> QED
        BY <1>1, <1>3, <1>4, <1>6, <4>1
    <3>2. CASE x \notin {peer, Client}
      BY <1>3, <1>5, <1>6, <1>7, <2>5, <3>2 DEF CopyInv
    <3> QED
      BY <3>1, <3>2
  <2>6. ASSUME NEW s \in Sessions, at'[s].pc = "saving" \/ s \in recorded'
        PROVE  s = peer' /\ at'[Client].bytes = size'
    <3>1. CASE s \in recorded
      <4>1. s = peer /\ at[Client].bytes = size
        BY <1>7, <3>1 DEF CopyInv
      <4>2. at[Client].bytes + sent = size
        BY <1>4, <2>1, <4>1
      <4> QED
        BY <1>1, <1>4, <1>6, <4>1, <4>2
    <3>2. CASE at'[s].pc = "saving" /\ s = peer
      <4>1. last
        BY <1>5, <3>2
      <4> QED
        BY <1>1, <1>4, <1>6, <3>2, <4>1
    <3>3. CASE at'[s].pc = "saving" /\ s # peer
      <4>1. at[s].pc = "saving"
        BY <1>3, <1>5, <3>3
      <4> QED
        BY <1>7, <3>3, <4>1 DEF CopyInv
    <3> QED
      BY <1>1, <2>6, <3>1, <3>2, <3>3
  <2>7. exit' = 0 => at'[Client].bytes = size'
    BY <1>4, <1>5, <1>6, <1>8 DEF Running
  <2> QED
    BY <1>1, <1>3, <2>2, <2>3, <2>4, <2>5, <2>6, <2>7 DEF CopyInv
<1>15. RestOK' /\ DaemonSurvives'
  BY <1>1, <1>5, <1>7 DEF RestOK, DaemonSurvives, Reading
<1> QED
  BY <1>1, <1>10, <1>12, <1>13, <1>14, <1>15 DEF DialogueInv

-----------------------------------------------------------------------------
(* The invariant. *)

LEMMA InitInv == Init => DialogueInv
<1> SUFFICES ASSUME Init PROVE DialogueInv
  OBVIOUS
<1>1. /\ request \in Requests
      /\ at = [x \in Ends |-> NewSession(IF x = Client THEN "idle" ELSE "unused")]
      /\ net = EmptyBag /\ peer = Nobody /\ reply = Invalid /\ exit = Running
      /\ interrupted = FALSE /\ daemon = "running" /\ recorded = {} /\ faults = 0
  BY DEF Init
<1>2. /\ Client \in Ends /\ at[Client] = NewSession("idle")
      /\ \A s \in Sessions : s \in Ends /\ at[s] = NewSession("unused")
      /\ \A x \in Ends : at[x] = NewSession("idle") \/ at[x] = NewSession("unused")
  BY <1>1, EndsApart
<1>3. \A where \in {"idle", "unused"} :
        LET n == NewSession(where)
        IN  /\ n \in EndType /\ n.pc = where /\ n.block = 512
            /\ n.room = 512 + Preamble /\ n.bytes = 0
  BY NewSessionFields DEF Pcs
<1>4. AtOK
  BY <1>1, <1>3 DEF AtOK
<1>5. RestOK
  <2>1. IsABag(net)
    BY <1>1, EmptyMail
  <2>2. faults \in 0 .. MaxFaults
    BY <1>1, DialogueAssumption
  <2>3. exit \in {Running, 0, 1, 2, 21, 22} /\ interrupted \in BOOLEAN /\ recorded \subseteq Sessions
    BY <1>1
  <2> QED
    BY <1>1, <2>1, <2>2, <2>3 DEF RestOK
<1>6. NetInv
  BY <1>1, EmptyMail DEF NetInv
<1>7. \A s \in Sessions : SessionInv(s)
  BY <1>2, <1>3 DEF SessionInv
<1>8. ClientInv
  BY <1>1, <1>2, <1>3 DEF ClientInv
<1>9. CopyInv
  <2>1. \A x \in Ends : at[x].bytes = 0 /\ at[x].pc \notin {"closing", "saving"}
    BY <1>2, <1>3
  <2>2. exit # 0
    BY <1>1 DEF Running
  <2> QED
    BY <1>1, <1>2, <2>1, <2>2 DEF CopyInv
<1>10. DaemonSurvives
  BY <1>1 DEF DaemonSurvives
<1> QED
  BY <1>4, <1>5, <1>6, <1>7, <1>8, <1>9, <1>10 DEF DialogueInv

LEMMA UnchangedKeeps ==
  ASSUME DialogueInv, UNCHANGED vars
  PROVE  DialogueInv'
<1>1. UNCHANGED <<request, at, net, peer, reply, exit, interrupted, daemon, recorded, faults>>
  BY DEF vars
<1>2. Adds({}) /\ interrupted' \in BOOLEAN /\ faults' \in 0 .. MaxFaults
  BY <1>1, NetStays DEF DialogueInv, RestOK
<1> QED
  BY <1>1, <1>2, StaysKeeps

LEMMA ClientStepKeeps ==
  ASSUME DialogueInv, ClientStep
  PROVE  DialogueInv'
BY SendRequestKeeps, CannotStartKeeps, ReplyTimeoutKeeps, CannotRedialKeeps,
   AcceptReplyKeeps, CannotOpenFileKeeps, RefuseOptionsKeeps, RefuseReplyKeeps,
   InterruptKeeps, MissKeeps, TakeReplyKeeps DEF ClientStep

LEMMA SessionStepKeeps ==
  ASSUME DialogueInv, NEW s \in Sessions, SessionStep(s)
  PROVE  DialogueInv'
<1>1. ASSUME NEW d \in Inbox(Daemon), NEW m \in Understood(Daemon, d), SessionOpens(s, d, m)
      PROVE  DialogueInv'
  BY <1>1, RejectionsKeep, PanicOnOptionKeeps, AcceptReadKeeps, AcceptWriteKeeps
     DEF SessionOpens
<1> QED
  BY <1>1, PanicOnSliceKeeps, PrepareUploadKeeps, SaveUploadKeeps, TakeAnswerKeeps
     DEF SessionStep

LEMMA CopyStepKeeps ==
  ASSUME DialogueInv, CopyStep
  PROVE  DialogueInv'
BY CopyBlockKeeps, LastAckKeeps, GoSilentKeeps, GiveUpKeeps, TakeStrayKeeps DEF CopyStep

LEMMA NextInv == DialogueInv /\ [Next]_vars => DialogueInv'
<1> SUFFICES ASSUME DialogueInv, [Next]_vars PROVE DialogueInv'
  OBVIOUS
<1>1. CASE ClientStep
  BY <1>1, ClientStepKeeps
<1>2. CASE CopyStep
  BY <1>2, CopyStepKeeps
<1>3. CASE NetworkStep
  BY <1>3, KillKeeps, NetworkKeeps DEF NetworkStep
<1>4. CASE \E s \in Sessions : SessionStep(s)
  BY <1>4, SessionStepKeeps
<1>5. CASE UNCHANGED vars
  BY <1>5, UnchangedKeeps
<1> QED
  BY <1>1, <1>2, <1>3, <1>4, <1>5 DEF Next

LEMMA Invariance == Spec => []DialogueInv
BY InitInv, NextInv, PTL DEF Spec

-----------------------------------------------------------------------------
(* Every variable keeps its type; no end has copied more than there is of  *)
(* the file, and the datagrams go between the client and the daemon.       *)
THEOREM TypeCorrect == Spec => []TypeOK
<1>1. DialogueInv => TypeOK
  <2> SUFFICES ASSUME DialogueInv PROVE TypeOK
    OBVIOUS
  <2>1. at \in [Ends -> EndType]
    BY DEF DialogueInv, AtOK
  <2>2. \A x \in Ends : at[x].bytes > 0 => at[x].bytes <= size
    BY DEF DialogueInv, CopyInv
  <2>3. \A d \in BagToSet(net) : d.from \in Ends /\ d.to \in Ends \cup {Daemon}
    BY EndsApart DEF DialogueInv, NetInv, Proper
  <2>4. RestOK
    BY DEF DialogueInv
  <2> QED
    BY <2>1, <2>2, <2>3, <2>4 DEF TypeOK, RestOK
<1> QED
  BY <1>1, Invariance, PTL

(* UpdateOptions and the buffers: whatever was lost, repeated or answered  *)
(* late, two ends that copy have the same BlockSize and room for a block.  *)
THEOREM BlocksAgree == Spec => []BlockSizesAgree
<1>1. DialogueInv => BlockSizesAgree
  <2> SUFFICES ASSUME DialogueInv, peer # Nobody,
                      at[Client].pc = "copying", at[peer].pc = "copying"
               PROVE  /\ at[Client].block = at[peer].block
                      /\ at[From].room >= at[From].block + Preamble
                      /\ at[To].room >= at[To].block + Preamble
    BY DEF BlockSizesAgree
  <2>1. /\ at[Client].block = BlockOf(Asked)
        /\ at[Client].room >= at[Client].block + Preamble
        /\ peer \in Sessions
    BY DEF DialogueInv, ClientInv
  <2>2. Opened(peer) /\ at[peer].room = at[peer].block + Preamble
    BY <2>1 DEF DialogueInv, SessionInv
  <2>3. at[peer].block = BlockOf(Asked)
    BY <2>2 DEF Opened
  <2>4. at[peer].room >= at[peer].block + Preamble
    <3>1. at[peer].block \in Nat
      <4>1. at[peer].block \in BlockSizes
        BY <2>1, EndsApart, EndFields DEF DialogueInv
      <4> QED
        BY <4>1, Sizes
    <3> QED
      BY <2>2, <3>1 DEF Preamble
  <2> QED
    BY <2>1, <2>3, <2>4 DEF From, To
<1> QED
  BY <1>1, Invariance, PTL

(* One client can end the daemon only by a value that is no number, or by  *)
(* a block for a download that its first buffer does not hold.             *)
THEOREM OnlyTheseEndIt == Spec => []DaemonSurvives
<1>1. DialogueInv => DaemonSurvives
  BY DEF DialogueInv
<1> QED
  BY <1>1, Invariance, PTL

(* The exit code of tftpcpc and Success in the table are true.             *)
THEOREM SuccessIsTrue == Spec => []WholeOrReported
<1>1. DialogueInv => WholeOrReported
  <2> SUFFICES ASSUME DialogueInv PROVE WholeOrReported
    OBVIOUS
  <2>1. peer # Nobody => at[peer].bytes = at[Client].bytes
    BY DEF DialogueInv, CopyInv
  <2>2. exit = 0 /\ Welcome => at[To].bytes = size
    BY <2>1 DEF DialogueInv, CopyInv, To
  <2>3. \A s \in recorded : at[s].bytes = size
    BY <2>1, EndsApart DEF DialogueInv, CopyInv, RestOK
  <2> QED
    BY <2>2, <2>3 DEF WholeOrReported
<1> QED
  BY <1>1, Invariance, PTL

(* A request that is repeated starts more than one session; at most one of *)
(* them commits a version.                                                 *)
THEOREM OneVersion == Spec => []OneVersionPerUpload
<1>1. DialogueInv => OneVersionPerUpload
  <2> SUFFICES ASSUME DialogueInv PROVE Cardinality(recorded) <= 1
    BY DEF OneVersionPerUpload
  <2>1. \A s \in recorded : s = peer
    BY DEF DialogueInv, CopyInv, RestOK
  <2>2. recorded = {} \/ recorded = {peer}
    BY <2>1
  <2>3. Cardinality({}) = 0 /\ Cardinality({peer}) = 1
    BY FS_EmptySet, FS_Singleton
  <2> QED
    BY <2>2, <2>3
<1> QED
  BY <1>1, Invariance, PTL

(* A finite map has an encoding.                                           *)
LEMMA Encodable ==
  ASSUME NEW o, IsFiniteSet(DOMAIN o)
  PROVE  OptionFields(o) # {}
<1> DEFINE S == DOMAIN o
<1>1. PICK n \in Nat : ExistsBijection(1 .. n, S)
  BY FS_NatBijection
<1>2. n = Cardinality(S)
  BY <1>1, FS_CountingElements
<1>3. PICK f : f \in Bijection(1 .. n, S)
  BY <1>1 DEF ExistsBijection
<1>4. f \in SetToSeqs(S)
  BY <1>2, <1>3 DEF SetToSeqs, IsInjective, Bijection, Injection, Surjection
<1> QED
  BY <1>4 DEF OptionFields

LEMMA GreetingEncodable ==
  ASSUME request \in Requests, NEW s, Opened(s)
  PROVE  Encodings(Greeting) # {}
<1>1. CASE Asked # NoOptions
  <2> DEFINE o == Updated(Asked)
  <2>1. Greeting = OptionAck(o)
    BY <1>1 DEF Greeting
  <2>2. IsFiniteSet(DOMAIN o)
    BY AskedLowered, AnsweredLowered DEF Updated, Opened, Lowered
  <2>3. OptionFields(o) # {}
    BY <2>2, Encodable
  <2>4. Encodings(OptionAck(o)) = {<<Num(6)>> \o f : f \in OptionFields(o)}
    BY DEF Encodings, OptionAck
  <2> QED
    BY <2>1, <2>3, <2>4
<1>2. CASE Asked = NoOptions
  <2>1. \A n, b : Encodings(Data(n, b)) = {<<Num(3), Num(n), Body(b)>>}
    BY DEF Encodings, Data
  <2>2. \A n : Encodings(Ack(n)) = {<<Num(4), Num(n)>>}
    BY DEF Encodings, Ack
  <2>3. (\E n, b : Greeting = Data(n, b)) \/ \E n : Greeting = Ack(n)
    BY <1>2, Zenon DEF Greeting
  <2> QED
    BY <2>1, <2>2, <2>3
<1> QED
  BY <1>1, <1>2

(* DoReadAsClient and DoWriteAsClient redial: what may arrive meanwhile,   *)
(* and is lost, says no more than the reply that the client has.           *)
THEOREM RedialIsSafe == Spec => []RedialLosesNoData
<1>1. DialogueInv => RedialLosesNoData
  <2> SUFFICES ASSUME DialogueInv, at[Client].pc = "redialling", reply.kind # "ERROR",
                      NEW d \in BagToSet(net), d.to = Client, d.from = peer,
                      d.message.kind # "ERROR"
               PROVE  Decode(CHOOSE w \in Encodings(d.message) : TRUE) = reply
    BY DEF RedialLosesNoData
  <2>1. reply = Greeting /\ request \in Requests
    BY DEF DialogueInv, ClientInv, RestOK
  <2>2. d.message = Greeting /\ Opened(peer)
    BY EndsApart DEF DialogueInv, NetInv, Proper
  <2>3. PICK w : w = CHOOSE v \in Encodings(d.message) : TRUE
    OBVIOUS
  <2>4. Encodings(d.message) # {}
    BY <2>1, <2>2, GreetingEncodable
  <2>5. w \in Encodings(Greeting)
    BY <2>2, <2>3, <2>4
  <2> QED
    BY <2>1, <2>2, <2>3, <2>5, GreetingRead
<1> QED
  BY <1>1, Invariance, PTL

-----------------------------------------------------------------------------
(* What the ends tell each other: a session gets an acknowledgement of its *)
(* options or a reason, and every failure gives one of the reasons.        *)

Failures == {Failure(t) : t \in Reasons}

Worded(d) ==
  /\ d.to \in Sessions => d.message = Ack(0) \/ d.message \in Failures
  /\ d.to = Client /\ d.message.kind = "ERROR" => d.message \in Failures

WordsInv == \A d \in BagToSet(net) : Worded(d)

LEMMA WordsAdded ==
  ASSUME WordsInv, NEW new, Adds(new), \A d \in new : Worded(d)
  PROVE  WordsInv'
BY DEF WordsInv, Adds

LEMMA WordsStay ==
  ASSUME WordsInv, net' = net
  PROVE  WordsInv'
BY DEF WordsInv

LEMMA WordsTaken ==
  ASSUME IsABag(net), WordsInv, NEW d, Swap(d, EmptyBag)
  PROVE  WordsInv'
BY TakenAdds, WordsAdded

LEMMA WordsSwapped ==
  ASSUME IsABag(net), WordsInv, NEW d, NEW from, NEW to, NEW m,
         Swap(d, Mail(from, to, m)), Worded(Datagram(from, to, m))
  PROVE  WordsInv'
<1>1. Adds({Datagram(from, to, m)})
  BY SwapMailAdds
<1> QED
  BY <1>1, WordsAdded

LEMMA WordsPosted ==
  ASSUME IsABag(net), WordsInv, NEW from, NEW to, NEW m,
         Post(Mail(from, to, m)), Worded(Datagram(from, to, m))
  PROVE  WordsInv'
<1>1. Adds({Datagram(from, to, m)})
  BY PostMailAdds
<1> QED
  BY <1>1, WordsAdded

LEMMA ReasonWorded ==
  ASSUME NEW from, NEW to, NEW text \in Reasons
  PROVE  Worded(Datagram(from, to, Failure(text)))
BY DEF Worded, Failures, Datagram

LEMMA AnswerWorded ==
  ASSUME NEW to
  PROVE  Worded(Datagram(Client, to, Ack(0)))
BY DEF Worded, Datagram, Ack

LEMMA GreetingWorded ==
  ASSUME NEW s, NEW m, m.kind # "ERROR"
  PROVE  Worded(Datagram(s, Client, m))
BY EndsApart DEF Worded, Datagram

LEMMA ClientWords ==
  ASSUME IsABag(net), WordsInv, ClientStep
  PROVE  WordsInv'
<1>1. CASE SendRequest
  <2>1. Post(Mail(Client, Daemon, request.message))
    BY <1>1 DEF SendRequest
  <2>2. Worded(Datagram(Client, Daemon, request.message))
    BY EndsApart DEF Worded, Datagram, Ends
  <2> QED
    BY <2>1, <2>2, WordsPosted
<1>2. CASE CannotStart \/ ReplyTimeout \/ CannotRedial \/ Interrupt
  BY <1>2, WordsStay DEF CannotStart, ReplyTimeout, CannotRedial, Interrupt
<1>3. CASE AcceptReply
  <2>1. Post(Answer)
    BY <1>3 DEF AcceptReply
  <2>2. Adds({Datagram(Client, peer, Ack(0))})
    BY <2>1, AnswerBag, Posts DEF Adds
  <2> QED
    BY <2>2, AnswerWorded, WordsAdded
<1>4. CASE CannotOpenFile
  <2>1. PICK text \in Reasons : Post(Answer (+) Mail(Client, peer, Failure(text)))
    BY <1>4, Zenon DEF CannotOpenFile, Reasons
  <2> DEFINE reason == Mail(Client, peer, Failure(text))
             d == Datagram(Client, peer, Failure(text))
  <2>2. IsABag(reason) /\ BagToSet(reason) = {d} /\ Post(Answer (+) reason)
    BY <2>1, MailBag
  <2>3. Worded(d)
    BY ReasonWorded
  <2> HIDE DEF reason, d
  <2>4. IsABag(Answer (+) reason)
        /\ BagToSet(Answer (+) reason) = BagToSet(Answer) \cup {d}
    BY <2>2, AnswerBag, BagSum
  <2>5. Adds({Datagram(Client, peer, Ack(0)), d})
    BY <2>2, <2>4, AnswerBag, Posts DEF Adds
  <2>6. \A e \in {Datagram(Client, peer, Ack(0)), d} : Worded(e)
    BY <2>3, AnswerWorded
  <2> QED
    BY <2>5, <2>6, WordsAdded
<1>5. CASE RefuseOptions
  <2>1. PICK text \in Reasons : Post(Mail(Client, peer, Failure(text)))
    BY <1>5, Zenon DEF RefuseOptions, Reasons
  <2> QED
    BY <2>1, ReasonWorded, WordsPosted
<1>6. CASE RefuseReply
  <2>1. PICK text \in Reasons : Post(Mail(Client, peer, Failure(text)))
    BY <1>6, Zenon DEF RefuseReply, Reasons
  <2> QED
    BY <2>1, ReasonWorded, WordsPosted
<1>7. ASSUME NEW d, Miss(d) \/ \E m : TakeReply(d, m) PROVE WordsInv'
  BY <1>7, WordsTaken DEF Miss, TakeReply
<1> QED
  BY <1>1, <1>2, <1>3, <1>4, <1>5, <1>6, <1>7 DEF ClientStep

LEMMA FailWorded ==
  ASSUME IsABag(net), WordsInv, NEW s, NEW text \in Reasons, Fail(s, text)
  PROVE  WordsInv'
BY ReasonWorded, WordsPosted DEF Fail

LEMMA QuitWorded ==
  ASSUME IsABag(net), WordsInv, NEW x, Quit(x)
  PROVE  WordsInv'
<1>1. net' = net \/ \E text \in Reasons : Fail(x, text)
  BY Zenon DEF Quit, Reasons
<1> QED
  BY <1>1, WordsStay, FailWorded

LEMMA RejectWorded ==
  ASSUME IsABag(net), WordsInv, NEW s, NEW d, NEW times \in {1, 2},
         NEW text \in Reasons, Rejects(s, d, times, text)
  PROVE  WordsInv'
<1>1. Adds({Datagram(s, Client, Failure(text))})
  BY RejectsAdds
<1> QED
  BY <1>1, ReasonWorded, WordsAdded

LEMMA OpeningWords ==
  ASSUME IsABag(net), WordsInv, NEW s, NEW d, NEW m, SessionOpens(s, d, m)
  PROVE  WordsInv'
<1>1. CASE RejectDatagram(s, d, m) \/ RejectRead(s, d, m) \/ RejectOptions(s, d, m)
  <2>1. \E times \in {1, 2}, text \in Reasons : Rejects(s, d, times, text)
    BY <1>1, Zenon DEF RejectDatagram, RejectRead, RejectOptions, Reasons
  <2> QED
    BY <2>1, RejectWorded
<1>2. CASE PanicOnOption(s, d, m)
  BY <1>2, WordsTaken DEF PanicOnOption
<1>3. CASE AcceptRead(s, d, m) \/ AcceptWrite(s, d, m)
  <2>1. PICK e : Swap(d, Mail(s, Client, e)) /\ e.kind # "ERROR"
    BY <1>3 DEF AcceptRead, AcceptWrite, OptionAck, Data, Ack
  <2> QED
    BY <2>1, GreetingWorded, WordsSwapped
<1> QED
  BY <1>1, <1>2, <1>3 DEF SessionOpens

LEMMA SessionWords ==
  ASSUME IsABag(net), WordsInv, NEW s, SessionStep(s)
  PROVE  WordsInv'
<1>1. CASE PanicOnSlice(s)
  BY <1>1, WordsStay DEF PanicOnSlice
<1>2. CASE PrepareUpload(s) \/ SaveUpload(s)
  <2>1. net' = net \/ \E text \in Reasons : Fail(s, text)
    BY <1>2, Zenon DEF PrepareUpload, SaveUpload, Reasons
  <2> QED
    BY <2>1, WordsStay, FailWorded
<1>3. ASSUME NEW d, NEW m, TakeAnswer(s, d, m) PROVE WordsInv'
  <2>1. Swap(d, EmptyBag) \/ \E text \in Reasons : Swap(d, Mail(s, Client, Failure(text)))
    BY <1>3, Zenon DEF TakeAnswer, Reasons
  <2> QED
    BY <2>1, ReasonWorded, WordsTaken, WordsSwapped
<1> QED
  BY <1>1, <1>2, <1>3, OpeningWords DEF SessionStep

LEMMA CopyWords ==
  ASSUME IsABag(net), WordsInv, CopyStep
  PROVE  WordsInv'
<1>1. CASE CopyBlock \/ LastAck
  BY <1>1, WordsStay DEF CopyBlock, LastAck
<1>2. ASSUME NEW x, GoSilent(x) \/ GiveUp(x) PROVE WordsInv'
  BY <1>2, QuitWorded DEF GoSilent, GiveUp
<1>3. ASSUME NEW x, NEW d, NEW m, TakeStray(x, d, m) PROVE WordsInv'
  <2>1. Swap(d, EmptyBag) \/ \E text \in Reasons : Swap(d, Mail(x, Client, Failure(text)))
    BY <1>3, Zenon DEF TakeStray, Reasons
  <2> QED
    BY <2>1, ReasonWorded, WordsTaken, WordsSwapped
<1> QED
  BY <1>1, <1>2, <1>3 DEF CopyStep

LEMMA NetworkWords ==
  ASSUME IsABag(net), WordsInv, NetworkStep
  PROVE  WordsInv'
<1>1. CASE Kill
  BY <1>1, WordsStay DEF Kill
<1>2. ASSUME NEW d \in BagToSet(net), Lose(d) \/ Drop(d) PROVE WordsInv'
  BY <1>2, WordsTaken DEF Lose, Drop
<1>3. ASSUME NEW d \in BagToSet(net), Duplicate(d) PROVE WordsInv'
  <2>1. IsABag(SetToBag({d})) /\ BagToSet(SetToBag({d})) = {d}
    BY DEF IsABag, SetToBag, BagToSet
  <2>2. Post(SetToBag({d}))
    BY <1>3 DEF Duplicate
  <2> QED
    BY <2>1, <2>2, Posts DEF WordsInv
<1> QED
  BY <1>1, <1>2, <1>3 DEF NetworkStep

LEMMA WordsNext == IsABag(net) /\ WordsInv /\ [Next]_vars => WordsInv'
BY ClientWords, SessionWords, CopyWords, NetworkWords, WordsStay DEF Next, vars

LEMMA WordsKept == Spec => [](DialogueInv /\ WordsInv)
<1>1. Init => WordsInv
  BY EmptyMail DEF Init, WordsInv
<1>2. DialogueInv /\ WordsInv /\ [Next]_vars => WordsInv'
  BY WordsNext DEF DialogueInv, RestOK
<1> QED
  BY <1>1, <1>2, InitInv, NextInv, PTL DEF Spec

LEMMA Uncut ==
  ASSUME NEW w, NEW n, Size(w) <= n
  PROVE  Cut(w, n) = w
BY DEF Cut

(* A reason is read, or cut.                                               *)
LEMMA ReasonMeant ==
  ASSUME NEW m \in Failures, NEW w \in Encodings(m), NEW n \in Nat, n >= 4
  PROVE  \/ Decode(Cut(w, n)) = Canonical(m)
         \/ Decode(Cut(w, n)) = Invalid /\ m.kind = "ERROR" /\ Size(w) > n
<1>1. PICK t \in Reasons : m = Error(0, t)
  BY DEF Failures, Failure
<1>2. m.kind = "ERROR" /\ m.code = 0 /\ m.text = t
  BY <1>1 DEF Error
<1>3. Text(m.text, 5)
  BY <1>2, ReasonsAssumption
<1>4. Canonical(m) = m
  BY <1>2 DEF Canonical
<1> QED
  BY <1>1, <1>2, <1>3, <1>4, ErrorMeant

LEMMA WindowSize ==
  ASSUME AtOK, NEW x \in Ends
  PROVE  Window(x) \in Nat /\ Window(x) >= 12 /\ Window(x) = at[x].block + Preamble
<1>1. at[x].block \in BlockSizes
  BY EndFields
<1>2. \A b \in BlockSizes : b + Preamble \in Nat /\ b + Preamble >= 12
  BY DEF BlockSizes, Preamble
<1>3. Window(x) = at[x].block + Preamble
  BY EndsApart DEF Window
<1> QED
  BY <1>1, <1>2, <1>3

(* A greeting has keys in lower case already.                              *)
LEMMA GreetingCanonical ==
  ASSUME request \in Requests, Requested
  PROVE  Canonical(Greeting) = Greeting
<1>1. CASE Asked # NoOptions
  <2> DEFINE o == Updated(Asked)
  <2>1. Lowered(o)
    BY AskedLowered, AnsweredLowered DEF Updated
  <2>2. LowerCased(o) = o
    BY <2>1, LoweredTwice
  <2>3. Greeting = OptionAck(o)
    BY <1>1 DEF Greeting
  <2> HIDE DEF o
  <2>4. Canonical(OptionAck(o)) = OptionAck(LowerCased(o))
    BY DEF Canonical, OptionAck
  <2> QED
    BY <2>2, <2>3, <2>4
<1>2. CASE Asked = NoOptions
  <2>1. \A n, b : Canonical(Data(n, b)) = Data(n, b)
    BY DEF Canonical, Data
  <2>2. \A n : Canonical(Ack(n)) = Ack(n)
    BY DEF Canonical, Ack
  <2>3. (\E n, b : Greeting = Data(n, b)) \/ \E n : Greeting = Ack(n)
    BY <1>2, Zenon DEF Greeting
  <2> QED
    BY <2>1, <2>2, <2>3
<1> QED
  BY <1>1, <1>2

LEMMA GreetingMeant ==
  ASSUME AtOK, ClientInv, request \in Requests,
         NEW s \in Sessions, Opened(s), at[Client].pc # "over",
         NEW w \in Encodings(Greeting)
  PROVE  LET m == Decode(Cut(w, Window(Client)))
         IN  \/ m = Canonical(Greeting)
             \/ m.kind \in {"OACK", "invalid"} /\ Greeting.kind = "OACK"
                  /\ at[Client].pc \in {"copying", "closing"}
<1>1. Client \in Ends /\ Window(Client) = at[Client].block + Preamble
  BY EndsApart, WindowSize
<1>2. Canonical(Greeting) = Greeting
  BY GreetingCanonical DEF Opened
<1>3. Size(w) <= 512 + Preamble /\ Decode(w) = Greeting
  BY GreetingRead
<1>4. CASE at[Client].block = 512
  <2>1. Cut(w, Window(Client)) = w
    BY <1>1, <1>3, <1>4 DEF Cut
  <2> QED
    BY <1>2, <1>3, <2>1
<1>5. CASE Asked # NoOptions /\ at[Client].pc \in {"copying", "closing"}
  <2> DEFINE o == Updated(Asked)
  <2>1. Greeting = OptionAck(o)
    BY <1>5 DEF Greeting
  <2>2. Writable(o)
    BY AskedLowered, AnsweredLowered, LoweredTwice DEF Updated, Opened
  <2>3. Window(Client) \in Nat /\ Window(Client) >= 4
    BY <1>1, WindowSize
  <2> HIDE DEF o
  <2>4. Decode(Cut(w, Window(Client))).kind \in {"OACK", "invalid"}
    BY <2>1, <2>2, <2>3, OptionAckCut
  <2>5. Greeting.kind = "OACK"
    BY <2>1 DEF OptionAck
  <2> QED
    BY <1>5, <2>4, <2>5
<1>6. CASE Asked = NoOptions /\ at[Client].pc \in {"copying", "closing"}
  <2>1. at[Client].block = BlockOf(Asked)
    BY <1>6 DEF ClientInv
  <2>2. DOMAIN NoOptions = {}
    BY DEF NoOptions
  <2>3. at[Client].block = 512
    BY <1>6, <2>1, <2>2 DEF BlockOf
  <2> QED
    BY <1>4, <2>3
<1> QED
  BY <1>4, <1>5, <1>6 DEF ClientInv

(* Buffers that change with the negotiation, a receive that slices them    *)
(* and a decoder that trusts what it gets: no datagram that is still read  *)
(* says anything else than it was sent to say.                             *)
THEOREM NothingIsMisread == Spec => []NothingMisread
<1>1. DialogueInv /\ WordsInv => NothingMisread
  <2> SUFFICES ASSUME DialogueInv, WordsInv,
                      NEW d \in BagToSet(net), ~Unheard(d), NEW w \in Encodings(d.message),
                      NEW m, m = Decode(Cut(w, Window(d.to)))
               PROVE  \/ m = Canonical(d.message)
                      \/ m = Invalid /\ d.message.kind = "ERROR" /\ Size(w) > Window(d.to)
                      \/ m = Invalid /\ d.message.kind \in {"RRQ", "WRQ"} /\ d.message.name = ""
                      \/ m.kind \in {"OACK", "invalid"} /\ d.message.kind = "OACK"
                           /\ at[d.to].pc \in {"copying", "closing"}
    BY Zenon DEF NothingMisread
  <2>1. Proper(d) /\ Worded(d) /\ AtOK /\ ClientInv /\ request \in Requests
    BY DEF DialogueInv, NetInv, WordsInv, RestOK
  <2>2. CASE d.to = Daemon
    <3>1. d.message = request.message /\ IsMessage(d.message)
      BY <2>1, <2>2, EndsApart, RequestsAssumption DEF Proper
    <3>2. Size(w) <= 65535
      BY <2>1, <3>1, RequestsAssumption
    <3>3. m = Decode(w)
      BY <2>2, <3>2, Uncut DEF Window
    <3> QED
      BY <3>1, <3>3, MessageRead, Zenon DEF Asking
  <2>3. CASE d.message \in Failures /\ d.to \in Ends
    <3>1. Window(d.to) \in Nat /\ Window(d.to) >= 4
      BY <2>1, <2>3, WindowSize
    <3>2. \/ m = Canonical(d.message)
          \/ m = Invalid /\ d.message.kind = "ERROR" /\ Size(w) > Window(d.to)
      BY <2>3, <3>1, ReasonMeant
    <3> QED
      BY <3>2, Zenon
  <2>4. CASE d.to \in Sessions /\ d.message = Ack(0)
    <3>1. Size(w) = 4 /\ Decode(w) = Ack(0)
      BY <2>4, AckRead
    <3>2. Window(d.to) >= 12 /\ Window(d.to) \in Nat
      BY <2>1, <2>4, EndsApart, WindowSize
    <3>3. m = Ack(0)
      <4>1. Size(w) <= Window(d.to)
        BY <3>1, <3>2
      <4> QED
        BY <3>1, <4>1, Uncut
    <3>4. Canonical(Ack(0)) = Ack(0)
      BY DEF Canonical, Ack
    <3> QED
      BY <2>4, <3>3, <3>4, Zenon
  <2>5. CASE d.to = Client /\ d.message = Greeting /\ d.from \in Sessions /\ Opened(d.from)
    <3>1. at[Client].pc # "over"
      BY <2>5, EndsApart DEF Unheard
    <3>2. \/ m = Canonical(Greeting)
          \/ m.kind \in {"OACK", "invalid"} /\ Greeting.kind = "OACK"
               /\ at[Client].pc \in {"copying", "closing"}
      BY <2>1, <2>5, <3>1, GreetingMeant
    <3> QED
      BY <2>5, <3>2, Zenon
  <2>6. \/ d.to = Daemon
        \/ d.message \in Failures /\ d.to \in Ends
        \/ d.to \in Sessions /\ d.message = Ack(0)
        \/ d.to = Client /\ d.message = Greeting /\ d.from \in Sessions /\ Opened(d.from)
    BY <2>1, EndsApart DEF Proper, Worded
  <2> QED
    BY <2>2, <2>3, <2>4, <2>5, <2>6, Zenon
<1> QED
  BY <1>1, WordsKept, PTL
=============================================================================
