------------------------------ MODULE Transfer ------------------------------
(***************************************************************************)
(* One transfer after its opening: SendDataLoop at the end that has the    *)
(* file and ReceiveDataLoop at the other, over UDP.  Server and client run *)
(* the same two loops (internal/session.go); the server's end also tells   *)
(* the client why it failed and notices that the daemon stops.             *)
(*                                                                         *)
(* Blocks are counted from 1 without bound here; a message carries only    *)
(* the block's number, a uint16 in the code, and Modulus is 2^16 there.    *)
(* The field "block" of a message is what its number stands for: no end    *)
(* looks at it, except that it is the data a DATA message carries.         *)
(* Definitions named Wrong... are mistakes a property is to notice.        *)
(***************************************************************************)
EXTENDS Integers, Sequences, FiniteSets

CONSTANTS
  Blocks,        \* how many DATA messages the file takes
  Modulus,       \* block numbers are counted modulo this
  MessageLimit,  \* messages SendDataLoop takes while it waits for one ACK
  MaxAge,        \* bound: how many blocks a datagram may arrive late
  Faults,        \* what the network and the daemon may do to the transfer
  MaxFaults      \* bound: how often

ASSUME TransferAssumption ==
  /\ Blocks \in Nat \ {0} /\ MessageLimit \in Nat \ {0} /\ MaxFaults \in Nat
  /\ MaxAge \in Nat /\ Modulus \in Nat /\ MaxAge + 1 < Modulus
  /\ Faults \subseteq {"lose", "duplicate", "opening", "io", "stop"}

VARIABLES
  net,        \* the datagrams on their way
  pc,         \* of each end: waiting for a message, done or failed
  sent,       \* the block the sender has sent and wants acknowledged
  bad,        \* messages the sender has taken since without getting its ACK
  written,    \* the blocks the receiver has written
  server,     \* which end is the daemon's session
  cancelled,  \* the daemon has cancelled the context of its sessions
  faults      \* how many faults there have been

vars == <<net, pc, sent, bad, written, server, cancelled, faults>>

Ends    == {"sender", "receiver"}
Peer(e) == IF e = "sender" THEN "receiver" ELSE "sender"

(* copy tells a datagram the network has duplicated from the first.        *)
Message(to, kind, block) == [to |-> to, kind |-> kind, block |-> block, copy |-> 0]
Data(b)  == Message("receiver", "DATA", b)
Ack(b)   == Message("sender", "ACK", b)
Error(e) == Message(e, "ERROR", 0)

Messages == [to : Ends, kind : {"DATA", "ACK", "OACK", "ERROR"},
             block : 0 .. Blocks, copy : {0, 1}]

Number(b) == b % Modulus

(* The block ReceiveDataLoop waits for.                                    *)
Wanted == Len(written) + 1

(* What is still on its way when the sender has got to block n.            *)
Fresh(M, n) == {m \in M : m.kind # "ERROR" => n - m.block <= MaxAge}

Fault(kind) == kind \in Faults /\ faults < MaxFaults /\ faults' = faults + 1

-----------------------------------------------------------------------------
(* How an end goes on after a message.                                     *)

(* The loop returns an error; sessionRoutine sends it to the client.       *)
Break(e, m) ==
  /\ pc' = [pc EXCEPT ![e] = "failed"]
  /\ net' = (net \ {m}) \cup (IF e = server THEN {Error(Peer(e))} ELSE {})

Fail(e, m) == Break(e, m) /\ UNCHANGED <<sent, bad, written>>

(* The loop sends replies and calls Receive again, which fails in the      *)
(* daemon if the context has been cancelled meanwhile.                     *)
Await(e, m, replies) ==
  LET stops == e = server /\ cancelled
  IN  /\ pc' = IF stops THEN [pc EXCEPT ![e] = "failed"] ELSE pc
      /\ net' = Fresh(net \ {m}, sent') \cup replies
                  \cup (IF stops THEN {Error(Peer(e))} ELSE {})

(* The loop sends replies and returns without an error.                    *)
Return(e, m, replies) ==
  /\ pc' = [pc EXCEPT ![e] = "done"]
  /\ net' = (net \ {m}) \cup replies

Gets(e, m) == m \in net /\ m.to = e /\ pc[e] = "waiting"

-----------------------------------------------------------------------------
(* SendDataLoop *)

(* Compares the block counted so far, not the number that was sent.        *)
WrongAcked(m) ==
  Gets("sender", m) /\ m.kind = "ACK" /\ Number(m.block) = sent
Acked(m) ==
  Gets("sender", m) /\ m.kind = "ACK" /\ Number(m.block) = Number(sent)

SendNext(m) ==
  /\ Acked(m) /\ sent < Blocks
  /\ sent' = sent + 1 /\ bad' = 0
  /\ Await("sender", m, {Data(sent + 1)})
  /\ UNCHANGED <<written, server, cancelled, faults>>

(* The file cannot be read further, or the block cannot be sent.           *)
ReadError(m) ==
  /\ Acked(m) /\ sent < Blocks /\ Fault("io")
  /\ Fail("sender", m)
  /\ UNCHANGED <<server, cancelled>>

(* Takes any acknowledgement for that of the last block.                   *)
WrongFinishSending(m) ==
  /\ Gets("sender", m) /\ m.kind = "ACK" /\ sent = Blocks
  /\ Return("sender", m, {})
  /\ UNCHANGED <<sent, bad, written, server, cancelled, faults>>
FinishSending(m) ==
  /\ Acked(m) /\ sent = Blocks
  /\ Return("sender", m, {})
  /\ UNCHANGED <<sent, bad, written, server, cancelled, faults>>

(* Allows one message too many.                                            *)
WrongSkipAck(m) ==
  /\ Gets("sender", m) /\ m.kind = "ACK" /\ Number(m.block) < Number(sent)
  /\ IF bad + 1 <= MessageLimit
     THEN /\ bad' = bad + 1 /\ UNCHANGED <<sent, written>>
          /\ Await("sender", m, {})
     ELSE Fail("sender", m)
  /\ UNCHANGED <<server, cancelled, faults>>

(* An acknowledgement of a lesser number is taken for a retransmission;    *)
(* after MessageLimit messages that are not the right one it gives up.     *)
SkipAck(m) ==
  /\ Gets("sender", m) /\ m.kind = "ACK" /\ Number(m.block) < Number(sent)
  /\ IF bad + 1 < MessageLimit
     THEN /\ bad' = bad + 1 /\ UNCHANGED <<sent, written>>
          /\ Await("sender", m, {})
     ELSE Fail("sender", m)
  /\ UNCHANGED <<server, cancelled, faults>>

(* A greater number, an error message, or any other kind ends the loop.    *)
RejectAtSender(m) ==
  /\ Gets("sender", m)
  /\ m.kind = "ACK" => Number(m.block) > Number(sent)
  /\ Fail("sender", m)
  /\ UNCHANGED <<server, cancelled, faults>>

-----------------------------------------------------------------------------
(* ReceiveDataLoop *)

(* Takes a block it already has for the one it wants.                      *)
WrongIsWanted(m) ==
  /\ Gets("receiver", m) /\ m.kind = "DATA"
  /\ Number(m.block) <= Number(Wanted)
IsWanted(m) ==
  /\ Gets("receiver", m) /\ m.kind = "DATA"
  /\ Number(m.block) = Number(Wanted)

(* The block is acknowledged.  One that is not full is the last of a file. *)
Acknowledge(m) ==
  IF m.block = Blocks
  THEN Return("receiver", m, {Ack(Wanted)})
  ELSE Await("receiver", m, {Ack(Wanted)})

(* The block is written, then acknowledged.  If its acknowledgement cannot *)
(* be sent the loop fails, though it be the last block and all are written.*)
WriteBlock(m) ==
  /\ IsWanted(m)
  /\ written' = Append(written, m.block)
  /\ UNCHANGED <<sent, bad, server, cancelled>>
  /\ \/ Acknowledge(m) /\ UNCHANGED faults
     \/ Break("receiver", m) /\ Fault("io")

WriteError(m) ==
  /\ IsWanted(m) /\ Fault("io")
  /\ Fail("receiver", m)
  /\ UNCHANGED <<server, cancelled>>

(* Acknowledges again what it has: the sorcerer's apprentice.              *)
WrongSkipData(m) ==
  /\ Gets("receiver", m) /\ m.kind = "DATA"
  /\ Number(m.block) < Number(Wanted)
  /\ UNCHANGED <<sent, bad, written, server, cancelled, faults>>
  /\ Await("receiver", m, {Ack(m.block)})
(* A lesser number is ignored: it is not acknowledged again, and, unlike   *)
(* at the sender, it is not counted.                                       *)
SkipData(m) ==
  /\ Gets("receiver", m) /\ m.kind = "DATA"
  /\ Number(m.block) < Number(Wanted)
  /\ UNCHANGED <<sent, bad, written, server, cancelled, faults>>
  /\ Await("receiver", m, {})

(* Compares the number with the block counted so far, not with its number. *)
WrongRejectAtReceiver(m) ==
  /\ Gets("receiver", m)
  /\ m.kind = "DATA" => Number(m.block) # Wanted
  /\ Fail("receiver", m)
  /\ UNCHANGED <<server, cancelled, faults>>
RejectAtReceiver(m) ==
  /\ Gets("receiver", m)
  /\ m.kind = "DATA" => Number(m.block) > Number(Wanted)
  /\ Fail("receiver", m)
  /\ UNCHANGED <<server, cancelled, faults>>

-----------------------------------------------------------------------------
(* Time, the network and the daemon. *)

(* Only the daemon sets a read deadline.                                   *)
WrongTimeout(e) ==
  /\ e = server /\ pc[e] = "waiting"
  /\ \A m \in net : pc[m.to] # "waiting"
  /\ Fail(e, Error(e))
  /\ UNCHANGED <<server, cancelled, faults>>

(* Receive returns the error of the first read deadline that passes, and   *)
(* both loops return it.  A datagram that takes longer than the timeout is *)
(* one that was lost: it arrives when nobody waits for it.                 *)
Timeout(e) ==
  /\ pc[e] = "waiting"
  /\ \A m \in net : pc[m.to] # "waiting"
  /\ Fail(e, Error(e))
  /\ UNCHANGED <<server, cancelled, faults>>

Lose(m) ==
  /\ m \in net /\ Fault("lose")
  /\ net' = net \ {m}
  /\ UNCHANGED <<pc, sent, bad, written, server, cancelled>>

Duplicate(m) ==
  /\ m \in net /\ m.copy = 0 /\ Fault("duplicate")
  /\ net' = net \cup {[m EXCEPT !.copy = 1]}
  /\ UNCHANGED <<pc, sent, bad, written, server, cancelled>>

(* The context of the sessions is cancelled.                               *)
Cancel ==
  /\ ~cancelled /\ Fault("stop")
  /\ cancelled' = TRUE
  /\ UNCHANGED <<net, pc, sent, bad, written, server>>

-----------------------------------------------------------------------------
(* The last message of the opening, if the network has a duplicate of it:  *)
(* the server's reply to a request, or the client's ACK of its options.    *)
Opening(srv) ==
  {[m EXCEPT !.copy = 1] :
     m \in {Message(Peer(srv), "OACK", 0)} \cup {Ack(0)}}

Init ==
  /\ server \in Ends
  /\ \/ net = {Data(1)} /\ faults = 0
     \/ /\ "opening" \in Faults /\ MaxFaults > 0 /\ faults = 1
        /\ \E m \in Opening(server) : net = {Data(1), m}
  /\ pc = [e \in Ends |-> "waiting"]
  /\ sent = 1 /\ bad = 0 /\ written = <<>> /\ cancelled = FALSE

Deliver(m) ==
  \/ SendNext(m) \/ ReadError(m) \/ FinishSending(m)
  \/ SkipAck(m) \/ RejectAtSender(m)
  \/ WriteBlock(m) \/ WriteError(m) \/ SkipData(m) \/ RejectAtReceiver(m)

Next ==
  \/ \E m \in net : Deliver(m) \/ Lose(m) \/ Duplicate(m)
  \/ \E e \in Ends : Timeout(e)
  \/ Cancel

Spec == Init /\ [][Next]_vars

(* A datagram that is not lost arrives, and a read deadline passes.        *)
FairSpec ==
  /\ Spec
  /\ WF_vars(\E m \in net : Deliver(m))
  /\ \A e \in Ends : WF_vars(Timeout(e))

-----------------------------------------------------------------------------
TypeOK ==
  /\ net \subseteq Messages
  /\ pc \in [Ends -> {"waiting", "done", "failed"}]
  /\ sent \in 1 .. Blocks /\ bad \in 0 .. MessageLimit - 1
  /\ written \in Seq(1 .. Blocks) /\ Len(written) <= Blocks
  /\ server \in Ends /\ cancelled \in BOOLEAN /\ faults \in 0 .. MaxFaults

(* The loops never drift apart: the receiver has the blocks the sender saw *)
(* acknowledged, and at most the one it is sending besides, across the     *)
(* wrap-around of the numbers and any stale or duplicated datagram.        *)
Lockstep == Len(written) \in {sent - 1, sent}

(* The transfer is a FileCopy: whatever is lost, duplicated, reordered or  *)
(* cannot be sent, the receiver has written a prefix of the file, a sender *)
(* reports success only after a receiver that has the whole file has       *)
(* reported it, and no outcome is taken back.                              *)
Copy == INSTANCE FileCopy WITH copy <- written, outcome <- pc
CopySpec == Copy!Spec

(* With no fault the whole file arrives and both ends know, however often  *)
(* the block number wraps around.                                          *)
UndisturbedCompletes ==
  [](faults = 0) => <>(\A e \in Ends : pc[e] = "done")

(* Every transfer ends at both ends, whatever happens to it.               *)
TransferEnds == <>(\A e \in Ends : pc[e] # "waiting")

(* What a transfer has still before it: blocks to send and to write,       *)
(* outcomes to report, faults to meet and datagrams to deliver.            *)
Remaining ==
  2 * ((Blocks - sent) + (Blocks - Len(written)) + (MaxFaults - faults)
         + Cardinality({e \in Ends : pc[e] = "waiting"}))
    + Cardinality(net)

(* Every step leaves less to do: no datagram, however often repeated, sets *)
(* the two loops answering each other without getting on.                  *)
EveryStepCounts == [][Remaining' < Remaining]_vars

NobodyFails == \A e \in Ends : pc[e] # "failed"

(* No end fails without a fault: neither a wrap-around of the numbers nor  *)
(* an order of deliveries and deadlines makes a loop take the other for    *)
(* broken.                                                                 *)
FailureHasCause == faults = 0 => NobodyFails

(* "Allow ten timeouts, if we timeout then resend" (Receive): one loss of  *)
(* a datagram does not end the transfer.                                   *)
LossRepaired == faults <= 1 => NobodyFails
=============================================================================
