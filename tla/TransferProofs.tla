--------------------------- MODULE TransferProofs ---------------------------
(***************************************************************************)
(* Proofs about Transfer, for every length of the file, every modulus of   *)
(* the block numbers and every number of faults: the two loops stay in     *)
(* lockstep, what they do is a FileCopy, every step gets on with it, and   *)
(* none fails without a cause.                                             *)
(***************************************************************************)
EXTENDS Transfer, FiniteSetTheorems, TLAPS

-----------------------------------------------------------------------------
(* Block numbers. *)

LEMMA Multiple ==
  ASSUME NEW k \in Nat \ {0}, NEW M \in Nat
  PROVE  M * k >= M
OBVIOUS

LEMMA Division ==
  ASSUME NEW M \in Nat \ {0}, NEW a \in Nat
  PROVE  /\ a % M \in 0 .. M - 1
         /\ a \div M \in Nat
         /\ a = M * (a \div M) + (a % M)
BY SMT

(* Two blocks less than Modulus apart that have the same number are the    *)
(* same block: what lets both loops compare uint16s in place of blocks.    *)
LEMMA SameNumber ==
  ASSUME NEW a \in Nat, NEW b \in Nat,
         a <= b, b - a < Modulus, Number(a) = Number(b)
  PROVE  a = b
<1> DEFINE M == Modulus
<1>0. M \in Nat \ {0} /\ a % M = b % M
  BY TransferAssumption DEF Number
<1>1. PICK p \in Nat : a = M * p + (a % M)
  BY <1>0, Division
<1>2. PICK q \in Nat : b = M * q + (b % M)
  BY <1>0, Division
<1>3. a % M \in Int
  BY <1>0, Division
<1>4. b - a = M * q - M * p
  BY <1>0, <1>1, <1>2, <1>3
<1> HIDE DEF M
<1>5. CASE q = p
  BY <1>0, <1>4, <1>5
<1>6. CASE q < p
  <2>1. M * (p - q) >= M
    BY <1>0, <1>6, Multiple
  <2>2. M * (p - q) = M * p - M * q
    BY <1>0
  <2> QED
    BY <1>0, <1>4, <2>1, <2>2
<1>7. CASE q > p
  <2>1. M * (q - p) >= M
    BY <1>0, <1>7, Multiple
  <2>2. M * (q - p) = M * q - M * p
    BY <1>0
  <2> QED
    BY <1>0, <1>4, <2>1, <2>2 DEF M
<1> QED
  BY <1>5, <1>6, <1>7

-----------------------------------------------------------------------------
(* The inductive invariant. *)

(* A DATA message carries a block the sender has come to, an ACK one the   *)
(* receiver has written, and neither is so old that its number has come    *)
(* round again.  The ACK of the opening is one block older than the age a  *)
(* datagram may reach: it was sent before block 1.                         *)
NetInv ==
  \A m \in net :
    /\ m.kind = "DATA" =>
         m.to = "receiver" /\ m.block \in 1 .. sent /\ sent - m.block <= MaxAge
    /\ m.kind = "ACK" =>
         m.to = "sender" /\ m.block <= Len(written) /\ sent - m.block <= MaxAge + 1

(* An end that reports success does so for the whole file.                 *)
OutcomeInv ==
  /\ pc["sender"] = "done" => Len(written) = Blocks
  /\ pc["receiver"] = "waiting" => Len(written) < Blocks
  /\ pc["receiver"] = "done" => Len(written) = Blocks
  /\ \A i \in 1 .. Len(written) : written[i] = i

(* The last block is acknowledged only by a receiver that is done with it. *)
LastAckInv ==
  \A m \in net : m.kind = "ACK" /\ m.block = Blocks => pc["receiver"] = "done"

TransferInv == TypeOK /\ Lockstep /\ NetInv /\ OutcomeInv /\ LastAckInv

LEMMA InitInv == Init => TransferInv
<1> SUFFICES ASSUME Init PROVE TransferInv
  OBVIOUS
<1>0. Blocks \in Nat \ {0} /\ MessageLimit \in Nat \ {0} /\ MaxFaults \in Nat /\ MaxAge \in Nat
  BY TransferAssumption
<1>1. /\ server \in Ends /\ sent = 1 /\ bad = 0 /\ written = <<>> /\ cancelled = FALSE
      /\ pc = [e \in Ends |-> "waiting"]
  BY DEF Init
<1>2. faults \in 0 .. MaxFaults
  BY <1>0 DEF Init
<1>3. \A m \in net :
        \/ m = Data(1)
        \/ m = [Message(Peer(server), "OACK", 0) EXCEPT !.copy = 1]
        \/ m = [Ack(0) EXCEPT !.copy = 1]
  BY DEF Init, Opening
<1>4. net \subseteq Messages
  BY <1>0, <1>1, <1>3 DEF Messages, Message, Data, Ack, Ends, Peer
<1>5. NetInv
  BY <1>0, <1>1, <1>3 DEF NetInv, Message, Data, Ack
<1>6. OutcomeInv
  BY <1>0, <1>1 DEF OutcomeInv, Ends
<1>7. TypeOK
  <2>1. pc \in [Ends -> {"waiting", "done", "failed"}]
    BY <1>1
  <2>2. written \in Seq(1 .. Blocks) /\ Len(written) <= Blocks
    BY <1>0, <1>1
  <2>3. sent \in 1 .. Blocks /\ bad \in 0 .. MessageLimit - 1
    BY <1>0, <1>1
  <2>4. server \in Ends /\ cancelled \in BOOLEAN
    BY <1>1
  <2> QED
    BY <1>2, <1>4, <2>1, <2>2, <2>3, <2>4, Zenon DEF TypeOK
<1>8. Lockstep
  BY <1>1 DEF Lockstep
<1>9. LastAckInv
  BY <1>0, <1>3 DEF LastAckInv, Message, Data, Ack
<1> QED
  BY <1>5, <1>6, <1>7, <1>8, <1>9 DEF TransferInv

-----------------------------------------------------------------------------
(* What the comparison of the numbers finds. *)

LEMMA Facts ==
  ASSUME TransferInv
  PROVE  /\ Blocks \in Nat \ {0} /\ MaxAge \in Nat /\ Modulus \in Nat
         /\ MaxAge + 1 < Modulus
         /\ sent \in 1 .. Blocks /\ Len(written) \in Nat
         /\ Len(written) \in {sent - 1, sent}
         /\ \A m \in net : m \in Messages /\ m.block \in Nat
<1>1. written \in Seq(1 .. Blocks) /\ sent \in 1 .. Blocks /\ net \subseteq Messages
  BY DEF TransferInv, TypeOK
<1>2. Len(written) \in Nat
  BY <1>1
<1>3. \A m \in net : m \in Messages /\ m.block \in Nat
  BY <1>1, TransferAssumption DEF Messages
<1> QED
  BY <1>1, <1>2, <1>3, TransferAssumption DEF TransferInv, Lockstep

(* The ACK the sender goes on with is that of the block it has sent, and   *)
(* the receiver has written that block.                                    *)
LEMMA AckedBlock ==
  ASSUME TransferInv, NEW m, Acked(m)
  PROVE  m.block = sent /\ Len(written) = sent
<1>1. /\ m \in net /\ m.kind = "ACK" /\ Number(m.block) = Number(sent)
      /\ m.block <= Len(written) /\ sent - m.block <= MaxAge + 1
  BY DEF Acked, Gets, TransferInv, NetInv
<1>2. m.block \in Nat /\ m.block <= sent /\ sent - m.block < Modulus
  BY <1>1, Facts
<1>3. m.block = sent
  BY <1>1, <1>2, Facts, SameNumber
<1> QED
  BY <1>1, <1>3, Facts

(* The DATA the receiver writes is the block it has not got yet, the one   *)
(* the sender waits for the ACK of.                                        *)
LEMMA WantedBlock ==
  ASSUME TransferInv, NEW m, IsWanted(m)
  PROVE  m.block = sent /\ Wanted = sent /\ Len(written) = sent - 1
<1>1. /\ m \in net /\ m.kind = "DATA" /\ Number(m.block) = Number(Wanted)
      /\ m.block \in 1 .. sent /\ sent - m.block <= MaxAge
  BY DEF IsWanted, Gets, TransferInv, NetInv
<1>2. /\ m.block \in Nat /\ Wanted \in Nat /\ Wanted \in {sent, sent + 1}
      /\ m.block <= Wanted /\ Wanted - m.block < Modulus
  BY <1>1, Facts DEF Wanted
<1>3. m.block = Wanted
  BY <1>1, <1>2, SameNumber
<1> QED
  BY <1>1, <1>2, <1>3, Facts DEF Wanted

-----------------------------------------------------------------------------
(* Every step keeps the invariant. *)

LEMMA FaultCounted ==
  ASSUME TransferInv, NEW kind, Fault(kind)
  PROVE  faults' \in 0 .. MaxFaults
BY TransferAssumption DEF TransferInv, TypeOK, Fault

LEMMA ErrorType == \A e \in Ends : Error(e) \in Messages /\ Error(Peer(e)) \in Messages
BY TransferAssumption DEF Ends, Peer, Error, Message, Messages

(* A receiver that still waits has acknowledged no last block, so the      *)
(* failure of an end leaves nothing on its way that it would belie.        *)
LEMMA LastAckKept ==
  ASSUME TransferInv, NEW e \in Ends, pc[e] = "waiting",
         pc' = pc \/ pc' = [pc EXCEPT ![e] = "failed"],
         \A k \in net' : k \in net \/ k.kind # "ACK" \/ k.block # Blocks
  PROVE  LastAckInv'
<1> SUFFICES ASSUME NEW k \in net', k.kind = "ACK", k.block = Blocks
             PROVE  pc'["receiver"] = "done"
  BY DEF LastAckInv
<1>1. pc["receiver"] = "done"
  BY DEF TransferInv, LastAckInv
<1> QED
  BY <1>1 DEF TransferInv, TypeOK, Ends

LEMMA FailStep ==
  ASSUME TransferInv, NEW e \in Ends, NEW m, pc[e] = "waiting", Fail(e, m),
         UNCHANGED <<server, cancelled>>, faults' \in 0 .. MaxFaults
  PROVE  TransferInv'
<1>1. UNCHANGED <<sent, bad, written>> /\ pc' = [pc EXCEPT ![e] = "failed"]
  BY DEF Fail, Break
<1>2. \A k \in net' : k \in net \/ k = Error(Peer(e))
  BY DEF Fail, Break
<1>3. TypeOK'
  <2>1. net' \subseteq Messages
    BY <1>2, ErrorType DEF TransferInv, TypeOK
  <2>2. pc' \in [Ends -> {"waiting", "done", "failed"}]
    BY <1>1 DEF TransferInv, TypeOK
  <2> QED
    BY <1>1, <2>1, <2>2 DEF TransferInv, TypeOK
<1>4. Lockstep'
  BY <1>1 DEF TransferInv, Lockstep
<1>5. NetInv'
  BY <1>1, <1>2 DEF TransferInv, NetInv, Error, Message
<1>6. OutcomeInv'
  BY <1>1 DEF TransferInv, TypeOK, OutcomeInv, Ends
<1>7. LastAckInv'
  <2>1. \A k \in net' : k \in net \/ k.kind # "ACK"
    BY <1>2 DEF Error, Message
  <2> QED
    BY <1>1, <2>1, LastAckKept
<1> QED
  BY <1>3, <1>4, <1>5, <1>6, <1>7 DEF TransferInv

(* A message that is passed over. *)
LEMMA SkipStep ==
  ASSUME TransferInv, NEW e \in Ends, NEW m, pc[e] = "waiting", Await(e, m, {}),
         bad' \in 0 .. MessageLimit - 1,
         UNCHANGED <<sent, written, server, cancelled, faults>>
  PROVE  TransferInv'
<1>1. pc' = pc \/ pc' = [pc EXCEPT ![e] = "failed"]
  BY DEF Await
<1>2. \A k \in net' : k \in net \/ k = Error(Peer(e))
  BY DEF Await, Fresh
<1>3. TypeOK'
  <2>1. net' \subseteq Messages
    BY <1>2, ErrorType DEF TransferInv, TypeOK
  <2>2. pc' \in [Ends -> {"waiting", "done", "failed"}]
    BY <1>1 DEF TransferInv, TypeOK
  <2> QED
    BY <2>1, <2>2 DEF TransferInv, TypeOK
<1>4. Lockstep'
  BY DEF TransferInv, Lockstep
<1>5. NetInv'
  BY <1>2 DEF TransferInv, NetInv, Error, Message
<1>6. OutcomeInv'
  BY <1>1 DEF TransferInv, TypeOK, OutcomeInv, Ends
<1>7. LastAckInv'
  <2>1. \A k \in net' : k \in net \/ k.kind # "ACK"
    BY <1>2 DEF Error, Message
  <2> QED
    BY <1>1, <2>1, LastAckKept
<1> QED
  BY <1>3, <1>4, <1>5, <1>6, <1>7 DEF TransferInv

LEMMA SendNextStep ==
  ASSUME TransferInv, NEW m, SendNext(m)
  PROVE  TransferInv'
<1>1. /\ Acked(m) /\ sent < Blocks /\ sent' = sent + 1 /\ bad' = 0
      /\ Await("sender", m, {Data(sent + 1)})
      /\ UNCHANGED <<written, server, cancelled, faults>>
  BY DEF SendNext
<1>2. Len(written) = sent
  BY <1>1, AckedBlock
<1>3. /\ sent' \in 1 .. Blocks /\ "sender" \in Ends /\ bad' \in 0 .. MessageLimit - 1
      /\ sent' \in Nat
  BY <1>1, Facts, TransferAssumption DEF Ends
<1>4. pc' = pc \/ pc' = [pc EXCEPT !["sender"] = "failed"]
  BY <1>1 DEF Await
<1>5. \A k \in net' :
        \/ k \in net /\ (k.kind # "ERROR" => sent' - k.block <= MaxAge)
        \/ k = Data(sent') \/ k = Error(Peer("sender"))
  BY <1>1 DEF Await, Fresh
<1>6. TypeOK'
  <2>1. Data(sent') \in Messages
    BY <1>3, TransferAssumption DEF Data, Message, Messages, Ends
  <2>2. net' \subseteq Messages
    BY <1>3, <1>5, <2>1, ErrorType DEF TransferInv, TypeOK
  <2>3. pc' \in [Ends -> {"waiting", "done", "failed"}]
    BY <1>4 DEF TransferInv, TypeOK
  <2> QED
    BY <1>1, <1>3, <2>2, <2>3 DEF TransferInv, TypeOK
<1>7. Lockstep'
  BY <1>1, <1>2, <1>3, Facts DEF Lockstep
<1>8. NetInv'
  <2> SUFFICES ASSUME NEW k \in net'
               PROVE  /\ k.kind = "DATA" => /\ k.to = "receiver" /\ k.block \in 1 .. sent'
                                           /\ sent' - k.block <= MaxAge
                      /\ k.kind = "ACK" => /\ k.to = "sender" /\ k.block <= Len(written')
                                          /\ sent' - k.block <= MaxAge + 1
    BY DEF NetInv
  <2>1. CASE k \in net /\ (k.kind # "ERROR" => sent' - k.block <= MaxAge)
    BY <1>1, <1>3, <2>1, Facts DEF TransferInv, NetInv
  <2>2. CASE k = Data(sent')
    BY <1>3, <2>2, Facts DEF Data, Message
  <2>3. CASE k = Error(Peer("sender"))
    BY <2>3 DEF Error, Message
  <2> QED
    BY <1>5, <2>1, <2>2, <2>3
<1>9. OutcomeInv'
  BY <1>1, <1>4 DEF TransferInv, TypeOK, OutcomeInv, Ends
<1>10. LastAckInv'
  <2>1. pc["sender"] = "waiting"
    BY <1>1 DEF Acked, Gets
  <2>2. \A k \in net' : k \in net \/ k.kind # "ACK"
    BY <1>5 DEF Data, Error, Message
  <2> QED
    BY <1>3, <1>4, <2>1, <2>2, LastAckKept
<1> QED
  BY <1>6, <1>7, <1>8, <1>9, <1>10 DEF TransferInv

(* Writing the wanted block makes the copy one block longer, and as long   *)
(* as the number of blocks the sender has sent.                            *)
LEMMA Written ==
  ASSUME TransferInv, NEW m, WriteBlock(m)
  PROVE  /\ m.block = Len(written) + 1 /\ m.block = sent
         /\ written' = Append(written, Len(written) + 1)
         /\ written' \in Seq(1 .. Blocks)
         /\ Len(written') = sent
         /\ \A i \in 1 .. Len(written') : written'[i] = i
<1>1. /\ written \in Seq(1 .. Blocks) /\ sent \in 1 .. Blocks
      /\ \A i \in 1 .. Len(written) : written[i] = i
  BY DEF TransferInv, TypeOK, OutcomeInv
<1>2. /\ m.block = sent /\ Len(written) = sent - 1
      /\ written' = Append(written, m.block)
  BY WantedBlock DEF WriteBlock
<1> QED
  BY <1>1, <1>2

(* What becomes of the receiver and of the network when a block is written.*)
LEMMA WriteOutcome ==
  ASSUME TransferInv, NEW m, WriteBlock(m)
  PROVE  /\ pc["receiver"] = "waiting"
         /\ \/ pc' = [pc EXCEPT !["receiver"] = "failed"]
            \/ pc' = [pc EXCEPT !["receiver"] = "done"] /\ sent = Blocks
            \/ pc' = pc /\ sent # Blocks
         /\ \A k \in net' :
              \/ k \in net \/ k = Error(Peer("receiver"))
              \/ k = Ack(sent) /\ (sent = Blocks => pc' = [pc EXCEPT !["receiver"] = "done"])
<1>1. /\ pc["receiver"] = "waiting"
      /\ Wanted = sent /\ m.block = sent
  BY WantedBlock DEF WriteBlock, IsWanted, Gets
<1>2. CASE Break("receiver", m)
  BY <1>1, <1>2 DEF Break
<1>3. CASE Return("receiver", m, {Ack(Wanted)}) /\ m.block = Blocks
  BY <1>1, <1>3 DEF Return
<1>4. CASE Await("receiver", m, {Ack(Wanted)}) /\ m.block # Blocks
  BY <1>1, <1>4 DEF Await, Fresh
<1> QED
  BY <1>2, <1>3, <1>4 DEF WriteBlock, Acknowledge

LEMMA WriteBlockStep ==
  ASSUME TransferInv, NEW m, WriteBlock(m)
  PROVE  TransferInv'
<1>1. /\ UNCHANGED <<sent, bad, server, cancelled>>
      /\ faults' \in 0 .. MaxFaults
  BY FaultCounted DEF WriteBlock, TransferInv, TypeOK
<1>2. Wanted = sent /\ m.block = sent
  BY WantedBlock DEF WriteBlock
<1>3. /\ pc["receiver"] = "waiting"
      /\ \/ pc' = [pc EXCEPT !["receiver"] = "failed"]
         \/ pc' = [pc EXCEPT !["receiver"] = "done"] /\ sent = Blocks
         \/ pc' = pc /\ sent # Blocks
  BY WriteOutcome
<1>4. \A k \in net' :
        \/ k \in net \/ k = Error(Peer("receiver"))
        \/ k = Ack(sent) /\ (sent = Blocks => pc' = [pc EXCEPT !["receiver"] = "done"])
  BY WriteOutcome
<1>5. TypeOK'
  <2>1. Ack(sent) \in Messages /\ Error(Peer("receiver")) \in Messages
    BY Facts, ErrorType DEF Ack, Message, Messages, Ends
  <2>2. net' \subseteq Messages
    BY <1>4, <2>1 DEF TransferInv, TypeOK
  <2>3. pc' \in [Ends -> {"waiting", "done", "failed"}]
    BY <1>3 DEF TransferInv, TypeOK
  <2>4. written' \in Seq(1 .. Blocks) /\ Len(written') <= Blocks
    BY Written, Facts
  <2> QED
    BY <1>1, <2>2, <2>3, <2>4 DEF TransferInv, TypeOK
<1>6. Lockstep'
  BY <1>1, Written DEF Lockstep
<1>7. NetInv'
  <2> SUFFICES ASSUME NEW k \in net'
               PROVE  /\ k.kind = "DATA" => /\ k.to = "receiver" /\ k.block \in 1 .. sent
                                           /\ sent - k.block <= MaxAge
                      /\ k.kind = "ACK" => /\ k.to = "sender" /\ k.block <= sent
                                          /\ sent - k.block <= MaxAge + 1
    BY <1>1, Written DEF NetInv
  <2>1. CASE k \in net
    BY <2>1, Facts DEF TransferInv, NetInv
  <2>2. CASE k = Ack(sent)
    BY <2>2, Facts DEF Ack, Message
  <2>3. CASE k = Error(Peer("receiver"))
    BY <2>3 DEF Error, Message
  <2> QED
    BY <1>4, <2>1, <2>2, <2>3
<1>8. OutcomeInv'
  <2>1. Len(written') = sent /\ Len(written) = sent - 1 /\ sent \in 1 .. Blocks /\ Blocks \in Nat
    BY Written, WantedBlock, Facts DEF WriteBlock
  <2>2. pc["sender"] # "done"
    BY <2>1 DEF TransferInv, OutcomeInv
  <2>3. /\ pc'["sender"] = pc["sender"]
        /\ pc'["receiver"] = "done" => sent = Blocks
        /\ pc'["receiver"] = "waiting" => sent # Blocks
    BY <1>1, <1>3 DEF TransferInv, TypeOK, Ends
  <2> QED
    BY <2>1, <2>2, <2>3, Written DEF OutcomeInv
<1>9. LastAckInv'
  <2> SUFFICES ASSUME NEW k \in net', k.kind = "ACK", k.block = Blocks
               PROVE  pc'["receiver"] = "done"
    BY DEF LastAckInv
  <2>1. k \notin net
    BY <1>3 DEF TransferInv, LastAckInv
  <2>2. k = Ack(sent) /\ (sent = Blocks => pc' = [pc EXCEPT !["receiver"] = "done"])
    BY <1>4, <2>1 DEF Error, Message
  <2>3. k.block = sent
    BY <2>2 DEF Ack, Message
  <2> QED
    BY <2>2, <2>3 DEF TransferInv, TypeOK, Ends
<1> QED
  BY <1>5, <1>6, <1>7, <1>8, <1>9 DEF TransferInv

LEMMA FinishSendingStep ==
  ASSUME TransferInv, NEW m, FinishSending(m)
  PROVE  TransferInv'
<1>1. /\ Len(written) = Blocks
      /\ pc' = [pc EXCEPT !["sender"] = "done"] /\ net' \subseteq net
      /\ UNCHANGED <<sent, bad, written, server, cancelled, faults>>
  BY AckedBlock DEF FinishSending, Return
<1>2. TypeOK'
  <2>1. pc' \in [Ends -> {"waiting", "done", "failed"}]
    BY <1>1 DEF TransferInv, TypeOK
  <2> QED
    BY <1>1, <2>1 DEF TransferInv, TypeOK
<1>3. Lockstep'
  BY <1>1 DEF TransferInv, Lockstep
<1>4. NetInv'
  BY <1>1 DEF TransferInv, NetInv
<1>5. OutcomeInv'
  BY <1>1 DEF TransferInv, TypeOK, OutcomeInv, Ends
<1>6. LastAckInv'
  BY <1>1 DEF TransferInv, TypeOK, LastAckInv, Ends
<1> QED
  BY <1>2, <1>3, <1>4, <1>5, <1>6 DEF TransferInv

(* A step that touches nothing but what is on its way.                     *)
LEMMA NetworkStep ==
  ASSUME TransferInv, UNCHANGED <<pc, sent, bad, written, server>>,
         cancelled' \in BOOLEAN, faults' \in 0 .. MaxFaults,
         \A k \in net' : \/ k \in net
                         \/ \E m \in net : k = [m EXCEPT !.copy = 1]
  PROVE  TransferInv'
<1>1. net \subseteq Messages
  BY DEF TransferInv, TypeOK
<1>2. net' \subseteq Messages
  BY <1>1 DEF Messages
<1>3. TypeOK'
  BY <1>2 DEF TransferInv, TypeOK
<1>4. NetInv'
  BY <1>1 DEF TransferInv, NetInv, Messages
<1>5. LastAckInv'
  BY <1>1 DEF TransferInv, LastAckInv, Messages
<1> QED
  BY <1>3, <1>4, <1>5 DEF TransferInv, Lockstep, OutcomeInv

LEMMA DeliverStep ==
  ASSUME TransferInv, NEW m \in net, Deliver(m)
  PROVE  TransferInv'
<1>0. /\ "sender" \in Ends /\ "receiver" \in Ends
      /\ bad \in 0 .. MessageLimit - 1 /\ faults \in 0 .. MaxFaults
      /\ MessageLimit \in Nat
  BY TransferAssumption DEF Ends, TransferInv, TypeOK
<1>1. CASE SendNext(m)
  BY <1>1, SendNextStep
<1>2. CASE ReadError(m)
  BY <1>0, <1>2, FailStep, FaultCounted DEF ReadError, Acked, Gets
<1>3. CASE FinishSending(m)
  BY <1>3, FinishSendingStep
<1>4. CASE SkipAck(m)
  <2>1. pc["sender"] = "waiting" /\ UNCHANGED <<server, cancelled, faults>>
    BY <1>4 DEF SkipAck, Gets
  <2>2. CASE bad + 1 < MessageLimit
    <3>1. bad' = bad + 1 /\ UNCHANGED <<sent, written>> /\ Await("sender", m, {})
      BY <1>4, <2>2 DEF SkipAck
    <3>2. bad' \in 0 .. MessageLimit - 1
      BY <1>0, <2>2, <3>1
    <3> QED
      BY <1>0, <2>1, <3>1, <3>2, SkipStep
  <2>3. CASE ~(bad + 1 < MessageLimit)
    BY <1>0, <1>4, <2>1, <2>3, FailStep DEF SkipAck
  <2> QED
    BY <2>2, <2>3
<1>5. CASE RejectAtSender(m)
  BY <1>0, <1>5, FailStep DEF RejectAtSender, Gets
<1>6. CASE WriteBlock(m)
  BY <1>6, WriteBlockStep
<1>7. CASE WriteError(m)
  BY <1>0, <1>7, FailStep, FaultCounted DEF WriteError, IsWanted, Gets
<1>8. CASE SkipData(m)
  BY <1>0, <1>8, SkipStep DEF SkipData, Gets
<1>9. CASE RejectAtReceiver(m)
  BY <1>0, <1>9, FailStep DEF RejectAtReceiver, Gets
<1> QED
  BY <1>1, <1>2, <1>3, <1>4, <1>5, <1>6, <1>7, <1>8, <1>9 DEF Deliver

LEMMA NextInv == TransferInv /\ [Next]_vars => TransferInv'
<1> SUFFICES ASSUME TransferInv, [Next]_vars PROVE TransferInv'
  OBVIOUS
<1>0. faults \in 0 .. MaxFaults /\ cancelled \in BOOLEAN
  BY DEF TransferInv, TypeOK
<1>1. ASSUME NEW m \in net, Deliver(m) PROVE TransferInv'
  BY <1>1, DeliverStep
<1>2. ASSUME NEW m \in net, Lose(m) PROVE TransferInv'
  BY <1>0, <1>2, FaultCounted, NetworkStep DEF Lose
<1>3. ASSUME NEW m \in net, Duplicate(m) PROVE TransferInv'
  BY <1>0, <1>3, FaultCounted, NetworkStep DEF Duplicate
<1>4. ASSUME NEW e \in Ends, Timeout(e) PROVE TransferInv'
  BY <1>0, <1>4, FailStep DEF Timeout
<1>5. CASE Cancel
  BY <1>0, <1>5, FaultCounted, NetworkStep DEF Cancel
<1>6. CASE UNCHANGED vars
  BY <1>0, <1>6, NetworkStep DEF vars
<1> QED
  BY <1>1, <1>2, <1>3, <1>4, <1>5, <1>6 DEF Next

-----------------------------------------------------------------------------
(* Every step is a step of FileCopy, or leaves the copy and both outcomes  *)
(* alone.                                                                  *)

LEMMA CopyInit == Init => Copy!Init
BY DEF Init, Copy!Init, Ends, Copy!Ends

LEMMA SameEnds == Copy!Ends = Ends
BY DEF Ends, Copy!Ends

LEMMA FailCopies ==
  ASSUME NEW e \in Ends, NEW m, pc[e] = "waiting", Fail(e, m)
  PROVE  Copy!Next
<1>1. Copy!GiveUp(e)
  BY DEF Fail, Break, Copy!GiveUp
<1> QED
  BY <1>1, SameEnds DEF Copy!Next

(* An end that goes on without having written anything may find that the   *)
(* daemon stops.                                                           *)
LEMMA AwaitCopies ==
  ASSUME NEW e \in Ends, NEW m, NEW replies, pc[e] = "waiting",
         Await(e, m, replies), UNCHANGED written
  PROVE  Copy!Next \/ UNCHANGED <<written, pc>>
<1>1. CASE pc' = pc
  BY <1>1
<1>2. CASE pc' = [pc EXCEPT ![e] = "failed"]
  <2>1. Copy!GiveUp(e)
    BY <1>2 DEF Copy!GiveUp
  <2> QED
    BY <2>1, SameEnds DEF Copy!Next
<1> QED
  BY <1>1, <1>2 DEF Await

LEMMA WriteBlockCopies ==
  ASSUME TransferInv, NEW m, WriteBlock(m)
  PROVE  Copy!Next
<1>1. /\ pc["receiver"] = "waiting"
      /\ \/ pc' = [pc EXCEPT !["receiver"] = "failed"]
         \/ pc' = [pc EXCEPT !["receiver"] = "done"] /\ sent = Blocks
         \/ pc' = pc /\ sent # Blocks
  BY WriteOutcome
<1>2. /\ Len(written') = sent /\ Len(written) = sent - 1
      /\ written' = Append(written, Len(written) + 1)
  BY Written, WantedBlock DEF WriteBlock
<1>3. ~Copy!Whole
  BY <1>2, Facts DEF Copy!Whole
<1>4. \E o \in {IF Len(written') = Blocks THEN "done" ELSE "waiting", "failed"} :
        pc' = [pc EXCEPT !["receiver"] = o]
  <2>1. CASE pc' = pc /\ sent # Blocks
    <3>1. pc' = [pc EXCEPT !["receiver"] = "waiting"]
      BY <1>1, <2>1 DEF TransferInv, TypeOK, Ends
    <3> QED
      BY <1>2, <2>1, <3>1
  <2>2. CASE pc' = [pc EXCEPT !["receiver"] = "done"] /\ sent = Blocks
    BY <1>2, <2>2
  <2> QED
    BY <1>1, <2>1, <2>2
<1>5. Copy!Grow
  BY <1>1, <1>2, <1>3, <1>4 DEF Copy!Grow
<1> QED
  BY <1>5 DEF Copy!Next

LEMMA FinishSendingCopies ==
  ASSUME TransferInv, NEW m, FinishSending(m)
  PROVE  Copy!Next
<1>1. /\ m \in net /\ m.kind = "ACK" /\ m.block = Blocks
      /\ pc["sender"] = "waiting"
      /\ pc' = [pc EXCEPT !["sender"] = "done"] /\ UNCHANGED written
  BY AckedBlock DEF FinishSending, Acked, Gets, Return
<1>2. pc["receiver"] = "done"
  BY <1>1 DEF TransferInv, LastAckInv
<1>3. Copy!Confirm
  BY <1>1, <1>2 DEF Copy!Confirm
<1> QED
  BY <1>3 DEF Copy!Next

LEMMA DeliverCopies ==
  ASSUME TransferInv, NEW m, Deliver(m)
  PROVE  Copy!Next \/ UNCHANGED <<written, pc>>
<1>0. "sender" \in Ends /\ "receiver" \in Ends
  BY DEF Ends
<1>1. CASE SendNext(m)
  BY <1>0, <1>1, AwaitCopies DEF SendNext, Acked, Gets
<1>2. CASE ReadError(m)
  BY <1>0, <1>2, FailCopies DEF ReadError, Acked, Gets
<1>3. CASE FinishSending(m)
  BY <1>3, FinishSendingCopies
<1>4. CASE SkipAck(m)
  <2>1. pc["sender"] = "waiting"
    BY <1>4 DEF SkipAck, Gets
  <2>2. CASE bad + 1 < MessageLimit
    BY <1>0, <1>4, <2>1, <2>2, AwaitCopies DEF SkipAck
  <2>3. CASE ~(bad + 1 < MessageLimit)
    BY <1>0, <1>4, <2>1, <2>3, FailCopies DEF SkipAck
  <2> QED
    BY <2>2, <2>3
<1>5. CASE RejectAtSender(m)
  BY <1>0, <1>5, FailCopies DEF RejectAtSender, Gets
<1>6. CASE WriteBlock(m)
  BY <1>6, WriteBlockCopies
<1>7. CASE WriteError(m)
  BY <1>0, <1>7, FailCopies DEF WriteError, IsWanted, Gets
<1>8. CASE SkipData(m)
  BY <1>0, <1>8, AwaitCopies DEF SkipData, Gets
<1>9. CASE RejectAtReceiver(m)
  BY <1>0, <1>9, FailCopies DEF RejectAtReceiver, Gets
<1> QED
  BY <1>1, <1>2, <1>3, <1>4, <1>5, <1>6, <1>7, <1>8, <1>9 DEF Deliver

LEMMA NextCopies == TransferInv /\ [Next]_vars => [Copy!Next]_<<written, pc>>
<1> SUFFICES ASSUME TransferInv, [Next]_vars
             PROVE  Copy!Next \/ UNCHANGED <<written, pc>>
  OBVIOUS
<1>1. ASSUME NEW m \in net, Deliver(m)
      PROVE  Copy!Next \/ UNCHANGED <<written, pc>>
  BY <1>1, DeliverCopies
<1>2. ASSUME NEW m \in net, Lose(m) \/ Duplicate(m)
      PROVE  UNCHANGED <<written, pc>>
  BY <1>2 DEF Lose, Duplicate
<1>3. ASSUME NEW e \in Ends, Timeout(e)
      PROVE  Copy!Next
  BY <1>3, FailCopies DEF Timeout
<1>4. CASE Cancel \/ UNCHANGED vars
  BY <1>4 DEF Cancel, vars
<1> QED
  BY <1>1, <1>2, <1>3, <1>4 DEF Next

-----------------------------------------------------------------------------
(* Without a fault there is one datagram on its way, the block the sender  *)
(* has sent or the acknowledgement of it, until both ends are done.        *)

Undisturbed ==
  /\ cancelled = FALSE
  /\ \/ /\ net = {Data(sent)} /\ Len(written) = sent - 1
        /\ pc["sender"] = "waiting" /\ pc["receiver"] = "waiting"
     \/ /\ net = {Ack(sent)} /\ Len(written) = sent
        /\ pc["sender"] = "waiting"
        /\ pc["receiver"] = IF sent = Blocks THEN "done" ELSE "waiting"
     \/ net = {} /\ pc["sender"] = "done" /\ pc["receiver"] = "done"

CauseInv == faults = 0 => Undisturbed

LEMMA CauseInit == Init => CauseInv
<1> SUFFICES ASSUME Init, faults = 0 PROVE Undisturbed
  BY DEF CauseInv
<1>1. net = {Data(1)} /\ sent = 1 /\ written = <<>> /\ cancelled = FALSE
  BY DEF Init
<1>2. pc["sender"] = "waiting" /\ pc["receiver"] = "waiting"
  BY DEF Init, Ends
<1> QED
  BY <1>1, <1>2 DEF Undisturbed

LEMMA NoFaultYet ==
  ASSUME TransferInv, NEW kind, Fault(kind)
  PROVE  faults' # 0
BY DEF TransferInv, TypeOK, Fault

LEMMA SentNumber == TransferInv => Number(sent) \in Nat
<1> SUFFICES ASSUME TransferInv PROVE sent % Modulus \in Nat
  BY DEF Number
<1>1. sent \in Nat /\ Modulus \in Nat \ {0}
  BY Facts
<1>2. sent % Modulus \in 0 .. Modulus - 1
  BY <1>1, Division
<1> QED
  BY <1>1, <1>2

(* What is delivered is the next block to the receiver ...                 *)
LEMMA QuietData ==
  ASSUME TransferInv, Undisturbed, NEW m \in net, m = Data(sent), Deliver(m), faults' = 0
  PROVE  Undisturbed'
<1>1. m.to = "receiver" /\ m.kind = "DATA" /\ m.block = sent
  BY DEF Data, Message
<1>2. Data(sent) # Ack(sent)
  BY DEF Data, Ack, Message
<1>3. /\ net = {Data(sent)} /\ Len(written) = sent - 1 /\ cancelled = FALSE
      /\ pc["sender"] = "waiting" /\ pc["receiver"] = "waiting"
  BY <1>2 DEF Undisturbed
<1>4. Wanted = sent
  BY <1>3, Facts DEF Wanted
<1>5. WriteBlock(m)
  <2>1. ~Gets("sender", m)
    BY <1>1 DEF Gets
  <2>2. ~SkipData(m) /\ ~RejectAtReceiver(m)
    <3>1. Number(m.block) = Number(Wanted) /\ Number(sent) \in Nat
      BY <1>1, <1>4, SentNumber
    <3> QED
      BY <1>1, <1>4, <3>1 DEF SkipData, RejectAtReceiver
  <2>3. ~WriteError(m)
    BY NoFaultYet DEF WriteError
  <2> QED
    BY <2>1, <2>2, <2>3
       DEF Deliver, SendNext, ReadError, FinishSending, SkipAck, RejectAtSender, Acked
<1>6. /\ UNCHANGED <<sent, cancelled>> /\ Len(written') = sent
      /\ IF sent = Blocks
         THEN Return("receiver", m, {Ack(sent)})
         ELSE Await("receiver", m, {Ack(sent)})
  BY <1>1, <1>4, <1>5, Written, NoFaultYet DEF WriteBlock, Acknowledge
<1>7. net \ {m} = {}
  BY <1>3
<1>8. net' = {Ack(sent)}
      /\ pc' = IF sent = Blocks THEN [pc EXCEPT !["receiver"] = "done"] ELSE pc
  BY <1>3, <1>6, <1>7 DEF Return, Await, Fresh
<1>9. /\ pc'["sender"] = "waiting"
      /\ pc'["receiver"] = IF sent = Blocks THEN "done" ELSE "waiting"
  BY <1>3, <1>8 DEF TransferInv, TypeOK, Ends
<1> QED
  BY <1>3, <1>6, <1>8, <1>9 DEF Undisturbed

(* ... or its acknowledgement to the sender.                               *)
LEMMA QuietAck ==
  ASSUME TransferInv, Undisturbed, NEW m \in net, m = Ack(sent), Deliver(m), faults' = 0
  PROVE  Undisturbed'
<1>1. m.to = "sender" /\ m.kind = "ACK" /\ m.block = sent
  BY DEF Ack, Message
<1>2. Data(sent) # Ack(sent)
  BY DEF Data, Ack, Message
<1>3. /\ net = {Ack(sent)} /\ Len(written) = sent /\ cancelled = FALSE
      /\ pc["sender"] = "waiting"
      /\ pc["receiver"] = IF sent = Blocks THEN "done" ELSE "waiting"
  BY <1>2 DEF Undisturbed
<1>4. SendNext(m) \/ FinishSending(m)
  <2>1. ~Gets("receiver", m)
    BY <1>1 DEF Gets
  <2>2. ~SkipAck(m) /\ ~RejectAtSender(m)
    <3>1. Number(sent) \in Nat
      BY SentNumber
    <3> QED
      BY <1>1, <3>1 DEF SkipAck, RejectAtSender
  <2>3. ~ReadError(m)
    BY NoFaultYet DEF ReadError
  <2> QED
    BY <2>1, <2>2, <2>3
       DEF Deliver, WriteBlock, WriteError, SkipData, RejectAtReceiver, IsWanted
<1>5. net \ {m} = {}
  BY <1>3
<1>6. CASE SendNext(m)
  <2>1. /\ sent < Blocks /\ sent' = sent + 1 /\ UNCHANGED <<written, cancelled>>
        /\ Await("sender", m, {Data(sent')})
    BY <1>6 DEF SendNext
  <2>2. net' = {Data(sent')} /\ pc' = pc
    BY <1>3, <1>5, <2>1 DEF Await, Fresh
  <2> QED
    BY <1>3, <2>1, <2>2, Facts DEF Undisturbed
<1>7. CASE FinishSending(m)
  <2>1. /\ sent = Blocks /\ UNCHANGED cancelled /\ Return("sender", m, {})
    BY <1>7 DEF FinishSending
  <2>2. net' = {} /\ pc' = [pc EXCEPT !["sender"] = "done"]
    BY <1>5, <2>1 DEF Return
  <2> QED
    BY <1>3, <2>1, <2>2 DEF Undisturbed, TransferInv, TypeOK, Ends
<1> QED
  BY <1>4, <1>6, <1>7

LEMMA CauseNext == TransferInv /\ CauseInv /\ [Next]_vars => CauseInv'
<1> SUFFICES ASSUME TransferInv, CauseInv, [Next]_vars, faults' = 0
             PROVE  Undisturbed'
  BY DEF CauseInv
<1>1. CASE UNCHANGED vars
  BY <1>1 DEF vars, CauseInv, Undisturbed
<1>2. ASSUME NEW m \in net, Deliver(m)
      PROVE  Undisturbed'
  <2>1. faults = 0
    BY <1>2, NoFaultYet
       DEF Deliver, SendNext, ReadError, FinishSending, SkipAck, RejectAtSender,
           WriteBlock, WriteError, SkipData, RejectAtReceiver
  <2>2. Undisturbed
    BY <2>1 DEF CauseInv
  <2>3. m = Data(sent) \/ m = Ack(sent)
    BY <2>2 DEF Undisturbed
  <2> QED
    BY <1>2, <2>2, <2>3, QuietData, QuietAck
<1>3. ASSUME NEW m \in net, Lose(m) \/ Duplicate(m)
      PROVE  FALSE
  BY <1>3, NoFaultYet DEF Lose, Duplicate
<1>4. ASSUME NEW e \in Ends, Timeout(e)
      PROVE  FALSE
  <2>1. /\ pc[e] = "waiting" /\ \A m \in net : pc[m.to] # "waiting"
        /\ faults = 0
    BY <1>4 DEF Timeout
  <2>2. Undisturbed
    BY <2>1 DEF CauseInv
  <2>3. Data(sent).to = "receiver" /\ Ack(sent).to = "sender"
    BY DEF Data, Ack, Message
  <2> QED
    BY <2>1, <2>2, <2>3 DEF Undisturbed, Ends
<1>5. ~Cancel
  BY NoFaultYet DEF Cancel
<1> QED
  BY <1>1, <1>2, <1>3, <1>4, <1>5 DEF Next

-----------------------------------------------------------------------------
(* Every step leaves less to do. *)

Waiting == {e \in Ends : pc[e] = "waiting"}

FiniteInv == TransferInv /\ IsFiniteSet(net)

LEMMA EndsCount ==
  ASSUME NEW S \in SUBSET Ends
  PROVE  IsFiniteSet(S) /\ Cardinality(S) \in Nat
<1>1. IsFiniteSet({"sender"})
  BY FS_Singleton
<1>2. IsFiniteSet({"sender"} \cup {"receiver"})
  BY <1>1, FS_AddElement
<1>3. {"sender"} \cup {"receiver"} = Ends
  BY DEF Ends
<1>4. IsFiniteSet(S)
  BY <1>2, <1>3, FS_Subset
<1> QED
  BY <1>4, FS_CardinalityType

LEMMA WaitingCount ==
  /\ IsFiniteSet(Waiting) /\ Cardinality(Waiting) \in Nat
  /\ IsFiniteSet(Waiting') /\ Cardinality(Waiting') \in Nat
<1>1. Waiting \in SUBSET Ends /\ Waiting' \in SUBSET Ends
  BY DEF Waiting
<1> QED
  BY <1>1, EndsCount

(* An outcome that is decided is one to report less.                       *)
LEMMA Decided ==
  ASSUME TransferInv, NEW e \in Ends, pc[e] = "waiting",
         NEW result, result # "waiting", pc' = [pc EXCEPT ![e] = result]
  PROVE  Cardinality(Waiting') = Cardinality(Waiting) - 1
<1>1. Waiting' = Waiting \ {e} /\ e \in Waiting
  BY DEF Waiting, TransferInv, TypeOK
<1> QED
  BY <1>1, WaitingCount, FS_RemoveElement

(* What a step leaves of the datagrams on their way.                       *)
LEMMA Fewer ==
  ASSUME NEW S, IsFiniteSet(S), NEW m \in S, NEW T, T \subseteq S \ {m}
  PROVE  /\ IsFiniteSet(T) /\ Cardinality(T) \in Nat
         /\ Cardinality(T) <= Cardinality(S) - 1
<1>1. IsFiniteSet(S \ {m}) /\ Cardinality(S \ {m}) = Cardinality(S) - 1
  BY FS_RemoveElement
<1>2. T \in SUBSET (S \ {m})
  OBVIOUS
<1>3. IsFiniteSet(T) /\ Cardinality(T) <= Cardinality(S \ {m})
  BY <1>1, <1>2, FS_Subset
<1> QED
  BY <1>1, <1>3, FS_CardinalityType

LEMMA OneMore ==
  ASSUME NEW S, IsFiniteSet(S), NEW k, NEW T, T \subseteq S \cup {k}
  PROVE  /\ IsFiniteSet(T) /\ Cardinality(T) \in Nat
         /\ Cardinality(T) <= Cardinality(S) + 1
<1>0. Cardinality(S) \in Nat
  BY FS_CardinalityType
<1>1. /\ IsFiniteSet(S \cup {k})
      /\ Cardinality(S \cup {k}) = IF k \in S THEN Cardinality(S) ELSE Cardinality(S) + 1
  BY FS_AddElement
<1>2. T \in SUBSET (S \cup {k})
  OBVIOUS
<1>3. IsFiniteSet(T) /\ Cardinality(T) <= Cardinality(S \cup {k})
  BY <1>1, <1>2, FS_Subset
<1> QED
  BY <1>0, <1>1, <1>3, FS_CardinalityType

(* The same for a datagram that is replaced by one, or by two.             *)
LEMMA Replaced ==
  ASSUME NEW S, IsFiniteSet(S), NEW m \in S, NEW k, NEW l, NEW T
  PROVE  /\ T \subseteq (S \ {m}) \cup {k} =>
              IsFiniteSet(T) /\ Cardinality(T) \in Nat /\ Cardinality(T) <= Cardinality(S)
         /\ T \subseteq ((S \ {m}) \cup {k}) \cup {l} =>
              IsFiniteSet(T) /\ Cardinality(T) \in Nat /\ Cardinality(T) <= Cardinality(S) + 1
<1> DEFINE R == S \ {m}
<1>1. /\ IsFiniteSet(R) /\ Cardinality(R) \in Nat /\ Cardinality(R) <= Cardinality(S) - 1
      /\ Cardinality(S) \in Nat
  BY Fewer, FS_CardinalityType
<1> HIDE DEF R
<1>2. IsFiniteSet(R \cup {k}) /\ Cardinality(R \cup {k}) <= Cardinality(S)
      /\ Cardinality(R \cup {k}) \in Nat
  <2>1. /\ IsFiniteSet(R \cup {k}) /\ Cardinality(R \cup {k}) \in Nat
        /\ Cardinality(R \cup {k}) <= Cardinality(R) + 1
    BY <1>1, OneMore
  <2> QED
    BY <1>1, <2>1
<1>3. ASSUME T \subseteq R \cup {k}
      PROVE  IsFiniteSet(T) /\ Cardinality(T) \in Nat /\ Cardinality(T) <= Cardinality(S)
  <2>1. T \in SUBSET (R \cup {k})
    BY <1>3
  <2>2. IsFiniteSet(T) /\ Cardinality(T) <= Cardinality(R \cup {k})
    BY <1>2, <2>1, FS_Subset
  <2> QED
    BY <1>1, <1>2, <2>2, FS_CardinalityType
<1>4. ASSUME T \subseteq (R \cup {k}) \cup {l}
      PROVE  IsFiniteSet(T) /\ Cardinality(T) \in Nat /\ Cardinality(T) <= Cardinality(S) + 1
  <2>1. /\ IsFiniteSet(T) /\ Cardinality(T) \in Nat
        /\ Cardinality(T) <= Cardinality(R \cup {k}) + 1
    BY <1>2, <1>4, OneMore
  <2> QED
    BY <1>1, <1>2, <2>1
<1> QED
  BY <1>3, <1>4 DEF R

(* Less is left when the counts go down together.                          *)
GetsOn == IsFiniteSet(net') /\ Remaining' < Remaining

LEMMA Counts ==
  ASSUME FiniteInv
  PROVE  /\ sent \in Int /\ Len(written) \in Int /\ faults \in Int
         /\ Cardinality(Waiting) \in Nat /\ Cardinality(net) \in Nat
         /\ Blocks \in Int /\ MaxFaults \in Int
<1>1. TransferInv /\ IsFiniteSet(net)
  BY DEF FiniteInv
<1>2. faults \in Int /\ Blocks \in Int /\ MaxFaults \in Int
  BY <1>1, TransferAssumption DEF TransferInv, TypeOK
<1> QED
  BY <1>1, <1>2, Facts, WaitingCount, FS_CardinalityType

LEMMA Arithmetic ==
  ASSUME NEW B \in Int, NEW F \in Int,
         NEW s1 \in Int, NEW l1 \in Int, NEW f1 \in Int, NEW w1 \in Int, NEW n1 \in Int,
         NEW s2 \in Int, NEW l2 \in Int, NEW f2 \in Int, NEW w2 \in Int, NEW n2 \in Int,
         n2 < n1 + 2 * ((s2 - s1) + (l2 - l1) + (f2 - f1) + (w1 - w2))
  PROVE  2 * ((B - s2) + (B - l2) + (F - f2) + w2) + n2
           < 2 * ((B - s1) + (B - l1) + (F - f1) + w1) + n1
OBVIOUS

(* What a step gets done, and what it may put on the network for that.     *)
Done ==
  (sent' - sent) + (Len(written') - Len(written)) + (faults' - faults)
    + (Cardinality(Waiting) - Cardinality(Waiting'))

LEMMA DoneNumber ==
  ASSUME sent \in Int, Len(written) \in Int, faults \in Int, Cardinality(Waiting) \in Int,
         sent' \in Int, Len(written') \in Int, faults' \in Int, Cardinality(Waiting') \in Int
  PROVE  Done \in Int
<1> DEFINE a == sent' - sent
           b == Len(written') - Len(written)
           c == faults' - faults
           e == Cardinality(Waiting) - Cardinality(Waiting')
<1>1. a \in Int /\ b \in Int /\ c \in Int /\ e \in Int
  OBVIOUS
<1>2. Done = a + b + c + e
  BY DEF Done
<1> HIDE DEF a, b, c, e
<1> QED
  BY <1>1, <1>2

LEMMA Descent ==
  ASSUME FiniteInv, IsFiniteSet(net'),
         sent' \in Int, Len(written') \in Int, faults' \in Int,
         NEW d \in Int, Done >= d, Cardinality(net') < Cardinality(net) + 2 * d
  PROVE  GetsOn
<1>1. /\ Cardinality(Waiting') \in Int /\ Cardinality(net') \in Int
      /\ Cardinality(Waiting) \in Int /\ Cardinality(net) \in Int
  BY Counts, WaitingCount, FS_CardinalityType
<1>2. Remaining = 2 * ((Blocks - sent) + (Blocks - Len(written)) + (MaxFaults - faults)
                         + Cardinality(Waiting)) + Cardinality(net)
  BY DEF Remaining, Waiting
<1>3. Remaining' = 2 * ((Blocks - sent') + (Blocks - Len(written')) + (MaxFaults - faults')
                          + Cardinality(Waiting')) + Cardinality(net')
  BY DEF Remaining, Waiting
<1>4. Cardinality(net') < Cardinality(net) + 2 * Done
  <2>1. /\ sent \in Int /\ Len(written) \in Int /\ faults \in Int
        /\ sent' \in Int /\ Len(written') \in Int /\ faults' \in Int
    BY Counts
  <2>2. Done \in Int
    BY <1>1, <2>1, DoneNumber
  <2> QED
    BY <1>1, <2>2
<1>5. Remaining' < Remaining
  BY <1>1, <1>2, <1>3, <1>4, Counts, Arithmetic DEF Done
<1> QED
  BY <1>5 DEF GetsOn

(* A loop that breaks off has an outcome the less to report and may send an*)
(* ERROR.                                                                  *)
LEMMA BreakGetsOn ==
  ASSUME FiniteInv, NEW e \in Ends, NEW m, pc[e] = "waiting", Break(e, m),
         sent' = sent, Len(written') \in Int, Len(written') >= Len(written),
         faults' = faults \/ faults' = faults + 1
  PROVE  GetsOn
<1>1. Cardinality(Waiting') = Cardinality(Waiting) - 1
  BY Decided DEF FiniteInv, Break
<1>2. net' \subseteq net \cup {Error(Peer(e))}
  BY DEF Break
<1>3. IsFiniteSet(net') /\ Cardinality(net') \in Nat /\ Cardinality(net') <= Cardinality(net) + 1
  BY <1>2, OneMore DEF FiniteInv
<1>4. sent' \in Int /\ faults' \in Int /\ Done >= 1
  BY <1>1, Counts DEF Done
<1>5. Cardinality(net') < Cardinality(net) + 2 * 1
  BY <1>3, Counts
<1> QED
  BY <1>3, <1>4, <1>5, Descent

LEMMA FailGetsOn ==
  ASSUME FiniteInv, NEW e \in Ends, NEW m, pc[e] = "waiting", Fail(e, m),
         faults' = faults \/ faults' = faults + 1
  PROVE  GetsOn
<1>1. /\ Break(e, m) /\ sent' = sent
      /\ Len(written') \in Int /\ Len(written') >= Len(written)
  BY Counts DEF Fail
<1> QED
  BY <1>1, BreakGetsOn

AtMostOne(replies) == replies = {} \/ \E k : replies = {k}

LEMMA OneReply == AtMostOne({}) /\ \A k : AtMostOne({k})
BY DEF AtMostOne

(* A loop that calls Receive again has taken one datagram and sent one or  *)
(* none; if it finds the daemon stopping it sends an ERROR besides.        *)
LEMMA AwaitCounts ==
  ASSUME FiniteInv, NEW e \in Ends, NEW m \in net, pc[e] = "waiting",
         NEW replies, Await(e, m, replies), AtMostOne(replies)
  PROVE  /\ IsFiniteSet(net') /\ Cardinality(net') \in Nat
         /\ \/ /\ Cardinality(Waiting') = Cardinality(Waiting)
               /\ Cardinality(net') <= Cardinality(net)
               /\ replies = {} => Cardinality(net') <= Cardinality(net) - 1
            \/ /\ Cardinality(Waiting') = Cardinality(Waiting) - 1
               /\ Cardinality(net') <= Cardinality(net) + 1
<1> DEFINE error == Error(Peer(e))
<1>0. PICK k : IsFiniteSet(net) /\ replies \subseteq {k}
  BY DEF FiniteInv, AtMostOne
<1>1. CASE pc' = pc /\ net' \subseteq (net \ {m}) \cup replies
  <2>1. Waiting' = Waiting
    BY <1>1 DEF Waiting
  <2>2. net' \subseteq (net \ {m}) \cup {k}
    BY <1>0, <1>1
  <2>3. IsFiniteSet(net') /\ Cardinality(net') \in Nat /\ Cardinality(net') <= Cardinality(net)
    BY <1>0, <2>2, Replaced
  <2>4. ASSUME replies = {}
        PROVE  Cardinality(net') <= Cardinality(net) - 1
    <3>1. net' \subseteq net \ {m}
      BY <1>1, <2>4
    <3> QED
      BY <1>0, <3>1, Fewer
  <2> QED
    BY <2>1, <2>3, <2>4
<1>2. CASE /\ pc' = [pc EXCEPT ![e] = "failed"]
           /\ net' \subseteq ((net \ {m}) \cup replies) \cup {error}
  <2>1. Cardinality(Waiting') = Cardinality(Waiting) - 1
    BY <1>2, Decided DEF FiniteInv
  <2>2. net' \subseteq ((net \ {m}) \cup {k}) \cup {error}
    BY <1>0, <1>2
  <2> HIDE DEF error
  <2>3. /\ IsFiniteSet(net') /\ Cardinality(net') \in Nat
        /\ Cardinality(net') <= Cardinality(net) + 1
    BY <1>0, <2>2, Replaced
  <2> QED
    BY <2>1, <2>3
<1> QED
  BY <1>1, <1>2 DEF Await, Fresh

(* A loop that goes on has passed a message over, or got on by a block.    *)
LEMMA AwaitGetsOn ==
  ASSUME FiniteInv, NEW e \in Ends, NEW m \in net, pc[e] = "waiting",
         NEW replies, Await(e, m, replies), AtMostOne(replies),
         sent' \in Int, Len(written') \in Int, faults' = faults,
         sent' + Len(written') >= sent + Len(written) + (IF replies = {} THEN 0 ELSE 1)
  PROVE  GetsOn
<1>1. /\ Cardinality(net') \in Nat /\ IsFiniteSet(net')
      /\ \/ /\ Cardinality(Waiting') = Cardinality(Waiting)
            /\ Cardinality(net') <= Cardinality(net)
            /\ replies = {} => Cardinality(net') <= Cardinality(net) - 1
         \/ /\ Cardinality(Waiting') = Cardinality(Waiting) - 1
            /\ Cardinality(net') <= Cardinality(net) + 1
  BY AwaitCounts
<1>2. faults' \in Int /\ 0 \in Int /\ 1 \in Int
  BY Counts
<1>3. CASE replies = {} /\ Cardinality(Waiting') = Cardinality(Waiting)
           /\ Cardinality(net') <= Cardinality(net) - 1
  <2>1. Done >= 0 /\ Cardinality(net') < Cardinality(net) + 2 * 0
    BY <1>1, <1>3, Counts DEF Done
  <2> QED
    BY <1>1, <1>2, <2>1, Descent
<1>4. CASE ~(replies = {} /\ Cardinality(Waiting') = Cardinality(Waiting)
              /\ Cardinality(net') <= Cardinality(net) - 1)
  <2>1. replies # {} \/ Cardinality(Waiting') = Cardinality(Waiting) - 1
    BY <1>1, <1>4
  <2>2. /\ Cardinality(Waiting') \in Int /\ Cardinality(Waiting) \in Int
        /\ Cardinality(Waiting') <= Cardinality(Waiting)
    BY <1>1, WaitingCount
  <2>3. Done >= 1
    <3>1. /\ sent \in Int /\ Len(written) \in Int /\ faults \in Int
          /\ sent' \in Int /\ Len(written') \in Int /\ faults' - faults = 0
      BY Counts
    <3>2. CASE replies # {}
      <4>1. sent' + Len(written') >= sent + Len(written) + 1
        BY <3>2
      <4> QED
        BY <2>2, <3>1, <4>1 DEF Done
    <3>3. CASE replies = {}
      <4>1. sent' + Len(written') >= sent + Len(written) + 0
        BY <3>3
      <4>2. Cardinality(Waiting') = Cardinality(Waiting) - 1
        BY <2>1, <3>3
      <4> QED
        BY <2>2, <3>1, <4>1, <4>2 DEF Done
    <3> QED
      BY <3>2, <3>3
  <2>4. Cardinality(net') < Cardinality(net) + 2 * 1
    BY <1>1, Counts
  <2> QED
    BY <1>1, <1>2, <2>3, <2>4, Descent
<1> QED
  BY <1>3, <1>4

LEMMA ReturnGetsOn ==
  ASSUME FiniteInv, NEW e \in Ends, NEW m \in net, pc[e] = "waiting",
         NEW replies, Return(e, m, replies), AtMostOne(replies),
         sent' = sent, Len(written') \in Int, Len(written') >= Len(written), faults' = faults
  PROVE  GetsOn
<1>1. Cardinality(Waiting') = Cardinality(Waiting) - 1
  BY Decided DEF FiniteInv, Return
<1>2. PICK k : net' \subseteq (net \ {m}) \cup {k}
  BY DEF Return, AtMostOne
<1>3. IsFiniteSet(net') /\ Cardinality(net') \in Nat /\ Cardinality(net') <= Cardinality(net)
  BY <1>2, Replaced DEF FiniteInv
<1>4. sent' \in Int /\ faults' \in Int /\ Done >= 1
  BY <1>1, Counts DEF Done
<1>5. Cardinality(net') < Cardinality(net) + 2 * 1
  BY <1>3, Counts
<1> QED
  BY <1>3, <1>4, <1>5, Descent

LEMMA DeliverGetsOn ==
  ASSUME FiniteInv, NEW m \in net, Deliver(m)
  PROVE  GetsOn
<1>0. /\ "sender" \in Ends /\ "receiver" \in Ends /\ TransferInv
      /\ \A kind : Fault(kind) => faults' = faults + 1
  BY DEF Ends, FiniteInv, Fault
<1>1. CASE SendNext(m)
  <2>1. /\ pc["sender"] = "waiting" /\ Await("sender", m, {Data(sent + 1)})
        /\ sent' = sent + 1 /\ UNCHANGED <<written, faults>>
    BY <1>1 DEF SendNext, Acked, Gets
  <2>2. /\ sent' \in Int /\ Len(written') \in Int
        /\ sent' + Len(written') >= sent + Len(written) + 1
    BY <2>1, Counts
  <2>3. AtMostOne({Data(sent + 1)}) /\ {Data(sent + 1)} # {}
    BY OneReply
  <2> QED
    BY <1>0, <2>1, <2>2, <2>3, AwaitGetsOn
<1>2. CASE ReadError(m)
  BY <1>0, <1>2, FailGetsOn DEF ReadError, Acked, Gets
<1>3. CASE FinishSending(m)
  <2>1. /\ pc["sender"] = "waiting" /\ Return("sender", m, {})
        /\ UNCHANGED <<sent, written, faults>>
    BY <1>3 DEF FinishSending, Acked, Gets
  <2>2. /\ Len(written') \in Int /\ Len(written') >= Len(written)
        /\ sent' = sent /\ faults' = faults
    BY <2>1, Counts
  <2> QED
    BY <1>0, <2>1, <2>2, ReturnGetsOn, OneReply
<1>4. CASE SkipAck(m)
  <2>1. pc["sender"] = "waiting" /\ UNCHANGED faults
    BY <1>4 DEF SkipAck, Gets
  <2>2. CASE bad + 1 < MessageLimit
    <3>1. UNCHANGED <<sent, written>> /\ Await("sender", m, {})
      BY <1>4, <2>2 DEF SkipAck
    <3> QED
      BY <1>0, <2>1, <3>1, AwaitGetsOn, OneReply, Counts
  <2>3. CASE ~(bad + 1 < MessageLimit)
    BY <1>0, <1>4, <2>1, <2>3, FailGetsOn DEF SkipAck
  <2> QED
    BY <2>2, <2>3
<1>5. CASE RejectAtSender(m)
  BY <1>0, <1>5, FailGetsOn DEF RejectAtSender, Gets
<1>6. CASE WriteBlock(m)
  <2>1. /\ pc["receiver"] = "waiting" /\ sent' = sent
        /\ \/ Return("receiver", m, {Ack(Wanted)}) /\ faults' = faults
           \/ Await("receiver", m, {Ack(Wanted)}) /\ faults' = faults
           \/ Break("receiver", m) /\ faults' = faults + 1
    BY <1>0, <1>6 DEF WriteBlock, Acknowledge, IsWanted, Gets
  <2>2. /\ Len(written') = Len(written) + 1 /\ sent' \in Int
        /\ Len(written') \in Int /\ Len(written') >= Len(written)
    BY <1>0, <1>6, <2>1, Written, WantedBlock, Counts DEF WriteBlock
  <2>3. CASE Return("receiver", m, {Ack(Wanted)}) /\ faults' = faults
    <3>1. AtMostOne({Ack(Wanted)})
      BY OneReply
    <3> QED
      BY <1>0, <2>1, <2>2, <2>3, <3>1, ReturnGetsOn
  <2>4. CASE Await("receiver", m, {Ack(Wanted)}) /\ faults' = faults
    <3>1. sent' + Len(written') >= sent + Len(written) + 1
      BY <2>1, <2>2, Counts
    <3>2. AtMostOne({Ack(Wanted)}) /\ {Ack(Wanted)} # {}
      BY OneReply
    <3> QED
      BY <1>0, <2>1, <2>2, <2>4, <3>1, <3>2, AwaitGetsOn
  <2>5. CASE Break("receiver", m) /\ faults' = faults + 1
    BY <1>0, <2>1, <2>2, <2>5, BreakGetsOn
  <2> QED
    BY <2>1, <2>3, <2>4, <2>5
<1>7. CASE WriteError(m)
  BY <1>0, <1>7, FailGetsOn DEF WriteError, IsWanted, Gets
<1>8. CASE SkipData(m)
  <2>1. /\ pc["receiver"] = "waiting" /\ Await("receiver", m, {})
        /\ UNCHANGED <<sent, written, faults>>
    BY <1>8 DEF SkipData, Gets
  <2>2. /\ sent' \in Int /\ Len(written') \in Int /\ faults' = faults
        /\ sent' + Len(written') >= sent + Len(written) + 0
    BY <2>1, Counts
  <2> QED
    BY <1>0, <2>1, <2>2, AwaitGetsOn, OneReply
<1>9. CASE RejectAtReceiver(m)
  BY <1>0, <1>9, FailGetsOn DEF RejectAtReceiver, Gets
<1> QED
  BY <1>1, <1>2, <1>3, <1>4, <1>5, <1>6, <1>7, <1>8, <1>9 DEF Deliver

(* A fault on the network adds one datagram at most.                       *)
LEMMA FaultGetsOn ==
  ASSUME FiniteInv, UNCHANGED <<pc, sent, written>>, faults' = faults + 1,
         NEW k, net' \subseteq net \cup {k}
  PROVE  GetsOn
<1>1. IsFiniteSet(net') /\ Cardinality(net') \in Nat /\ Cardinality(net') <= Cardinality(net) + 1
  BY OneMore DEF FiniteInv
<1>2. Waiting' = Waiting /\ sent' = sent /\ Len(written') = Len(written)
  BY DEF Waiting
<1>3. sent' \in Int /\ Len(written') \in Int /\ faults' \in Int /\ Done >= 1
  BY <1>2, Counts DEF Done
<1>4. Cardinality(net') < Cardinality(net) + 2 * 1
  BY <1>1, Counts
<1> QED
  BY <1>1, <1>3, <1>4, Descent

LEMMA NextGetsOn == FiniteInv /\ Next => GetsOn
<1> SUFFICES ASSUME FiniteInv, Next PROVE GetsOn
  OBVIOUS
<1>1. ASSUME NEW m \in net, Deliver(m)
      PROVE  GetsOn
  BY <1>1, DeliverGetsOn
<1>2. ASSUME NEW m \in net, Lose(m)
      PROVE  GetsOn
  BY <1>2, FaultGetsOn DEF Lose, Fault
<1>3. ASSUME NEW m \in net, Duplicate(m)
      PROVE  GetsOn
  BY <1>3, FaultGetsOn DEF Duplicate, Fault
<1>4. ASSUME NEW e \in Ends, Timeout(e)
      PROVE  GetsOn
  BY <1>4, FailGetsOn DEF Timeout
<1>5. CASE Cancel
  BY <1>5, FaultGetsOn DEF Cancel, Fault
<1> QED
  BY <1>1, <1>2, <1>3, <1>4, <1>5 DEF Next

-----------------------------------------------------------------------------
(* The theorems. *)

LEMMA TransferInvariant == Spec => []TransferInv
BY InitInv, NextInv, PTL DEF Spec

(* The variables of a transfer keep their types.                           *)
THEOREM TypeCorrect == Spec => []TypeOK
BY TransferInvariant, PTL DEF TransferInv

(* SendDataLoop and ReceiveDataLoop never drift apart, however often the   *)
(* block number wraps around and whatever the network does.                *)
THEOREM LoopsInLockstep == Spec => []Lockstep
BY TransferInvariant, PTL DEF TransferInv

(* The sender reports success only when the receiver has written every     *)
(* block of the file, each in its place.                                   *)
THEOREM SuccessIsWhole ==
  Spec => [](pc["sender"] = "done" =>
               Len(written) = Blocks /\ \A i \in 1 .. Blocks : written[i] = i)
<1>1. TransferInv => (pc["sender"] = "done" =>
        Len(written) = Blocks /\ \A i \in 1 .. Blocks : written[i] = i)
  BY DEF TransferInv, OutcomeInv
<1> QED
  BY <1>1, TransferInvariant, PTL

(* A transfer is a FileCopy: the receiver's file grows by the next block   *)
(* and by nothing else, the receiver reports success with the last block   *)
(* or, where it cannot acknowledge it, never, the sender only after the    *)
(* receiver has, and no end takes its outcome back.                        *)
THEOREM TransferIsCopy == Spec => CopySpec
<1>1. Init => Copy!Init
  BY CopyInit
<1>2. TransferInv /\ [Next]_vars => [Copy!Next]_<<written, pc>>
  BY NextCopies
<1> QED
  BY <1>1, <1>2, TransferInvariant, PTL DEF Spec, CopySpec, Copy!Spec

(* With no fault neither loop fails, however long the file and however     *)
(* often its block number has wrapped around.                              *)
THEOREM NoneFailsUndisturbed == Spec => []FailureHasCause
<1>1. Init => CauseInv
  BY CauseInit
<1>2. TransferInv /\ CauseInv /\ [Next]_vars => CauseInv'
  BY CauseNext
<1>3. CauseInv => FailureHasCause
  <2> SUFFICES ASSUME CauseInv, faults = 0, NEW e \in Ends
               PROVE  pc[e] # "failed"
    BY DEF FailureHasCause, NobodyFails
  <2>1. Undisturbed /\ e \in {"sender", "receiver"}
    BY DEF CauseInv, Ends
  <2> QED
    BY <2>1 DEF Undisturbed
<1> QED
  BY <1>1, <1>2, <1>3, TransferInvariant, PTL DEF Spec

(* No message, however often it is repeated or late, sets the loops        *)
(* answering each other without getting on: each step uses up something    *)
(* of which there is only so much, a natural number from the start.        *)
THEOREM StepsAreLimited == Spec => [](Remaining \in Nat) /\ EveryStepCounts
<1>1. Init => FiniteInv
  <2>1. \A a : IsFiniteSet({a})
    BY FS_Singleton
  <2>2. \A a, b : IsFiniteSet({a} \cup {b})
    BY <2>1, FS_AddElement
  <2>3. Init => \E a, b : net = {a} \cup {b}
    BY DEF Init
  <2> QED
    BY <2>2, <2>3, InitInv DEF FiniteInv
<1>2. FiniteInv /\ [Next]_vars => FiniteInv'
  <2> SUFFICES ASSUME FiniteInv, [Next]_vars PROVE FiniteInv'
    OBVIOUS
  <2>1. IsFiniteSet(net')
    BY NextGetsOn DEF FiniteInv, GetsOn, vars
  <2> QED
    BY <2>1, NextInv DEF FiniteInv
<1>3. FiniteInv /\ [Next]_vars => [Remaining' < Remaining]_vars
  BY NextGetsOn DEF GetsOn
<1>4. FiniteInv => Remaining \in Nat
  <2> SUFFICES ASSUME FiniteInv PROVE Remaining \in Nat
    OBVIOUS
  <2>1. /\ Blocks \in Nat /\ sent \in 1 .. Blocks /\ Len(written) <= Blocks
        /\ MaxFaults \in Nat /\ faults \in 0 .. MaxFaults
    BY TransferAssumption DEF FiniteInv, TransferInv, TypeOK
  <2>2. /\ Blocks - sent \in Nat /\ Blocks - Len(written) \in Nat
        /\ MaxFaults - faults \in Nat
    BY <2>1, Counts
  <2>3. Cardinality(Waiting) \in Nat /\ Cardinality(net) \in Nat
    BY Counts
  <2> QED
    BY <2>2, <2>3 DEF Remaining, Waiting
<1> QED
  BY <1>1, <1>2, <1>3, <1>4, PTL DEF Spec, EveryStepCounts
=============================================================================
