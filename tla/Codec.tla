------------------------------- MODULE Codec --------------------------------
(***************************************************************************)
(* The TFTP messages and their encoding (internal/bytes.go).               *)
(*                                                                         *)
(* A datagram is a sequence of items that know how many bytes they take: a *)
(* number of two bytes, a string with the null byte that ends it, or the   *)
(* bytes of a file.  strings.ToLower and the last element of a path are    *)
(* tables over the few texts that occur.                                   *)
(* Definitions named Wrong... are mistakes a property is to notice.        *)
(***************************************************************************)
EXTENDS Naturals, Sequences, FiniteSets, SequencesExt

CONSTANTS
  Lower,      \* strings.ToLower, of the keys and modes that occur
  Base        \* what filepath.Split leaves of the paths that occur

ASSUME CodecAssumption ==
  /\ \A t \in DOMAIN Lower : Lower[t] \in DOMAIN Lower /\ Lower[Lower[t]] = Lower[t]
  /\ \A p \in DOMAIN Base : Base[p] \in DOMAIN Base /\ Base[Base[p]] = Base[p]

-----------------------------------------------------------------------------
(* Messages.  Options is a map from keys to values; the nil map of a       *)
(* request without options is the empty one.                               *)

NoOptions == [k \in {} |-> ""]

Request(kind, path, mode, options) ==
  [kind |-> kind, name |-> Base[path], mode |-> mode, options |-> options]
Data(number, size)  == [kind |-> "DATA", number |-> number, size |-> size]
Ack(number)         == [kind |-> "ACK", number |-> number]
Error(code, text)   == [kind |-> "ERROR", code |-> code, text |-> text]
OptionAck(options)  == [kind |-> "OACK", options |-> options]

(* What BytesAsMessage returns an error instead of.                        *)
Invalid == [kind |-> "invalid"]

Kinds == <<"RRQ", "WRQ", "DATA", "ACK", "ERROR", "OACK">>
Opcode(kind) == CHOOSE i \in DOMAIN Kinds : Kinds[i] = kind

-----------------------------------------------------------------------------
(* Items. *)

Num(n)    == [is |-> "number", bytes |-> 2, value |-> n, text |-> "", ended |-> FALSE]
String(t) == [is |-> "string", bytes |-> Len(t) + 1, value |-> 0, text |-> t, ended |-> TRUE]
Body(n)   == [is |-> "body", bytes |-> n, value |-> n, text |-> "", ended |-> FALSE]

Size(w) ==
  LET upTo[i \in 0 .. Len(w)] == IF i = 0 THEN 0 ELSE upTo[i - 1] + w[i].bytes
  IN  upTo[Len(w)]

(* What ReadFromUDP puts into a buffer of n bytes, four or more, of a      *)
(* datagram that may be longer.                                            *)
Cut(w, n) ==
  IF Size(w) <= n THEN w
  ELSE LET fits == {k \in 0 .. Len(w) : Size(SubSeq(w, 1, k)) <= n}
           whole == CHOOSE k \in fits : \A j \in fits : j <= k
           room == n - Size(SubSeq(w, 1, whole))
       IN  SubSeq(w, 1, whole) \o
             (IF room = 0 THEN <<>>
              ELSE <<[is |-> w[whole + 1].is, bytes |-> room, value |-> room,
                     text |-> "", ended |-> FALSE]>>)

-----------------------------------------------------------------------------
(* MessageAsBytes: what a message may look like.  The range loop takes the *)
(* options in any order.                                                   *)

OptionFields(o) ==
  {[i \in 1 .. 2 * Len(keys) |->
      String(IF i % 2 = 1 THEN Lower[keys[(i + 1) \div 2]] ELSE o[keys[i \div 2]])] :
     keys \in SetToSeqs(DOMAIN o)}

Encodings(m) ==
  CASE m.kind \in {"RRQ", "WRQ"} ->
         {<<Num(Opcode(m.kind)), String(m.name), String(m.mode)>> \o o :
            o \in OptionFields(m.options)}
    [] m.kind = "OACK"  -> {<<Num(6)>> \o o : o \in OptionFields(m.options)}
    [] m.kind = "DATA"  -> {<<Num(3), Num(m.number), Body(m.size)>>}
    [] m.kind = "ACK"   -> {<<Num(4), Num(m.number)>>}
    [] m.kind = "ERROR" -> {<<Num(5), Num(m.code), String(m.text)>>}

-----------------------------------------------------------------------------
(* BytesAsMessage. *)

(* popNullString succeeds if the next item is a string that has ended; it  *)
(* returns io.EOF as well if nothing follows.                              *)
Pops(w) == w # <<>> /\ w[1].ended

(* bytesAsOptionMap: keys and values in turn, up to the end.  A key at the *)
(* very end is an error, a value there is not.  Of equal keys the last one *)
(* counts.                                                                 *)
WellFormed(w) == Len(w) % 2 = 0 /\ \A i \in DOMAIN w : w[i].ended

OptionMap(w) ==
  LET keys == {i \in DOMAIN w : i % 2 = 1}
      last(k) == CHOOSE i \in keys :
                   /\ Lower[w[i].text] = k
                   /\ \A j \in keys : Lower[w[j].text] = k => j <= i
  IN  [k \in {Lower[w[i].text] : i \in keys} |-> w[last(k) + 1].text]

(* Their minPossibleLen counts what follows the opcode.                    *)
ShortestString == 1 + 1 + 5 + 1
ShortestOptions == 1 + 1 + 1 + 1

DecodeRequest(kind, w) ==
  IF \/ Size(w) < ShortestString
     \/ ~Pops(w) \/ ~Pops(Tail(w)) \/ ~WellFormed(SubSeq(w, 3, Len(w)))
  THEN Invalid
  ELSE Request(kind, w[1].text, Lower[w[2].text], OptionMap(SubSeq(w, 3, Len(w))))

(* Takes the part of a string that has arrived for all of it.              *)
WrongDecodeError(w) ==
  IF Size(w) < ShortestString
  THEN Invalid ELSE Error(w[1].value, w[2].text)
DecodeError(w) ==
  IF Size(w) < ShortestString \/ ~Pops(Tail(w))
  THEN Invalid ELSE Error(w[1].value, w[2].text)

DecodeOptionAck(w) ==
  IF Size(w) < ShortestOptions \/ ~WellFormed(w)
  THEN Invalid ELSE OptionAck(OptionMap(w))

(* Of datagrams that Encodings describes, cut or not.                      *)
Decode(w) ==
  CASE w[1].value \in {1, 2} -> DecodeRequest(Kinds[w[1].value], Tail(w))
    [] w[1].value = 3 -> Data(w[2].value, w[3].bytes)
    [] w[1].value = 4 -> Ack(w[2].value)
    [] w[1].value = 5 -> DecodeError(Tail(w))
    [] w[1].value = 6 -> DecodeOptionAck(Tail(w))

(* What Decode is to make of a message: it lower-cases modes and keys.     *)
LowerCased(o) ==
  [k \in {Lower[j] : j \in DOMAIN o} |-> o[CHOOSE j \in DOMAIN o : Lower[j] = k]]

Canonical(m) ==
  CASE m.kind \in {"RRQ", "WRQ"} ->
         Request(m.kind, m.name, Lower[m.mode], LowerCased(m.options))
    [] m.kind = "OACK" -> OptionAck(LowerCased(m.options))
    [] OTHER -> m

-----------------------------------------------------------------------------
(* Messages that are worth sending.  Of options that can be told apart     *)
(* when they are read, no two keys differ only in case.                    *)
Writable(o) ==
  /\ IsFiniteSet(DOMAIN o) /\ DOMAIN o \subseteq DOMAIN Lower
  /\ \A j, k \in DOMAIN o : Lower[j] = Lower[k] => j = k

(* A text of n letters or more.                                            *)
Text(t, n) == Len(t) \in Nat /\ Len(t) >= n

(* The texts are as long as BytesAsMessage expects: the shortest mode has  *)
(* five letters, "octal", and so has the shortest reason; an OACK of one   *)
(* option says more than a key of one letter.                              *)
IsMessage(m) ==
  \/ /\ m.kind \in {"RRQ", "WRQ"} /\ Writable(m.options)
     /\ Text(m.mode, 5) /\ Text(m.name, IF m.name = "" THEN 0 ELSE 1)
     /\ \A k \in DOMAIN m.options : Text(Lower[k], 0) /\ Text(m.options[k], 0)
  \/ /\ m.kind = "OACK" /\ m = OptionAck(m.options) /\ Writable(m.options)
     /\ DOMAIN m.options # {}
     /\ \A k \in DOMAIN m.options : Text(Lower[k], 2) /\ Text(m.options[k], 0)
  \/ m.kind = "DATA" /\ m = Data(m.number, m.size) /\ m.size \in Nat
  \/ m.kind = "ACK" /\ m = Ack(m.number)
  \/ m.kind = "ERROR" /\ m = Error(m.code, m.text) /\ Text(m.text, 5)
=============================================================================
