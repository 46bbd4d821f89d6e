----------------------------- MODULE CodecProofs -----------------------------
(***************************************************************************)
(* What the encoding of a message keeps: whatever order the options of a   *)
(* message are written in, they are read as they were meant.               *)
(***************************************************************************)
EXTENDS Codec, FiniteSetTheorems, SequenceTheorems, WellFoundedInduction, TLAPS

-----------------------------------------------------------------------------
(* Natural numbers.  The induction theorems of the library take an         *)
(* operator, which no prover can instantiate; but finite sets are ordered  *)
(* by inclusion, and well so, and a number is as large as 1 .. n is.       *)

LEMMA LeastNumber ==
  ASSUME NEW T, T \subseteq Nat, T # {}
  PROVE  \E x \in T : \A y \in T : x <= y
<1> DEFINE R == StrictSubsetOrdering(Nat)
           I == {1 .. n : n \in T}
<1>1. IsWellFoundedOn(R, FiniteSubsetsOf(Nat))
  BY FS_StrictSubsetOrderingWellFounded
<1>2. I \subseteq FiniteSubsetsOf(Nat) /\ I # {}
  <2>1. \A n \in T : IsFiniteSet(1 .. n) /\ 1 .. n \subseteq Nat
    <3> TAKE n \in T
    <3>1. 1 \in Int /\ n \in Int
      OBVIOUS
    <3> QED
      BY <3>1, FS_Interval
  <2> QED
    BY <2>1 DEF FiniteSubsetsOf
<1> HIDE DEF R
<1>3. PICK s \in I : \A y \in I : ~(<<y, s>> \in R)
  <2> HIDE DEF I
  <2> QED
    BY <1>1, <1>2, WFMin
<1>4. PICK x \in T : s = 1 .. x
  BY <1>3
<1>5. ASSUME NEW y \in T, y < x
      PROVE  FALSE
  <2>1. 1 .. y \subseteq 1 .. x /\ x \in 1 .. x /\ x \notin 1 .. y
    BY <1>5
  <2>2. <<1 .. y, 1 .. x>> \in R
    BY <2>1 DEF R, StrictSubsetOrdering
  <2> QED
    BY <1>3, <1>4, <2>2
<1> QED
  BY <1>5

LEMMA GreatestNumber ==
  ASSUME NEW n \in Nat, NEW T, T \subseteq 0 .. n, T # {}
  PROVE  \E x \in T : \A y \in T : y <= x
<1> DEFINE D == {n - k : k \in T}
<1>1. D \subseteq Nat /\ D # {}
  OBVIOUS
<1>2. PICK d \in D : \A e \in D : d <= e
  <2> HIDE DEF D
  <2> QED
    BY <1>1, LeastNumber
<1>3. PICK x \in T : d = n - x
  BY <1>2
<1>4. ASSUME NEW y \in T
      PROVE  y <= x
  <2>1. n - x <= n - y
    BY <1>2, <1>3
  <2> QED
    BY <2>1
<1> QED
  BY <1>4

-----------------------------------------------------------------------------
(* Options. *)

(* The range loop visits every key once.                                   *)
LEMMA KeysOnce ==
  ASSUME NEW S, IsFiniteSet(S), NEW keys \in SetToSeqs(S)
  PROVE  /\ Len(keys) \in Nat /\ DOMAIN keys = 1 .. Len(keys)
         /\ \A j \in 1 .. Len(keys) : keys[j] \in S
         /\ \A i, j \in 1 .. Len(keys) : keys[i] = keys[j] => i = j
         /\ \A k \in S : \E j \in 1 .. Len(keys) : keys[j] = k
<1> DEFINE n == Cardinality(S)
<1>1. n \in Nat
  BY FS_CardinalityType
<1>2. /\ keys \in [1 .. n -> S]
      /\ \A i, j \in 1 .. n : i # j => keys[i] # keys[j]
  BY DEF SetToSeqs
<1>3. Len(keys) = n
  BY <1>1, <1>2
<1>4. keys \in Injection(1 .. n, S)
  BY <1>2 DEF Injection, IsInjective
<1>5. IsFiniteSet(1 .. n) /\ Cardinality(1 .. n) = n
  BY <1>1, FS_Interval
<1>6. keys \in Surjection(1 .. n, S)
  BY <1>4, <1>5, FS_Injection
<1> QED
  BY <1>1, <1>2, <1>3, <1>6 DEF Surjection

(* f names the n keys of o, each followed by its value.                    *)
Lists(f, o, n, keys) ==
  /\ n \in Nat
  /\ \A j \in 1 .. n : keys[j] \in DOMAIN o
  /\ \A i, j \in 1 .. n : keys[i] = keys[j] => i = j
  /\ \A k \in DOMAIN o : \E j \in 1 .. n : keys[j] = k
  /\ f \in [1 .. 2 * n -> {f[i] : i \in 1 .. 2 * n}]
  /\ \A i \in 1 .. 2 * n : f[i].ended
  /\ \A j \in 1 .. n : f[2 * j - 1] = String(Lower[keys[j]]) /\ f[2 * j] = String(o[keys[j]])

LEMMA FieldsOf ==
  ASSUME NEW o, IsFiniteSet(DOMAIN o), NEW f \in OptionFields(o)
  PROVE  \E n, keys : Lists(f, o, n, keys)
<1>1. PICK keys \in SetToSeqs(DOMAIN o) :
        f = [i \in 1 .. 2 * Len(keys) |->
               String(IF i % 2 = 1 THEN Lower[keys[(i + 1) \div 2]] ELSE o[keys[i \div 2]])]
  BY DEF OptionFields
<1> DEFINE n == Len(keys)
<1>2. /\ n \in Nat
      /\ \A j \in 1 .. n : keys[j] \in DOMAIN o
      /\ \A i, j \in 1 .. n : keys[i] = keys[j] => i = j
      /\ \A k \in DOMAIN o : \E j \in 1 .. n : keys[j] = k
  BY KeysOnce
<1> HIDE DEF n
<1>3. \A j \in 1 .. n :
        /\ 2 * j - 1 \in 1 .. 2 * n /\ 2 * j \in 1 .. 2 * n
        /\ (2 * j - 1) % 2 = 1 /\ (2 * j) % 2 # 1
        /\ ((2 * j - 1) + 1) \div 2 = j /\ (2 * j) \div 2 = j
  BY <1>2
<1>4. f = [i \in 1 .. 2 * n |->
             String(IF i % 2 = 1 THEN Lower[keys[(i + 1) \div 2]] ELSE o[keys[i \div 2]])]
  BY <1>1 DEF n
<1>5. \A j \in 1 .. n : f[2 * j - 1] = String(Lower[keys[j]]) /\ f[2 * j] = String(o[keys[j]])
  BY <1>3, <1>4
<1>6. \A i \in 1 .. 2 * n : f[i].ended
  BY <1>4 DEF String
<1>7. f \in [1 .. 2 * n -> {f[i] : i \in 1 .. 2 * n}]
  BY <1>4
<1>8. Lists(f, o, n, keys)
  BY <1>2, <1>5, <1>6, <1>7 DEF Lists
<1> QED
  BY <1>8

(* Written in any order, the options are read as they were meant.          *)
LEMMA OptionsRead ==
  ASSUME NEW o, Writable(o), NEW f \in OptionFields(o)
  PROVE  WellFormed(f) /\ OptionMap(f) = LowerCased(o)
<1>1. PICK n, keys : Lists(f, o, n, keys)
  BY FieldsOf DEF Writable
<1>2. /\ n \in Nat /\ DOMAIN f = 1 .. 2 * n /\ Len(f) = 2 * n
      /\ \A i \in DOMAIN f : f[i].ended
  BY <1>1 DEF Lists
<1>3. WellFormed(f)
  BY <1>2 DEF WellFormed
<1> DEFINE places == {i \in DOMAIN f : i % 2 = 1}
           last(k) == CHOOSE i \in places :
                        /\ Lower[f[i].text] = k
                        /\ \A j \in places : Lower[f[j].text] = k => j <= i
<1>4. \A i \in places : \E j \in 1 .. n : i = 2 * j - 1
  <2>1. \A i \in 1 .. 2 * n : i % 2 = 1 => (i + 1) \div 2 \in 1 .. n /\ i = 2 * ((i + 1) \div 2) - 1
    BY <1>2
  <2> QED
    BY <1>2, <2>1
<1>5. \A j \in 1 .. n :
        /\ 2 * j - 1 \in places /\ 2 * j = (2 * j - 1) + 1
        /\ f[2 * j - 1].text = Lower[keys[j]] /\ f[2 * j].text = o[keys[j]]
        /\ keys[j] \in DOMAIN o /\ Lower[Lower[keys[j]]] = Lower[keys[j]]
  <2> SUFFICES ASSUME NEW j \in 1 .. n
               PROVE  /\ 2 * j - 1 \in places /\ 2 * j = (2 * j - 1) + 1
                      /\ f[2 * j - 1].text = Lower[keys[j]] /\ f[2 * j].text = o[keys[j]]
                      /\ keys[j] \in DOMAIN o /\ Lower[Lower[keys[j]]] = Lower[keys[j]]
    OBVIOUS
  <2>1. 2 * j - 1 \in 1 .. 2 * n /\ (2 * j - 1) % 2 = 1 /\ 2 * j = (2 * j - 1) + 1
    BY <1>2
  <2>2. f[2 * j - 1] = String(Lower[keys[j]]) /\ f[2 * j] = String(o[keys[j]])
    BY <1>1 DEF Lists
  <2>3. keys[j] \in DOMAIN o /\ keys[j] \in DOMAIN Lower
    BY <1>1 DEF Lists, Writable
  <2> QED
    BY <1>2, <2>1, <2>2, <2>3, CodecAssumption DEF String
<1> HIDE DEF places
<1>6. {Lower[f[i].text] : i \in places} = {Lower[k] : k \in DOMAIN o}
  <2>1. \A i \in places : \E k \in DOMAIN o : Lower[f[i].text] = Lower[k]
    BY <1>4, <1>5
  <2>2. \A k \in DOMAIN o : \E i \in places : Lower[f[i].text] = Lower[k]
    <3> SUFFICES ASSUME NEW k \in DOMAIN o
                 PROVE  \E i \in places : Lower[f[i].text] = Lower[k]
      OBVIOUS
    <3>1. PICK j \in 1 .. n : keys[j] = k
      BY <1>1 DEF Lists
    <3> QED
      BY <1>5, <3>1
  <2> QED
    BY <2>1, <2>2
<1>7. ASSUME NEW j \in 1 .. n
      PROVE  /\ last(Lower[keys[j]]) = 2 * j - 1
             /\ LowerCased(o)[Lower[keys[j]]] = o[keys[j]]
  <2>1. \A i \in places : Lower[f[i].text] = Lower[keys[j]] => i = 2 * j - 1
    <3> SUFFICES ASSUME NEW i \in places, Lower[f[i].text] = Lower[keys[j]]
                 PROVE  i = 2 * j - 1
      OBVIOUS
    <3>1. PICK l \in 1 .. n : i = 2 * l - 1
      BY <1>4
    <3>2. Lower[keys[l]] = Lower[keys[j]] /\ keys[l] \in DOMAIN o /\ keys[j] \in DOMAIN o
      BY <1>5, <3>1
    <3>3. l = j
      BY <1>1, <3>2 DEF Lists, Writable
    <3> QED
      BY <3>1, <3>3
  <2>2. 2 * j - 1 \in places /\ Lower[f[2 * j - 1].text] = Lower[keys[j]]
    BY <1>5
  <2>3. 2 * j - 1 <= 2 * j - 1
    BY <1>2
  <2>4. last(Lower[keys[j]]) = 2 * j - 1
    BY <2>1, <2>2, <2>3
  <2>5. \A k \in DOMAIN o : Lower[k] = Lower[keys[j]] => k = keys[j]
    BY <1>5 DEF Writable
  <2>6. LowerCased(o)[Lower[keys[j]]] = o[keys[j]]
    BY <1>5, <2>5 DEF LowerCased
  <2> QED
    BY <2>4, <2>6
<1>8. OptionMap(f) = [k \in {Lower[f[i].text] : i \in places} |-> f[last(k) + 1].text]
  BY DEF OptionMap, places
<1> HIDE DEF last
<1>9. \A k \in {Lower[j] : j \in DOMAIN o} : f[last(k) + 1].text = LowerCased(o)[k]
  <2> SUFFICES ASSUME NEW c \in DOMAIN o
               PROVE  f[last(Lower[c]) + 1].text = LowerCased(o)[Lower[c]]
    OBVIOUS
  <2>1. PICK j \in 1 .. n : keys[j] = c
    BY <1>1 DEF Lists
  <2> QED
    BY <1>5, <1>7, <2>1
<1>10. LowerCased(o) = [k \in {Lower[j] : j \in DOMAIN o} |-> LowerCased(o)[k]]
  BY DEF LowerCased
<1>11. OptionMap(f) = LowerCased(o)
  BY <1>6, <1>8, <1>9, <1>10
<1> QED
  BY <1>3, <1>11

LEMMA FieldsSeq ==
  ASSUME NEW o, IsFiniteSet(DOMAIN o), NEW f \in OptionFields(o)
  PROVE  f \in Seq({f[i] : i \in DOMAIN f})
<1>1. PICK n, keys : Lists(f, o, n, keys)
  BY FieldsOf
<1>2. n \in Nat /\ 2 * n \in Nat /\ f \in [1 .. 2 * n -> {f[i] : i \in 1 .. 2 * n}]
  BY <1>1 DEF Lists
<1> QED
  BY <1>2, SeqDef

(* Keys in lower case stay as they are.                                    *)
Lowered(o) ==
  /\ IsFiniteSet(DOMAIN o) /\ DOMAIN o \subseteq DOMAIN Lower
  /\ \A k \in DOMAIN o : Lower[k] = k
  /\ o = [k \in DOMAIN o |-> o[k]]

LEMMA LoweredTwice ==
  ASSUME NEW o, Lowered(o)
  PROVE  Writable(o) /\ LowerCased(o) = o
<1>1. Writable(o)
  BY DEF Writable, Lowered
<1>2. {Lower[k] : k \in DOMAIN o} = DOMAIN o
  BY DEF Lowered
<1>3. \A k \in DOMAIN o : (CHOOSE j \in DOMAIN o : Lower[j] = k) = k
  BY DEF Lowered
<1>4. LowerCased(o) = [k \in DOMAIN o |-> o[k]]
  BY <1>2, <1>3 DEF LowerCased
<1> QED
  BY <1>1, <1>4 DEF Lowered

LEMMA LowerCasedLowered ==
  ASSUME NEW o, Writable(o)
  PROVE  Lowered(LowerCased(o))
<1> DEFINE L == LowerCased(o)
<1>1. DOMAIN L = {Lower[j] : j \in DOMAIN o} /\ L = [k \in DOMAIN L |-> L[k]]
  BY DEF LowerCased
<1>2. IsFiniteSet({Lower[j] : j \in DOMAIN o})
  <2> DEFINE T == {Lower[j] : j \in DOMAIN o}
             g == [j \in DOMAIN o |-> Lower[j]]
  <2>1. g \in Surjection(DOMAIN o, T)
    BY DEF Surjection
  <2> QED
    BY <2>1, FS_Surjection DEF Writable
<1>3. \A j \in DOMAIN o : Lower[j] \in DOMAIN Lower /\ Lower[Lower[j]] = Lower[j]
  BY CodecAssumption DEF Writable
<1> QED
  BY <1>1, <1>2, <1>3 DEF Lowered

-----------------------------------------------------------------------------
(* BytesAsMessage goes by the opcode. *)

LEMMA NumValue ==
  ASSUME NEW w, NEW n, w[1] = Num(n)
  PROVE  w[1].value = n
<1>1. Num(n).value = n
  BY DEF Num
<1> QED
  BY <1>1

LEMMA DecodeOpcodes ==
  ASSUME NEW w
  PROVE  /\ w[1].value \in {1, 2} => Decode(w) = DecodeRequest(Kinds[w[1].value], Tail(w))
         /\ w[1].value = 3 => Decode(w) = Data(w[2].value, w[3].bytes)
         /\ w[1].value = 4 => Decode(w) = Ack(w[2].value)
         /\ w[1].value = 5 => Decode(w) = DecodeError(Tail(w))
         /\ w[1].value = 6 => Decode(w) = DecodeOptionAck(Tail(w))
<1>1. w[1].value \in {1, 2} =>
        w[1].value # 3 /\ w[1].value # 4 /\ w[1].value # 5 /\ w[1].value # 6
  OBVIOUS
<1>2. w[1].value = 3 => w[1].value \notin {1, 2} /\ w[1].value \notin {4, 5, 6}
  OBVIOUS
<1>3. w[1].value = 4 => w[1].value \notin {1, 2} /\ w[1].value \notin {3, 5, 6}
  OBVIOUS
<1>4. w[1].value = 5 => w[1].value \notin {1, 2} /\ w[1].value \notin {3, 4, 6}
  OBVIOUS
<1>5. w[1].value = 6 => w[1].value \notin {1, 2} /\ w[1].value \notin {3, 4, 5}
  OBVIOUS
<1>6. w[1].value \in {1, 2} => Decode(w) = DecodeRequest(Kinds[w[1].value], Tail(w))
  BY <1>1 DEF Decode
<1>7. w[1].value = 3 => Decode(w) = Data(w[2].value, w[3].bytes)
  BY <1>2 DEF Decode
<1>8. w[1].value = 4 => Decode(w) = Ack(w[2].value)
  BY <1>3 DEF Decode
<1>9. w[1].value = 5 => Decode(w) = DecodeError(Tail(w))
  BY <1>4 DEF Decode
<1>10. w[1].value = 6 => Decode(w) = DecodeOptionAck(Tail(w))
  BY <1>5 DEF Decode
<1> QED
  BY <1>6, <1>7, <1>8, <1>9, <1>10

-----------------------------------------------------------------------------
(* Messages with options. *)

LEMMA OptionAckForm ==
  ASSUME NEW o, IsFiniteSet(DOMAIN o), NEW f \in OptionFields(o),
         NEW w, w = <<Num(6)>> \o f
  PROVE  w[1] = Num(6) /\ Tail(w) = f
<1> DEFINE S == {f[i] : i \in DOMAIN f} \cup {Num(6)}
<1>1. f \in Seq({f[i] : i \in DOMAIN f})
  BY FieldsSeq
<1>2. f \in Seq(S)
  BY <1>1, SeqMonotonic
<1>3. <<Num(6)>> \in Seq(S)
  OBVIOUS
<1> HIDE DEF S
<1> QED
  BY <1>2, <1>3

LEMMA OptionAckRead ==
  ASSUME NEW o, Writable(o), NEW w \in Encodings(OptionAck(o))
  PROVE  Decode(w) = IF Size(Tail(w)) < ShortestOptions THEN Invalid
                     ELSE OptionAck(LowerCased(o))
<1>1. PICK f \in OptionFields(o) : w = <<Num(6)>> \o f
  BY DEF Encodings, OptionAck
<1>2. w[1] = Num(6) /\ Tail(w) = f
  BY <1>1, OptionAckForm DEF Writable
<1>3. w[1].value = 6
  BY <1>2, NumValue
<1>4. Decode(w) = DecodeOptionAck(f)
  BY <1>2, <1>3, DecodeOpcodes
<1> QED
  BY <1>2, <1>4, OptionsRead DEF DecodeOptionAck

Asking == {"RRQ", "WRQ"}

LEMMA RequestForm ==
  ASSUME NEW m, m.kind \in Asking, Writable(m.options), NEW w \in Encodings(m)
  PROVE  \E f \in OptionFields(m.options) :
           /\ w[1] = Num(Opcode(m.kind)) /\ Opcode(m.kind) \in {1, 2}
           /\ Kinds[Opcode(m.kind)] = m.kind
           /\ Len(f) \in Nat /\ Len(Tail(w)) = Len(f) + 2
           /\ Tail(w)[1] = String(m.name) /\ Tail(w)[2] = String(m.mode)
           /\ \A i \in 3 .. Len(Tail(w)) : Tail(w)[i] = f[i - 2]
           /\ SubSeq(Tail(w), 3, Len(Tail(w))) = f
           /\ Tail(w) \in Seq({Tail(w)[i] : i \in 1 .. Len(Tail(w))})
<1>1. PICK f \in OptionFields(m.options) :
        w = <<Num(Opcode(m.kind)), String(m.name), String(m.mode)>> \o f
  BY DEF Encodings, Asking
<1> DEFINE h == <<Num(Opcode(m.kind)), String(m.name), String(m.mode)>>
           S == {f[i] : i \in DOMAIN f} \cup {h[1], h[2], h[3]}
<1>2. f \in Seq(S) /\ h \in Seq(S)
  <2>1. f \in Seq({f[i] : i \in DOMAIN f})
    BY FieldsSeq DEF Writable
  <2>2. f \in Seq(S)
    BY <2>1, SeqMonotonic
  <2> QED
    BY <2>2
<1>3. Kinds[Opcode(m.kind)] = m.kind /\ Opcode(m.kind) \in {1, 2}
  BY DEF Kinds, Opcode, Asking
<1> DEFINE t == Tail(w)
<1>4. /\ w[1] = h[1] /\ Len(f) \in Nat /\ Len(t) = Len(f) + 2
      /\ t[1] = h[2] /\ t[2] = h[3]
      /\ \A i \in 3 .. Len(t) : t[i] = f[i - 2]
      /\ SubSeq(t, 3, Len(t)) = f /\ t \in Seq({t[i] : i \in 1 .. Len(t)})
  <2>1. /\ Len(h) = 3 /\ Len(f) \in Nat
        /\ w \in Seq(S) /\ Len(w) = 3 + Len(f)
        /\ \A i \in 1 .. 3 + Len(f) : w[i] = IF i <= 3 THEN h[i] ELSE f[i - 3]
    BY <1>1, <1>2, ConcatProperties, LenProperties
  <2> HIDE DEF h, S
  <2>2. w[1] = h[1] /\ w # <<>>
    BY <2>1
  <2>3. /\ t \in Seq(S) /\ Len(t) = Len(f) + 2
        /\ \A i \in 1 .. Len(t) : t[i] = w[i + 1]
    BY <2>1, <2>2, HeadTailProperties
  <2>4. \A i \in 3 .. Len(t) : t[i] = f[i - 2]
    BY <2>1, <2>3
  <2>5. \A i \in 3 .. Len(t) : t[i] \in S
    BY <2>1, <2>3, LenProperties
  <2>6. /\ SubSeq(t, 3, Len(t)) \in Seq(S)
        /\ Len(SubSeq(t, 3, Len(t))) = Len(f)
        /\ \A i \in 1 .. Len(f) : SubSeq(t, 3, Len(t))[i] = t[i + 2]
    BY <2>1, <2>3, <2>5, SubSeqProperties
  <2>7. \A i \in 1 .. Len(f) : SubSeq(t, 3, Len(t))[i] = f[i]
    BY <2>1, <2>3, <2>4, <2>6
  <2>8. SubSeq(t, 3, Len(t)) = f
    BY <1>2, <2>6, <2>7, SeqEqual
  <2>9. t[1] = h[2] /\ t[2] = h[3]
    <3>1. t[1] = w[2] /\ t[2] = w[3]
      BY <2>1, <2>3
    <3>2. w[2] = h[2] /\ w[3] = h[3]
      BY <2>1
    <3> QED
      BY <3>1, <3>2
  <2>10. t \in Seq({t[i] : i \in 1 .. Len(t)})
    <3>1. t \in [1 .. Len(t) -> S] /\ Len(t) \in Nat
      BY <2>1, <2>3, LenProperties
    <3>2. t \in [1 .. Len(t) -> {t[i] : i \in 1 .. Len(t)}]
      BY <3>1
    <3> QED
      BY <3>1, <3>2, SeqDef
  <2> QED
    BY <2>1, <2>2, <2>3, <2>4, <2>8, <2>9, <2>10
<1>5. t[1] = String(m.name) /\ t[2] = String(m.mode)
  <2>1. h[2] = String(m.name) /\ h[3] = String(m.mode)
    OBVIOUS
  <2> QED
    BY <1>4, <2>1
<1>6. w[1] = Num(Opcode(m.kind))
  BY <1>4
<1> QED
  BY <1>3, <1>4, <1>5, <1>6

LEMMA RequestParsed ==
  ASSUME NEW m, m.kind \in Asking, Writable(m.options), NEW w \in Encodings(m)
  PROVE  /\ Canonical(m).kind = m.kind
         /\ Canonical(m).options = LowerCased(m.options)
         /\ Decode(w) = IF Size(Tail(w)) < ShortestString THEN Invalid ELSE Canonical(m)
<1> DEFINE t == Tail(w)
<1>1. PICK f \in OptionFields(m.options) :
        /\ w[1] = Num(Opcode(m.kind)) /\ Opcode(m.kind) \in {1, 2}
        /\ Kinds[Opcode(m.kind)] = m.kind
        /\ Len(f) \in Nat /\ Len(t) = Len(f) + 2
        /\ t[1] = String(m.name) /\ t[2] = String(m.mode)
        /\ SubSeq(t, 3, Len(t)) = f /\ t \in Seq({t[i] : i \in 1 .. Len(t)})
  BY RequestForm
<1>2. w[1].value = Opcode(m.kind)
  BY <1>1, NumValue
<1>3. Decode(w) = DecodeRequest(m.kind, t)
  BY <1>1, <1>2, DecodeOpcodes
<1>4. Canonical(m) = Request(m.kind, m.name, Lower[m.mode], LowerCased(m.options))
  BY DEF Canonical, Asking
<1>5. Pops(t) /\ Pops(Tail(t))
  <2>1. \A x : String(x).ended = TRUE
    BY DEF String
  <2>2. t[1].ended /\ t[2].ended
    BY <1>1, <2>1
  <2>3. t # <<>> /\ 1 \in 1 .. Len(t) - 1
    BY <1>1
  <2> HIDE DEF t
  <2>4. PICK u \in {Tail(t)} : Len(u) = Len(t) - 1 /\ \A i \in 1 .. Len(u) : u[i] = t[i + 1]
    BY <1>1, <2>3, HeadTailProperties
  <2>5. 1 \in 1 .. Len(u) /\ 1 + 1 = 2
    BY <2>3, <2>4
  <2>6. u[1] = t[2] /\ u # <<>>
    BY <2>4, <2>5
  <2> QED
    BY <2>2, <2>3, <2>6 DEF Pops
<1>6. \A x : String(x).text = x
  BY DEF String
<1>7. t[1].text = m.name /\ t[2].text = m.mode
  BY <1>1, <1>6
<1>8. DecodeRequest(m.kind, t) =
        IF Size(t) < ShortestString THEN Invalid
        ELSE Request(m.kind, m.name, Lower[m.mode], OptionMap(f))
  BY <1>1, <1>5, <1>7, OptionsRead DEF DecodeRequest
<1>9. Canonical(m).kind = m.kind /\ Canonical(m).options = LowerCased(m.options)
  BY <1>4 DEF Request
<1> QED
  BY <1>1, <1>3, <1>4, <1>8, <1>9, OptionsRead

(* BytesAsMessage undoes MessageAsBytes for a request: in whatever order   *)
(* the range loop has written its options, what is read, if it parses, has *)
(* the same operation and the same options, with their keys in lower case. *)
THEOREM RequestRead ==
  ASSUME NEW m, m.kind \in Asking, Writable(m.options), NEW w \in Encodings(m),
         Decode(w) # Invalid
  PROVE  /\ Decode(w).kind = m.kind
         /\ Decode(w).options = LowerCased(m.options)
BY RequestParsed

-----------------------------------------------------------------------------
(* How long a datagram is. *)

Sums(w, f) ==
  f = [i \in 0 .. Len(w) |-> IF i = 0 THEN 0 ELSE f[i - 1] + w[i].bytes]

LEMMA SizeIsASum ==
  ASSUME NEW w, NEW g, Sums(w, g)
  PROVE  \E f : Sums(w, f) /\ Size(w) = f[Len(w)]
<1> DEFINE f == CHOOSE h : Sums(w, h)
<1>1. Sums(w, f)
  OBVIOUS
<1>2. Size(w) = f[Len(w)]
  BY DEF Size, Sums
<1> QED
  BY <1>1, <1>2

LEMMA SizeOfOne ==
  ASSUME NEW w, Len(w) = 1, w[1].bytes \in Nat
  PROVE  Size(w) = w[1].bytes
<1> DEFINE g == [i \in 0 .. 1 |-> IF i = 0 THEN 0 ELSE w[1].bytes]
<1>1. Sums(w, g)
  BY DEF Sums
<1> HIDE DEF g
<1>2. PICK f : Sums(w, f) /\ Size(w) = f[1]
  BY <1>1, SizeIsASum
<1>3. f[0] = 0 /\ f[1] = f[0] + w[1].bytes
  BY <1>2 DEF Sums
<1> QED
  BY <1>2, <1>3

LEMMA SizeOfTwo ==
  ASSUME NEW w, Len(w) = 2, w[1].bytes \in Nat, w[2].bytes \in Nat
  PROVE  Size(w) = w[1].bytes + w[2].bytes
<1> DEFINE g == [i \in 0 .. 2 |->
                   IF i = 0 THEN 0
                   ELSE IF i = 1 THEN w[1].bytes ELSE w[1].bytes + w[2].bytes]
<1>1. Sums(w, g)
  BY DEF Sums
<1> HIDE DEF g
<1>2. PICK f : Sums(w, f) /\ Size(w) = f[2]
  BY <1>1, SizeIsASum
<1>3. f[0] = 0 /\ f[1] = f[0] + w[1].bytes /\ f[2] = f[1] + w[2].bytes
  BY <1>2 DEF Sums
<1> QED
  BY <1>2, <1>3

LEMMA SizeOfThree ==
  ASSUME NEW w, Len(w) = 3,
         w[1].bytes \in Nat, w[2].bytes \in Nat, w[3].bytes \in Nat
  PROVE  Size(w) = w[1].bytes + w[2].bytes + w[3].bytes
<1> DEFINE g == [i \in 0 .. 3 |->
                   IF i = 0 THEN 0
                   ELSE IF i = 1 THEN w[1].bytes
                   ELSE IF i = 2 THEN w[1].bytes + w[2].bytes
                   ELSE w[1].bytes + w[2].bytes + w[3].bytes]
<1>1. Sums(w, g)
  BY DEF Sums
<1> HIDE DEF g
<1>2. PICK f : Sums(w, f) /\ Size(w) = f[3]
  BY <1>1, SizeIsASum
<1>3. /\ f[0] = 0 /\ f[1] = f[0] + w[1].bytes
      /\ f[2] = f[1] + w[2].bytes /\ f[3] = f[2] + w[3].bytes
  BY <1>2 DEF Sums
<1> QED
  BY <1>2, <1>3

(* Items of any number have a size: there is no first prefix without one.  *)
Sized(w) == Len(w) \in Nat /\ \A i \in 1 .. Len(w) : w[i].bytes \in Nat

LEMMA SumsExist ==
  ASSUME NEW w, Sized(w)
  PROVE  \E g : Sums(w, g)
<1> DEFINE UpTo(k, g) == /\ g \in [0 .. k -> Nat] /\ g[0] = 0
                         /\ \A i \in 1 .. k : g[i] = g[i - 1] + w[i].bytes
           T == {k \in 0 .. Len(w) : ~ \E g : UpTo(k, g)}
<1>0. Len(w) \in Nat /\ \A i \in 1 .. Len(w) : w[i].bytes \in Nat
  BY DEF Sized
<1>1. ASSUME T # {}
      PROVE  FALSE
  <2>1. PICK x \in T : \A y \in T : x <= y
    <3>1. T \subseteq Nat
      BY <1>0
    <3> HIDE DEF T
    <3> QED
      BY <1>1, <3>1, LeastNumber
  <2>2. x # 0
    <3> DEFINE none == [i \in 0 .. 0 |-> 0]
    <3>1. UpTo(0, none)
      OBVIOUS
    <3> HIDE DEF UpTo
    <3> QED
      BY <2>1, <3>1
  <2>3. x \in 1 .. Len(w) /\ x - 1 \in 0 .. Len(w) /\ ~(x <= x - 1)
    BY <1>0, <2>1, <2>2
  <2>4. PICK g : UpTo(x - 1, g)
    BY <2>1, <2>3
  <2> DEFINE h == [i \in 0 .. x |-> IF i = x THEN g[x - 1] + w[x].bytes ELSE g[i]]
  <2>5. UpTo(x, h)
    <3>1. \A i \in 0 .. x : i # x => i \in 0 .. x - 1
      BY <2>3
    <3>2. x - 1 \in 0 .. x - 1 /\ w[x].bytes \in Nat
      BY <1>0, <2>3
    <3>3. h \in [0 .. x -> Nat] /\ h[0] = 0
      BY <2>2, <2>3, <2>4, <3>1, <3>2
    <3>4. ASSUME NEW i \in 1 .. x
          PROVE  h[i] = h[i - 1] + w[i].bytes
      <4>1. i - 1 \in 0 .. x /\ i - 1 # x /\ i \in 0 .. x
        BY <2>3
      <4>2. CASE i = x
        BY <2>3, <4>1, <4>2
      <4>3. CASE i # x
        <5>1. i \in 1 .. x - 1
          BY <2>3, <4>3
        <5> QED
          BY <2>4, <4>1, <4>3, <5>1
      <4> QED
        BY <4>2, <4>3
    <3> QED
      BY <3>3, <3>4
  <2> HIDE DEF UpTo, h
  <2> QED
    BY <2>1, <2>5
<1>2. PICK g : UpTo(Len(w), g)
  <2>1. Len(w) \in 0 .. Len(w) /\ T = {}
    BY <1>0, <1>1
  <2> HIDE DEF UpTo
  <2> QED
    BY <2>1
<1>3. g = [i \in 0 .. Len(w) |-> IF i = 0 THEN 0 ELSE g[i - 1] + w[i].bytes]
  <2>1. \A i \in 0 .. Len(w) : i # 0 => i \in 1 .. Len(w)
    BY <1>0
  <2> QED
    BY <1>2, <2>1
<1> QED
  BY <1>3 DEF Sums

(* The first items are part of the size.                                   *)
LEMMA SizeOfMany ==
  ASSUME NEW w, Sized(w), Len(w) >= 2
  PROVE  Size(w) \in Nat /\ Size(w) >= w[1].bytes + w[2].bytes
<1>0. Len(w) \in Nat /\ \A i \in 1 .. Len(w) : w[i].bytes \in Nat
  BY DEF Sized
<1>1. PICK f : Sums(w, f) /\ Size(w) = f[Len(w)]
  BY SumsExist, SizeIsASum
<1>2. f[0] = 0 /\ \A i \in 1 .. Len(w) : f[i] = f[i - 1] + w[i].bytes
  <2>1. \A i \in 1 .. Len(w) : i \in 0 .. Len(w) /\ i # 0
    BY <1>0
  <2> QED
    BY <1>0, <1>1, <2>1 DEF Sums
<1>3. f[2] \in Nat /\ f[2] = w[1].bytes + w[2].bytes
  <2>1. w[1].bytes \in Nat /\ w[2].bytes \in Nat
    BY <1>0
  <2>2. f[1] = f[0] + w[1].bytes /\ f[2] = f[1] + w[2].bytes
    BY <1>0, <1>2
  <2> QED
    BY <1>2, <2>1, <2>2
<1> DEFINE T == {i \in 2 .. Len(w) : ~(f[i] \in Nat /\ f[i] >= f[2])}
<1>4. ASSUME T # {}
      PROVE  FALSE
  <2>1. PICK x \in T : \A y \in T : x <= y
    <3>1. T \subseteq Nat
      BY <1>0
    <3> HIDE DEF T
    <3> QED
      BY <1>4, <3>1, LeastNumber
  <2>2. x # 2
    BY <1>3, <2>1
  <2>3. x - 1 \in 2 .. Len(w) /\ x \in 1 .. Len(w) /\ ~(x <= x - 1)
    BY <1>0, <2>1, <2>2
  <2>4. f[x - 1] \in Nat /\ f[x - 1] >= f[2]
    BY <2>1, <2>3
  <2>5. f[x] = f[x - 1] + w[x].bytes /\ w[x].bytes \in Nat
    BY <1>0, <1>2, <2>3
  <2>6. f[x] \in Nat /\ f[x] >= f[2]
    BY <1>3, <2>4, <2>5
  <2> QED
    BY <2>1, <2>6
<1>5. f[Len(w)] \in Nat /\ f[Len(w)] >= f[2]
  BY <1>0, <1>4
<1> QED
  BY <1>1, <1>3, <1>5

-----------------------------------------------------------------------------
(* How long the texts of a message make it. *)

LEMMA StringBytes ==
  ASSUME NEW t, NEW n \in Nat, Text(t, n)
  PROVE  String(t).bytes \in Nat /\ String(t).bytes >= n + 1
<1>1. Len(t) \in Nat /\ Len(t) >= n
  BY DEF Text
<1>2. String(t).bytes = Len(t) + 1
  BY DEF String
<1> QED
  BY <1>1, <1>2

LEMMA FieldsSized ==
  ASSUME NEW o, IsFiniteSet(DOMAIN o), NEW n \in Nat,
         \A k \in DOMAIN o : Text(Lower[k], n) /\ Text(o[k], 0),
         NEW f \in OptionFields(o)
  PROVE  /\ Sized(f)
         /\ DOMAIN o # {} => Len(f) >= 2 /\ f[1].bytes + f[2].bytes >= n + 2
<1>1. PICK c, keys : Lists(f, o, c, keys)
  BY FieldsOf
<1>2. c \in Nat /\ Len(f) = 2 * c
  BY <1>1 DEF Lists
<1>3. ASSUME NEW j \in 1 .. c
      PROVE  /\ f[2 * j - 1].bytes \in Nat /\ f[2 * j - 1].bytes >= n + 1
             /\ f[2 * j].bytes \in Nat /\ f[2 * j].bytes >= 1
  <2>1. /\ f[2 * j - 1] = String(Lower[keys[j]]) /\ f[2 * j] = String(o[keys[j]])
        /\ keys[j] \in DOMAIN o
    BY <1>1 DEF Lists
  <2>2. Text(Lower[keys[j]], n) /\ Text(o[keys[j]], 0)
    BY <2>1
  <2>3. String(Lower[keys[j]]).bytes \in Nat /\ String(Lower[keys[j]]).bytes >= n + 1
    BY <2>2, StringBytes
  <2>4. String(o[keys[j]]).bytes \in Nat /\ String(o[keys[j]]).bytes >= 0 + 1
    BY <2>2, StringBytes
  <2> QED
    BY <2>1, <2>3, <2>4
<1>4. \A i \in 1 .. 2 * c : \E j \in 1 .. c : i = 2 * j - 1 \/ i = 2 * j
  <2> SUFFICES ASSUME NEW i \in 1 .. 2 * c
               PROVE  \E j \in 1 .. c : i = 2 * j - 1 \/ i = 2 * j
    OBVIOUS
  <2>1. (i + 1) \div 2 \in 1 .. c
        /\ (i = 2 * ((i + 1) \div 2) - 1 \/ i = 2 * ((i + 1) \div 2))
    BY <1>2
  <2> QED
    BY <2>1
<1>5. Sized(f)
  <2>1. ASSUME NEW i \in 1 .. 2 * c
        PROVE  f[i].bytes \in Nat
    <3>1. PICK j \in 1 .. c : i = 2 * j - 1 \/ i = 2 * j
      BY <1>4
    <3>2. f[2 * j - 1].bytes \in Nat /\ f[2 * j].bytes \in Nat
      BY <1>3
    <3> QED
      BY <3>1, <3>2
  <2>2. 2 * c \in Nat
    BY <1>2
  <2> QED
    BY <1>2, <2>1, <2>2 DEF Sized
<1>6. ASSUME DOMAIN o # {}
      PROVE  Len(f) >= 2 /\ f[1].bytes + f[2].bytes >= n + 2
  <2>1. 1 \in 1 .. c
    <3>1. PICK k \in DOMAIN o : TRUE
      BY <1>6
    <3>2. \E j \in 1 .. c : keys[j] = k
      BY <1>1 DEF Lists
    <3> QED
      BY <1>2, <3>2
  <2>2. f[2 * 1 - 1].bytes \in Nat /\ f[2 * 1 - 1].bytes >= n + 1
        /\ f[2 * 1].bytes \in Nat /\ f[2 * 1].bytes >= 1
    BY <1>3, <2>1
  <2>3. 2 * 1 - 1 = 1 /\ 2 * 1 = 2
    OBVIOUS
  <2>4. f[1].bytes \in Nat /\ f[1].bytes >= n + 1 /\ f[2].bytes \in Nat /\ f[2].bytes >= 1
    BY <2>2, <2>3
  <2> QED
    BY <1>2, <2>1, <2>4
<1> QED
  BY <1>5, <1>6

LEMMA SizeAfterTwo ==
  ASSUME NEW t, NEW f, Sized(f), Len(t) = Len(f) + 2,
         t[1].bytes \in Nat, t[2].bytes \in Nat,
         \A i \in 3 .. Len(t) : t[i] = f[i - 2]
  PROVE  Size(t) \in Nat /\ Size(t) >= t[1].bytes + t[2].bytes
<1>0. Len(f) \in Nat /\ \A i \in 1 .. Len(f) : f[i].bytes \in Nat
  BY DEF Sized
<1>1. ASSUME NEW i \in 1 .. Len(t)
      PROVE  t[i].bytes \in Nat
  <2>1. CASE i \in 3 .. Len(t)
    <3>1. i - 2 \in 1 .. Len(f)
      BY <1>0, <2>1
    <3> QED
      BY <1>0, <2>1, <3>1
  <2>2. CASE i \notin 3 .. Len(t)
    <3>1. i = 1 \/ i = 2
      BY <1>0, <2>2
    <3> QED
      BY <3>1
  <2> QED
    BY <2>1, <2>2
<1>2. Sized(t) /\ Len(t) >= 2
  BY <1>0, <1>1 DEF Sized
<1> QED
  BY <1>2, SizeOfMany

LEMMA RequestLength ==
  ASSUME NEW m, IsMessage(m), m.kind \in Asking, Text(m.name, 1), NEW w \in Encodings(m)
  PROVE  ~(Size(Tail(w)) < ShortestString)
<1>1. /\ Writable(m.options) /\ Text(m.mode, 5)
      /\ \A k \in DOMAIN m.options : Text(Lower[k], 0) /\ Text(m.options[k], 0)
  BY DEF IsMessage, Asking
<1>2. PICK f \in OptionFields(m.options) :
        /\ Len(Tail(w)) = Len(f) + 2
        /\ Tail(w)[1] = String(m.name) /\ Tail(w)[2] = String(m.mode)
        /\ \A i \in 3 .. Len(Tail(w)) : Tail(w)[i] = f[i - 2]
  BY <1>1, RequestForm
<1>3. PICK t : t = Tail(w)
  OBVIOUS
<1>4. /\ Len(t) = Len(f) + 2
      /\ t[1] = String(m.name) /\ t[2] = String(m.mode)
      /\ \A i \in 3 .. Len(t) : t[i] = f[i - 2]
  BY <1>2, <1>3
<1>5. t[1].bytes \in Nat /\ t[1].bytes >= 1 + 1 /\ t[2].bytes \in Nat /\ t[2].bytes >= 5 + 1
  BY <1>1, <1>4, StringBytes
<1>6. Sized(f)
  BY <1>1, FieldsSized DEF Writable
<1>7. Size(t) \in Nat /\ Size(t) >= t[1].bytes + t[2].bytes
  BY <1>4, <1>5, <1>6, SizeAfterTwo
<1>8. ~(Size(t) < ShortestString)
  BY <1>5, <1>7 DEF ShortestString
<1> QED
  BY <1>3, <1>8

LEMMA OptionAckLength ==
  ASSUME NEW m, IsMessage(m), m.kind = "OACK", NEW w \in Encodings(m)
  PROVE  ~(Size(Tail(w)) < ShortestOptions)
<1>1. /\ Writable(m.options) /\ DOMAIN m.options # {}
      /\ \A k \in DOMAIN m.options : Text(Lower[k], 2) /\ Text(m.options[k], 0)
  BY DEF IsMessage
<1>2. PICK f \in OptionFields(m.options) : w = <<Num(6)>> \o f
  BY DEF Encodings
<1>3. Tail(w) = f
  BY <1>1, <1>2, OptionAckForm DEF Writable
<1>4. Sized(f) /\ Len(f) >= 2 /\ f[1].bytes + f[2].bytes >= 2 + 2
  BY <1>1, FieldsSized DEF Writable
<1>5. Size(f) \in Nat /\ Size(f) >= f[1].bytes + f[2].bytes
  BY <1>4, SizeOfMany
<1>6. f[1].bytes \in Nat /\ f[2].bytes \in Nat
  BY <1>4 DEF Sized
<1>7. ~(Size(f) < ShortestOptions)
  BY <1>4, <1>5, <1>6 DEF ShortestOptions
<1> QED
  BY <1>3, <1>7

-----------------------------------------------------------------------------
(* Messages without options. *)

LEMMA AckRead ==
  ASSUME NEW n, NEW w \in Encodings(Ack(n))
  PROVE  Size(w) = 4 /\ Decode(w) = Ack(n)
<1>1. w = <<Num(4), Num(n)>>
  BY DEF Encodings, Ack
<1>2. \A v : Num(v).bytes = 2 /\ Num(v).value = v
  BY DEF Num
<1>3. Size(w) = 4
  BY <1>1, <1>2, SizeOfTwo
<1>4. w[1] = Num(4) /\ w[2] = Num(n)
  BY <1>1
<1>5. w[1].value = 4 /\ w[2].value = n
  BY <1>2, <1>4
<1> QED
  BY <1>3, <1>5, DecodeOpcodes

LEMMA DataRead ==
  ASSUME NEW n, NEW b \in Nat, NEW w \in Encodings(Data(n, b))
  PROVE  Size(w) = 4 + b /\ Decode(w) = Data(n, b)
<1>1. w = <<Num(3), Num(n), Body(b)>>
  BY DEF Encodings, Data
<1>2. (\A v : Num(v).bytes = 2 /\ Num(v).value = v) /\ Body(b).bytes = b
  BY DEF Num, Body
<1>3. w[1] = Num(3) /\ w[2] = Num(n) /\ w[3] = Body(b) /\ Len(w) = 3
  BY <1>1
<1>4. w[1].value = 3 /\ w[2].value = n /\ w[3].bytes = b
      /\ w[1].bytes = 2 /\ w[2].bytes = 2
  BY <1>2, <1>3
<1>5. Size(w) = 4 + b
  BY <1>3, <1>4, SizeOfThree
<1> QED
  BY <1>4, <1>5, DecodeOpcodes

(* A buffer that holds the opcode never cuts it.                           *)
LEMMA CutKeepsOpcode ==
  ASSUME NEW S, NEW w \in Seq(S), Len(w) >= 1, NEW n \in Nat,
         w[1].bytes \in Nat, w[1].bytes <= n
  PROVE  Cut(w, n)[1] = w[1]
<1> DEFINE fits == {k \in 0 .. Len(w) : Size(SubSeq(w, 1, k)) <= n}
           whole == CHOOSE k \in fits : \A j \in fits : j <= k
<1>0. Len(w) \in Nat /\ \A i \in 1 .. Len(w) : w[i] \in S
  BY LenProperties
<1>1. 1 \in fits
  <2>1. PICK v : v = SubSeq(w, 1, 1)
    OBVIOUS
  <2>2. Len(v) = 1 /\ v[1] = w[1]
    BY <1>0, <2>1, SubSeqProperties
  <2>3. Size(v) = w[1].bytes
    BY <2>2, SizeOfOne
  <2> QED
    BY <1>0, <2>1, <2>3
<1>2. fits \subseteq 0 .. Len(w)
  OBVIOUS
<1> HIDE DEF fits
<1>3. \E k \in fits : \A j \in fits : j <= k
  BY <1>0, <1>1, <1>2, GreatestNumber
<1>4. whole \in 1 .. Len(w)
  <2>1. whole \in fits /\ \A j \in fits : j <= whole
    BY <1>3
  <2> HIDE DEF whole
  <2>2. whole \in 0 .. Len(w) /\ 1 <= whole
    BY <1>1, <1>2, <2>1
  <2> QED
    BY <1>0, <2>2
<1> DEFINE head == SubSeq(w, 1, whole)
           part == [is |-> w[whole + 1].is, bytes |-> n - Size(head),
                    value |-> n - Size(head), text |-> "", ended |-> FALSE]
           rest == IF n - Size(head) = 0 THEN <<>> ELSE <<part>>
           T == S \cup {part}
<1>5. Cut(w, n) = w \/ Cut(w, n) = head \o rest
  BY DEF Cut, fits
<1> HIDE DEF whole
<1>6. head \in Seq(S) /\ Len(head) = whole /\ head[1] = w[1]
  <2>1. \A i \in 1 .. whole : w[i] \in S
    BY <1>0, <1>4
  <2> QED
    BY <1>4, <2>1, SubSeqProperties
<1> HIDE DEF head, part
<1>7. rest \in Seq(T)
  <2>1. <<>> \in Seq(T) /\ <<part>> \in Seq(T)
    OBVIOUS
  <2> QED
    BY <2>1, Zenon
<1> HIDE DEF rest
<1>8. head \in Seq(T)
  BY <1>6, SeqMonotonic
<1> HIDE DEF T
<1>9. (head \o rest)[1] = head[1]
  <2>1. Len(rest) \in Nat /\ 1 \in 1 .. Len(head) + Len(rest) /\ 1 <= Len(head)
    BY <1>0, <1>4, <1>6, <1>7, LenProperties
  <2> QED
    BY <1>7, <1>8, <2>1, ConcatProperties
<1> QED
  BY <1>5, <1>6, <1>9

LEMMA ErrorForm ==
  ASSUME NEW m, m.kind = "ERROR", NEW w \in Encodings(m)
  PROVE  /\ w = <<Num(5), Num(m.code), String(m.text)>> /\ Len(w) = 3
         /\ w[1].value = 5 /\ w[1].bytes = 2
         /\ w[2].value = m.code /\ w[2].bytes = 2
         /\ w[3].text = m.text /\ w[3].bytes = String(m.text).bytes /\ w[3].ended
<1>1. w = <<Num(5), Num(m.code), String(m.text)>>
  BY DEF Encodings
<1>2. \A v : Num(v).bytes = 2 /\ Num(v).value = v
  BY DEF Num
<1>3. \A t : String(t).text = t /\ String(t).ended = TRUE
  BY DEF String
<1>4. w[1] = Num(5) /\ w[2] = Num(m.code) /\ w[3] = String(m.text) /\ Len(w) = 3
  BY <1>1
<1> QED
  BY <1>1, <1>2, <1>3, <1>4

(* The buffer may cut an ERROR, but not its opcode.                        *)
LEMMA ErrorRead ==
  ASSUME NEW m, m.kind = "ERROR", NEW w \in Encodings(m), NEW n \in Nat, n >= 4
  PROVE  Decode(Cut(w, n)) = Invalid \/ Decode(Cut(w, n)).kind = "ERROR"
<1>1. /\ w = <<Num(5), Num(m.code), String(m.text)>> /\ Len(w) = 3
      /\ w[1].value = 5 /\ w[1].bytes = 2
  BY ErrorForm
<1>2. w \in Seq({Num(5), Num(m.code), String(m.text)}) /\ Len(w) >= 1
  BY <1>1
<1>3. Cut(w, n)[1] = w[1]
  <2>1. w[1].bytes \in Nat /\ w[1].bytes <= n
    BY <1>1
  <2> QED
    BY <1>2, <2>1, CutKeepsOpcode
<1>4. Cut(w, n)[1].value = 5
  BY <1>1, <1>3
<1>5. Decode(Cut(w, n)) = DecodeError(Tail(Cut(w, n)))
  BY <1>4, DecodeOpcodes
<1> QED
  BY <1>5 DEF DecodeError, Error

-----------------------------------------------------------------------------
(* Messages mean what they were written for. *)

LEMMA ErrorUncut ==
  ASSUME NEW m, m.kind = "ERROR", m = Error(m.code, m.text), Text(m.text, 5),
         NEW w \in Encodings(m)
  PROVE  Decode(w) = m
<1>1. w = <<Num(5), Num(m.code), String(m.text)>> /\ w[1].value = 5
  BY ErrorForm
<1>2. PICK t : t = <<Num(m.code), String(m.text)>>
  OBVIOUS
<1>3. Tail(w) = t
  BY <1>1, <1>2
<1>4. (\A v : Num(v).bytes = 2 /\ Num(v).value = v)
      /\ \A v : String(v).text = v /\ String(v).ended = TRUE
  BY DEF Num, String
<1>5. t[1] = Num(m.code) /\ t[2] = String(m.text) /\ Len(t) = 2
      /\ Tail(t) = <<String(m.text)>>
  BY <1>2
<1>6. /\ t[1].bytes = 2 /\ t[1].value = m.code /\ t[2].text = m.text
      /\ t[2].bytes \in Nat /\ t[2].bytes >= 5 + 1
  BY <1>4, <1>5, StringBytes
<1>7. Size(t) = t[1].bytes + t[2].bytes
  BY <1>5, <1>6, SizeOfTwo
<1>8. ~(Size(t) < ShortestString)
  BY <1>6, <1>7 DEF ShortestString
<1>9. Pops(Tail(t))
  <2>1. Tail(t) # <<>> /\ Tail(t)[1] = String(m.text)
    BY <1>5
  <2> QED
    BY <1>4, <2>1 DEF Pops
<1>10. Decode(w) = DecodeError(t)
  BY <1>1, <1>3, DecodeOpcodes
<1> QED
  BY <1>6, <1>8, <1>9, <1>10 DEF DecodeError

LEMMA FirstTwo ==
  ASSUME NEW S, NEW w \in Seq(S), Len(w) = 3
  PROVE  SubSeq(w, 1, 2) = <<w[1], w[2]>> /\ SubSeq(w, 1, 3) = w
<1>1. DOMAIN w = 1 .. 3 /\ \A i \in 1 .. 3 : w[i] \in S
  BY LenProperties
<1>2. PICK v : v = SubSeq(w, 1, 2)
  OBVIOUS
<1>3. v \in Seq(S) /\ Len(v) = 2 /\ v[1] = w[1] /\ v[2] = w[2]
  <2>1. \A i \in 1 .. 2 : w[i] \in S
    BY <1>1
  <2> QED
    BY <1>2, <2>1, SubSeqProperties
<1>4. v = <<w[1], w[2]>>
  <2>1. PICK u : u = <<w[1], w[2]>>
    OBVIOUS
  <2>2. u \in Seq(S) /\ Len(u) = 2 /\ u[1] = w[1] /\ u[2] = w[2]
    BY <1>1, <2>1
  <2>3. \A i \in 1 .. Len(v) : v[i] = u[i]
    BY <1>3, <2>2
  <2> QED
    BY <1>3, <2>1, <2>2, <2>3, SeqEqual
<1>5. PICK t : t = SubSeq(w, 1, 3)
  OBVIOUS
<1>6. t \in Seq(S) /\ Len(t) = 3 /\ \A i \in 1 .. 3 : t[i] = w[i]
  BY <1>1, <1>5, SubSeqProperties
<1>7. t = w
  BY <1>6, SeqEqual
<1> QED
  BY <1>2, <1>4, <1>5, <1>7

LEMMA AppendThird ==
  ASSUME NEW a, NEW b, NEW c
  PROVE  <<a, b>> \o <<c>> = <<a, b, c>>
<1> DEFINE S == {a, b, c}
<1>1. PICK s, t, u : s = <<a, b>> /\ t = <<c>> /\ u = <<a, b, c>>
  OBVIOUS
<1>2. /\ s \in Seq(S) /\ Len(s) = 2 /\ s[1] = a /\ s[2] = b
      /\ t \in Seq(S) /\ Len(t) = 1 /\ t[1] = c
      /\ u \in Seq(S) /\ Len(u) = 3 /\ u[1] = a /\ u[2] = b /\ u[3] = c
  BY <1>1
<1> HIDE DEF S
<1>3. PICK v : v = s \o t
  OBVIOUS
<1>4. /\ v \in Seq(S) /\ Len(v) = Len(s) + Len(t)
      /\ \A i \in 1 .. Len(s) + Len(t) :
           v[i] = IF i <= Len(s) THEN s[i] ELSE t[i - Len(s)]
  BY <1>2, <1>3, ConcatProperties
<1>5. Len(v) = 3 /\ v[1] = a /\ v[2] = b /\ v[3] = c
  BY <1>2, <1>4
<1>6. \A i \in 1 .. 3 : v[i] = u[i]
  BY <1>2, <1>5
<1>7. v = u
  BY <1>2, <1>4, <1>5, <1>6, SeqEqual
<1> QED
  BY <1>1, <1>3, <1>7

(* What is left of an ERROR when its reason is cut is no message.          *)
LEMMA ErrorCut ==
  ASSUME NEW m, m.kind = "ERROR", NEW w \in Encodings(m), String(m.text).bytes \in Nat,
         NEW n \in Nat, n >= 4, Size(w) > n
  PROVE  Decode(Cut(w, n)) = Invalid
<1> DEFINE fits == {k \in 0 .. Len(w) : Size(SubSeq(w, 1, k)) <= n}
           whole == CHOOSE k \in fits : \A j \in fits : j <= k
<1>1. /\ w = <<Num(5), Num(m.code), String(m.text)>> /\ Len(w) = 3
      /\ w[1].value = 5 /\ w[1].bytes = 2 /\ w[2].bytes = 2
      /\ w[3].bytes = String(m.text).bytes
  BY ErrorForm
<1>0. w \in Seq({Num(5), Num(m.code), String(m.text)})
  BY <1>1
<1>2. Size(w) = w[1].bytes + w[2].bytes + w[3].bytes
  BY <1>1, SizeOfThree
<1>3. 2 \in fits
  <2>1. PICK v : v = SubSeq(w, 1, 2)
    OBVIOUS
  <2>2. Len(v) = 2 /\ v[1] = w[1] /\ v[2] = w[2]
    BY <1>1, <2>1, SubSeqProperties
  <2>3. Size(v) = 4
    BY <1>1, <2>2, SizeOfTwo
  <2> QED
    BY <1>1, <2>1, <2>3
<1>4. 3 \notin fits
  <2>1. SubSeq(w, 1, 3) = w
    BY <1>1, <1>0, FirstTwo
  <2>2. Size(w) \in Nat /\ ~(Size(w) <= n)
    BY <1>1, <1>2
  <2> QED
    BY <2>1, <2>2
<1>5. fits \subseteq 0 .. 3
  BY <1>1
<1> HIDE DEF fits
<1>6. whole = 2
  <2>1. \A j \in fits : j <= 2
    BY <1>4, <1>5
  <2>2. \A k \in fits : (\A j \in fits : j <= k) => k = 2
    BY <1>3, <1>5, <2>1
  <2> QED
    BY <1>3, <2>1, <2>2
<1>7. PICK head, part : head = SubSeq(w, 1, 2)
        /\ part = [is |-> w[whole + 1].is, bytes |-> n - Size(head),
                    value |-> n - Size(head), text |-> "", ended |-> FALSE]
  OBVIOUS
<1>8. head = <<Num(5), Num(m.code)>>
  BY <1>0, <1>1, <1>7, FirstTwo
<1>9. PICK v : v = Cut(w, n)
  OBVIOUS
<1>10. v = head \o (IF n - Size(head) = 0 THEN <<>> ELSE <<part>>)
  <2>1. ~(Size(w) <= n)
    BY <1>1, <1>2
  <2>2. Cut(w, n) = SubSeq(w, 1, whole) \o
                      (IF n - Size(SubSeq(w, 1, whole)) = 0 THEN <<>>
                       ELSE <<[is |-> w[whole + 1].is, bytes |-> n - Size(SubSeq(w, 1, whole)),
                               value |-> n - Size(SubSeq(w, 1, whole)),
                               text |-> "", ended |-> FALSE]>>)
    BY <2>1 DEF Cut, fits
  <2> HIDE DEF whole
  <2> QED
    BY <1>6, <1>7, <1>9, <2>2
<1>11. \/ v = <<Num(5), Num(m.code)>>
       \/ v = <<Num(5), Num(m.code), part>>
  <2>1. v = head \o <<>> \/ v = head \o <<part>>
    BY <1>10
  <2>2. PICK five, code : five = Num(5) /\ code = Num(m.code)
    OBVIOUS
  <2>3. <<five, code>> \o <<>> = <<five, code>>
    <3>1. <<five, code>> \in Seq({five, code})
      OBVIOUS
    <3> QED
      BY <3>1, ConcatEmptySeq
  <2>4. <<five, code>> \o <<part>> = <<five, code, part>>
    BY AppendThird
  <2> QED
    BY <1>8, <2>1, <2>2, <2>3, <2>4
<1>12. v[1] = Num(5) /\ ~Pops(Tail(Tail(v)))
  <2>1. ~part.ended
    BY <1>7
  <2>2. CASE v = <<Num(5), Num(m.code)>>
    BY <2>2 DEF Pops
  <2>3. CASE v = <<Num(5), Num(m.code), part>>
    BY <2>1, <2>3 DEF Pops
  <2> QED
    BY <1>11, <2>2, <2>3
<1>13. Decode(v) = DecodeError(Tail(v))
  BY <1>12, NumValue, DecodeOpcodes
<1> QED
  BY <1>9, <1>12, <1>13 DEF DecodeError

(* BytesAsMessage undoes MessageAsBytes: however the options of a message  *)
(* are ordered, what is read is what was meant, with modes and keys in     *)
(* lower case.  Only a request without a name may be too short to be read. *)
THEOREM MessageRead ==
  ASSUME NEW m, IsMessage(m), NEW w \in Encodings(m)
  PROVE  \/ Decode(w) = Canonical(m)
         \/ Decode(w) = Invalid /\ m.kind \in Asking /\ m.name = ""
<1>1. CASE m.kind \in Asking
  <2>1. Writable(m.options) /\ (m.name = "" \/ Text(m.name, 1))
    BY <1>1, Zenon DEF IsMessage, Asking
  <2>2. Decode(w) = IF Size(Tail(w)) < ShortestString THEN Invalid ELSE Canonical(m)
    BY <1>1, <2>1, RequestParsed
  <2>3. CASE Text(m.name, 1)
    BY <1>1, <2>2, <2>3, RequestLength
  <2> QED
    BY <1>1, <2>1, <2>2, <2>3
<1>2. CASE m.kind = "OACK"
  <2>1. m = OptionAck(m.options) /\ Writable(m.options)
    BY <1>2 DEF IsMessage
  <2>2. w \in Encodings(OptionAck(m.options))
    BY <2>1
  <2>3. Decode(w) = OptionAck(LowerCased(m.options))
    BY <1>2, <2>1, <2>2, OptionAckRead, OptionAckLength
  <2> QED
    BY <1>2, <2>3 DEF Canonical
<1>3. CASE m.kind = "DATA"
  <2>1. m = Data(m.number, m.size) /\ m.size \in Nat
    BY <1>3 DEF IsMessage
  <2>2. w \in Encodings(Data(m.number, m.size))
    BY <2>1
  <2>3. Decode(w) = Data(m.number, m.size)
    BY <2>1, <2>2, DataRead
  <2> QED
    BY <1>3, <2>1, <2>3 DEF Canonical
<1>4. CASE m.kind = "ACK"
  <2>1. m = Ack(m.number)
    BY <1>4 DEF IsMessage
  <2>2. w \in Encodings(Ack(m.number))
    BY <2>1
  <2>3. Decode(w) = Ack(m.number)
    BY <2>2, AckRead
  <2> QED
    BY <1>4, <2>1, <2>3 DEF Canonical
<1>5. CASE m.kind = "ERROR"
  <2>1. m = Error(m.code, m.text) /\ Text(m.text, 5)
    BY <1>5 DEF IsMessage
  <2> QED
    BY <1>5, <2>1, ErrorUncut DEF Canonical
<1> QED
  BY <1>1, <1>2, <1>3, <1>4, <1>5 DEF IsMessage, Asking

(* The kinds of messages, and what holds of each.                          *)
LEMMA MessageKinds ==
  ASSUME NEW m, IsMessage(m)
  PROVE  /\ m.kind \in {"RRQ", "WRQ", "DATA", "ACK", "ERROR", "OACK"}
         /\ m.kind \in Asking => Writable(m.options)
<1>1. m.kind \in {"RRQ", "WRQ", "DATA", "ACK", "ERROR", "OACK"}
  BY Zenon DEF IsMessage
<1>2. m.kind \in Asking => Writable(m.options)
  BY Zenon DEF IsMessage, Asking
<1> QED
  BY <1>1, <1>2

LEMMA CanonicalKinds ==
  ASSUME NEW m, IsMessage(m)
  PROVE  /\ Canonical(m).kind = m.kind
         /\ m.kind \in Asking => Canonical(m).options = LowerCased(m.options)
         /\ m.kind \in {"DATA", "ACK", "ERROR"} => Canonical(m) = m
<1>1. m.kind \in {"RRQ", "WRQ", "DATA", "ACK", "ERROR", "OACK"}
  BY MessageKinds
<1>2. CASE m.kind \in Asking
  <2>1. Canonical(m) = Request(m.kind, m.name, Lower[m.mode], LowerCased(m.options))
    BY <1>2 DEF Canonical, Asking
  <2> QED
    BY <1>2, <2>1 DEF Request, Asking
<1>3. CASE m.kind = "OACK"
  <2>1. Canonical(m) = OptionAck(LowerCased(m.options))
    BY <1>3 DEF Canonical
  <2> QED
    BY <1>3, <2>1 DEF OptionAck, Asking
<1>4. CASE m.kind \in {"DATA", "ACK", "ERROR"}
  BY <1>4 DEF Canonical, Asking
<1> QED
  BY <1>1, <1>2, <1>3, <1>4 DEF Asking

(* What is read, if anything is, is what was meant.                        *)
LEMMA ReadAsMeant ==
  ASSUME NEW m, IsMessage(m), NEW w \in Encodings(m), Decode(w) # Invalid
  PROVE  Decode(w) = Canonical(m)
BY MessageRead, Zenon

-----------------------------------------------------------------------------
(* Messages in a buffer that may be too small for them. *)

(* An OACK does not turn into another message.                             *)
LEMMA OptionAckCut ==
  ASSUME NEW o, Writable(o), NEW w \in Encodings(OptionAck(o)), NEW n \in Nat, n >= 4
  PROVE  Decode(Cut(w, n)).kind \in {"OACK", "invalid"}
<1>1. PICK f \in OptionFields(o) : w = <<Num(6)>> \o f
  BY DEF Encodings, OptionAck
<1>2. w[1] = Num(6)
  BY <1>1, OptionAckForm DEF Writable
<1> DEFINE S == {f[i] : i \in DOMAIN f} \cup {Num(6)}
<1>3. f \in Seq(S)
  <2>1. f \in Seq({f[i] : i \in DOMAIN f})
    BY FieldsSeq DEF Writable
  <2> QED
    BY <2>1, SeqMonotonic
<1>4. <<Num(6)>> \in Seq(S) /\ Len(<<Num(6)>>) = 1
  OBVIOUS
<1> HIDE DEF S
<1>5. w \in Seq(S) /\ Len(w) = 1 + Len(f) /\ Len(f) \in Nat
  BY <1>1, <1>3, <1>4
<1>6. w[1].bytes \in Nat /\ w[1].bytes <= n
  <2>1. Num(6).bytes = 2
    BY DEF Num
  <2> QED
    BY <1>2, <2>1
<1>7. Cut(w, n)[1] = w[1]
  BY <1>5, <1>6, CutKeepsOpcode
<1>8. Cut(w, n)[1].value = 6
  BY <1>2, <1>7, NumValue
<1>9. Decode(Cut(w, n)) = DecodeOptionAck(Tail(Cut(w, n)))
  BY <1>8, DecodeOpcodes
<1> QED
  BY <1>9 DEF DecodeOptionAck, OptionAck, Invalid

(* An ERROR is read as it is, or not at all if the buffer cuts it.         *)
LEMMA ErrorMeant ==
  ASSUME NEW m, m.kind = "ERROR", m = Error(m.code, m.text), Text(m.text, 5),
         NEW w \in Encodings(m), NEW n \in Nat, n >= 4
  PROVE  \/ Decode(Cut(w, n)) = m
         \/ Decode(Cut(w, n)) = Invalid /\ Size(w) > n
<1>1. String(m.text).bytes \in Nat
  BY StringBytes
<1>2. Size(w) \in Nat
  <2>1. /\ Len(w) = 3 /\ w[1].bytes = 2 /\ w[2].bytes = 2
        /\ w[3].bytes = String(m.text).bytes
    BY ErrorForm
  <2> QED
    BY <1>1, <2>1, SizeOfThree
<1>3. CASE Size(w) <= n
  <2>1. Cut(w, n) = w
    BY <1>3 DEF Cut
  <2> QED
    BY <2>1, ErrorUncut
<1>4. CASE Size(w) > n
  BY <1>1, <1>4, ErrorCut
<1> QED
  BY <1>2, <1>3, <1>4
=============================================================================
