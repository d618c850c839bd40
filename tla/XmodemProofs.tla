---------------------------- MODULE XmodemProofs ----------------------------
(***************************************************************************)
(* The receiver of XMODEM is a transfer, for any file, any number of       *)
(* attempts and faults, and any MaxLate a block number has room for.       *)
(*                                                                         *)
(* What has to be shown is that no other block ever carries the number of  *)
(* the one expected.  The blocks on the line begin no earlier than the one *)
(* held and rise by at most one at a time to the one the sender is at      *)
(* (Rising); so it is enough that the sender is never far ahead.  It gets  *)
(* ahead on answers, an acknowledgment is made only of a block at most one *)
(* beyond the one held, and all that is on the two lines then is what the  *)
(* 'C's and the late answers put there (FewUnderWay, NotFarAhead).         *)
(***************************************************************************)
EXTENDS Xmodem, FiniteSetTheorems, SequenceTheorems, TLAPS

Active == rpc \in Receiving
Sending == spc \notin SDone
IsBlock(c) == c.is = "block"

\* The acknowledgments on a line
Acks(s) == {i \in DOMAIN s : s[i].is = "ACK"}
NAcks(s) == Cardinality(Acks(s))

\* What the lines may hold at once
Slack == late + IF polls = 0 THEN 1 ELSE polls

\* The sink has the blocks before the one held, in order, as far as they were announced
SinkHas ==
    /\ delivered = [j \in 1 .. Len(delivered) |-> j]
    /\ Active => Len(delivered) = IF held = 0 THEN 0
                                  ELSE IF expect = 0 \/ held - 1 <= expect THEN held - 1 ELSE expect

Counting ==
    /\ Active => expected = Num(held + 1) /\ held <= file /\ held <= at /\ errors <= MaxErrors
    /\ at <= file + 1
    /\ spc \in {"starting", "startCan"} => at = 0
    /\ spc \in {"waiting", "waitCan"} => at > 0
    /\ rpc = "polling" /\ polls = 0 => toS = <<>>

AckedIsHeld ==
    /\ Active => \A i \in acked : i <= held
    /\ rpc \in {"lingering", "ok"} =>
          \A i \in acked : i <= Len(delivered) \/ (expect # 0 /\ i > expect)

\* The blocks of a line: from the one held to the one the sender is at, each item at most one on
RisingOf(s, h, a) ==
    \A i \in 1 .. Len(s) : IsBlock(s[i]) =>
        /\ s[i].block \in 1 .. file
        /\ h <= s[i].block
        /\ s[i].block <= a /\ a <= s[i].block + Len(s) - i
        /\ \A j \in i .. Len(s) : IsBlock(s[j]) => s[i].block <= s[j].block

Rising == Active => RisingOf(toR, held, at)

FewUnderWay == Active /\ Sending => Len(toR) + Len(toS) <= Slack

NotFarAhead ==
    Active =>
        /\ at <= held + 1 + Slack
        /\ Sending => at + NAcks(toS) <= held + 1 + Slack

IInv == TypeOK /\ SinkHas /\ Counting /\ AckedIsHeld /\ Rising /\ FewUnderWay /\ NotFarAhead

----------------------------------------------------------------------------
(* Lines. *)

LEMMA ItemOfByte ==
  \A c \in {"ACK", "NAK", "CAN", "EOT", "C", "noise"} : Byte(c) \in Items
  BY BoundsAssumption DEF Byte, Items

LEMMA CancelItems == CanCan \in Seq(Items) /\ Len(CanCan) = 3 /\ \A i \in 1 .. 3 : CanCan[i] = Byte("CAN")
  BY ItemOfByte DEF CanCan

LEMMA CancelLine ==
  ASSUME NEW s \in Seq(Items)
  PROVE  /\ s \o CanCan \in Seq(Items)
         /\ Len(s \o CanCan) = Len(s) + 3
         /\ \A i \in 1 .. Len(s) + 3 : (s \o CanCan)[i] = IF i <= Len(s) THEN s[i] ELSE Byte("CAN")
<1> DEFINE t == CanCan
<1>1. t \in Seq(Items) /\ Len(t) = 3 /\ \A i \in 1 .. 3 : t[i] = Byte("CAN")
  BY CancelItems
<1> HIDE DEF t
<1>2. /\ s \o t \in Seq(Items) /\ Len(s \o t) = Len(s) + 3 /\ Len(s) \in Nat
      /\ \A i \in 1 .. Len(s) + Len(t) : (s \o t)[i] = IF i <= Len(s) THEN s[i] ELSE t[i - Len(s)]
  <2>1. /\ s \o t \in Seq(Items) /\ Len(s \o t) = Len(s) + Len(t)
        /\ \A i \in 1 .. Len(s) + Len(t) : (s \o t)[i] = IF i <= Len(s) THEN s[i] ELSE t[i - Len(s)]
    BY <1>1, ConcatProperties, Zenon
  <2>2. Len(s) \in Nat
    OBVIOUS
  <2> QED
    BY <1>1, <2>1, <2>2
<1>3. ASSUME NEW i \in 1 .. Len(s) + 3
      PROVE  (s \o t)[i] = IF i <= Len(s) THEN s[i] ELSE Byte("CAN")
  BY <1>1, <1>2
<1> QED
  BY <1>2, <1>3 DEF t

LEMMA HeadItem ==
  ASSUME NEW s \in Seq(Items), s # <<>>
  PROVE  /\ Head(s) \in Items /\ Head(s) = s[1] /\ Tail(s) \in Seq(Items)
         /\ Len(s) \in Nat \ {0} /\ Len(Tail(s)) = Len(s) - 1
         /\ \A i \in 1 .. Len(s) - 1 : Tail(s)[i] = s[i + 1]
  OBVIOUS

LEMMA NewHead ==
  ASSUME NEW s \in Seq(Items), s # <<>>, NEW x \in Items
  PROVE  /\ <<x>> \o Tail(s) \in Seq(Items)
         /\ Len(<<x>> \o Tail(s)) = Len(s)
         /\ \A i \in 1 .. Len(s) : (<<x>> \o Tail(s))[i] = IF i = 1 THEN x ELSE s[i]
<1>1. /\ Tail(s) \in Seq(Items) /\ Len(Tail(s)) = Len(s) - 1 /\ Len(s) \in Nat \ {0}
      /\ \A i \in 1 .. Len(s) - 1 : Tail(s)[i] = s[i + 1]
  BY HeadItem
<1>2. <<x>> \in Seq(Items) /\ Len(<<x>>) = 1 /\ <<x>>[1] = x
  OBVIOUS
<1> HIDE DEF Items
<1> QED
  BY <1>1, <1>2

LEMMA AppendLine ==
  ASSUME NEW s \in Seq(Items), NEW x \in Items
  PROVE  /\ Append(s, x) \in Seq(Items)
         /\ Len(Append(s, x)) = Len(s) + 1
         /\ \A i \in 1 .. Len(s) + 1 : Append(s, x)[i] = IF i = Len(s) + 1 THEN x ELSE s[i]
  OBVIOUS

LEMMA RisingAppend ==
  ASSUME NEW s \in Seq(Items), NEW h \in Nat, NEW a \in Nat, RisingOf(s, h, a), file \in Nat,
         NEW b \in Nat, NEW x \in Items, h <= b, a <= b, b <= a + 1,
         IsBlock(x) => x.block = b /\ b \in 1 .. file
  PROVE  RisingOf(Append(s, x), h, b)
<1> DEFINE t == Append(s, x)
<1>1. /\ Len(t) = Len(s) + 1 /\ Len(s) \in Nat
      /\ \A i \in 1 .. Len(s) + 1 : t[i] = IF i = Len(s) + 1 THEN x ELSE s[i]
  BY AppendLine
<1> HIDE DEF t
<1> SUFFICES ASSUME NEW i \in 1 .. Len(t), IsBlock(t[i])
             PROVE  /\ t[i].block \in 1 .. file /\ h <= t[i].block
                    /\ t[i].block <= b /\ b <= t[i].block + Len(t) - i
                    /\ \A j \in i .. Len(t) : IsBlock(t[j]) => t[i].block <= t[j].block
  BY DEF RisingOf, t
<1>2. CASE i = Len(s) + 1
  BY <1>1, <1>2
<1>3. CASE i \in 1 .. Len(s)
  <2>1. t[i] = s[i]
    BY <1>1, <1>3
  <2>2. /\ s[i].block \in 1 .. file /\ h <= s[i].block
        /\ s[i].block <= a /\ a <= s[i].block + Len(s) - i
    BY <1>3, <2>1 DEF RisingOf
  <2>3. ASSUME NEW j \in i .. Len(t), IsBlock(t[j])
        PROVE  t[i].block <= t[j].block
    <3>1. CASE j = Len(s) + 1
      BY <1>1, <2>1, <2>2, <2>3, <3>1
    <3>2. CASE j \in i .. Len(s)
      <4>1. j \in 1 .. Len(s) /\ t[j] = s[j]
        BY <1>1, <1>3, <3>2
      <4> QED
        BY <1>3, <2>1, <2>3, <3>2, <4>1 DEF RisingOf
    <3> QED
      BY <1>1, <1>3, <3>1, <3>2
  <2> QED
    BY <1>1, <1>3, <2>1, <2>2, <2>3
<1> QED
  BY <1>1, <1>2, <1>3

LEMMA RisingCancel ==
  ASSUME NEW s \in Seq(Items), NEW h \in Nat, NEW a \in Nat, RisingOf(s, h, a), file \in Nat,
         NEW b \in Nat, a <= b, b <= a + 1
  PROVE  RisingOf(s \o CanCan, h, b)
<1> DEFINE t == s \o CanCan
<1>1. /\ Len(t) = Len(s) + 3 /\ Len(s) \in Nat
      /\ \A i \in 1 .. Len(s) + 3 : t[i] = IF i <= Len(s) THEN s[i] ELSE Byte("CAN")
  BY CancelLine
<1>2. ~IsBlock(Byte("CAN"))
  BY DEF IsBlock, Byte
<1> HIDE DEF t
<1> SUFFICES RisingOf(t, h, b)
  BY DEF t
<1> SUFFICES ASSUME NEW i \in 1 .. Len(t), IsBlock(t[i])
             PROVE  /\ t[i].block \in 1 .. file /\ h <= t[i].block
                    /\ t[i].block <= b /\ b <= t[i].block + Len(t) - i
                    /\ \A j \in i .. Len(t) : IsBlock(t[j]) => t[i].block <= t[j].block
  BY DEF RisingOf
<1>3. i \in 1 .. Len(s) /\ t[i] = s[i]
  BY <1>1, <1>2
<1>4. \A j \in i .. Len(t) : IsBlock(t[j]) => j \in i .. Len(s) /\ t[j] = s[j]
  BY <1>1, <1>2, <1>3
<1>5. /\ s[i].block \in 1 .. file /\ h <= s[i].block
      /\ s[i].block <= a /\ a <= s[i].block + Len(s) - i
      /\ \A j \in i .. Len(s) : IsBlock(s[j]) => s[i].block <= s[j].block
  BY <1>3 DEF RisingOf
<1>6. s[i].block <= b /\ b <= s[i].block + Len(t) - i
  BY <1>1, <1>3, <1>5
<1> QED
  BY <1>3, <1>4, <1>5, <1>6, Zenon

LEMMA RisingTail ==
  ASSUME NEW s \in Seq(Items), s # <<>>, NEW h \in Nat, NEW a \in Nat, RisingOf(s, h, a)
  PROVE  /\ RisingOf(Tail(s), h, a)
         /\ IsBlock(Head(s)) => RisingOf(Tail(s), Head(s).block, a)
  BY HeadItem DEF RisingOf

LEMMA RisingHead ==
  ASSUME NEW s \in Seq(Items), s # <<>>, NEW h \in Nat, NEW a \in Nat, RisingOf(s, h, a),
         NEW x \in Items, IsBlock(x) => IsBlock(Head(s)) /\ x.block = Head(s).block
  PROVE  RisingOf(<<x>> \o Tail(s), h, a)
<1> DEFINE t == <<x>> \o Tail(s)
<1>1. /\ Len(t) = Len(s) /\ Len(s) \in Nat
      /\ \A i \in 1 .. Len(s) : t[i] = IF i = 1 THEN x ELSE s[i]
  BY NewHead
<1>2. Head(s) = s[1]
  BY HeadItem
<1> HIDE DEF t
<1> SUFFICES RisingOf(t, h, a)
  BY DEF t
<1>3. \A i \in 1 .. Len(s) : IsBlock(t[i]) => IsBlock(s[i]) /\ t[i].block = s[i].block
  BY <1>1, <1>2
<1> SUFFICES ASSUME NEW i \in 1 .. Len(t), IsBlock(t[i])
             PROVE  /\ t[i].block \in 1 .. file /\ h <= t[i].block
                    /\ t[i].block <= a /\ a <= t[i].block + Len(t) - i
                    /\ \A j \in i .. Len(t) : IsBlock(t[j]) => t[i].block <= t[j].block
  BY DEF RisingOf
<1>4. IsBlock(s[i]) /\ t[i].block = s[i].block
  BY <1>1, <1>3
<1>5. /\ s[i].block \in 1 .. file /\ h <= s[i].block
      /\ s[i].block <= a /\ a <= s[i].block + Len(s) - i
      /\ \A j \in i .. Len(s) : IsBlock(s[j]) => s[i].block <= s[j].block
  BY <1>1, <1>4 DEF RisingOf
<1>6. \A j \in i .. Len(s) : j \in 1 .. Len(s)
  BY <1>1
<1> QED
  BY <1>1, <1>3, <1>4, <1>5, <1>6

LEMMA RisingEmpty == \A h, a : RisingOf(<<>>, h, a)
  BY DEF RisingOf

----------------------------------------------------------------------------
(* Acknowledgments. *)

LEMMA AcksFinite ==
  ASSUME NEW s \in Seq(Items)
  PROVE  IsFiniteSet(Acks(s)) /\ NAcks(s) \in Nat /\ NAcks(s) <= Len(s)
<1>1. Acks(s) \in SUBSET (1 .. Len(s))
  BY DEF Acks
<1>2. IsFiniteSet(1 .. Len(s)) /\ Cardinality(1 .. Len(s)) = Len(s)
  <2>1. Len(s) \in Nat
    OBVIOUS
  <2> QED
    BY <2>1, FS_Interval
<1> QED
  BY <1>1, <1>2, FS_Subset, FS_CardinalityType DEF NAcks

LEMMA AcksAppend ==
  ASSUME NEW s \in Seq(Items), NEW x \in Items
  PROVE  NAcks(Append(s, x)) = IF x.is = "ACK" THEN NAcks(s) + 1 ELSE NAcks(s)
<1>1. /\ Len(Append(s, x)) = Len(s) + 1 /\ Len(s) \in Nat /\ DOMAIN Append(s, x) = 1 .. Len(s) + 1
      /\ \A i \in 1 .. Len(s) + 1 : Append(s, x)[i] = IF i = Len(s) + 1 THEN x ELSE s[i]
  BY AppendLine
<1>2. Acks(Append(s, x)) = IF x.is = "ACK" THEN Acks(s) \cup {Len(s) + 1} ELSE Acks(s)
  BY <1>1 DEF Acks
<1>3. Len(s) + 1 \notin Acks(s)
  BY DEF Acks
<1> QED
  BY <1>2, <1>3, AcksFinite, FS_AddElement DEF NAcks

LEMMA AcksTail ==
  ASSUME NEW s \in Seq(Items), s # <<>>
  PROVE  NAcks(Tail(s)) = IF Head(s).is = "ACK" THEN NAcks(s) - 1 ELSE NAcks(s)
<1> DEFINE A == Acks(s) \ {1}
           B == Acks(Tail(s))
           f == [i \in B |-> i + 1]
<1>1. /\ Head(s) = s[1] /\ Tail(s) \in Seq(Items)
      /\ Len(s) \in Nat \ {0} /\ DOMAIN Tail(s) = 1 .. Len(s) - 1
      /\ \A i \in 1 .. Len(s) - 1 : Tail(s)[i] = s[i + 1]
  BY HeadItem
<1>2. \A i \in Int : i \in B <=> i + 1 \in A
  BY <1>1 DEF Acks
<1>3. A \subseteq Int /\ B \subseteq Int
  BY <1>1 DEF Acks
<1>4. f \in Bijection(B, A)
  <2>1. f \in [B -> A]
    BY <1>2, <1>3
  <2>2. \A i, j \in B : f[i] = f[j] => i = j
    BY <1>3
  <2>3. \A k \in A : \E i \in B : f[i] = k
    <3> TAKE k \in A
    <3>1. k - 1 \in B /\ k \in Int
      BY <1>2, <1>3
    <3> QED
      BY <3>1
  <2> HIDE DEF f, A, B
  <2> QED
    BY <2>1, <2>2, <2>3 DEF Bijection, Injection, Surjection, IsInjective
<1>5. IsFiniteSet(B) /\ Cardinality(A) = Cardinality(B)
  <2>1. IsFiniteSet(B)
    BY <1>1, AcksFinite
  <2>2. ExistsBijection(B, A)
    BY <1>4 DEF ExistsBijection
  <2> QED
    BY <2>1, <2>2, FS_Bijection
<1>6. Cardinality(A) = IF 1 \in Acks(s) THEN NAcks(s) - 1 ELSE NAcks(s)
  BY AcksFinite, FS_RemoveElement DEF NAcks
<1>7. 1 \in Acks(s) <=> Head(s).is = "ACK"
  BY <1>1 DEF Acks
<1> QED
  BY <1>5, <1>6, <1>7 DEF NAcks

LEMMA AcksHead ==
  ASSUME NEW s \in Seq(Items), s # <<>>, NEW x \in Items, x.is # "ACK"
  PROVE  NAcks(<<x>> \o Tail(s)) <= NAcks(s)
<1>1. /\ <<x>> \o Tail(s) \in Seq(Items)
      /\ DOMAIN (<<x>> \o Tail(s)) = 1 .. Len(s) /\ DOMAIN s = 1 .. Len(s)
      /\ \A i \in 1 .. Len(s) : (<<x>> \o Tail(s))[i] = IF i = 1 THEN x ELSE s[i]
  BY NewHead
<1>2. Acks(<<x>> \o Tail(s)) \in SUBSET Acks(s)
  BY <1>1 DEF Acks
<1> QED
  BY <1>2, AcksFinite, FS_Subset DEF NAcks

----------------------------------------------------------------------------
(* Block numbers. *)

\* Division with remainder.
LEMMA NumDiv ==
  ASSUME NEW i \in Int
  PROVE  /\ Num(i) \in 0 .. NumMod - 1 /\ i \div NumMod \in Int
         /\ i = NumMod * (i \div NumMod) + Num(i)
  BY BoundsAssumption, NumberAssumption, SMT DEF Num

LEMMA NumUnique ==
  ASSUME NEW i \in Int, NEW q \in Int, NEW r \in 0 .. NumMod - 1, i = NumMod * q + r
  PROVE  Num(i) = r
<1> DEFINE p == i \div NumMod
<1>1. Num(i) \in 0 .. NumMod - 1 /\ p \in Int /\ i = NumMod * p + Num(i)
  BY NumDiv
<1>2. NumMod \in Nat /\ NumMod > 0
  BY BoundsAssumption, NumberAssumption
<1> HIDE DEF p
<1>3. p <= q
  <2> SUFFICES ASSUME q + 1 <= p PROVE FALSE
    BY <1>1
  <2>1. NumMod * (q + 1) <= NumMod * p /\ NumMod * (q + 1) = NumMod * q + NumMod
    BY <1>1, <1>2
  <2> QED
    BY <1>1, <1>2, <2>1
<1>4. q <= p
  <2> SUFFICES ASSUME p + 1 <= q PROVE FALSE
    BY <1>1
  <2>1. NumMod * (p + 1) <= NumMod * q /\ NumMod * (p + 1) = NumMod * p + NumMod
    BY <1>1, <1>2
  <2> QED
    BY <1>1, <1>2, <2>1
<1>5. p = q /\ NumMod * q \in Int
  BY <1>1, <1>2, <1>3, <1>4
<1> QED
  BY <1>1, <1>5

LEMMA NumStep ==
  ASSUME NEW i \in Int
  PROVE  (Num(i) + 1) % NumMod = Num(i + 1) /\ (Num(i + 1) - 1) % NumMod = Num(i)
<1> DEFINE q == i \div NumMod
           r == Num(i)
<1>1. r \in 0 .. NumMod - 1 /\ q \in Int /\ i = NumMod * q + r
  BY NumDiv
<1>2. NumMod \in Nat /\ NumMod > 1
  BY BoundsAssumption, NumberAssumption
<1> HIDE DEF q, r
<1>3. NumMod * (q + 1) = NumMod * q + NumMod
  BY <1>1, <1>2
<1>4. CASE r = NumMod - 1
  <2>1. i + 1 = NumMod * (q + 1) + 0 /\ r + 1 = NumMod * 1 + 0 /\ 0 - 1 = NumMod * (-1) + r
    BY <1>1, <1>2, <1>3, <1>4
  <2>2. 0 \in 0 .. NumMod - 1 /\ q + 1 \in Int /\ r + 1 \in Int /\ 0 - 1 \in Int /\ -1 \in Int /\ 1 \in Int
    BY <1>1, <1>2
  <2>3. Num(i + 1) = 0 /\ Num(r + 1) = 0 /\ Num(0 - 1) = r
    BY <1>1, <2>1, <2>2, NumUnique
  <2> QED
    BY <2>3 DEF Num, r
<1>5. CASE r # NumMod - 1
  <2>1. i + 1 = NumMod * q + (r + 1) /\ r + 1 = NumMod * 0 + (r + 1) /\ r = NumMod * 0 + r
    BY <1>1, <1>2
  <2>2. r + 1 \in 0 .. NumMod - 1 /\ r + 1 \in Int /\ r \in Int /\ 0 \in Int /\ (r + 1) - 1 = r
    BY <1>1, <1>2, <1>5
  <2>3. Num(i + 1) = r + 1 /\ Num(r + 1) = r + 1 /\ Num(r) = r
    BY <1>1, <2>1, <2>2, NumUnique
  <2> QED
    BY <2>2, <2>3 DEF Num, r
<1> QED
  BY <1>4, <1>5

\* Blocks less than a round apart have different numbers.
LEMMA NumTells ==
  ASSUME NEW i \in Int, NEW j \in Int, i <= j, j < i + NumMod, Num(i) = Num(j)
  PROVE  i = j
<1> DEFINE p == i \div NumMod
           q == j \div NumMod
<1>1. /\ Num(i) \in Int /\ p \in Int /\ q \in Int
      /\ i = NumMod * p + Num(i) /\ j = NumMod * q + Num(j)
  BY NumDiv
<1>2. NumMod \in Nat /\ NumMod > 0
  BY BoundsAssumption, NumberAssumption
<1> HIDE DEF p, q
<1>3. q <= p
  <2> SUFFICES ASSUME p + 1 <= q PROVE FALSE
    BY <1>1
  <2>1. NumMod * (p + 1) <= NumMod * q /\ NumMod * (p + 1) = NumMod * p + NumMod
    BY <1>1, <1>2
  <2> QED
    BY <1>1, <1>2, <2>1
<1>4. NumMod * q <= NumMod * p /\ NumMod * q \in Int /\ NumMod * p \in Int
  BY <1>1, <1>2, <1>3
<1> QED
  BY <1>1, <1>4
----------------------------------------------------------------------------
(* The invariant: the sender. *)

LEMMA Natural ==
  TypeOK => /\ file \in Nat /\ at \in Nat /\ held \in Nat /\ polls \in Nat /\ late \in Nat
            /\ Slack \in Nat /\ Slack >= 1 /\ Len(toR) \in Nat /\ Len(toS) \in Nat
            /\ toR \in Seq(Items) /\ toS \in Seq(Items) /\ NAcks(toS) \in Nat /\ NAcks(toS) <= Len(toS)
  BY BoundsAssumption, AcksFinite DEF TypeOK, Slack

\* What the sender leaves alone
LEMMA ReceiverStays ==
  ASSUME IInv, UNCHANGED <<file, expect, receiver>>
  PROVE  SinkHas' /\ AckedIsHeld'
  BY DEF IInv, SinkHas, AckedIsHeld, Active, receiver

LEMMA InitIInv == Init => IInv
<1> SUFFICES ASSUME Init PROVE IInv
  OBVIOUS
<1> USE BoundsAssumption, NumberAssumption DEF Init
<1>1. TypeOK
  <2>1. Num(1) \in 0 .. NumMod - 1
    BY NumDiv
  <2> QED
    BY <2>1 DEF TypeOK, Receiving
<1>2. SinkHas /\ AckedIsHeld
  BY DEF SinkHas, AckedIsHeld
<1>3. Counting
  BY DEF Counting
<1>4. Rising /\ FewUnderWay
  BY RisingEmpty, Natural, <1>1 DEF Rising, FewUnderWay
<1>5. NotFarAhead
  BY <1>1, Natural DEF NotFarAhead
<1> QED
  BY <1>1, <1>2, <1>3, <1>4, <1>5 DEF IInv

\* What the sender puts on the line for block i
Sent(i) == IF i > file THEN Byte("EOT") ELSE Block(i)

LEMMA SentItem ==
  ASSUME TypeOK, NEW i \in Nat, i > 0
  PROVE  Sent(i) \in Items /\ (IsBlock(Sent(i)) => Sent(i).block = i /\ i \in 1 .. file)
<1>1. file \in Nat /\ file <= MaxBlocks /\ MaxBlocks \in Nat
  BY BoundsAssumption DEF TypeOK
<1>2. CASE i > file
  <2>1. Sent(i) = Byte("EOT") /\ ~IsBlock(Byte("EOT"))
    BY <1>2 DEF Sent, IsBlock, Byte
  <2> QED
    BY <2>1, ItemOfByte
<1>3. CASE i <= file
  <2>1. Sent(i) = Block(i) /\ i \in 0 .. MaxBlocks /\ i \in 1 .. file
    BY <1>1, <1>3 DEF Sent
  <2>2. Block(i) \in Items /\ Block(i).block = i
    BY <2>1 DEF Block, Items
  <2> QED
    BY <2>1, <2>2
<1> QED
  BY <1>1, <1>2, <1>3

\* A block sent, or the end of transfer: the first answer, or an acknowledgment, is used up
LEMMA SendKeeps ==
  ASSUME IInv, spc \notin SDone, toS # <<>>, toS' = Tail(toS), at <= file, Send(at + 1),
         at = 0 \/ Head(toS).is = "ACK",
         UNCHANGED <<file, expect, receiver, faults, late>>
  PROVE  IInv'
<1> DEFINE x == Sent(at + 1)
<1>1. TypeOK /\ Counting /\ Rising /\ FewUnderWay /\ NotFarAhead
  BY DEF IInv
<1>2. /\ file \in Nat /\ at \in Nat /\ held \in Nat /\ Slack \in Nat
      /\ toR \in Seq(Items) /\ toS \in Seq(Items) /\ NAcks(toS) \in Nat /\ NAcks(toS) <= Len(toS)
      /\ Len(toR) \in Nat /\ Len(toS) \in Nat
  BY <1>1, Natural
<1>3. x \in Items /\ (IsBlock(x) => x.block = at + 1 /\ at + 1 \in 1 .. file)
  BY <1>1, <1>2, SentItem
<1> HIDE DEF x
<1>4. /\ at' = at + 1 /\ attempt' = 0
      /\ \/ toR' = Append(toR, x) /\ spc' = "waiting"
         \/ toR' = toR \o CanCan /\ spc' = "failed" /\ at + 1 <= file
  BY DEF Send, Sent, x
<1>5. /\ toR' \in Seq(Items) /\ Len(toR') \in Nat
      /\ spc' = "waiting" => Len(toR') = Len(toR) + 1
  <2>1. CASE toR' = Append(toR, x) /\ spc' = "waiting"
    BY <1>2, <1>3, <2>1, AppendLine
  <2>2. CASE toR' = toR \o CanCan /\ spc' = "failed"
    BY <1>2, <2>2, CancelLine
  <2> QED
    BY <1>4, <2>1, <2>2
<1>6. toS' \in Seq(Items) /\ Len(toS') = Len(toS) - 1
  BY <1>2, HeadItem
<1>7. NAcks(toS') \in Nat /\ NAcks(toS') <= Len(toS')
      /\ NAcks(toS') = IF Head(toS).is = "ACK" THEN NAcks(toS) - 1 ELSE NAcks(toS)
  BY <1>2, <1>6, AcksTail, AcksFinite
<1>8. TypeOK'
  BY <1>1, <1>4, <1>5, <1>6, BoundsAssumption DEF TypeOK, receiver, SDone
<1>9. Counting'
  BY <1>1, <1>2, <1>4, <1>5, BoundsAssumption DEF TypeOK, Counting, receiver, Active
<1>10. Rising'
  <2> SUFFICES ASSUME Active PROVE RisingOf(toR', held, at + 1)
    BY <1>4 DEF Rising, RisingOf, receiver, Active
  <2>1. RisingOf(toR, held, at) /\ held <= at
    BY <1>1 DEF Rising, Active, Counting
  <2>2. RisingOf(Append(toR, x), held, at + 1)
    BY <1>2, <1>3, <2>1, RisingAppend
  <2>3. RisingOf(toR \o CanCan, held, at + 1)
    BY <1>2, <2>1, RisingCancel
  <2> QED
    BY <1>4, <2>2, <2>3
<1>11. Slack' = Slack
  BY DEF Slack, receiver
<1>12. FewUnderWay'
  BY <1>1, <1>2, <1>4, <1>5, <1>6, <1>11 DEF FewUnderWay, Active, Sending, receiver, SDone
<1>13. NotFarAhead'
  BY <1>1, <1>2, <1>4, <1>5, <1>6, <1>7, <1>11 DEF NotFarAhead, FewUnderWay, Active, Sending, receiver, SDone
<1> QED
  BY <1>8, <1>9, <1>10, <1>12, <1>13, ReceiverStays DEF IInv

\* A step of the sender that stays at its block
LEMMA SameBlockKeeps ==
  ASSUME IInv, Sending, at' = at, attempt' \in 0 .. MaxErrors,
         toR' \in Seq(Items), Active => RisingOf(toR', held, at),
         toS' = IF toS = <<>> THEN toS ELSE Tail(toS),
         NEW d \in Nat, late' = late + d, late + d <= MaxLate,
         \/ spc \in {"starting", "startCan"} /\ spc' \in {"starting", "startCan"}
         \/ spc \in {"waiting", "waitCan"} /\ spc' \in {"waiting", "waitCan"}
         \/ spc' \in SDone,
         Active /\ spc' \notin SDone => Len(toR') + Len(toS') <= Slack + d,
         UNCHANGED <<file, expect, receiver, faults>>
  PROVE  IInv'
<1>1. TypeOK /\ Counting /\ Rising /\ FewUnderWay /\ NotFarAhead
  BY DEF IInv
<1>2. /\ file \in Nat /\ at \in Nat /\ held \in Nat /\ Slack \in Nat /\ late \in Nat
      /\ toS \in Seq(Items) /\ NAcks(toS) \in Nat /\ Len(toS) \in Nat
  BY <1>1, Natural
<1>3. toS' \in Seq(Items) /\ NAcks(toS') \in Nat /\ NAcks(toS') <= NAcks(toS)
  <2>1. CASE toS = <<>>
    BY <1>2, <2>1
  <2>2. CASE toS # <<>>
    <3>1. toS' = Tail(toS) /\ toS' \in Seq(Items)
      BY <1>2, <2>2, HeadItem
    <3>2. NAcks(toS') \in Nat /\ NAcks(toS') = IF Head(toS).is = "ACK" THEN NAcks(toS) - 1 ELSE NAcks(toS)
      BY <1>2, <2>2, <3>1, AcksTail, AcksFinite
    <3> QED
      BY <1>2, <3>1, <3>2
  <2> QED
    BY <2>1, <2>2
<1>4. /\ Slack' = Slack + d /\ late' \in 0 .. MaxLate
      /\ Slack' \in Nat /\ Slack <= Slack'
  <2>1. (polls' = polls) /\ polls \in Nat
    BY <1>1, Natural DEF receiver
  <2>2. Slack' = Slack + d
    BY <1>2, <2>1 DEF Slack
  <2> QED
    BY <1>2, <2>2, BoundsAssumption
<1>5. TypeOK'
  BY <1>1, <1>3, BoundsAssumption DEF TypeOK, receiver, SDone
<1>6. Counting'
  BY <1>1 DEF Counting, receiver, Active, SDone
<1>7. Rising'
  BY DEF Rising, RisingOf, receiver, Active
<1>8. FewUnderWay'
  BY <1>4 DEF FewUnderWay, Active, Sending, receiver
<1>9. NotFarAhead'
  <2>1. held' = held /\ at' = at /\ (Active' <=> Active)
    BY DEF Active, receiver
  <2>2. Active => at <= held + 1 + Slack /\ at + NAcks(toS) <= held + 1 + Slack
    BY <1>1 DEF NotFarAhead
  <2>3. Active => at <= held + 1 + Slack' /\ at + NAcks(toS') <= held + 1 + Slack'
    BY ONLY <1>2, <1>3, <1>4, <2>2
  <2> QED
    BY <2>1, <2>3 DEF NotFarAhead
<1> QED
  BY <1>5, <1>6, <1>7, <1>8, <1>9, ReceiverStays DEF IInv

\* An answer that asks for the block again, or a wait for it that ends
LEMMA RetryKeeps ==
  ASSUME IInv, spc \in {"waiting", "waitCan"}, Retry,
         toS' = IF toS = <<>> THEN toS ELSE Tail(toS),
         NEW d \in {0, 1}, late' = late + d, late + d <= MaxLate,
         toS = <<>> /\ toR # <<>> /\ Active => d = 1,
         UNCHANGED <<file, expect, receiver, faults>>
  PROVE  IInv'
<1>1. TypeOK /\ Counting /\ Rising /\ FewUnderWay
  BY DEF IInv
<1>2. /\ file \in Nat /\ at \in Nat /\ held \in Nat /\ Slack \in Nat /\ Slack >= 1 /\ late \in Nat
      /\ toR \in Seq(Items) /\ toS \in Seq(Items) /\ Len(toR) \in Nat /\ Len(toS) \in Nat
  BY <1>1, Natural
<1>3. at > 0 /\ Sending
  BY <1>1 DEF Counting, Sending, SDone
<1>4. /\ at' = at /\ attempt' \in 0 .. MaxErrors
      /\ \/ toR' = Append(toR, Sent(at)) /\ spc' = "waiting"
         \/ toR' = toR \o CanCan /\ spc' = "failed"
  BY <1>1, BoundsAssumption DEF Retry, Sent, TypeOK
<1>5. Sent(at) \in Items /\ (IsBlock(Sent(at)) => Sent(at).block = at /\ at \in 1 .. file)
  BY <1>1, <1>2, <1>3, SentItem
<1>6. toR' \in Seq(Items) /\ (Active => RisingOf(toR', held, at))
  <2>1. Active => RisingOf(toR, held, at) /\ held <= at
    BY <1>1 DEF Rising, Counting
  <2>2. CASE toR' = Append(toR, Sent(at))
    <3>1. at <= at /\ at <= at + 1
      BY <1>2
    <3>2. Append(toR, Sent(at)) \in Seq(Items) /\ (Active => RisingOf(Append(toR, Sent(at)), held, at))
      BY <1>2, <1>5, <2>1, <3>1, AppendLine, RisingAppend
    <3> QED
      BY <2>2, <3>2
  <2>3. CASE toR' = toR \o CanCan
    <3>1. toR \o CanCan \in Seq(Items) /\ (Active => RisingOf(toR \o CanCan, held, at))
      BY <1>2, <2>1, CancelLine, RisingCancel
    <3> QED
      BY <2>3, <3>1
  <2> QED
    BY <1>4, <2>2, <2>3
<1>7. ASSUME Active, spc' \notin SDone
      PROVE  Len(toR') + Len(toS') <= Slack + d
  <2>1. toR' = Append(toR, Sent(at)) /\ Len(toR') = Len(toR) + 1
    BY <1>2, <1>4, <1>5, <1>7, AppendLine DEF SDone
  <2>2. Len(toR) + Len(toS) <= Slack
    BY <1>1, <1>2, <1>3, <1>7 DEF FewUnderWay
  <2>3. CASE toS # <<>>
    <3>1. Len(toS') = Len(toS) - 1 /\ d \in Nat
      BY <1>2, <2>3, HeadItem
    <3> QED
      BY ONLY <1>2, <2>1, <2>2, <3>1
  <2>4. CASE toS = <<>> /\ toR # <<>>
    <3>1. d = 1 /\ Len(toS') = 0 /\ Len(toS) = 0
      BY <1>7, <2>4
    <3> QED
      BY <1>2, <2>1, <2>2, <3>1
  <2>5. CASE toS = <<>> /\ toR = <<>>
    <3>1. Len(toS') = 0 /\ Len(toR) = 0
      BY <2>5
    <3> QED
      BY <1>2, <2>1, <2>2, <3>1
  <2> QED
    BY <2>3, <2>4, <2>5
<1> QED
  BY <1>3, <1>4, <1>6, <1>7, SameBlockKeeps DEF SDone

\* A byte that only moves the sender on, or nothing at all
LEMMA GoKeeps ==
  ASSUME IInv, Sending, toS' = IF toS = <<>> THEN toS ELSE Tail(toS),
         \/ spc \in {"starting", "startCan"} /\ spc' \in {"starting", "startCan"}
         \/ spc \in {"waiting", "waitCan"} /\ spc' \in {"waiting", "waitCan"}
         \/ spc' \in SDone,
         UNCHANGED <<file, expect, at, attempt, receiver, toR, faults, late>>
  PROVE  IInv'
<1>1. TypeOK /\ Rising /\ FewUnderWay
  BY DEF IInv
<1>2. /\ Slack \in Nat /\ toS \in Seq(Items) /\ Len(toR) \in Nat /\ Len(toS) \in Nat /\ late \in Nat
  BY <1>1, Natural
<1>3. Len(toS') <= Len(toS) /\ Len(toS') \in Nat
  BY <1>2, HeadItem
<1>4. 0 \in Nat /\ late' = late + 0 /\ late + 0 <= MaxLate /\ attempt' \in 0 .. MaxErrors /\ toR' \in Seq(Items)
  BY <1>1, <1>2, BoundsAssumption DEF TypeOK
<1>5. Active => RisingOf(toR', held, at)
  BY <1>1 DEF Rising
<1>6. Active => Len(toR') + Len(toS') <= Slack + 0
  BY <1>1, <1>2, <1>3, <1>4 DEF FewUnderWay
<1> QED
  BY <1>4, <1>5, <1>6, SameBlockKeeps

LEMMA SReadKeeps == IInv /\ SRead => IInv'
<1> SUFFICES ASSUME IInv, SRead PROVE IInv'
  OBVIOUS
<1>1. spc \notin SDone /\ toS # <<>> /\ toS' = Tail(toS) /\ UNCHANGED <<file, expect, receiver, faults, late>>
  BY DEF SRead
<1>2. /\ spc \in {"starting", "startCan"} => at = 0
      /\ late \in Nat /\ 0 \in {0, 1} /\ late' = late + 0 /\ late + 0 <= MaxLate
  BY <1>1, BoundsAssumption DEF IInv, Counting, TypeOK
<1> DEFINE c == Head(toS).is
           Go(where) == spc' = where /\ UNCHANGED <<at, attempt, toR>>
<1>3. CASE spc = "starting" /\ c = "C" /\ Send(1)
  <2>1. at = 0 /\ at + 1 = 1 /\ at <= file
    BY <1>2, <1>3 DEF IInv, TypeOK
  <2> QED
    BY <1>1, <1>3, <2>1, SendKeeps
<1>4. CASE spc = "waiting" /\ c = "ACK" /\ at <= file /\ Send(at + 1)
  BY <1>1, <1>4, SendKeeps
<1>5. CASE spc \in {"waiting", "waitCan"} /\ Retry
  BY <1>1, <1>2, <1>5, RetryKeeps
<1>6. CASE spc \in {"starting", "startCan"} /\ \E w \in {"starting", "startCan"} \cup SDone : Go(w)
  BY <1>1, <1>6, GoKeeps DEF Sending
<1>7. CASE spc \in {"waiting", "waitCan"} /\ \E w \in {"waiting", "waitCan"} \cup SDone : Go(w)
  BY <1>1, <1>7, GoKeeps DEF Sending
<1> QED
  BY <1>3, <1>4, <1>5, <1>6, <1>7 DEF SRead, SDone

LEMMA STimeoutKeeps == IInv /\ STimeout => IInv'
<1> SUFFICES ASSUME IInv, STimeout PROVE IInv'
  OBVIOUS
<1>1. toS = <<>> /\ UNCHANGED <<file, expect, receiver, toS, faults>>
  BY DEF STimeout
<1>2. TypeOK /\ Rising
  BY DEF IInv
<1>3. /\ late \in Nat /\ file \in Nat /\ held \in Nat /\ at \in Nat /\ toR \in Seq(Items)
      /\ 0 \in Nat /\ late + 0 <= MaxLate /\ attempt \in 0 .. MaxErrors
  BY <1>2, Natural, BoundsAssumption DEF TypeOK
<1>4. CASE spc = "starting" /\ spc' = "failed" /\ toR' = toR \o CanCan /\ UNCHANGED <<at, attempt>>
  <2>1. late' = late + 0
    BY <1>3, <1>4 DEF STimeout, Late
  <2>2. toR' \in Seq(Items) /\ (Active => RisingOf(toR', held, at))
    BY <1>2, <1>3, <1>4, CancelLine, RisingCancel DEF Rising
  <2> QED
    BY <1>1, <1>3, <1>4, <2>1, <2>2, SameBlockKeeps DEF Sending, SDone
<1>5. CASE spc = "startCan" /\ spc' = "starting" /\ UNCHANGED <<at, attempt, toR>>
  <2>1. late' = late
    BY <1>5 DEF STimeout, Late
  <2> QED
    BY <1>1, <1>5, <2>1, GoKeeps DEF Sending, SDone
<1>6. CASE NoReply
  <2>1. spc \in {"waiting", "waitCan"} /\ Retry
    BY <1>6 DEF NoReply
  <2>2. \E d \in {0, 1} : late' = late + d /\ late + d <= MaxLate /\ (toR # <<>> /\ Active => d = 1)
    <3>1. CASE toR # <<>> /\ Active
      <4>1. late' = late + 1 /\ late < MaxLate
        BY <2>1, <3>1 DEF STimeout, Late, Active
      <4>2. late + 1 <= MaxLate
        BY <1>3, <4>1, BoundsAssumption
      <4> QED
        BY <4>1, <4>2
    <3>2. CASE ~(toR # <<>> /\ Active)
      <4>1. late' = late + 0 /\ late + 0 <= MaxLate
        BY <1>3, <3>2 DEF STimeout, Late, Active
      <4> QED
        BY <3>2, <4>1
    <3> QED
      BY <3>1, <3>2
  <2> QED
    BY <1>1, <2>1, <2>2, RetryKeeps
<1> QED
  BY <1>4, <1>5, <1>6 DEF STimeout

----------------------------------------------------------------------------
(* The invariant: the receiver. *)

\* What a block read tells: it is at most one round beyond the one held
LEMMA ReadTells ==
  ASSUME IInv, Active, toR # <<>>
  PROVE  /\ Head(toR) \in Items /\ Tail(toR) \in Seq(Items) /\ RisingOf(Tail(toR), held, at)
         /\ Len(toR) \in Nat \ {0} /\ Len(Tail(toR)) = Len(toR) - 1
         /\ IsBlock(Head(toR)) =>
              /\ Head(toR).block \in 1 .. file /\ Head(toR).block \in held .. at
              /\ at <= Head(toR).block + Len(toR) - 1 /\ at < held + NumMod
              /\ RisingOf(Tail(toR), Head(toR).block, at)
<1>1. TypeOK /\ RisingOf(toR, held, at) /\ at <= held + 1 + Slack
  BY DEF IInv, Rising, NotFarAhead
<1>2. held \in Nat /\ at \in Nat /\ toR \in Seq(Items) /\ Slack \in Nat /\ file \in Nat
  BY <1>1, Natural
<1>3. Slack <= MaxPolls + MaxLate
  BY <1>1, BoundsAssumption DEF Slack, TypeOK
<1>4. at < held + NumMod
  BY <1>1, <1>2, <1>3, BoundsAssumption, NumberAssumption
<1>5. /\ Head(toR) \in Items /\ Head(toR) = toR[1] /\ Tail(toR) \in Seq(Items)
      /\ Len(toR) \in Nat \ {0} /\ Len(Tail(toR)) = Len(toR) - 1 /\ 1 \in 1 .. Len(toR)
  BY <1>2, HeadItem
<1>6. RisingOf(Tail(toR), held, at) /\ (IsBlock(Head(toR)) => RisingOf(Tail(toR), Head(toR).block, at))
  BY <1>1, <1>2, RisingTail
<1>7. IsBlock(toR[1]) =>
          /\ toR[1].block \in 1 .. file /\ held <= toR[1].block
          /\ toR[1].block <= at /\ at <= toR[1].block + Len(toR) - 1
  BY <1>1, <1>5 DEF RisingOf
<1> QED
  BY <1>2, <1>4, <1>5, <1>6, <1>7

\* The receiver gives up
LEMMA StopKeeps ==
  ASSUME IInv, rpc' \in {"failed", "cancelled"}, toR' \in Seq(Items), toS' \in Seq(Items),
         errors' \in 0 .. MaxErrors + 1, late' \in 0 .. MaxLate, acked' \subseteq 1 .. MaxBlocks,
         UNCHANGED <<file, expect, sender, expected, held, delivered, polls, faults>>
  PROVE  IInv'
<1>1. TypeOK'
  BY DEF IInv, TypeOK, sender, RDone
<1>2. SinkHas' /\ AckedIsHeld'
  BY DEF IInv, SinkHas, AckedIsHeld, Active, Receiving
<1>3. Counting'
  BY DEF IInv, Counting, Active, Receiving, sender
<1>4. Rising' /\ FewUnderWay' /\ NotFarAhead'
  BY DEF Rising, FewUnderWay, NotFarAhead, Active, Receiving
<1> QED
  BY <1>1, <1>2, <1>3, <1>4 DEF IInv

\* An answer, or none, that leaves the block held where it is
LEMMA AnswerKeeps ==
  ASSUME IInv, Active, rpc' \in Receiving, toR' \in Seq(Items), toS' \in Seq(Items),
         errors' \in 0 .. MaxErrors, polls' \in 0 .. MaxPolls, late' \in 0 .. MaxLate,
         faults' \in 0 .. MaxFaults, NEW n \in Nat, Slack' = n, Slack <= n, RisingOf(toR', held, at),
         rpc' = "polling" /\ polls' = 0 => toS' = <<>>,
         Sending => Len(toR') + Len(toS') <= n /\ at + NAcks(toS') <= held + 1 + n,
         UNCHANGED <<file, expect, sender, expected, held, delivered, acked>>
  PROVE  IInv'
<1>1. TypeOK'
  <2>1. errors' \in 0 .. MaxErrors + 1
    BY BoundsAssumption
  <2> QED
    BY <2>1 DEF IInv, TypeOK, sender
<1>2. SinkHas' /\ AckedIsHeld'
  BY DEF IInv, SinkHas, AckedIsHeld, Active, Receiving
<1>3. Counting'
  BY DEF IInv, Counting, Active, sender
<1>4. Rising'
  BY DEF Rising, RisingOf, sender
<1>5. FewUnderWay'
  BY DEF FewUnderWay, Sending, sender
<1>6. NotFarAhead'
  <2>1. at \in Nat /\ held \in Nat /\ Slack \in Nat
    BY Natural DEF IInv
  <2>2. at <= held + 1 + Slack
    BY DEF IInv, NotFarAhead
  <2>3. at <= held + 1 + n
    BY <2>1, <2>2
  <2>4. held' = held /\ at' = at /\ (Sending' <=> Sending)
    BY DEF sender, Sending
  <2> QED
    BY <2>3, <2>4 DEF NotFarAhead
<1> QED
  BY <1>1, <1>2, <1>3, <1>4, <1>5, <1>6 DEF IInv

LEMMA PollKeeps == IInv /\ Poll => IInv'
<1> SUFFICES ASSUME IInv, Poll PROVE IInv'
  OBVIOUS
<1>1. /\ rpc = "polling" /\ polls < MaxPolls /\ toR = <<>> /\ polls' = polls + 1
      /\ toS' = Append(toS, Byte("C")) /\ rpc' = rpc
      /\ UNCHANGED <<file, expect, sender, expected, held, delivered, errors, acked, toR, faults, late>>
  BY DEF Poll, Reply
<1>2. TypeOK /\ Active
  BY <1>1 DEF IInv, Active, Receiving
<1>3. /\ at \in Nat /\ held \in Nat /\ late \in Nat /\ polls \in Nat /\ Slack \in Nat
      /\ toR \in Seq(Items) /\ toS \in Seq(Items) /\ Len(toS) \in Nat /\ NAcks(toS) \in Nat
  BY <1>2, Natural
<1>4. Byte("C") \in Items /\ Byte("C").is # "ACK"
  BY ItemOfByte DEF Byte
<1>5. /\ toS' \in Seq(Items) /\ Len(toS') = Len(toS) + 1 /\ NAcks(toS') = NAcks(toS)
  BY <1>1, <1>3, <1>4, AppendLine, AcksAppend
<1> DEFINE n == late + polls + 1
<1>6. Slack = late + (IF polls = 0 THEN 1 ELSE polls) /\ Slack' = n
  BY <1>1, <1>3 DEF Slack
<1>7. Slack <= n /\ n \in Nat
  BY <1>3, <1>6
<1>8. Sending => Len(toR') + Len(toS') <= n /\ at + NAcks(toS') <= held + 1 + n
  <2> SUFFICES ASSUME Sending
               PROVE  Len(toR') + Len(toS') <= n /\ at + NAcks(toS') <= held + 1 + n
    OBVIOUS
  <2>1. Len(toR) + Len(toS) <= Slack /\ at + NAcks(toS) <= held + 1 + Slack /\ Len(toR) = 0 /\ toR' = toR
    BY <1>1, <1>2 DEF IInv, FewUnderWay, NotFarAhead
  <2>2. polls = 0 => Len(toS) = 0
    BY <1>1 DEF IInv, Counting
  <2> QED
    BY <1>3, <1>5, <1>6, <1>7, <2>1, <2>2
<1>9. RisingOf(toR', held, at)
  BY <1>1, RisingEmpty
<1>10. /\ errors' \in 0 .. MaxErrors /\ polls' \in 0 .. MaxPolls /\ polls' # 0 /\ late' \in 0 .. MaxLate
       /\ faults' \in 0 .. MaxFaults /\ rpc' \in Receiving /\ toR' \in Seq(Items)
  BY <1>1, <1>2, <1>3, BoundsAssumption DEF IInv, TypeOK, Counting, Active
<1> QED
  BY <1>1, <1>2, <1>5, <1>6, <1>7, <1>8, <1>9, <1>10, AnswerKeeps

\* Something read that leaves the block held where it is, and what is answered to it
LEMMA ReadKeeps ==
  ASSUME IInv, Active, toR # <<>>, rpc' \in Receiving, toR' \in {Tail(toR), <<>>}, errors' \in 0 .. MaxErrors,
         NEW y \in Items, y.is = "ACK" => at <= held + Len(toR) - 1,
         toS' \in {toS, Append(toS, y)}, rpc' = "polling" => rpc = "polling" /\ toS' = toS,
         UNCHANGED <<file, expect, sender, expected, held, delivered, acked, polls, faults, late>>
  PROVE  IInv'
<1>1. TypeOK
  BY DEF IInv
<1>2. /\ at \in Nat /\ held \in Nat /\ Slack \in Nat /\ toS \in Seq(Items) /\ Len(toS) \in Nat
      /\ NAcks(toS) \in Nat /\ NAcks(toS) <= Len(toS)
  BY <1>1, Natural
<1>3. /\ Len(toR) \in Nat \ {0} /\ toR' \in Seq(Items) /\ RisingOf(toR', held, at)
      /\ Len(toR') \in Nat /\ Len(toR') <= Len(toR) - 1
  <2>1. /\ Len(toR) \in Nat \ {0} /\ Tail(toR) \in Seq(Items) /\ RisingOf(Tail(toR), held, at)
        /\ Len(Tail(toR)) = Len(toR) - 1
    BY ReadTells
  <2>2. CASE toR' = Tail(toR)
    BY <2>1, <2>2
  <2>3. CASE toR' = <<>>
    BY <2>1, <2>3, RisingEmpty
  <2> QED
    BY <2>2, <2>3
<1>4. /\ toS' \in Seq(Items) /\ Len(toS') \in Nat /\ Len(toS') <= Len(toS) + 1
      /\ NAcks(toS') = NAcks(toS) \/ (y.is = "ACK" /\ NAcks(toS') = NAcks(toS) + 1)
  <2>1. CASE toS' = toS
    BY <1>2, <2>1
  <2>2. CASE toS' = Append(toS, y)
    BY <1>2, <2>2, AppendLine, AcksAppend
  <2> QED
    BY <2>1, <2>2
<1>5. Slack' = Slack /\ Slack <= Slack
  BY <1>2 DEF Slack
<1>6. ASSUME Sending
      PROVE  Len(toR') + Len(toS') <= Slack /\ at + NAcks(toS') <= held + 1 + Slack
  <2>1. Len(toR) + Len(toS) <= Slack /\ at + NAcks(toS) <= held + 1 + Slack
    BY <1>6 DEF IInv, FewUnderWay, NotFarAhead
  <2>2. Len(toR') + Len(toS') <= Slack
    BY <1>2, <1>3, <1>4, <2>1
  <2>3. CASE NAcks(toS') = NAcks(toS)
    BY <2>1, <2>2, <2>3
  <2>4. CASE y.is = "ACK" /\ NAcks(toS') = NAcks(toS) + 1
    <3>1. at + (NAcks(toS) + 1) <= held + 1 + Slack
      BY <1>2, <1>3, <2>1, <2>4
    <3> QED
      BY <2>2, <2>4, <3>1
  <2> QED
    BY <1>4, <2>3, <2>4
<1>7. rpc' = "polling" /\ polls' = 0 => toS' = <<>>
  BY DEF IInv, Counting
<1>8. polls' \in 0 .. MaxPolls /\ late' \in 0 .. MaxLate /\ faults' \in 0 .. MaxFaults
  BY <1>1 DEF TypeOK
<1> QED
  BY <1>2, <1>3, <1>4, <1>5, <1>6, <1>7, <1>8, AnswerKeeps

\* deliver() hands over the block held, and the sink has all up to it, as far as announced
LEMMA KeptHas ==
  ASSUME IInv, Active
  PROVE  /\ Kept \in Seq(1 .. MaxBlocks) /\ Kept = [j \in 1 .. Len(Kept) |-> j]
         /\ Len(Kept) = IF expect = 0 \/ held <= expect THEN held ELSE expect
<1>1. /\ delivered \in Seq(1 .. MaxBlocks) /\ held \in 0 .. MaxBlocks /\ expect \in Nat /\ held \in Nat
      /\ Len(delivered) \in Nat
      /\ delivered = [j \in 1 .. Len(delivered) |-> j]
      /\ Len(delivered) = IF held = 0 THEN 0
                          ELSE IF expect = 0 \/ held - 1 <= expect THEN held - 1 ELSE expect
  <2>1. delivered \in Seq(1 .. MaxBlocks) /\ held \in 0 .. MaxBlocks /\ expect \in Nat /\ held \in Nat
    BY BoundsAssumption DEF IInv, TypeOK
  <2>2. Len(delivered) \in Nat
    BY <2>1
  <2> QED
    BY <2>1, <2>2 DEF IInv, SinkHas
<1>2. CASE held = 0 \/ (expect # 0 /\ Len(delivered) >= expect)
  <2>1. Kept = delivered
    BY <1>2 DEF Kept
  <2> QED
    BY <1>1, <1>2, <2>1
<1>3. CASE ~(held = 0 \/ (expect # 0 /\ Len(delivered) >= expect))
  <2>1. Kept = Append(delivered, held) /\ held \in 1 .. MaxBlocks /\ Len(delivered) = held - 1
    BY <1>1, <1>3, BoundsAssumption DEF Kept
  <2>2. /\ Kept \in Seq(1 .. MaxBlocks) /\ Len(Kept) = held /\ DOMAIN Kept = 1 .. held
        /\ \A j \in 1 .. held : Kept[j] = IF j = held THEN held ELSE delivered[j]
    BY <1>1, <2>1
  <2>3. \A j \in 1 .. held : Kept[j] = j
    BY <1>1, <2>1, <2>2
  <2>4. Kept = [j \in 1 .. held |-> j]
    BY <2>2, <2>3
  <2> QED
    BY <1>1, <1>3, <2>1, <2>2, <2>4
<1> QED
  BY <1>2, <1>3

\* The block whose number is expected is the one after the one held
LEMMA NextBlock ==
  ASSUME IInv, Active, toR # <<>>, IsBlock(Head(toR)), Num(Head(toR).block) = expected
  PROVE  Head(toR).block = held + 1
<1> DEFINE v == Head(toR).block
<1>1. v \in Int /\ held <= v /\ v < held + NumMod /\ held \in Nat /\ Num(v) = Num(held + 1)
  BY ReadTells, Natural, BoundsAssumption DEF IInv, Counting
<1>2. NumMod \in Nat /\ NumMod > 1
  BY BoundsAssumption, NumberAssumption
<1> HIDE DEF v
<1>3. CASE v = held
  <2>1. held + 1 \in Int /\ held <= held + 1 /\ held + 1 < held + NumMod /\ Num(held) = Num(held + 1)
    BY <1>1, <1>2, <1>3
  <2>2. held = held + 1
    BY <1>1, <2>1, NumTells
  <2> QED
    BY <1>1, <2>2
<1>4. CASE v # held
  <2>1. held + 1 \in Int /\ held + 1 <= v /\ v < held + 1 + NumMod
    BY <1>1, <1>2, <1>4
  <2> QED
    BY <1>1, <2>1, NumTells DEF v
<1> QED
  BY <1>3, <1>4

\* A block whose number is one less is the one held
LEMMA SameBlock ==
  ASSUME IInv, Active, toR # <<>>, IsBlock(Head(toR)), Num(Head(toR).block) = (expected - 1) % NumMod
  PROVE  Head(toR).block = held
<1> DEFINE v == Head(toR).block
<1>1. v \in Int /\ held <= v /\ v < held + NumMod /\ held \in Nat /\ expected = Num(held + 1)
  BY ReadTells, Natural, BoundsAssumption DEF IInv, Counting
<1>2. Num(held) = Num(v)
  BY <1>1, NumStep
<1> QED
  BY <1>1, <1>2, NumTells

LEMMA NewBlockKeeps ==
  ASSUME IInv, Active, toR # <<>>, IsBlock(Head(toR)), Num(Head(toR).block) = expected,
         toR' = Tail(toR), toS' = Append(toS, Byte("ACK")), rpc' = "header", errors' = 0,
         held' = Head(toR).block, expected' = (expected + 1) % NumMod, delivered' = Kept,
         acked' = acked \cup {Head(toR).block},
         UNCHANGED <<file, expect, sender, polls, faults, late>>
  PROVE  IInv'
<1>1. TypeOK
  BY DEF IInv
<1>2. /\ file \in Nat /\ at \in Nat /\ held \in Nat /\ Slack \in Nat /\ toS \in Seq(Items) /\ Len(toS) \in Nat
      /\ NAcks(toS) \in Nat /\ NAcks(toS) <= Len(toS)
  BY <1>1, Natural
<1>3. /\ held' = held + 1 /\ Head(toR).block = held + 1 /\ held + 1 \in 1 .. file /\ held + 1 <= at
      /\ at <= held + 1 + Len(toR) - 1 /\ Len(toR) \in Nat \ {0}
      /\ toR' \in Seq(Items) /\ Len(toR') = Len(toR) - 1 /\ RisingOf(toR', held + 1, at)
  BY <1>2, ReadTells, NextBlock
<1>4. held + 1 \in 1 .. MaxBlocks
  BY <1>1, <1>2, <1>3, BoundsAssumption DEF TypeOK
<1>5. Byte("ACK") \in Items /\ Byte("ACK").is = "ACK"
  BY ItemOfByte DEF Byte
<1>6. toS' \in Seq(Items) /\ Len(toS') = Len(toS) + 1 /\ NAcks(toS') = NAcks(toS) + 1
  BY <1>2, <1>5, AppendLine, AcksAppend
<1>7. expected' = Num((held + 1) + 1) /\ expected' \in 0 .. NumMod - 1
  <2>1. expected = Num(held + 1) /\ held + 1 \in Int
    BY <1>2 DEF IInv, Counting
  <2>2. expected' = Num((held + 1) + 1)
    BY <2>1, NumStep
  <2> QED
    BY <1>2, <2>2, NumDiv
<1>8. TypeOK'
  <2>1. errors' \in 0 .. MaxErrors + 1 /\ held' \in 0 .. MaxBlocks /\ delivered' \in Seq(1 .. MaxBlocks)
    BY <1>3, <1>4, BoundsAssumption, KeptHas
  <2>2. acked' \subseteq 1 .. MaxBlocks
    BY <1>1, <1>3, <1>4 DEF TypeOK
  <2> QED
    BY <1>1, <1>3, <1>6, <1>7, <2>1, <2>2 DEF TypeOK, sender, Receiving
<1>9. SinkHas'
  <2>1. /\ delivered' = [j \in 1 .. Len(delivered') |-> j]
        /\ Len(delivered') = IF expect = 0 \/ held <= expect THEN held ELSE expect
    BY KeptHas
  <2>2. held' = held + 1 /\ held + 1 # 0 /\ (held + 1) - 1 = held
    BY <1>2, <1>3
  <2> QED
    BY <2>1, <2>2 DEF SinkHas
<1>10. AckedIsHeld'
  <2>1. \A i \in acked : i <= held /\ i \in Int
    BY <1>1 DEF IInv, AckedIsHeld, TypeOK
  <2>2. \A i \in acked' : i <= held + 1
    BY <1>2, <1>3, <2>1
  <2> QED
    BY <1>3, <2>2 DEF AckedIsHeld
<1>11. Counting'
  <2>1. errors' <= MaxErrors /\ held' <= file' /\ held' <= at'
    BY <1>3, BoundsAssumption DEF sender
  <2>2. expected' = Num(held' + 1)
    BY <1>3, <1>7
  <2> QED
    BY <2>1, <2>2 DEF IInv, Counting, sender
<1>12. Rising'
  BY <1>3 DEF Rising, RisingOf, sender
<1>13. Slack' = Slack
  BY DEF Slack
<1>14. FewUnderWay'
  BY <1>2, <1>3, <1>6, <1>13 DEF IInv, FewUnderWay, Sending, sender
<1>15. NotFarAhead'
  <2>1. /\ at <= held + 1 + Slack
        /\ Sending => at + NAcks(toS) <= held + 1 + Slack
    BY DEF IInv, NotFarAhead
  <2>2. /\ at <= (held + 1) + 1 + Slack
        /\ Sending => at + (NAcks(toS) + 1) <= (held + 1) + 1 + Slack
    BY <1>2, <2>1
  <2>3. at' = at /\ (Sending' <=> Sending)
    BY DEF sender, Sending
  <2> QED
    BY <1>3, <1>6, <1>13, <2>2, <2>3 DEF NotFarAhead
<1> QED
  BY <1>8, <1>9, <1>10, <1>11, <1>12, <1>14, <1>15 DEF IInv

LEMMA EndKeeps ==
  ASSUME IInv, Active, toR # <<>>, toR' = Tail(toR), toS' = Append(toS, Byte("ACK")), rpc' = "lingering",
         delivered' = Kept, held' = 0,
         UNCHANGED <<file, expect, sender, expected, errors, polls, acked, faults, late>>
  PROVE  IInv'
<1>1. TypeOK
  BY DEF IInv
<1>2. TypeOK'
  <2>1. toS' \in Seq(Items)
    BY <1>1, Natural, ItemOfByte, AppendLine
  <2>2. toR' \in Seq(Items) /\ held' \in 0 .. MaxBlocks /\ delivered' \in Seq(1 .. MaxBlocks)
    BY BoundsAssumption, KeptHas, ReadTells
  <2> QED
    BY <1>1, <2>1, <2>2 DEF TypeOK, sender
<1>3. SinkHas'
  BY KeptHas DEF SinkHas, Active, Receiving
<1>4. AckedIsHeld'
  <2>1. held \in Nat /\ expect \in Nat /\ \A i \in acked : i <= held /\ i \in Int
    BY <1>1, BoundsAssumption DEF IInv, AckedIsHeld, TypeOK
  <2>2. Len(Kept) = IF expect = 0 \/ held <= expect THEN held ELSE expect
    BY KeptHas
  <2>3. \A i \in acked : i <= Len(Kept) \/ (expect # 0 /\ i > expect)
    BY <2>1, <2>2
  <2> QED
    BY <2>3 DEF AckedIsHeld, Active, Receiving
<1>5. Counting'
  BY DEF IInv, Counting, Active, Receiving, sender
<1>6. Rising' /\ FewUnderWay' /\ NotFarAhead'
  BY DEF Rising, FewUnderWay, NotFarAhead, Active, Receiving
<1> QED
  BY <1>2, <1>3, <1>4, <1>5, <1>6 DEF IInv

\* `goto cancel`
LEMMA CancelKeeps ==
  ASSUME IInv, Cancel, toR' \in Seq(Items), errors' \in 0 .. MaxErrors + 1, late' \in 0 .. MaxLate,
         UNCHANGED <<file, expect, sender, expected, held, delivered, polls, acked, faults>>
  PROVE  IInv'
<1>1. toS' \in Seq(Items)
  BY Natural, CancelLine DEF IInv, Cancel
<1> QED
  BY <1>1, StopKeeps DEF Cancel, IInv, TypeOK

LEMMA HeaderKeeps ==
  ASSUME IInv, Active, toR # <<>>, NEW sunk \in BOOLEAN, Header(Head(toR), sunk),
         UNCHANGED <<file, expect, sender, polls, faults, late>>
  PROVE  IInv'
<1> DEFINE c == Head(toR)
<1>1. TypeOK /\ errors \in 0 .. MaxErrors /\ errors \in 0 .. MaxErrors + 1 /\ late' \in 0 .. MaxLate
  BY BoundsAssumption DEF IInv, TypeOK, Counting
<1>2. /\ Tail(toR) \in Seq(Items) /\ <<>> \in Seq(Items) /\ toS \in Seq(Items)
      /\ Byte("ACK") \in Items /\ Byte("NAK") \in Items /\ Byte("NAK").is = "NAK" /\ at \in Nat /\ held \in Nat
  BY <1>1, Natural, ReadTells, ItemOfByte DEF Byte
<1>3. CASE c.is = "block" /\ Num(c.block) = expected /\ NewBlock(c.block, sunk) /\ toR' = Tail(toR)
  <2>1. IsBlock(c)
    BY <1>3 DEF IsBlock
  <2>2. CASE Sinks /\ ~sunk
    <3>1. /\ rpc' = "failed" /\ toS' = Append(toS, Byte("ACK")) \o CanCan /\ acked' = acked \cup {c.block}
          /\ UNCHANGED <<expected, held, delivered, errors>>
      BY <1>3, <2>2 DEF NewBlock
    <3>2. toS' \in Seq(Items)
      BY <1>2, <3>1, AppendLine, CancelLine
    <3>3. acked' \subseteq 1 .. MaxBlocks
      <4>1. c.block \in 1 .. file /\ file \in 0 .. MaxBlocks
        BY <1>1, <2>1, ReadTells DEF TypeOK
      <4>2. c.block \in 1 .. MaxBlocks
        BY <4>1, BoundsAssumption
      <4> QED
        BY <1>1, <3>1, <4>2 DEF TypeOK
    <3> QED
      BY <1>1, <1>2, <1>3, <3>1, <3>2, <3>3, StopKeeps
  <2>3. CASE ~(Sinks /\ ~sunk)
    <3>1. /\ toS' = Append(toS, Byte("ACK")) /\ acked' = acked \cup {c.block} /\ delivered' = Kept
          /\ held' = c.block /\ expected' = (expected + 1) % NumMod /\ errors' = 0 /\ rpc' = "header"
      BY <1>3, <2>3 DEF NewBlock, Reply
    <3> QED
      BY <1>3, <2>1, <3>1, NewBlockKeeps
  <2> QED
    BY <2>2, <2>3
<1>4. CASE /\ c.is = "block" /\ Num(c.block) = (expected - 1) % NumMod
           /\ Reply("ACK") /\ rpc' = "header" /\ toR' = Tail(toR)
           /\ UNCHANGED <<expected, held, delivered, errors, acked>>
  <2>1. IsBlock(c)
    BY <1>4 DEF IsBlock
  <2>2. c.block = held
    BY <1>4, <2>1, SameBlock
  <2>3. at <= held + Len(toR) - 1
    BY <2>1, <2>2, ReadTells
  <2>4. toS' = Append(toS, Byte("ACK")) /\ rpc' \in Receiving /\ rpc' # "polling" /\ errors' \in 0 .. MaxErrors
    BY <1>1, <1>4 DEF Reply, Receiving
  <2> QED
    BY <1>2, <1>4, <2>3, <2>4, ReadKeeps
<1>5. CASE /\ Cancel /\ toR' = Tail(toR) /\ UNCHANGED <<expected, held, delivered, errors, acked>>
  BY <1>1, <1>2, <1>5, CancelKeeps
<1>6. CASE BadBlock
  <2>1. CASE errors < MaxErrors
    <3>1. /\ errors' = errors + 1 /\ toS' = Append(toS, Byte("NAK")) /\ rpc' = "header" /\ toR' = <<>>
          /\ UNCHANGED <<expected, held, delivered, acked>>
      BY <1>6, <2>1 DEF BadBlock, Reply
    <3>2. errors' \in 0 .. MaxErrors /\ rpc' \in Receiving /\ rpc' # "polling"
      BY <1>1, <2>1, <3>1, BoundsAssumption DEF Receiving
    <3> QED
      BY <1>2, <3>1, <3>2, ReadKeeps
  <2>2. CASE ~(errors < MaxErrors)
    <3>1. /\ Cancel /\ errors' = errors + 1 /\ toR' = Tail(toR)
          /\ UNCHANGED <<expected, held, delivered, acked>>
      BY <1>6, <2>2 DEF BadBlock
    <3>2. errors' \in 0 .. MaxErrors + 1
      BY <1>1, <3>1, BoundsAssumption
    <3> QED
      BY <1>1, <1>2, <3>1, <3>2, CancelKeeps
  <2> QED
    BY <2>1, <2>2
<1>7. CASE EndOfTransfer(sunk) /\ toR' = Tail(toR)
  <2>1. CASE Sinks /\ ~sunk
    <3>1. Cancel /\ UNCHANGED <<expected, held, delivered, errors, acked>>
      BY <1>7, <2>1 DEF EndOfTransfer
    <3> QED
      BY <1>1, <1>2, <1>7, <3>1, CancelKeeps
  <2>2. CASE ~(Sinks /\ ~sunk)
    BY <1>7, <2>2, EndKeeps DEF EndOfTransfer, Reply
  <2> QED
    BY <2>1, <2>2
<1>8. CASE /\ rpc' = "canned" /\ toR' = Tail(toR)
           /\ UNCHANGED <<expected, held, delivered, errors, acked, toS>>
  <2>1. rpc' \in Receiving /\ rpc' # "polling" /\ errors' \in 0 .. MaxErrors
    BY <1>1, <1>8 DEF Receiving
  <2> QED
    BY <1>2, <1>8, <2>1, ReadKeeps
<1> QED
  BY <1>3, <1>4, <1>5, <1>6, <1>7, <1>8 DEF Header

LEMMA RReadKeeps == IInv /\ RRead => IInv'
<1> SUFFICES ASSUME IInv, RRead PROVE IInv'
  OBVIOUS
<1> DEFINE c == Head(toR)
<1>1. Active /\ toR # <<>> /\ UNCHANGED <<file, expect, sender, polls, faults, late>>
  BY DEF RRead, Active
<1>2. TypeOK /\ errors \in 0 .. MaxErrors /\ errors \in 0 .. MaxErrors + 1 /\ late' \in 0 .. MaxLate
  BY <1>1, BoundsAssumption DEF IInv, TypeOK, Counting
<1>3. /\ Tail(toR) \in Seq(Items) /\ toS \in Seq(Items) /\ acked \subseteq 1 .. MaxBlocks
      /\ Byte("NAK") \in Items /\ Byte("NAK").is = "NAK" /\ at \in Nat /\ held \in Nat
  BY <1>1, <1>2, Natural, ReadTells, ItemOfByte DEF Byte, TypeOK
<1>4. CASE \E sunk \in BOOLEAN : Header(c, sunk)
  BY <1>1, <1>4, HeaderKeeps
<1>5. CASE /\ rpc' = "cancelled" /\ toR' = Tail(toR)
           /\ UNCHANGED <<expected, held, delivered, errors, acked, toS>>
  BY <1>1, <1>2, <1>3, <1>5, StopKeeps
<1>6. CASE Noise
  <2>1. toR' = Tail(toR) /\ UNCHANGED <<expected, held, delivered, errors, acked>>
    BY <1>6 DEF Noise
  <2>2. CASE rpc' = "header" /\ UNCHANGED toS
    <3>1. rpc' \in Receiving /\ rpc' # "polling" /\ errors' \in 0 .. MaxErrors
      BY <1>2, <2>1, <2>2 DEF Receiving
    <3> QED
      BY <1>1, <1>3, <2>1, <2>2, <3>1, ReadKeeps
  <2>3. CASE Cancel
    BY <1>1, <1>2, <1>3, <2>1, <2>3, CancelKeeps
  <2> QED
    BY <1>6, <2>2, <2>3 DEF Noise
<1>7. CASE toR' = Tail(toR) /\ UNCHANGED <<rpc, expected, held, delivered, errors, acked, toS>>
  <2>1. rpc' \in Receiving /\ errors' \in 0 .. MaxErrors
    BY <1>1, <1>2, <1>7 DEF Active
  <2> QED
    BY <1>1, <1>3, <1>7, <2>1, ReadKeeps
<1> QED
  BY <1>4, <1>5, <1>6, <1>7 DEF RRead

LEMMA RTimeoutKeeps == IInv /\ RTimeout => IInv'
<1> SUFFICES ASSUME IInv, RTimeout PROVE IInv'
  OBVIOUS
<1>1. TypeOK
  BY DEF IInv
<1>2. toR = <<>> /\ toR' = <<>>
      /\ UNCHANGED <<file, expect, sender, expected, held, delivered, polls, acked, toR, faults>>
  BY DEF RTimeout
<1>3. /\ at \in Nat /\ held \in Nat /\ late \in Nat /\ Slack \in Nat /\ Slack >= 1 /\ toS \in Seq(Items)
      /\ Len(toS) \in Nat /\ NAcks(toS) \in Nat /\ toR' \in Seq(Items) /\ RisingOf(toR', held, at)
      /\ errors' \in {errors, errors + 1} /\ errors \in 0 .. MaxErrors => errors' \in 0 .. MaxErrors + 1
  BY <1>1, <1>2, Natural, RisingEmpty, BoundsAssumption
<1>4. late' \in 0 .. MaxLate
  BY <1>1, <1>3, BoundsAssumption DEF RTimeout, Late, TypeOK
<1>5. Active /\ errors \in 0 .. MaxErrors
  BY <1>1 DEF RTimeout, Active, Receiving, IInv, Counting, TypeOK
<1>6. CASE Cancel /\ errors' \in {errors, errors + 1}
  BY <1>2, <1>3, <1>4, <1>5, <1>6, CancelKeeps
<1>7. CASE rpc = "canned" /\ rpc' = "header" /\ UNCHANGED <<toS, errors>>
  <2>1. late' = late /\ Slack' = Slack /\ Slack <= Slack
    BY <1>2, <1>3, <1>7 DEF RTimeout, Late, Slack
  <2>2. Sending => Len(toR') + Len(toS') <= Slack /\ at + NAcks(toS') <= held + 1 + Slack
    BY <1>2, <1>5, <1>7 DEF IInv, FewUnderWay, NotFarAhead
  <2>3. rpc' \in Receiving /\ rpc' # "polling" /\ polls' \in 0 .. MaxPolls /\ faults' \in 0 .. MaxFaults
    BY <1>1, <1>2, <1>7 DEF TypeOK, Receiving
  <2> QED
    BY <1>2, <1>3, <1>4, <1>5, <1>7, <2>1, <2>2, <2>3, AnswerKeeps
<1>8. CASE rpc = "header" /\ errors < MaxErrors /\ errors' = errors + 1 /\ Reply("NAK") /\ rpc' = "retry"
  <2> DEFINE d == IF Sending /\ toS # <<>> THEN 1 ELSE 0
             n == Slack + d
  <2>1. late' = late + d
    BY <1>3, <1>8 DEF RTimeout, Late, Sending
  <2>2. Slack' = n /\ n \in Nat /\ Slack <= n
    <3>1. polls \in Nat /\ polls' = polls
      BY <1>1, <1>2, Natural
    <3> QED
      BY <1>3, <2>1, <3>1 DEF Slack
  <2>3. Byte("NAK") \in Items /\ Byte("NAK").is # "ACK" /\ toS' = Append(toS, Byte("NAK"))
    BY <1>8, ItemOfByte DEF Byte, Reply
  <2>4. toS' \in Seq(Items) /\ Len(toS') = Len(toS) + 1 /\ NAcks(toS') = NAcks(toS)
    BY <1>3, <2>3, AppendLine, AcksAppend
  <2>5. ASSUME Sending
        PROVE  Len(toR') + Len(toS') <= n /\ at + NAcks(toS') <= held + 1 + n
    <3>1. Len(toR) + Len(toS) <= Slack /\ at + NAcks(toS) <= held + 1 + Slack /\ Len(toR) = 0 /\ Len(toR') = 0
      BY <1>2, <1>5, <2>5 DEF IInv, FewUnderWay, NotFarAhead
    <3>2. toS = <<>> => Len(toS) = 0
      OBVIOUS
    <3>3. 0 + (Len(toS) + 1) <= n
      BY <1>3, <2>5, <3>1, <3>2
    <3> QED
      BY <1>3, <2>2, <2>4, <3>1, <3>3
  <2>6. /\ rpc' \in Receiving /\ rpc' # "polling" /\ polls' \in 0 .. MaxPolls /\ faults' \in 0 .. MaxFaults
        /\ errors' \in 0 .. MaxErrors
    BY <1>1, <1>2, <1>5, <1>8, BoundsAssumption DEF TypeOK, Receiving
  <2> HIDE DEF n, d
  <2> QED
    BY <1>2, <1>3, <1>4, <1>5, <2>2, <2>4, <2>5, <2>6, AnswerKeeps
<1> QED
  BY <1>6, <1>7, <1>8 DEF RTimeout

LEMMA LeaveKeeps == IInv /\ (Linger \/ Leave) => IInv'
<1> SUFFICES ASSUME IInv, Linger \/ Leave PROVE IInv'
  OBVIOUS
<1>1. TypeOK /\ rpc = "lingering" /\ rpc' \in {"lingering", "ok", "failed"}
      /\ UNCHANGED <<file, expect, sender, expected, held, delivered, errors, polls, acked, faults, late>>
  BY DEF IInv, Linger, Leave, receiver
<1>2. toR' \in Seq(Items) /\ toS' \in Seq(Items)
  <2>1. toR \in Seq(Items) /\ toS \in Seq(Items) /\ Append(toS, Byte("ACK")) \in Seq(Items)
    BY <1>1, Natural, ItemOfByte, AppendLine
  <2>2. toR # <<>> => Tail(toR) \in Seq(Items)
    BY <2>1, HeadItem
  <2> QED
    BY <2>1, <2>2 DEF Linger, Leave
<1>3. TypeOK'
  BY <1>1, <1>2 DEF TypeOK, sender, RDone
<1>4. SinkHas' /\ AckedIsHeld'
  BY <1>1 DEF IInv, SinkHas, AckedIsHeld, Active, Receiving
<1>5. Counting'
  BY <1>1 DEF IInv, Counting, Active, Receiving, sender
<1>6. Rising' /\ FewUnderWay' /\ NotFarAhead'
  BY <1>1 DEF Rising, FewUnderWay, NotFarAhead, Active, Receiving
<1> QED
  BY <1>3, <1>4, <1>5, <1>6 DEF IInv

LEMMA FaultKeeps == IInv /\ Fault => IInv'
<1> SUFFICES ASSUME IInv, Fault PROVE IInv'
  OBVIOUS
<1>1. TypeOK /\ faults' \in 0 .. MaxFaults /\ UNCHANGED <<file, expect, sender, receiver, late>>
  BY BoundsAssumption DEF IInv, Fault, TypeOK
<1>2. /\ at \in Nat /\ held \in Nat /\ Slack \in Nat /\ toR \in Seq(Items) /\ toS \in Seq(Items)
      /\ Len(toR) \in Nat /\ Len(toS) \in Nat /\ NAcks(toS) \in Nat
  BY <1>1, Natural
<1>3. /\ toR' \in Seq(Items) /\ Len(toR') \in Nat /\ Len(toR') <= Len(toR)
      /\ Active => RisingOf(toR', held, at)
  <2>1. Active => RisingOf(toR, held, at)
    BY DEF IInv, Rising
  <2>2. CASE toR # <<>> /\ toR' = Tail(toR)
    <3>1. Tail(toR) \in Seq(Items) /\ Len(Tail(toR)) = Len(toR) - 1 /\ Len(toR) \in Nat \ {0}
      BY <1>2, <2>2, HeadItem
    <3>2. Active => RisingOf(Tail(toR), held, at)
      BY <1>2, <2>1, <2>2, RisingTail
    <3> QED
      BY <2>2, <3>1, <3>2
  <2>3. ASSUME toR # <<>>, NEW x \in Items, IsBlock(x) => IsBlock(Head(toR)) /\ x.block = Head(toR).block,
               toR' = <<x>> \o Tail(toR)
        PROVE  /\ toR' \in Seq(Items) /\ Len(toR') \in Nat /\ Len(toR') <= Len(toR)
               /\ Active => RisingOf(toR', held, at)
    <3>1. <<x>> \o Tail(toR) \in Seq(Items) /\ Len(<<x>> \o Tail(toR)) = Len(toR)
      BY <1>2, <2>3, NewHead
    <3>2. Active => RisingOf(<<x>> \o Tail(toR), held, at)
      BY <1>2, <2>1, <2>3, RisingHead
    <3> QED
      BY <1>2, <2>3, <3>1, <3>2
  <2>4. CASE /\ toR # <<>> /\ Head(toR).is = "block"
             /\ toR' = <<[Head(toR) EXCEPT !.good = FALSE]>> \o Tail(toR)
    <3> DEFINE x == [Head(toR) EXCEPT !.good = FALSE]
    <3>1. Head(toR) \in Items
      BY <1>2, <2>4, HeadItem
    <3>2. x \in Items /\ x.block = Head(toR).block /\ IsBlock(Head(toR))
      BY <2>4, <3>1 DEF Items, IsBlock
    <3> QED
      BY <2>3, <2>4, <3>2
  <2>5. CASE toR # <<>> /\ \E k \in {"noise", "EOT", "CAN"} : toR' = <<Byte(k)>> \o Tail(toR)
    <3>1. PICK k \in {"noise", "EOT", "CAN"} : toR' = <<Byte(k)>> \o Tail(toR)
      BY <2>5
    <3>2. Byte(k) \in Items /\ ~IsBlock(Byte(k))
      BY ItemOfByte DEF IsBlock, Byte
    <3> QED
      BY <2>3, <2>5, <3>1, <3>2
  <2>6. CASE toR' = toR
    BY <1>2, <2>1, <2>6
  <2> QED
    BY <2>2, <2>4, <2>5, <2>6 DEF Fault, Lose, Garble
<1>4. /\ toS' \in Seq(Items) /\ Len(toS') \in Nat /\ Len(toS') <= Len(toS)
      /\ NAcks(toS') \in Nat /\ NAcks(toS') <= NAcks(toS) /\ (toS = <<>> => toS' = <<>>)
  <2>1. CASE toS # <<>> /\ toS' = Tail(toS)
    <3>1. Tail(toS) \in Seq(Items) /\ Len(Tail(toS)) = Len(toS) - 1 /\ Len(toS) \in Nat \ {0}
      BY <1>2, <2>1, HeadItem
    <3>2. NAcks(Tail(toS)) \in Nat /\ NAcks(Tail(toS)) = IF Head(toS).is = "ACK" THEN NAcks(toS) - 1 ELSE NAcks(toS)
      BY <1>2, <2>1, <3>1, AcksTail, AcksFinite
    <3> QED
      BY <1>2, <2>1, <3>1, <3>2
  <2>2. CASE toS # <<>> /\ \E k \in {"noise", "CAN"} : toS' = <<Byte(k)>> \o Tail(toS)
    <3>1. PICK k \in {"noise", "CAN"} : toS' = <<Byte(k)>> \o Tail(toS)
      BY <2>2
    <3>2. Byte(k) \in Items /\ Byte(k).is # "ACK"
      BY ItemOfByte DEF Byte
    <3>3. toS' \in Seq(Items) /\ Len(toS') = Len(toS)
      BY <1>2, <2>2, <3>1, <3>2, NewHead
    <3>4. NAcks(toS') <= NAcks(toS) /\ NAcks(toS') \in Nat
      BY <1>2, <2>2, <3>1, <3>2, <3>3, AcksHead, AcksFinite
    <3> QED
      BY <1>2, <2>2, <3>3, <3>4
  <2>3. CASE toS' = toS
    BY <1>2, <2>3
  <2> QED
    BY <2>1, <2>2, <2>3 DEF Fault, Lose, Garble
<1>5. CASE Active
  <2>1. Slack' = Slack /\ Slack <= Slack
    BY <1>1, <1>2 DEF Slack, receiver
  <2>2. ASSUME Sending
        PROVE  Len(toR') + Len(toS') <= Slack /\ at + NAcks(toS') <= held + 1 + Slack
    <3>1. Len(toR) + Len(toS) <= Slack /\ at + NAcks(toS) <= held + 1 + Slack
      BY <1>5, <2>2 DEF IInv, FewUnderWay, NotFarAhead
    <3> QED
      BY <1>2, <1>3, <1>4, <3>1
  <2>3. rpc' = "polling" /\ polls' = 0 => toS' = <<>>
    BY <1>1, <1>4 DEF IInv, Counting, receiver
  <2>4. /\ rpc' \in Receiving /\ errors' \in 0 .. MaxErrors /\ polls' \in 0 .. MaxPolls
        /\ late' \in 0 .. MaxLate
    BY <1>1, <1>5 DEF IInv, TypeOK, Counting, Active, receiver
  <2> QED
    BY <1>1, <1>2, <1>3, <1>4, <1>5, <2>1, <2>2, <2>3, <2>4, AnswerKeeps DEF receiver
<1>6. CASE ~Active
  <2>1. TypeOK'
    BY <1>1, <1>3, <1>4 DEF TypeOK, sender, receiver
  <2>2. Counting'
    BY <1>1, <1>6 DEF IInv, Counting, Active, Receiving, sender, receiver
  <2>3. Rising' /\ FewUnderWay' /\ NotFarAhead'
    BY <1>1, <1>6 DEF Rising, FewUnderWay, NotFarAhead, Active, receiver
  <2> QED
    BY <1>1, <2>1, <2>2, <2>3, ReceiverStays DEF IInv
<1> QED
  BY <1>5, <1>6

LEMMA NextIInv == IInv /\ [Next]_vars => IInv'
<1> SUFFICES ASSUME IInv, [Next]_vars PROVE IInv'
  OBVIOUS
<1>1. CASE SRead
  BY <1>1, SReadKeeps
<1>2. CASE STimeout
  BY <1>2, STimeoutKeeps
<1>3. CASE Poll
  BY <1>3, PollKeeps
<1>4. CASE RRead
  BY <1>4, RReadKeeps
<1>5. CASE RTimeout
  BY <1>5, RTimeoutKeeps
<1>6. CASE Linger \/ Leave
  BY <1>6, LeaveKeeps
<1>7. CASE Fault
  BY <1>7, FaultKeeps
<1>8. CASE UNCHANGED vars
  BY <1>8 DEF vars, sender, receiver, IInv, TypeOK, SinkHas, Counting, AckedIsHeld, Rising, RisingOf,
              FewUnderWay, NotFarAhead, Active, Sending, Slack
<1> QED
  BY <1>1, <1>2, <1>3, <1>4, <1>5, <1>6, <1>7, <1>8 DEF Next, Finished

LEMMA Invariant == Spec => []IInv
  BY InitIInv, NextIInv, PTL DEF Spec

\* TypeOK, for every value of the constants.
THEOREM Typed == Spec => []TypeOK
<1>1. IInv => TypeOK
  BY DEF IInv
<1> QED
  BY Invariant, <1>1, PTL

\* Until a transfer fails every block acknowledged is with the sink, held, or beyond what was
\* announced: AckedIsKept.
THEOREM AcksAreKept == Spec => []AckedIsKept
<1>1. IInv => AckedIsKept
  <2> SUFFICES ASSUME IInv, rpc \notin {"failed", "cancelled"}, NEW i \in acked
               PROVE  i <= Len(delivered) \/ i = held \/ (expect # 0 /\ i > expect)
    BY DEF AckedIsKept
  <2>1. CASE Active
    <3>1. i <= held /\ i \in 1 .. MaxBlocks /\ held \in Nat /\ expect \in Nat
      BY <2>1, BoundsAssumption DEF IInv, AckedIsHeld, TypeOK
    <3>2. Len(delivered) = IF held = 0 THEN 0
                           ELSE IF expect = 0 \/ held - 1 <= expect THEN held - 1 ELSE expect
      BY <2>1 DEF IInv, SinkHas
    <3> QED
      BY <3>1, <3>2, BoundsAssumption
  <2>2. CASE rpc \in {"lingering", "ok"}
    BY <2>2 DEF IInv, AckedIsHeld
  <2> QED
    BY <2>1, <2>2 DEF IInv, TypeOK, RDone, Active
<1> QED
  BY Invariant, <1>1, PTL

----------------------------------------------------------------------------
(* The receiver's steps are those of a transfer. *)

\* Nothing handed over and not at an end
LEMMA RunsOn ==
  ASSUME UNCHANGED <<file, expect, delivered>>,
         (rpc' = rpc) \/ (rpc \in Receiving \cup {"lingering"} /\ rpc' \in Receiving \cup {"lingering"})
  PROVE  UNCHANGED Receiver!vars
  BY DEF Receiver!vars, Receiving

LEMMA Fails ==
  ASSUME UNCHANGED <<file, expect, delivered>>, rpc \in Receiving \cup {"lingering"},
         rpc' \in {"failed", "cancelled"}
  PROVE  Receiver!Next
  BY DEF Receiver!Next, Receiver!Fail, Receiving

\* deliver() hands over the next block, or none
LEMMA Delivers ==
  ASSUME IInv, Active, delivered' = Kept, rpc' \in {"header", "lingering"}, UNCHANGED <<file, expect>>
  PROVE  [Receiver!Next]_(Receiver!vars)
<1>1. CASE held = 0 \/ (expect # 0 /\ Len(delivered) >= expect)
  <2>1. delivered' = delivered
    BY <1>1 DEF Kept
  <2> QED
    BY <2>1, RunsOn DEF Active, Receiving
<1>2. CASE ~(held = 0 \/ (expect # 0 /\ Len(delivered) >= expect))
  <2>1. held \in Nat \ {0} /\ expect \in Nat /\ file \in Nat /\ held <= file /\ Len(delivered) \in Nat
    BY <1>2, BoundsAssumption DEF IInv, TypeOK, Counting
  <2>2. Len(delivered) = IF expect = 0 \/ held - 1 <= expect THEN held - 1 ELSE expect
    BY <2>1 DEF IInv, SinkHas
  <2>3. /\ Len(delivered) + 1 = held /\ Len(delivered) < file
        /\ (expect # 0 => Len(delivered) < expect)
    BY <1>2, <2>1, <2>2
  <2>4. delivered' = Append(delivered, Len(delivered) + 1)
    BY <1>2, <2>3 DEF Kept
  <2>5. Receiver!Deliver
    BY <2>3, <2>4 DEF Receiver!Deliver, Active, Receiving
  <2> QED
    BY <2>5 DEF Receiver!Next
<1> QED
  BY <1>1, <1>2

LEMMA ReceiverSteps == IInv /\ [Next]_vars => [Receiver!Next]_(Receiver!vars)
<1> SUFFICES ASSUME IInv, [Next]_vars PROVE [Receiver!Next]_(Receiver!vars)
  OBVIOUS
<1>1. CASE SRead \/ STimeout \/ Fault \/ Poll \/ Linger \/ UNCHANGED vars
  BY <1>1, RunsOn DEF SRead, STimeout, Fault, Poll, Linger, receiver, vars
<1>2. CASE RTimeout
  <2>1. UNCHANGED <<file, expect, delivered>> /\ rpc \in Receiving /\ rpc' \in Receiving \cup {"failed"}
    BY <1>2 DEF RTimeout, Cancel, Receiving
  <2> QED
    BY <2>1, RunsOn, Fails
<1>3. CASE RRead
  <2>1. Active /\ UNCHANGED <<file, expect>>
    BY <1>3 DEF RRead, Active
  <2>2. \/ delivered' = delivered /\ rpc' \in Receiving \cup {"failed", "cancelled"}
        \/ delivered' = Kept /\ rpc' \in {"header", "lingering"}
    <3>1. ASSUME NEW c, NEW sunk \in BOOLEAN, Header(c, sunk)
          PROVE  \/ delivered' = delivered /\ rpc' \in Receiving \cup {"failed", "cancelled"}
                 \/ delivered' = Kept /\ rpc' \in {"header", "lingering"}
      BY <3>1 DEF Header, NewBlock, BadBlock, EndOfTransfer, Cancel, Receiving
    <3>2. CASE Noise
      BY <3>2 DEF Noise, Cancel, Receiving
    <3> QED
      BY <1>3, <3>1, <3>2 DEF RRead, Receiving
  <2>3. CASE delivered' = Kept /\ rpc' \in {"header", "lingering"}
    BY <2>1, <2>3, Delivers
  <2>4. CASE delivered' = delivered /\ rpc' \in Receiving
    BY <2>1, <2>4, RunsOn DEF Active
  <2>5. CASE delivered' = delivered /\ rpc' \in {"failed", "cancelled"}
    BY <2>1, <2>5, Fails DEF Active
  <2> QED
    BY <2>2, <2>3, <2>4, <2>5
<1>4. CASE Leave
  <2>1. /\ rpc = "lingering" /\ rpc' = IF Len(delivered) < expect THEN "failed" ELSE "ok"
        /\ UNCHANGED <<file, expect, delivered>>
    BY <1>4 DEF Leave
  <2>2. CASE Len(delivered) < expect
    BY <2>1, <2>2, Fails
  <2>3. CASE ~(Len(delivered) < expect)
    <3>1. Len(delivered) \in Nat /\ expect \in Nat
      BY BoundsAssumption DEF IInv, TypeOK
    <3>2. Receiver!Succeed
      BY <2>1, <2>3, <3>1 DEF Receiver!Succeed
    <3> QED
      BY <3>2 DEF Receiver!Next
  <2> QED
    BY <2>2, <2>3
<1> QED
  BY <1>1, <1>2, <1>3, <1>4 DEF Next, Finished

\* The receiver of XMODEM implements Transfer: the blocks of the file reach the sink in order and
\* each once, and a size announced has come in full when it ends well: IsTransfer.
THEOREM Transfers == Spec => IsTransfer
<1>1. Init => Receiver!Init
  BY DEF Init, Receiver!Init
<1> QED
  BY Invariant, <1>1, ReceiverSteps, PTL DEF Spec, IsTransfer, Receiver!Spec
=============================================================================
