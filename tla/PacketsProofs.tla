----------------------------- MODULE PacketsProofs -----------------------------
(***************************************************************************)
(* The two modules about packet ids, which share nothing.                  *)
(*                                                                         *)
(* PacketIds: ids read back from the tags, and no two packets with the     *)
(* same base. The invariant is that sequence numbers go up within a turn   *)
(* and that the tags below the policy chain's spell the id the packet is   *)
(* stored under. Facts about the numbers come first: they say why          *)
(* getNexSeqNum's loop ends in three passes and what fits in which tag.    *)
(*                                                                         *)
(* ListComparison: the loops return what PacketLists says, for lists of    *)
(* any length. The invariant says of each loop what it has put together    *)
(* of the part of the lists its iterators have passed.                     *)
(***************************************************************************)
EXTENDS MCPackets, PacketListsProofs

-----------------------------------------------------------------------------
(* PacketIds. *)

\* The sequence numbers that are drawn.
IsSeqNum(n) ==
  n \in Nat /\ FirstSeqNum <= n /\ n < MAX_SEQ_NUM /\ IsValidSeqNum(n)

\* A number is put together from the bits that go into its tags.
LEMMA DivMod ==
  ASSUME NEW n \in Nat
  PROVE  /\ n \div 128 \in Nat /\ n % 128 \in Nat /\ n % 128 <= 127 /\ n = 128 * (n \div 128) + (n % 128)
         /\ n \div 524288 \in Nat
         /\ (n \div 128) % 4096 \in Nat /\ (n \div 128) % 4096 <= 4095
         /\ n \div 128 = 4096 * (n \div 524288) + ((n \div 128) % 4096)
<1>1. /\ n \div 128 \in Nat /\ n % 128 \in Nat /\ n % 128 <= 127 /\ n = 128 * (n \div 128) + (n % 128)
  BY SMT
<1>2. n \div 524288 \in Nat /\ (n \div 128) % 4096 \in Nat /\ (n \div 128) % 4096 <= 4095
  BY <1>1, SMT
<1>3. n \div 128 = 4096 * (n \div 524288) + ((n \div 128) % 4096)
  BY SMT
<1> QED BY <1>1, <1>2, <1>3

\* The first sequence number is not reserved; the upper limit of the code, one too
\* high, is, so that no number that needs a tenth bit in the inner tag is drawn.
LEMMA FirstValid == IsValidSeqNum(FirstSeqNum) /\ ~IsValidSeqNum(MAX_SEQ_NUM)
BY SMT DEF IsValidSeqNum, FirstSeqNum, MAX_SEQ_NUM

\* Of three numbers 128 apart the third is valid, if the first two are not.
LEMMA TwoReserved ==
  ASSUME NEW n \in Nat, ~IsValidSeqNum(n), ~IsValidSeqNum(n + 128)
  PROVE  IsValidSeqNum(n + 256)
<1> DEFINE q == n \div 128
<1>1. q \in Nat /\ (n + 128) \div 128 = q + 1 /\ (n + 256) \div 128 = q + 2
  BY SMT
<1>2. q % 4096 \in {0, 4095} /\ (q + 1) % 4096 \in {0, 4095}
  BY <1>1 DEF IsValidSeqNum
<1> HIDE DEF q
<1>3. (q + 2) % 4096 \notin {0, 4095}
  BY <1>1, <1>2, SMT
<1> QED BY <1>1, <1>3 DEF IsValidSeqNum, q

\* What one pass of the loop does.
LEMMA PassIs ==
  ASSUME NEW n \in Nat
  PROVE  /\ n > MAX_SEQ_NUM => Pass(n) = FirstSeqNum
         /\ n <= MAX_SEQ_NUM /\ IsValidSeqNum(n) => Pass(n) = n
         /\ n <= MAX_SEQ_NUM /\ ~IsValidSeqNum(n) => Pass(n) = n + 128
BY FirstValid, SMT DEF Pass, FirstSeqNum, MAX_SEQ_NUM

\* Three passes end in a number that is not reserved and fits its bits.
LEMMA NextSeqNum ==
  ASSUME NEW n \in Nat, FirstSeqNum <= n, n <= MAX_SEQ_NUM + 1
  PROVE  IsSeqNum(GetNextSeqNum(n))
<1>1. \A l \in Nat : FirstSeqNum <= l /\ l <= MAX_SEQ_NUM /\ IsValidSeqNum(l) => IsSeqNum(l)
  <2> SUFFICES ASSUME NEW l \in Nat, FirstSeqNum <= l, l <= MAX_SEQ_NUM, IsValidSeqNum(l)
               PROVE  IsSeqNum(l)
    OBVIOUS
  <2>1. l # MAX_SEQ_NUM
    BY FirstValid
  <2>2. l < MAX_SEQ_NUM
    BY <2>1, SMT DEF MAX_SEQ_NUM
  <2> QED BY <2>2 DEF IsSeqNum
<1>2. IsSeqNum(FirstSeqNum)
  BY FirstValid, SMT DEF IsSeqNum, FirstSeqNum, MAX_SEQ_NUM
<1>3. \A l : IsSeqNum(l) => Pass(l) = l
  <2> SUFFICES ASSUME NEW l, IsSeqNum(l) PROVE Pass(l) = l
    OBVIOUS
  <2>1. l \in Nat /\ l <= MAX_SEQ_NUM /\ IsValidSeqNum(l)
    BY SMT DEF IsSeqNum, MAX_SEQ_NUM
  <2> QED BY <2>1, PassIs
<1> DEFINE a == Pass(n)  b == Pass(a)
<1>4. a = Pass(n) /\ b = Pass(a) /\ GetNextSeqNum(n) = Pass(b)
  BY DEF GetNextSeqNum
<1> HIDE DEF a, b
<1>5. CASE IsSeqNum(a)
  BY <1>3, <1>4, <1>5
<1>6. CASE ~IsSeqNum(a)
  <2>1. ~(n > MAX_SEQ_NUM)
    BY <1>2, <1>4, <1>6, PassIs
  <2>2. n <= MAX_SEQ_NUM
    BY <2>1, SMT DEF MAX_SEQ_NUM
  <2>3. ~IsValidSeqNum(n) /\ a = n + 128
    BY <1>1, <1>4, <1>6, <2>2, PassIs
  <2>4. a \in Nat /\ FirstSeqNum <= a
    BY <2>3, SMT DEF FirstSeqNum
  <2>5. CASE IsSeqNum(b)
    BY <1>3, <1>4, <2>5
  <2>6. CASE ~IsSeqNum(b)
    <3>1. ~(a > MAX_SEQ_NUM)
      BY <1>2, <1>4, <2>4, <2>6, PassIs
    <3>2. a <= MAX_SEQ_NUM
      BY <2>4, <3>1, SMT DEF MAX_SEQ_NUM
    <3>3. ~IsValidSeqNum(a) /\ b = a + 128
      BY <1>1, <1>4, <1>6, <3>2, <2>4, PassIs
    <3>4. b = n + 256 /\ b \in Nat /\ FirstSeqNum <= b
      BY <2>3, <3>3, SMT DEF FirstSeqNum
    <3>5. IsValidSeqNum(b)
      BY <2>3, <3>3, <3>4, TwoReserved
    <3>6. b > MAX_SEQ_NUM
      <4>1. ~(b <= MAX_SEQ_NUM)
        BY <1>1, <2>6, <3>4, <3>5
      <4> QED BY <3>4, <4>1, SMT DEF MAX_SEQ_NUM
    <3> QED BY <1>2, <1>4, <3>4, <3>6, PassIs
  <2> QED BY <2>5, <2>6
<1> QED BY <1>5, <1>6

-----------------------------------------------------------------------------
(* The tags of an id, and what they say of it. *)

\* The values of the three tags of a sequence number that is drawn.
LEMMA TagsOf ==
  ASSUME NEW p \in 1..6, NEW n, IsSeqNum(n)
  PROVE  /\ CreateInnerVlan(p, n) \in Nat
         /\ 512 <= CreateInnerVlan(p, n) /\ CreateInnerVlan(p, n) < 4095
         /\ CreateInnerVlan(p, n) = 512 * p + (n \div 524288) /\ n \div 524288 \in Nat /\ n \div 524288 <= 511
         /\ CreateMiddleVlan(n) \in Nat /\ 1 <= CreateMiddleVlan(n) /\ CreateMiddleVlan(n) <= 4094
         /\ CreateOuterVlan(n) \in Nat /\ 1 <= CreateOuterVlan(n) /\ CreateOuterVlan(n) <= 4065
         /\ CreateOuterVlan(n) % 32 = 1 /\ CreateOuterVlan(n) \div 32 = n % 128
<1>1. n \in Nat /\ n < MAX_SEQ_NUM /\ IsValidSeqNum(n)
  BY DEF IsSeqNum
<1>2. n \div 524288 \in Nat /\ n \div 524288 < 512
  BY <1>1, SMT DEF MAX_SEQ_NUM
<1>3. /\ CreateInnerVlan(p, n) \in Nat
      /\ 512 <= CreateInnerVlan(p, n) /\ CreateInnerVlan(p, n) < 4095
      /\ CreateInnerVlan(p, n) = 512 * p + (n \div 524288) /\ n \div 524288 \in Nat /\ n \div 524288 <= 511
  BY <1>2, SMT DEF CreateInnerVlan
<1>4. CreateMiddleVlan(n) \in Nat /\ 1 <= CreateMiddleVlan(n) /\ CreateMiddleVlan(n) <= 4094
  BY <1>1, DivMod, SMT DEF CreateMiddleVlan, IsValidSeqNum
<1>5. n % 128 \in Nat /\ n % 128 <= 127
  BY <1>1, DivMod
<1>6. /\ CreateOuterVlan(n) \in Nat /\ 1 <= CreateOuterVlan(n) /\ CreateOuterVlan(n) <= 4065
      /\ CreateOuterVlan(n) % 32 = 1 /\ CreateOuterVlan(n) \div 32 = n % 128
  BY <1>5, SMT DEF CreateOuterVlan
<1> QED BY <1>3, <1>4, <1>6

IdFor(p, n) == Unified(CreateInnerVlan(p, n), CreateMiddleVlan(n), CreateOuterVlan(n))

\* A base says whose it is and which sequence number.
LEMMA BaseInjective ==
  ASSUME NEW p \in 1..6, NEW q \in 1..6, NEW l, IsSeqNum(l), NEW n, IsSeqNum(n),
         BaseOfId(IdFor(p, l)) = BaseOfId(IdFor(q, n))
  PROVE  p = q /\ l = n
<1>1. /\ CreateInnerVlan(p, l) * 4096 + CreateMiddleVlan(l)
           = CreateInnerVlan(q, n) * 4096 + CreateMiddleVlan(n)
      /\ CreateOuterVlan(l) \div 32 = CreateOuterVlan(n) \div 32
  BY DEF BaseOfId, IdFor, Unified
<1>2. l % 128 = n % 128
  BY <1>1, TagsOf
<1>3. CreateInnerVlan(p, l) = CreateInnerVlan(q, n) /\ CreateMiddleVlan(l) = CreateMiddleVlan(n)
  <2>1. \A a, b, c, d \in Nat :
          a * 4096 + c = b * 4096 + d /\ c <= 4095 /\ d <= 4095 => a = b /\ c = d
    BY SMT
  <2> QED BY <1>1, <2>1, TagsOf, SMTT(30)
<1>4. p = q /\ l \div 524288 = n \div 524288
  <2>1. \A a, b \in 1..6 : \A c, d \in Nat :
          512 * a + c = 512 * b + d /\ c <= 511 /\ d <= 511 => a = b /\ c = d
    BY SMT
  <2> QED BY <1>3, <2>1, TagsOf, SMTT(30)
<1>5. l \in Nat /\ n \in Nat
  BY DEF IsSeqNum
<1>6. l \div 128 = n \div 128
  BY <1>3, <1>4, <1>5, DivMod DEF CreateMiddleVlan
<1>7. l = n
  BY <1>2, <1>5, <1>6, DivMod
<1> QED BY <1>4, <1>7

-----------------------------------------------------------------------------
(* The inductive invariant. *)

Stamp == [ producer : Producers, turn : Nat, seq : Nat, id : Nat \X Nat ]

\* The counters are numbers that can still be drawn from.
CountersInv ==
  /\ seqNum \in [Producers -> Nat]
  /\ \A p \in Producers : FirstSeqNum <= seqNum[p] /\ seqNum[p] <= MAX_SEQ_NUM + 1
  /\ turn \in [Producers -> Nat]

\* In a turn a producer's sequence numbers go up.
StampedInv ==
  /\ stamped \in Seq(Stamp)
  /\ \A a \in DOMAIN stamped :
       LET s == stamped[a]
       IN /\ IsSeqNum(s.seq)
          /\ s.id = IdFor(s.producer, s.seq)
          /\ s.turn <= turn[s.producer]
          /\ s.turn = turn[s.producer] => s.seq < seqNum[s.producer]
  /\ \A a, b \in DOMAIN stamped :
       /\ a # b
       /\ stamped[a].producer = stamped[b].producer
       /\ stamped[a].turn = stamped[b].turn
       => stamped[a].seq # stamped[b].seq

\* The tags under the chain's are those of the id the packet is stored under.
Carries(tags, id) ==
  \E inner, middle, outer \in Nat :
    /\ 1 <= inner /\ 1 <= middle /\ middle <= 4094
    /\ 1 <= outer /\ outer % 32 <= 30 /\ 1 <= outer % 32
    /\ tags = << outer, middle, inner >>
    /\ id = Unified(inner, middle, outer)

PacketInv ==
  /\ packet \in [ at : {"gone", "network", "middlebox", "last"}, tags : Seq(Nat),
                  anno : Nat \X Nat, stored : Nat \X Nat ]
  /\ stamped # <<>> =>
       BaseOfId(packet.stored) = BaseOfId(stamped[Len(stamped)].id)
  /\ packet.at \in {"network", "middlebox"} =>
       packet.tags # <<>> /\ Carries(Tail(packet.tags), packet.stored)
  /\ packet.at = "last" => Carries(packet.tags, packet.stored)
  /\ packet.at \in {"middlebox", "last"} => packet.anno = packet.stored

IdsInv == CountersInv /\ StampedInv /\ PacketInv

\* The invariant holds at the beginning.
LEMMA InitIdsInv == InitIds => IdsInv
<1> SUFFICES ASSUME InitIds PROVE IdsInv
  OBVIOUS
<1> USE DEF InitIds
<1>1. CountersInv
  <2>1. \A n \in Starts : n \in Nat /\ FirstSeqNum <= n /\ n <= MAX_SEQ_NUM
    BY PacketIdsAssumption
  <2>2. \A n \in Nat : n <= MAX_SEQ_NUM => n <= MAX_SEQ_NUM + 1
    BY SMT DEF MAX_SEQ_NUM
  <2> QED BY <2>1, <2>2 DEF CountersInv
<1>2. StampedInv
  BY DEF StampedInv
<1>3. PacketInv
  BY DEF PacketInv
<1> QED BY <1>1, <1>2, <1>3 DEF IdsInv

\* Sequences written out.
LEMMA PutAfterOne ==
  ASSUME NEW a \in Nat, NEW b \in Nat, NEW c \in Nat
  PROVE  << a, b >> \o << c >> = << a, b, c >>
<1> DEFINE l == << a, b >> \o << c >>  r == << a, b, c >>
<1>1. l \in Seq(Nat) /\ r \in Seq(Nat) /\ Len(l) = 3 /\ Len(r) = 3
  BY SMT
<1>2. \A k \in 1..3 : l[k] = r[k]
  BY SMT
<1> QED BY <1>1, <1>2, SeqEqual

\* The same for one more tag.
LEMMA PutAfterTwo ==
  ASSUME NEW a \in Nat, NEW b \in Nat, NEW c \in Nat, NEW d \in Nat
  PROVE  << a, b >> \o << c, d >> = << a, b, c, d >>
<1> DEFINE l == << a, b >> \o << c, d >>  r == << a, b, c, d >>
<1>1. l \in Seq(Nat) /\ r \in Seq(Nat) /\ Len(l) = 4 /\ Len(r) = 4
  BY SMT
<1>2. \A k \in 1..4 : l[k] = r[k]
  BY SMT
<1> QED BY <1>1, <1>2, SeqEqual

\* What 802.1Q lets a tag be.
IsTag(tci) == tci \in Nat /\ 1 <= tci /\ tci <= 4094

\* A sequence with three elements after its first.
LEMMA TailOfThree ==
  ASSUME NEW s \in Seq(Nat), s # <<>>, Len(Tail(s)) = 3
  PROVE  /\ Len(s) = 4 /\ Tail(s) \in Seq(Nat)
         /\ s[2] = Tail(s)[1] /\ s[3] = Tail(s)[2] /\ s[4] = Tail(s)[3]
<1> DEFINE t == Tail(s)
<1>1. /\ t \in Seq(Nat) /\ Len(t) = Len(s) - 1 /\ Len(t) = 3
      /\ \A k \in 1..Len(t) : t[k] = s[k + 1]
  BY HeadTailProperties
<1>2. Len(s) \in Nat
  OBVIOUS
<1> HIDE DEF t
<1>3. Len(s) = 4 /\ t[1] = s[2] /\ t[2] = s[3] /\ t[3] = s[4]
  BY <1>1, <1>2, SMT
<1> QED BY <1>1, <1>3 DEF t

\* What three tags are.
LEMMA ThreeTags ==
  ASSUME NEW a \in Nat, NEW b \in Nat, NEW c \in Nat, NEW s, s = << a, b, c >>
  PROVE  s \in Seq(Nat) /\ Len(s) = 3 /\ s[1] = a /\ s[2] = b /\ s[3] = c
BY SMT

\* The three tags are pushed between the chain's tag and the rest, in this order.
LEMMA PushIdIs ==
  ASSUME NEW inner, IsTag(inner), NEW middle, IsTag(middle), NEW outer, IsTag(outer)
  PROVE  PushId(inner, middle, outer) = << chainTag, outer, middle, inner >>
<1>1. /\ inner \in Nat /\ middle \in Nat /\ outer \in Nat
      /\ inner % 4096 # 0 /\ middle % 4096 # 0 /\ outer % 4096 # 0
  BY SMT DEF IsTag
<1>2. PushVlanLayer(<<chainTag>>, inner) = << chainTag, inner >>
  BY <1>1 DEF PushVlanLayer
<1>3. PushVlanLayer(<< chainTag, inner >>, middle) = << chainTag, middle, inner >>
  <2>1. Tail(<< chainTag, inner >>) = << inner >> /\ << chainTag, inner >>[1] = chainTag
    OBVIOUS
  <2>2. << chainTag, middle >> \o << inner >> = << chainTag, middle, inner >>
    BY <1>1, PutAfterOne DEF chainTag
  <2> QED BY <1>1, <2>1, <2>2 DEF PushVlanLayer
<1>4. PushVlanLayer(<< chainTag, middle, inner >>, outer) = << chainTag, outer, middle, inner >>
  <2>1. /\ Tail(<< chainTag, middle, inner >>) = << middle, inner >>
        /\ << chainTag, middle, inner >>[1] = chainTag
    OBVIOUS
  <2>2. << chainTag, outer >> \o << middle, inner >> = << chainTag, outer, middle, inner >>
    BY <1>1, PutAfterTwo DEF chainTag
  <2> QED BY <1>1, <2>1, <2>2 DEF PushVlanLayer
<1> QED BY <1>2, <1>3, <1>4 DEF PushId

\* A new id keeps the invariant.
LEMMA EncapsulateInv ==
  ASSUME IdsInv, NEW p \in Producers, Encapsulate(p)
  PROVE  IdsInv'
<1> DEFINE n == GetNextSeqNum(seqNum[p])
           id == IdFor(p, n)
           new == [ producer |-> p, turn |-> turn'[p], seq |-> n, id |-> id ]
<1>1. p \in 1..6 /\ seqNum[p] \in Nat /\ turn[p] \in Nat
  BY PacketIdsAssumption DEF IdsInv, CountersInv
<1>2. IsSeqNum(n)
  BY <1>1, NextSeqNum DEF IdsInv, CountersInv
<1>3. n \in Nat /\ FirstSeqNum <= n + 1 /\ n + 1 <= MAX_SEQ_NUM + 1
  BY <1>2, SMT DEF IsSeqNum, MAX_SEQ_NUM, FirstSeqNum
<1>4. /\ seqNum' = [ seqNum EXCEPT ![p] = n + 1 ]
      /\ turn' = [ turn EXCEPT ![p] = IF n < seqNum[p] THEN @ + 1 ELSE @ ]
      /\ stamped' = Append(stamped, new)
      /\ packet' = [ at |-> "network",
                     tags |-> PushId(CreateInnerVlan(p, n), CreateMiddleVlan(n), CreateOuterVlan(n)),
                     anno |-> id, stored |-> id ]
  BY DEF Encapsulate, IdFor
<1>5. id \in Nat \X Nat
  BY <1>1, <1>2, TagsOf, SMT DEF IdFor, Unified
<1> HIDE DEF n, id
<1>6. CountersInv'
  BY <1>1, <1>3, <1>4 DEF IdsInv, CountersInv
<1>7. new \in Stamp
  BY <1>3, <1>4, <1>5, <1>6 DEF Stamp, CountersInv
<1>8. StampedInv'
  <2>1. stamped \in Seq(Stamp) /\ stamped' \in Seq(Stamp)
    BY <1>4, <1>7 DEF IdsInv, StampedInv
  <2>2. /\ Len(stamped) \in Nat /\ Len(stamped') = Len(stamped) + 1
        /\ DOMAIN stamped = 1..Len(stamped) /\ DOMAIN stamped' = 1..(Len(stamped) + 1)
        /\ \A a \in DOMAIN stamped : stamped'[a] = stamped[a] /\ stamped[a] \in Stamp
        /\ stamped'[Len(stamped) + 1] = new
    BY <1>4, <2>1
  <2>3. \A a \in DOMAIN stamped' : a \in DOMAIN stamped \/ stamped'[a] = new
    BY <2>2
  <2>4. ASSUME NEW a \in DOMAIN stamped
        PROVE  LET s == stamped[a]
               IN /\ s.turn <= turn'[s.producer]
                  /\ s.turn = turn'[s.producer] => s.seq < seqNum'[s.producer]
                  /\ s.producer = p /\ s.turn = turn'[p] => s.seq < n
    <3> DEFINE s == stamped[a]
    <3>1. /\ s.producer \in Producers /\ s.turn \in Nat /\ s.seq \in Nat
          /\ turn[s.producer] \in Nat /\ seqNum[s.producer] \in Nat
          /\ s.turn <= turn[s.producer]
          /\ s.turn = turn[s.producer] => s.seq < seqNum[s.producer]
      BY <2>2 DEF IdsInv, StampedInv, CountersInv, Stamp
    <3> HIDE DEF s
    <3>2. CASE s.producer # p
      <4>1. turn'[s.producer] = turn[s.producer] /\ seqNum'[s.producer] = seqNum[s.producer]
        BY <1>4, <3>1, <3>2 DEF IdsInv, CountersInv
      <4> QED BY <3>1, <3>2, <4>1 DEF s
    <3>3. CASE s.producer = p
      <4>1. seqNum'[p] = n + 1 /\ turn'[p] = IF n < seqNum[p] THEN turn[p] + 1 ELSE turn[p]
        BY <1>4 DEF IdsInv, CountersInv
      <4>2. /\ s.turn <= turn'[p]
            /\ s.turn = turn'[p] => s.seq < n /\ s.seq < seqNum'[p]
        BY <1>1, <1>3, <3>1, <3>3, <4>1
      <4> QED BY <3>3, <4>2 DEF s
    <3> QED BY <3>2, <3>3
  <2>5. ASSUME NEW a \in DOMAIN stamped'
        PROVE  LET s == stamped'[a]
               IN /\ IsSeqNum(s.seq)
                  /\ s.id = IdFor(s.producer, s.seq)
                  /\ s.turn <= turn'[s.producer]
                  /\ s.turn = turn'[s.producer] => s.seq < seqNum'[s.producer]
    <3>1. CASE a \in DOMAIN stamped
      BY <2>2, <2>4, <3>1 DEF IdsInv, StampedInv
    <3>2. CASE stamped'[a] = new
      <4>1. seqNum'[p] = n + 1 /\ turn'[p] \in Nat
        BY <1>4, <1>6 DEF IdsInv, CountersInv
      <4>2. n < seqNum'[p] /\ turn'[p] <= turn'[p]
        BY <1>3, <4>1
      <4> QED BY <1>2, <3>2, <4>2 DEF id
    <3> QED BY <2>3, <3>1, <3>2
  <2>6. ASSUME NEW a \in DOMAIN stamped', NEW b \in DOMAIN stamped', a # b,
               stamped'[a].producer = stamped'[b].producer,
               stamped'[a].turn = stamped'[b].turn
        PROVE  stamped'[a].seq # stamped'[b].seq
    <3>1. CASE a \in DOMAIN stamped /\ b \in DOMAIN stamped
      BY <2>2, <2>6, <3>1 DEF IdsInv, StampedInv
    <3>2. ASSUME NEW c \in DOMAIN stamped, stamped[c].producer = p, stamped[c].turn = turn'[p]
          PROVE  stamped[c].seq # n
      <4>1. stamped[c].seq < n /\ stamped[c].seq \in Nat
        BY <2>2, <2>4, <3>2 DEF Stamp
      <4> QED BY <1>3, <4>1
    <3>3. CASE a \in DOMAIN stamped /\ b = Len(stamped) + 1
      BY <2>2, <2>6, <3>2, <3>3
    <3>4. CASE b \in DOMAIN stamped /\ a = Len(stamped) + 1
      BY <2>2, <2>6, <3>2, <3>4
    <3> QED BY <2>2, <2>6, <3>1, <3>3, <3>4
  <2> QED BY <2>1, <2>5, <2>6 DEF StampedInv
<1>9. PacketInv'
  <2> DEFINE inner == CreateInnerVlan(p, n)
             middle == CreateMiddleVlan(n)
             outer == CreateOuterVlan(n)
  <2>1. /\ inner \in Nat /\ 1 <= inner /\ inner < 4095
        /\ middle \in Nat /\ 1 <= middle /\ middle <= 4094
        /\ outer \in Nat /\ 1 <= outer /\ outer <= 4065 /\ outer % 32 = 1
    BY <1>1, <1>2, TagsOf
  <2>2. id = Unified(inner, middle, outer)
    BY DEF id, IdFor
  <2> HIDE DEF inner, middle, outer
  <2>3. packet' = [ at |-> "network", tags |-> << chainTag, outer, middle, inner >>,
                    anno |-> id, stored |-> id ]
    <3>1. PushId(inner, middle, outer) = << chainTag, outer, middle, inner >>
      <4>1. IsTag(inner) /\ IsTag(middle) /\ IsTag(outer)
        BY <2>1, SMT DEF IsTag
      <4> QED BY <4>1, PushIdIs
    <3>2. packet' = [ at |-> "network", tags |-> PushId(inner, middle, outer),
                      anno |-> id, stored |-> id ]
      BY <1>4 DEF inner, middle, outer
    <3> QED BY <3>1, <3>2
  <2>4. /\ packet'.tags \in Seq(Nat) /\ packet'.tags # <<>>
        /\ Tail(packet'.tags) = << outer, middle, inner >>
    BY <2>1, <2>3 DEF chainTag
  <2>5. Carries(<< outer, middle, inner >>, id)
    BY <2>1, <2>2 DEF Carries
  <2>6. stamped' # <<>> /\ stamped'[Len(stamped')].id = id
    BY <1>4, <1>7 DEF IdsInv, StampedInv
  <2> QED BY <1>5, <2>3, <2>4, <2>5, <2>6 DEF PacketInv
<1> QED BY <1>6, <1>8, <1>9 DEF IdsInv

\* An id is carried by three tags.
LEMMA CarriesThree ==
  ASSUME NEW tags, NEW id, Carries(tags, id)
  PROVE  tags \in Seq(Nat) /\ Len(tags) = 3
<1>1. PICK inner \in Nat, middle \in Nat, outer \in Nat : tags = << outer, middle, inner >>
  BY DEF Carries
<1> QED BY <1>1, ThreeTags

\* What is read from the right tags is the id.
LEMMA ReadIdIs ==
  ASSUME NEW tags \in Seq(Nat), NEW id, NEW offset \in {0, 1},
         Len(tags) > offset,
         Carries(IF offset = 0 THEN tags ELSE Tail(tags), id)
  PROVE  ReadId(tags, offset) = id
<1> DEFINE rest == IF offset = 0 THEN tags ELSE Tail(tags)
<1>1. PICK inner \in Nat, middle \in Nat, outer \in Nat :
        /\ 1 <= inner /\ 1 <= middle /\ 1 <= outer
        /\ rest = << outer, middle, inner >>
        /\ id = Unified(inner, middle, outer)
  BY DEF Carries
<1>2. rest \in Seq(Nat) /\ Len(rest) = 3 /\ rest[1] = outer /\ rest[2] = middle /\ rest[3] = inner
  <2> HIDE DEF rest
  <2> QED BY <1>1, ThreeTags
<1>3. /\ Len(tags) = offset + 3
      /\ tags[offset + 1] = outer /\ tags[offset + 2] = middle /\ tags[offset + 3] = inner
  <2>1. CASE offset = 0
    BY <1>2, <2>1
  <2>2. CASE offset = 1
    <3>1. rest = Tail(tags)
      BY <2>2
    <3>2. tags # <<>>
      <4>1. Len(tags) > 1 /\ Len(<<>>) = 0
        BY <2>2
      <4> QED BY <4>1
    <3> HIDE DEF rest
    <3>3. Len(tags) = 4 /\ tags[2] = outer /\ tags[3] = middle /\ tags[4] = inner
      BY <1>2, <3>1, <3>2, TailOfThree
    <3> QED BY <2>2, <3>3
  <2> QED BY <2>1, <2>2
<1> HIDE DEF rest
<1>4. /\ ExtractVlanByLevel(tags, offset) = outer
      /\ ExtractVlanByLevel(tags, offset + 1) = middle
      /\ ExtractVlanByLevel(tags, offset + 2) = inner
  BY <1>3, SMT DEF ExtractVlanByLevel
<1> QED BY <1>1, <1>4 DEF ReadId

\* Reading an id keeps it.
LEMMA PrepareInv == ASSUME IdsInv, Prepare PROVE IdsInv'
<1>1. CountersInv' /\ StampedInv'
  BY DEF Prepare, IdsInv, CountersInv, StampedInv
<1>2. /\ packet.tags \in Seq(Nat) /\ packet.tags # <<>>
      /\ Carries(Tail(packet.tags), packet.stored)
      /\ packet.anno \in Nat \X Nat /\ packet.stored \in Nat \X Nat
  BY DEF Prepare, IdsInv, PacketInv
<1>3. Len(packet.tags) > 1 /\ Tail(packet.tags) \in Seq(Nat) /\ Len(Tail(packet.tags)) > 0
  <2>1. Len(Tail(packet.tags)) = 3
    BY <1>2, CarriesThree
  <2>2. Len(packet.tags) = 4 /\ Tail(packet.tags) \in Seq(Nat)
    BY <1>2, <2>1, TailOfThree
  <2>3. 4 > 1 /\ 3 > 0
    BY SMT
  <2> QED BY <2>1, <2>2, <2>3
<1>4. ReadId(packet.tags, 1) = packet.stored
  BY <1>2, <1>3, ReadIdIs
<1>5. ReadId(Tail(packet.tags), 0) = packet.stored
  BY <1>2, <1>3, ReadIdIs
<1>6. PacketInv'
  <2>1. CASE packet' = [ packet EXCEPT !.at = "middlebox", !.anno = ReadId(packet.tags, 1) ]
    BY <1>2, <1>4, <2>1 DEF Prepare, IdsInv, PacketInv
  <2>2. CASE packet' = [ packet EXCEPT !.at = "last", !.tags = Tail(@),
                                       !.anno = ReadId(Tail(packet.tags), 0) ]
    BY <1>2, <1>3, <1>5, <2>2 DEF Prepare, IdsInv, PacketInv
  <2> QED BY <2>1, <2>2 DEF Prepare
<1> QED BY <1>1, <1>6 DEF IdsInv

\* Counting a version up keeps it: there is no carry into the base.
LEMMA IncreaseVersionInv == ASSUME IdsInv, IncreaseVersion PROVE IdsInv'
<1>1. CountersInv' /\ StampedInv'
  BY DEF IncreaseVersion, IdsInv, CountersInv, StampedInv
<1> DEFINE under == IF packet.at = "last" THEN packet.tags ELSE Tail(packet.tags)
<1>2. /\ packet.tags \in Seq(Nat) /\ packet.anno = packet.stored
      /\ packet.at = "middlebox" => packet.tags # <<>>
      /\ Carries(under, packet.stored)
  BY DEF IncreaseVersion, IdsInv, PacketInv
<1>3. PICK inner \in Nat, middle \in Nat, outer \in Nat :
        /\ 1 <= inner /\ 1 <= middle /\ middle <= 4094
        /\ 1 <= outer /\ outer % 32 <= 30 /\ 1 <= outer % 32
        /\ under = << outer, middle, inner >>
        /\ packet.stored = Unified(inner, middle, outer)
  BY <1>2 DEF Carries
<1>4. packet.stored = << inner * 4096 + middle, outer >>
  BY <1>3 DEF Unified
<1>5. outer % 32 < 30
  BY <1>4, PacketIdsAssumption DEF IncreaseVersion
<1>6. /\ outer # 4095 /\ (outer + 1) % 32 = (outer % 32) + 1
      /\ (outer + 1) \div 32 = outer \div 32
  BY <1>5, SMT
<1>7. NextId(packet.anno) = Unified(inner, middle, outer + 1)
  BY <1>2, <1>4, <1>6 DEF NextId, Unified
<1>8. /\ Unified(inner, middle, outer + 1) \in Nat \X Nat
      /\ BaseOfId(Unified(inner, middle, outer + 1)) = BaseOfId(packet.stored)
  BY <1>4, <1>6, SMT DEF Unified, BaseOfId
<1>9. packet' = [ at |-> IF packet.at = "last" THEN "gone" ELSE "network",
                  tags |-> [ packet.tags EXCEPT ![2] = @ + 1 ],
                  anno |-> Unified(inner, middle, outer + 1),
                  stored |-> Unified(inner, middle, outer + 1) ]
  BY <1>7 DEF IncreaseVersion
<1>10. [ packet.tags EXCEPT ![2] = @ + 1 ] \in Seq(Nat)
  <2>1. packet.at = "last" \/ (packet.at = "middlebox" /\ packet.tags # <<>>)
    BY <1>2 DEF IncreaseVersion
  <2>2. packet.tags = under \/ (packet.tags # <<>> /\ Tail(packet.tags) = under)
    BY <2>1
  <2> HIDE DEF under
  <2>3. under \in Seq(Nat) /\ Len(under) = 3
    BY <1>3, ThreeTags
  <2>4. Len(packet.tags) = 3 \/ Len(packet.tags) = 4
    BY <1>2, <2>2, <2>3, TailOfThree
  <2>5. 2 \in 1..Len(packet.tags) /\ packet.tags[2] + 1 \in Nat
    BY <1>2, <2>4
  <2> QED BY <1>2, <2>5
<1>11. packet.at = "middlebox" =>
         /\ packet'.tags # <<>>
         /\ Carries(Tail(packet'.tags), packet'.stored)
  <2> SUFFICES ASSUME packet.at = "middlebox"
               PROVE  /\ packet'.tags # <<>>
                      /\ Carries(Tail(packet'.tags), packet'.stored)
    OBVIOUS
  <2>1. /\ Len(packet.tags) = 4
        /\ packet.tags[2] = outer /\ packet.tags[3] = middle /\ packet.tags[4] = inner
    <3>1. under = Tail(packet.tags) /\ packet.tags # <<>>
      BY <1>2
    <3> HIDE DEF under
    <3>2. Len(under) = 3 /\ under[1] = outer /\ under[2] = middle /\ under[3] = inner
      BY <1>3, ThreeTags
    <3> QED BY <1>2, <3>1, <3>2, TailOfThree
  <2>2. /\ packet'.tags \in Seq(Nat) /\ Len(packet'.tags) = 4
        /\ packet'.tags[2] = outer + 1 /\ packet'.tags[3] = middle /\ packet'.tags[4] = inner
    BY <1>2, <1>9, <1>10, <2>1
  <2>3. Tail(packet'.tags) = << outer + 1, middle, inner >>
    <3>1. /\ Tail(packet'.tags) \in Seq(Nat) /\ << outer + 1, middle, inner >> \in Seq(Nat)
          /\ Len(Tail(packet'.tags)) = 3 /\ Len(<< outer + 1, middle, inner >>) = 3
      BY <2>2
    <3>2. \A k \in 1..3 : Tail(packet'.tags)[k] = << outer + 1, middle, inner >>[k]
      BY SMTT(30), <2>2
    <3> QED BY <3>1, <3>2, SeqEqual
  <2>4. (outer + 1) \in Nat /\ 1 <= outer + 1 /\ (outer + 1) % 32 <= 30 /\ 1 <= (outer + 1) % 32
    BY <1>3, <1>5, <1>6, SMT
  <2>5. Carries(<< outer + 1, middle, inner >>, Unified(inner, middle, outer + 1))
    BY <1>3, <2>4 DEF Carries
  <2>6. packet'.stored = Unified(inner, middle, outer + 1)
    BY <1>9
  <2>7. packet'.tags # <<>>
    BY <2>2
  <2>8. Carries(Tail(packet'.tags), packet'.stored)
    BY <2>3, <2>5, <2>6
  <2> QED BY <2>7, <2>8
<1>12. PacketInv'
  <2>1. packet' \in [ at : {"gone", "network", "middlebox", "last"}, tags : Seq(Nat),
                      anno : Nat \X Nat, stored : Nat \X Nat ]
    BY <1>8, <1>9, <1>10
  <2>2. stamped' # <<>> => BaseOfId(packet'.stored) = BaseOfId(stamped'[Len(stamped')].id)
    BY <1>8, <1>9 DEF IncreaseVersion, IdsInv, PacketInv
  <2>3. packet'.at \in {"gone", "network"} /\ (packet'.at = "network" => packet.at = "middlebox")
    BY <1>9 DEF IncreaseVersion
  <2> QED BY <1>11, <2>1, <2>2, <2>3 DEF PacketInv
<1> QED BY <1>1, <1>12 DEF IdsInv

\* So does sending a packet on.
LEMMA ForwardInv == ASSUME IdsInv, Forward PROVE IdsInv'
<1>1. CountersInv' /\ StampedInv'
  BY DEF Forward, IdsInv, CountersInv, StampedInv
<1>2. PacketInv'
  BY DEF Forward, IdsInv, PacketInv
<1> QED BY <1>1, <1>2 DEF IdsInv

\* Every step keeps the invariant.
LEMMA NextIdsInv == IdsInv /\ [NextIds]_idVars => IdsInv'
<1> SUFFICES ASSUME IdsInv, [NextIds]_idVars PROVE IdsInv'
  OBVIOUS
<1>1. CASE \E p \in Producers : Encapsulate(p)
  BY <1>1, EncapsulateInv
<1>2. CASE Prepare
  BY <1>2, PrepareInv
<1>3. CASE IncreaseVersion
  BY <1>3, IncreaseVersionInv
<1>4. CASE Forward
  BY <1>4, ForwardInv
<1>5. CASE UNCHANGED idVars
  BY <1>5 DEF idVars, IdsInv, CountersInv, StampedInv, PacketInv
<1> QED BY <1>1, <1>2, <1>3, <1>4, <1>5 DEF NextIds

\* The invariant gives different bases.
LEMMA IdsInvDistinct == IdsInv => BasesDistinct
<1> SUFFICES ASSUME IdsInv PROVE BasesDistinct
  OBVIOUS
<1>1. ASSUME NEW a \in DOMAIN stamped, NEW b \in DOMAIN stamped, a # b,
             stamped[a].producer = stamped[b].producer => stamped[a].turn = stamped[b].turn,
             BaseOfId(stamped[a].id) = BaseOfId(stamped[b].id)
      PROVE  FALSE
  <2> DEFINE s == stamped[a]  t == stamped[b]
  <2>1. s \in Stamp /\ t \in Stamp
    BY DEF IdsInv, StampedInv
  <2>2. /\ IsSeqNum(s.seq) /\ s.id = IdFor(s.producer, s.seq)
        /\ IsSeqNum(t.seq) /\ t.id = IdFor(t.producer, t.seq)
    BY DEF IdsInv, StampedInv
  <2>3. s.producer \in 1..6 /\ t.producer \in 1..6
    BY <2>1, PacketIdsAssumption DEF Stamp
  <2>4. s.producer = t.producer /\ s.seq = t.seq
    BY <1>1, <2>2, <2>3, BaseInjective
  <2> QED BY <1>1, <2>4 DEF IdsInv, StampedInv
<1>2. stamped # <<>> => BaseOfId(packet.stored) = BaseOfId(stamped[Len(stamped)].id)
  BY DEF IdsInv, PacketInv
<1> QED BY <1>1, <1>2 DEF BasesDistinct

\* Every middlebox reads from the tags the id a packet was stored under last, at
\* every version and at the last middlebox of its chain, for all producers and every
\* number they have come to (preparePacket.cc 241-258, increaseVersionNumber.cc
\* 284-297).
THEOREM IdsAreReadBack == IdsSpec => []ReadsStoredId
<1>1. IdsInv => ReadsStoredId
  BY DEF IdsInv, PacketInv, ReadsStoredId
<1> QED BY <1>1, InitIdsInv, NextIdsInv, PTL DEF IdsSpec

\* No two packets share a base before a producer's numbers start again, and the
\* versions of a packet keep its base (packetIdEncap.cc 228-279 and 452-490).
THEOREM BasesStayDistinct == IdsSpec => []BasesDistinct
<1> QED BY InitIdsInv, NextIdsInv, IdsInvDistinct, PTL DEF IdsSpec

-----------------------------------------------------------------------------
(* ListComparison. *)

\* Erasing the front element of the rest.
LEMMA EraseIs ==
  ASSUME NEW S, NEW u \in Seq(S), NEW q \in Seq(S), NEW n \in 1..Len(q)
  PROVE  /\ (u \o SubSeq(q, n, Len(q)))[Len(u) + 1] = q[n]
         /\ EraseAt(u \o SubSeq(q, n, Len(q)), Len(u) + 1) = u \o SubSeq(q, n + 1, Len(q))
<1> DEFINE b == SubSeq(q, n, Len(q))
           c == SubSeq(q, n + 1, Len(q))
           w == u \o b
           front == SubSeq(w, 1, Len(u))
           rest == SubSeq(w, Len(u) + 2, Len(w))
<1>1. Len(u) \in Nat /\ Len(q) \in Nat /\ n \in Nat /\ 1 <= n /\ n <= Len(q)
  BY LenProperties
<1>3. /\ b \in Seq(S) /\ Len(b) = Len(q) - n + 1
      /\ \A k \in 1..(Len(q) - n + 1) : b[k] = q[n + k - 1]
  <2>1. n \in 1..(Len(q) + 1)
    BY <1>1
  <2> QED
    BY <2>1, RestIs
<1>4. /\ c \in Seq(S) /\ Len(c) = Len(q) - (n + 1) + 1
      /\ \A k \in 1..(Len(q) - (n + 1) + 1) : c[k] = q[(n + 1) + k - 1]
  <2>1. n + 1 \in 1..(Len(q) + 1)
    BY <1>1
  <2> QED
    BY <2>1, RestIs
<1> HIDE DEF b, c
<1>6. /\ w \in Seq(S) /\ Len(w) = Len(u) + Len(b)
      /\ \A k \in 1..(Len(u) + Len(b)) : w[k] = IF k <= Len(u) THEN u[k] ELSE b[k - Len(u)]
  BY <1>3, ConcatProperties
<1> HIDE DEF w
<1>7. w[Len(u) + 1] = q[n]
  <2>1. /\ Len(u) + 1 \in 1..(Len(u) + Len(b)) /\ ~ (Len(u) + 1 <= Len(u)) /\ (Len(u) + 1) - Len(u) = 1
        /\ 1 \in 1..(Len(q) - n + 1) /\ n + 1 - 1 = n
    BY <1>1, <1>3
  <2>2. b[1] = q[n]
    BY <1>3, <2>1
  <2> QED
    BY <1>6, <2>1, <2>2
<1>8. front = u
  <2>1. /\ front \in Seq(S) /\ Len(front) = Len(u)
        /\ \A k \in 1..Len(u) : front[k] = w[k]
    <3>1. Len(u) \in 0..Len(w)
      BY <1>1, <1>3, <1>6
    <3> QED
      BY <1>6, <3>1, FrontIs
  <2> HIDE DEF front
  <2>2. \A k \in 1..Len(front) : front[k] = u[k]
    <3>1. TAKE k \in 1..Len(front)
    <3>2. k \in 1..Len(u) /\ k \in 1..(Len(u) + Len(b)) /\ k <= Len(u)
      BY <1>1, <1>3, <2>1
    <3> QED
      BY <1>6, <2>1, <3>2
  <2> QED
    BY <2>1, <2>2, SeqEqual
<1>9. rest = c
  <2>1. Len(u) + 2 \in 1..(Len(w) + 1)
    BY <1>1, <1>3, <1>6
  <2>2. /\ rest \in Seq(S) /\ Len(rest) = Len(w) - (Len(u) + 2) + 1
        /\ \A k \in 1..(Len(w) - (Len(u) + 2) + 1) : rest[k] = w[(Len(u) + 2) + k - 1]
    BY <1>6, <2>1, RestIs
  <2> HIDE DEF rest
  <2>3. Len(rest) = Len(c)
    BY <1>1, <1>3, <1>4, <1>6, <2>2
  <2>4. \A k \in 1..Len(rest) : rest[k] = c[k]
    <3>1. TAKE k \in 1..Len(rest)
    <3>2. /\ k \in 1..(Len(w) - (Len(u) + 2) + 1)
          /\ (Len(u) + 2) + k - 1 \in 1..(Len(u) + Len(b))
          /\ ~ ((Len(u) + 2) + k - 1 <= Len(u))
          /\ ((Len(u) + 2) + k - 1) - Len(u) = k + 1
          /\ k + 1 \in 1..(Len(q) - n + 1)
          /\ k \in 1..(Len(q) - (n + 1) + 1)
          /\ n + (k + 1) - 1 = (n + 1) + k - 1
      BY <1>1, <1>3, <1>6, <2>2
    <3>3. rest[k] = b[k + 1]
      BY <1>6, <2>2, <3>2
    <3>4. b[k + 1] = q[(n + 1) + k - 1]
      BY <1>3, <3>2
    <3> QED
      BY <1>4, <3>2, <3>3, <3>4
  <2> QED
    BY <1>4, <2>2, <2>3, <2>4, SeqEqual
<1>10. EraseAt(w, Len(u) + 1) = u \o c
  <2>1. (Len(u) + 1) - 1 = Len(u) /\ (Len(u) + 1) + 1 = Len(u) + 2
    BY <1>1
  <2> QED
    BY <1>8, <1>9, <2>1 DEF EraseAt
<1> QED
  BY <1>7, <1>10 DEF w, b, c

Ids == Seq(Nat \X Nat)

\* Of a list's first n positions, those that hold the first id of their base.
Firsts(l, n) == { k \in 1..n : \A p \in 1..(k - 1) : BaseOf(l[p]) # BaseOf(l[k]) }

\* Of the first n positions of the list asked for, those that the comparison with
\* the slave's list keeps.
Kept(l, s, n) == { k \in 1..n : k \in DOMAIN s => l[k] # s[k] }

TypeInv ==
  /\ pc \in {"first", "firstDone", "unprocessed", "unprocessedDone", "common", "orphans",
             "commonDone"}
  /\ m0 \in Ids /\ s0 \in Ids /\ m \in Ids /\ out \in Ids /\ orphans \in Ids
  /\ i \in Nat /\ 1 <= i /\ j \in Nat /\ 1 <= j

\* What was answered so far are the first versions of what was read so far.
FirstInv ==
  pc = "first" =>
    /\ m = m0 /\ i <= Len(m0) + 1
    /\ out = Keep(m0, Firsts(m0, i - 1))
    /\ \A b : b \in bases <=> \E k \in 1..(i - 1) : BaseOf(m0[k]) = b

\* The vector has what was kept of the positions compared so far, and behind it all
\* the positions to come: masterIter stands between the two, wherever that is, so the
\* two iterators stand at the same position of the lists as they came in.
UnprocessedInv ==
  pc = "unprocessed" =>
    LET asked == FirstVersions(m0)
    IN /\ j <= Len(asked) + 1 /\ j <= Len(s0) + 1
       /\ i = Len(Keep(asked, Kept(asked, s0, j - 1))) + 1
       /\ m = Keep(asked, Kept(asked, s0, j - 1)) \o SubSeq(asked, j, Len(asked))
       /\ \A b \in bases : \E k \in 1..(j - 1) : BaseOf(asked[k]) = b

\* What was taken so far is the common prefix; what the search passed so far is not
\* the master's first differing id.
CommonInv ==
  pc \in {"common", "orphans"} =>
    /\ m = m0
    /\ i <= Len(m0) + 1 /\ i <= Len(s0) + 1
    /\ \A k \in 1..(i - 1) : m0[k] = s0[k]
    /\ out = SubSeq(m0, 1, i - 1)
    /\ pc = "common" => j = i /\ orphans = <<>>
OrphansInv ==
  pc = "orphans" =>
    /\ i <= Len(m0) /\ i <= Len(s0) /\ m0[i] # s0[i]
    /\ i <= j /\ j <= Len(s0) + 1
    /\ \A k \in i..(j - 1) : s0[k] # m0[i]
    /\ orphans = SubSeq(s0, i, j - 1)

LoopInv ==
  /\ TypeInv
  /\ FirstInv /\ UnprocessedInv /\ CommonInv /\ OrphansInv
  /\ FirstVersionsAgree /\ UnprocessedAgree /\ CommonAgree

LEMMA InitTypes == Init => TypeInv
<1>1. SUFFICES ASSUME Init PROVE TypeInv
  OBVIOUS
<1>2. m0 \in Ids /\ s0 \in Ids
  <2>1. <<>> \in Ids
    BY EmptySeq DEF Ids
  <2> QED
    BY <1>1, <2>1, ListsAssumption DEF Init, Ids
<1>3. m \in Ids /\ out \in Ids /\ orphans \in Ids
  <2>1. FirstVersions(m0) \in Ids
    BY <1>2, FirstVersionsType DEF Ids
  <2>2. <<>> \in Ids
    BY EmptySeq DEF Ids
  <2> QED
    BY <1>1, <1>2, <2>1, <2>2 DEF Init
<1> QED
  BY <1>1, <1>2, <1>3 DEF Init, TypeInv

LEMMA InitLoops == Init => LoopInv
<1>1. SUFFICES ASSUME Init PROVE LoopInv
  OBVIOUS
<1>2. TypeInv
  BY <1>1, InitTypes
<1>3. m0 \in Ids /\ s0 \in Ids /\ Len(m0) \in Nat /\ Len(s0) \in Nat
  BY <1>2, LenProperties DEF TypeInv, Ids
<1>4. FirstInv
  <2>1. SUFFICES ASSUME pc = "first" PROVE FirstInv
    BY DEF FirstInv
  <2>2. i - 1 = 0 /\ 1..0 = {} /\ m = m0 /\ out = <<>> /\ bases = {} /\ i = 1
    BY <1>1, <2>1 DEF Init
  <2>3. Firsts(m0, 0) = {}
    BY <2>2 DEF Firsts
  <2>4. Keep(m0, Firsts(m0, i - 1)) = <<>>
    BY <2>2, <2>3, KeepNothing
  <2> QED
    BY <1>3, <2>2, <2>4 DEF FirstInv
<1>5. UnprocessedInv
  <2> DEFINE asked == FirstVersions(m0)
  <2>1. SUFFICES ASSUME pc = "unprocessed" PROVE UnprocessedInv
    BY DEF UnprocessedInv
  <2>2. j - 1 = 0 /\ 1..0 = {} /\ m = asked /\ bases = {} /\ i = 1 /\ j = 1
    BY <1>1, <2>1 DEF Init
  <2>3. Kept(asked, s0, 0) = {}
    BY <2>2 DEF Kept
  <2>4. Keep(asked, Kept(asked, s0, j - 1)) = <<>> /\ Len(<<>>) = 0
    BY <2>2, <2>3, KeepNothing
  <2>5. asked \in Ids
    BY <1>3, FirstVersionsType DEF Ids
  <2> HIDE DEF asked
  <2>6. Len(asked) \in Nat
    BY <2>5, LenProperties DEF Ids
  <2>7. <<>> \o SubSeq(asked, 1, Len(asked)) = asked
    <3>1. SubSeq(asked, 1, Len(asked)) = asked
      <4>1. Len(asked) \in 0..Len(asked)
        BY <2>6
      <4>2. /\ SubSeq(asked, 1, Len(asked)) \in Seq(Nat \X Nat)
            /\ Len(SubSeq(asked, 1, Len(asked))) = Len(asked)
            /\ \A k \in 1..Len(asked) : SubSeq(asked, 1, Len(asked))[k] = asked[k]
        BY <2>5, <4>1, FrontIs DEF Ids
      <4> QED
        BY <2>5, <4>2, SeqEqual DEF Ids
    <3> QED
      BY <2>5, <3>1, ConcatEmptySeq DEF Ids
  <2>8. m = Keep(asked, Kept(asked, s0, j - 1)) \o SubSeq(asked, j, Len(asked))
    BY <2>2, <2>4, <2>7
  <2>9. /\ j <= Len(asked) + 1 /\ j <= Len(s0) + 1
        /\ i = Len(Keep(asked, Kept(asked, s0, j - 1))) + 1
    BY <1>3, <2>2, <2>4, <2>6
  <2> QED
    BY <2>2, <2>8, <2>9 DEF UnprocessedInv, asked
<1>6. CommonInv
  <2>1. SUFFICES ASSUME pc = "common" PROVE CommonInv
    BY <1>1 DEF CommonInv, Init
  <2>2. i - 1 = 0 /\ 1..0 = {} /\ m = m0 /\ out = <<>> /\ orphans = <<>> /\ i = 1 /\ j = 1
    BY <1>1, <2>1 DEF Init
  <2>3. SubSeq(m0, 1, 0) = <<>>
    <3>1. 0 \in 0..Len(m0)
      BY <1>3
    <3>2. SubSeq(m0, 1, 0) \in Seq(Nat \X Nat) /\ Len(SubSeq(m0, 1, 0)) = 0
      BY <1>3, <3>1, FrontIs DEF Ids
    <3> QED
      BY <3>2, EmptySeq
  <2> QED
    BY <1>3, <2>1, <2>2, <2>3 DEF CommonInv
<1>7. OrphansInv /\ FirstVersionsAgree /\ UnprocessedAgree /\ CommonAgree
  BY <1>1 DEF Init, OrphansInv, FirstVersionsAgree, UnprocessedAgree, CommonAgree
<1> QED
  BY <1>2, <1>4, <1>5, <1>6, <1>7 DEF LoopInv

\* The types, in a form the steps need.
LEMMA ListTypes ==
  ASSUME TypeInv
  PROVE  /\ m0 \in Seq(Nat \X Nat) /\ s0 \in Seq(Nat \X Nat) /\ m \in Seq(Nat \X Nat)
         /\ out \in Seq(Nat \X Nat) /\ orphans \in Seq(Nat \X Nat)
         /\ Len(m0) \in Nat /\ Len(s0) \in Nat /\ Len(m) \in Nat
         /\ DOMAIN m0 = 1..Len(m0) /\ DOMAIN s0 = 1..Len(s0) /\ DOMAIN m = 1..Len(m)
         /\ i \in Nat /\ 1 <= i /\ j \in Nat /\ 1 <= j
BY LenProperties DEF TypeInv, Ids

\* A step of one loop says nothing about the others.
LEMMA OtherLoops ==
  /\ pc' # "first" => FirstInv'
  /\ pc' # "unprocessed" => UnprocessedInv'
  /\ pc' \notin {"common", "orphans"} => CommonInv'
  /\ pc' # "orphans" => OrphansInv'
  /\ pc' # "firstDone" => FirstVersionsAgree'
  /\ pc' # "unprocessedDone" => UnprocessedAgree'
  /\ pc' # "commonDone" => CommonAgree'
BY DEF FirstInv, UnprocessedInv, CommonInv, OrphansInv, FirstVersionsAgree, UnprocessedAgree,
       CommonAgree

LEMMA TakeFirstKeeps ==
  ASSUME LoopInv, TakeFirst
  PROVE  LoopInv'
<1>1. TypeInv /\ FirstInv
  BY DEF LoopInv
<1>2. /\ pc = "first" /\ pc' = "first" /\ i <= Len(m) /\ i' = i + 1
      /\ m0' = m0 /\ s0' = s0 /\ m' = m /\ j' = j /\ orphans' = orphans
  BY DEF TakeFirst, input
<1>3. /\ m = m0 /\ out = Keep(m0, Firsts(m0, i - 1))
      /\ \A b : b \in bases <=> \E k \in 1..(i - 1) : BaseOf(m0[k]) = b
  BY <1>1, <1>2 DEF FirstInv
<1>4. /\ m0 \in Seq(Nat \X Nat) /\ out \in Seq(Nat \X Nat) /\ Len(m0) \in Nat
      /\ i \in Nat /\ 1 <= i /\ i \in 1..Len(m0)
  BY <1>1, <1>2, <1>3, ListTypes
<1>5. m0[i] \in Nat \X Nat
  BY <1>4, ElementOfSeq
<1>6. 1..i = (1..(i - 1)) \union {i} /\ i + 1 - 1 = i
  BY <1>4
<1>7. CASE BaseOf(m0[i]) \in bases
  <2>1. out' = out /\ bases' = bases
    BY <1>2, <1>3, <1>7 DEF TakeFirst
  <2>2. PICK p \in 1..(i - 1) : BaseOf(m0[p]) = BaseOf(m0[i])
    BY <1>3, <1>7
  <2>3. Firsts(m0, i) = Firsts(m0, i - 1)
    BY <1>6, <2>2 DEF Firsts
  <2>4. \A b : b \in bases <=> \E k \in 1..i : BaseOf(m0[k]) = b
    BY <1>3, <1>6, <2>2
  <2>5. FirstInv'
    BY <1>2, <1>3, <1>4, <1>6, <2>1, <2>3, <2>4 DEF FirstInv
  <2>6. TypeInv'
    BY <1>1, <1>2, <1>4, <2>1 DEF TypeInv
  <2> QED
    BY <1>2, <2>5, <2>6, OtherLoops DEF LoopInv
<1>8. CASE BaseOf(m0[i]) \notin bases
  <2>1. out' = Append(out, m0[i]) /\ bases' = bases \union {BaseOf(m0[i])}
    BY <1>2, <1>3, <1>8 DEF TakeFirst
  <2>2. \A p \in 1..(i - 1) : BaseOf(m0[p]) # BaseOf(m0[i])
    BY <1>3, <1>8
  <2>3. Firsts(m0, i) = Firsts(m0, i - 1) \union {i}
    BY <1>6, <2>2 DEF Firsts
  <2>4. Firsts(m0, i - 1) \in SUBSET (1..(i - 1))
    BY DEF Firsts
  <2>5. Keep(m0, Firsts(m0, i)) = Append(out, m0[i])
    BY <1>3, <1>4, <2>3, <2>4, KeepMore
  <2>6. \A b : b \in bases' <=> \E k \in 1..i : BaseOf(m0[k]) = b
    BY <1>3, <1>6, <2>1
  <2>7. FirstInv'
    BY <1>2, <1>3, <1>4, <1>6, <2>1, <2>5, <2>6 DEF FirstInv
  <2>8. out' \in Ids
    BY <1>4, <1>5, <2>1, AppendProperties DEF Ids
  <2>9. TypeInv'
    BY <1>1, <1>2, <1>4, <2>8 DEF TypeInv
  <2> QED
    BY <1>2, <2>7, <2>9, OtherLoops DEF LoopInv
<1> QED
  BY <1>7, <1>8

LEMMA FirstEndsKeeps ==
  ASSUME LoopInv, FirstEnds
  PROVE  LoopInv'
<1>1. TypeInv /\ FirstInv
  BY DEF LoopInv
<1>2. /\ pc = "first" /\ pc' = "firstDone" /\ i > Len(m)
      /\ m0' = m0 /\ s0' = s0 /\ m' = m /\ i' = i /\ j' = j /\ out' = out /\ orphans' = orphans
  BY DEF FirstEnds, input
<1>3. m = m0 /\ i <= Len(m0) + 1 /\ out = Keep(m0, Firsts(m0, i - 1))
  BY <1>1, <1>2 DEF FirstInv
<1>4. DOMAIN m0 = 1..Len(m0) /\ i - 1 = Len(m0)
  BY <1>1, <1>2, <1>3, ListTypes
<1>5. Firsts(m0, i - 1) = { k \in DOMAIN m0 : \A p \in 1..(k - 1) : BaseOf(m0[p]) # BaseOf(m0[k]) }
  BY <1>4 DEF Firsts
<1>6. out = FirstVersions(m0)
  BY <1>3, <1>5 DEF FirstVersions
<1>7. FirstVersionsAgree'
  BY <1>2, <1>6 DEF FirstVersionsAgree
<1>8. TypeInv'
  BY <1>1, <1>2 DEF TypeInv
<1> QED
  BY <1>2, <1>7, <1>8, OtherLoops DEF LoopInv

\* What holds of the comparison for a replay, with its names.
LEMMA ComparedSoFar ==
  ASSUME LoopInv, pc = "unprocessed"
  PROVE  /\ FirstVersions(m0) \in Seq(Nat \X Nat)
         /\ Kept(FirstVersions(m0), s0, j - 1) \in SUBSET (1..(j - 1))
         /\ Kept(FirstVersions(m0), s0, j - 1) \in SUBSET (DOMAIN FirstVersions(m0))
         /\ Keep(FirstVersions(m0), Kept(FirstVersions(m0), s0, j - 1)) \in Seq(Nat \X Nat)
         /\ j \in 1..(Len(FirstVersions(m0)) + 1)
         /\ Len(FirstVersions(m0)) \in Nat
         /\ Len(m) = i + Len(FirstVersions(m0)) - j
         /\ InBoth <=> j <= Len(FirstVersions(m0)) /\ j <= Len(s0)
<1> DEFINE asked == FirstVersions(m0)
           K == Kept(asked, s0, j - 1)
           kept == Keep(asked, K)
           rest == SubSeq(asked, j, Len(asked))
<1>1. TypeInv
  BY DEF LoopInv
<1>2. /\ asked \in Seq(Nat \X Nat) /\ i \in Nat /\ 1 <= i /\ j \in Nat /\ 1 <= j /\ Len(s0) \in Nat
  BY <1>1, ListTypes, FirstVersionsType
<1>3. j <= Len(asked) + 1 /\ j <= Len(s0) + 1 /\ i = Len(kept) + 1 /\ m = kept \o rest
  BY DEF LoopInv, UnprocessedInv
<1>4. K \in SUBSET (1..(j - 1))
  BY DEF Kept
<1> HIDE DEF asked, K
<1>5. Len(asked) \in Nat /\ DOMAIN asked = 1..Len(asked)
  BY <1>2, LenProperties
<1>6. K \in SUBSET (DOMAIN asked)
  BY <1>2, <1>3, <1>4, <1>5
<1>7. kept \in Seq(Nat \X Nat)
  BY <1>2, <1>6, KeepSpec
<1>8. j \in 1..(Len(asked) + 1)
  BY <1>2, <1>3, <1>5
<1>9. rest \in Seq(Nat \X Nat) /\ Len(rest) = Len(asked) - j + 1
  BY <1>2, <1>8, RestIs
<1> HIDE DEF rest, kept
<1>10. Len(m) = Len(kept) + Len(rest) /\ Len(kept) \in Nat
  BY <1>3, <1>7, <1>9, ConcatProperties, LenProperties
<1>11. Len(m) = i + Len(asked) - j
  BY <1>2, <1>3, <1>5, <1>9, <1>10
<1>12. InBoth <=> j <= Len(asked) /\ j <= Len(s0)
  BY <1>2, <1>5, <1>11 DEF InBoth
<1> QED
  BY <1>2, <1>4, <1>5, <1>6, <1>7, <1>8, <1>11, <1>12 DEF asked, K, kept

LEMMA EraseProcessedKeeps ==
  ASSUME LoopInv, EraseProcessed
  PROVE  LoopInv'
<1> DEFINE asked == FirstVersions(m0)
           kept == Keep(asked, Kept(asked, s0, j - 1))
<1>1. TypeInv
  BY DEF LoopInv
<1>2. /\ pc = "unprocessed" /\ pc' = "unprocessed" /\ InBoth /\ m[i] = s0[j]
      /\ m' = EraseAt(m, i) /\ bases' = bases \ {BaseOf(m[i])} /\ j' = j + 1 /\ i' = i
      /\ m0' = m0 /\ s0' = s0 /\ out' = out /\ orphans' = orphans
  BY DEF EraseProcessed, input
<1>3. /\ i = Len(kept) + 1 /\ m = kept \o SubSeq(asked, j, Len(asked))
      /\ \A b \in bases : \E k \in 1..(j - 1) : BaseOf(asked[k]) = b
  BY <1>2 DEF LoopInv, UnprocessedInv
<1>4. /\ asked \in Seq(Nat \X Nat) /\ kept \in Seq(Nat \X Nat)
      /\ j <= Len(asked) /\ j <= Len(s0) /\ Len(asked) \in Nat
  BY <1>2, ComparedSoFar
<1>5. j \in Nat /\ 1 <= j /\ j \in 1..Len(asked) /\ DOMAIN s0 = 1..Len(s0) /\ j \in DOMAIN s0
      /\ Len(s0) \in Nat
  BY <1>1, <1>4, ListTypes
<1> HIDE DEF asked
<1>6. 1..j = (1..(j - 1)) \union {j} /\ (j + 1) - 1 = j
  BY <1>5
<1> HIDE DEF kept
<1>7. m[i] = asked[j] /\ m' = kept \o SubSeq(asked, j + 1, Len(asked))
  BY <1>2, <1>3, <1>4, <1>5, EraseIs
<1>8. Kept(asked, s0, j) = Kept(asked, s0, j - 1)
  BY <1>2, <1>5, <1>6, <1>7 DEF Kept
<1>9. \A b \in bases' : \E k \in 1..j : BaseOf(asked[k]) = b
  BY <1>2, <1>3, <1>6
<1>10. UnprocessedInv'
  <2>1. /\ j + 1 <= Len(asked) + 1 /\ j + 1 <= Len(s0) + 1
    BY <1>4, <1>5
  <2>2. Keep(asked, Kept(asked, s0, j)) = kept
    BY <1>8 DEF kept
  <2> QED
    BY <1>2, <1>3, <1>6, <1>7, <1>9, <2>1, <2>2 DEF UnprocessedInv, asked
<1>11. m' \in Ids
  <2>1. j + 1 \in 1..(Len(asked) + 1)
    BY <1>5
  <2> QED
    BY <1>4, <1>7, <2>1, RestIs, ConcatProperties DEF Ids
<1>12. TypeInv'
  BY <1>1, <1>2, <1>5, <1>11 DEF TypeInv
<1> QED
  BY <1>2, <1>10, <1>12, OtherLoops DEF LoopInv

\* No packet is omitted: the bases met before are those of other first versions.
LEMMA OmitsNothing ==
  ASSUME LoopInv, pc = "unprocessed", InBoth
  PROVE  ~ Omitted
<1> DEFINE asked == FirstVersions(m0)
           kept == Keep(asked, Kept(asked, s0, j - 1))
<1>1. TypeInv
  BY DEF LoopInv
<1>3. /\ i = Len(kept) + 1 /\ m = kept \o SubSeq(asked, j, Len(asked))
      /\ \A b \in bases : \E k \in 1..(j - 1) : BaseOf(asked[k]) = b
  BY DEF LoopInv, UnprocessedInv
<1>4. /\ asked \in Seq(Nat \X Nat) /\ kept \in Seq(Nat \X Nat)
      /\ j <= Len(asked) /\ Len(asked) \in Nat /\ DOMAIN asked = 1..Len(asked)
  BY ComparedSoFar, LenProperties
<1>5. j \in Nat /\ 1 <= j /\ j \in 1..Len(asked)
  BY <1>1, <1>4, ListTypes
<1>6. \A a, b \in DOMAIN asked : BaseOf(asked[a]) = BaseOf(asked[b]) => a = b
  BY <1>1, ListTypes, FirstVersionsDistinct
<1> HIDE DEF asked, kept
<1>7. m[i] = asked[j]
  BY <1>3, <1>4, <1>5, EraseIs
<1>8. \A k \in 1..(j - 1) : BaseOf(asked[k]) # BaseOf(asked[j])
  <2>1. \A k \in 1..(j - 1) : k \in DOMAIN asked /\ j \in DOMAIN asked /\ k # j
    BY <1>4, <1>5
  <2> QED
    BY <1>6, <2>1
<1> QED
  BY <1>3, <1>7, <1>8 DEF Omitted

LEMMA KeepUnprocessedKeeps ==
  ASSUME LoopInv, KeepUnprocessed
  PROVE  LoopInv'
<1> DEFINE asked == FirstVersions(m0)
           K == Kept(asked, s0, j - 1)
           kept == Keep(asked, K)
<1>1. TypeInv
  BY DEF LoopInv
<1>2. /\ pc = "unprocessed" /\ pc' = "unprocessed" /\ InBoth /\ m[i] # s0[j]
      /\ bases' = bases \union {BaseOf(m[i])} /\ j' = j + 1 /\ i' = i + 1
      /\ m0' = m0 /\ s0' = s0 /\ out' = out /\ orphans' = orphans
  BY DEF KeepUnprocessed, input
<1>a. m' = m
  BY <1>2, OmitsNothing DEF KeepUnprocessed
<1>3. /\ i = Len(kept) + 1 /\ m = kept \o SubSeq(asked, j, Len(asked))
      /\ \A b \in bases : \E k \in 1..(j - 1) : BaseOf(asked[k]) = b
  BY <1>2 DEF LoopInv, UnprocessedInv
<1>4. /\ asked \in Seq(Nat \X Nat) /\ kept \in Seq(Nat \X Nat)
      /\ j <= Len(asked) /\ j <= Len(s0) /\ Len(asked) \in Nat
      /\ K \in SUBSET (1..(j - 1))
  BY <1>2, ComparedSoFar
<1>5. j \in Nat /\ 1 <= j /\ j \in 1..Len(asked) /\ DOMAIN s0 = 1..Len(s0) /\ j \in DOMAIN s0
      /\ Len(s0) \in Nat /\ i \in Nat
  BY <1>1, <1>4, ListTypes
<1> HIDE DEF asked
<1>6. 1..j = (1..(j - 1)) \union {j} /\ (j + 1) - 1 = j
  BY <1>5
<1>b. m[i] = asked[j]
  <2> HIDE DEF kept
  <2> QED
    BY <1>3, <1>4, <1>5, EraseIs
<1>8. Kept(asked, s0, j) = K \union {j}
  BY <1>2, <1>5, <1>6, <1>b DEF Kept
<1> HIDE DEF K
<1>7. Keep(asked, Kept(asked, s0, j)) = Append(kept, asked[j])
  BY <1>4, <1>5, <1>8, KeepMore
<1>c. /\ asked[j] \in Nat \X Nat
      /\ Append(kept, asked[j]) \o SubSeq(asked, j + 1, Len(asked)) = m
      /\ Len(Append(kept, asked[j])) = Len(kept) + 1
  <2> HIDE DEF kept
  <2>1. asked[j] \in Nat \X Nat
    BY <1>4, <1>5, ElementOfSeq
  <2>2. Append(kept, asked[j]) \o SubSeq(asked, j + 1, Len(asked)) = m
    BY <1>3, <1>4, <1>5, PassElement
  <2>3. Len(Append(kept, asked[j])) = Len(kept) + 1
    BY <1>4, <2>1, AppendProperties
  <2> QED
    BY <2>1, <2>2, <2>3
<1>9. \A b \in bases' : \E k \in 1..j : BaseOf(asked[k]) = b
  BY <1>2, <1>3, <1>6, <1>b
<1>10. UnprocessedInv'
  <2>1. /\ j + 1 <= Len(asked) + 1 /\ j + 1 <= Len(s0) + 1
    BY <1>4, <1>5
  <2> HIDE DEF kept
  <2>2. i + 1 = Len(Keep(asked, Kept(asked, s0, j))) + 1
    BY <1>3, <1>7, <1>c
  <2> QED
    BY <1>2, <1>a, <1>6, <1>7, <1>c, <1>9, <2>1, <2>2 DEF UnprocessedInv, asked
<1>12. TypeInv'
  BY <1>1, <1>2, <1>a, <1>5 DEF TypeInv
<1> QED
  BY <1>2, <1>10, <1>12, OtherLoops DEF LoopInv

LEMMA UnprocessedEndsKeeps ==
  ASSUME LoopInv, UnprocessedEnds
  PROVE  LoopInv'
<1> DEFINE asked == FirstVersions(m0)
           K == Kept(asked, s0, j - 1)
           I == { k \in DOMAIN asked : k \in DOMAIN s0 => asked[k] # s0[k] }
<1>1. TypeInv
  BY DEF LoopInv
<1>2. /\ pc = "unprocessed" /\ pc' = "unprocessedDone" /\ ~ InBoth
      /\ m' = m /\ i' = i /\ j' = j /\ m0' = m0 /\ s0' = s0 /\ out' = out /\ orphans' = orphans
  BY DEF UnprocessedEnds, input
<1>3. /\ m = Keep(asked, K) \o SubSeq(asked, j, Len(asked))
      /\ j <= Len(asked) + 1 /\ j <= Len(s0) + 1
  BY <1>2 DEF LoopInv, UnprocessedInv
<1>4. /\ asked \in Seq(Nat \X Nat) /\ j \in 1..(Len(asked) + 1) /\ Len(asked) \in Nat
      /\ K \in SUBSET (1..(j - 1))
      /\ ~ (j <= Len(asked) /\ j <= Len(s0))
  BY <1>2, ComparedSoFar
<1>5. /\ j \in Nat /\ 1 <= j /\ DOMAIN s0 = 1..Len(s0) /\ Len(s0) \in Nat
      /\ DOMAIN asked = 1..Len(asked)
  BY <1>1, <1>4, ListTypes, LenProperties
<1> HIDE DEF asked
<1>6. Len(asked) \in (j - 1)..Len(asked)
  BY <1>3, <1>4, <1>5
<1>7. m = Keep(asked, K \union (j..Len(asked)))
  <2> HIDE DEF K
  <2> QED
    BY <1>3, <1>4, <1>6, KeepRun
<1>8. I = K \union (j..Len(asked))
  <2>1. \A k \in j..Len(asked) : k \notin DOMAIN s0
    BY <1>4, <1>5
  <2>2. DOMAIN asked = (1..(j - 1)) \union (j..Len(asked))
    BY <1>3, <1>4, <1>5
  <2> QED
    BY <2>1, <2>2 DEF Kept
<1>9. m = Unprocessed(asked, s0)
  BY <1>7, <1>8 DEF Unprocessed
<1>10. UnprocessedAgree'
  BY <1>2, <1>9 DEF UnprocessedAgree, asked
<1>11. TypeInv'
  BY <1>1, <1>2 DEF TypeInv
<1> QED
  BY <1>2, <1>10, <1>11, OtherLoops DEF LoopInv

\* What holds of the comparison for a clear.
LEMMA CommonSoFar ==
  ASSUME LoopInv, pc \in {"common", "orphans"}
  PROVE  /\ m = m0 /\ i <= Len(m0) + 1 /\ i <= Len(s0) + 1
         /\ \A k \in 1..(i - 1) : m0[k] = s0[k]
         /\ out = SubSeq(m0, 1, i - 1)
         /\ pc = "common" => j = i /\ orphans = <<>>
BY DEF LoopInv, CommonInv

LEMMA TakeCommonKeeps ==
  ASSUME LoopInv, TakeCommon
  PROVE  LoopInv'
<1>1. TypeInv
  BY DEF LoopInv
<1>2. /\ pc = "common" /\ pc' = "common" /\ i <= Len(m) /\ j <= Len(s0) /\ m[i] = s0[j]
      /\ out' = Append(out, s0[j]) /\ i' = i + 1 /\ j' = j + 1
      /\ m0' = m0 /\ s0' = s0 /\ m' = m /\ orphans' = orphans
  BY DEF TakeCommon, InBoth, input
<1>3. /\ m = m0 /\ \A k \in 1..(i - 1) : m0[k] = s0[k]
      /\ out = SubSeq(m0, 1, i - 1) /\ j = i /\ orphans = <<>>
  BY <1>2, CommonSoFar
<1>4. /\ m0 \in Seq(Nat \X Nat) /\ out \in Seq(Nat \X Nat)
      /\ Len(m0) \in Nat /\ Len(s0) \in Nat /\ i \in Nat /\ 1 <= i /\ i \in 1..Len(m0)
      /\ m0[i] = s0[i]
  BY <1>1, <1>2, <1>3, ListTypes
<1>5. i + 1 - 1 = i /\ 1..i = (1..(i - 1)) \union {i}
  BY <1>4
<1>6. m0[i] \in Nat \X Nat
  BY <1>4, ElementOfSeq
<1>7. Append(SubSeq(m0, 1, i - 1), m0[i]) = SubSeq(m0, 1, i)
  BY <1>4, FrontGrows
<1>8. CommonInv'
  <2>1. /\ i + 1 <= Len(m0) + 1 /\ i + 1 <= Len(s0) + 1
    BY <1>2, <1>3, <1>4
  <2>2. \A k \in 1..i : m0[k] = s0[k]
    BY <1>3, <1>4, <1>5
  <2>3. out' = SubSeq(m0, 1, i)
    BY <1>2, <1>3, <1>4, <1>7
  <2>a. i' - 1 = i
    <3>1. i' = i + 1
      BY <1>2
    <3> QED
      BY <1>5, <3>1
  <2>4. i' - 1 = i /\ i' = i + 1 /\ j' = i' /\ orphans' = <<>>
    <3>1. j' = i' /\ i' = i + 1
      BY <1>2, <1>3
    <3>2. orphans' = <<>>
      BY <1>2, <1>3
    <3> QED
      BY <2>a, <3>1, <3>2
  <2>5. i' <= Len(m0') + 1 /\ i' <= Len(s0') + 1 /\ m' = m0'
    BY <1>2, <1>3, <2>1
  <2>6. \A k \in 1..(i' - 1) : m0'[k] = s0'[k]
    BY <1>2, <2>2, <2>4
  <2>7. out' = SubSeq(m0', 1, i' - 1)
    BY <1>2, <2>3, <2>4
  <2> QED
    BY <2>4, <2>5, <2>6, <2>7 DEF CommonInv
<1>9. out' \in Ids
  BY <1>2, <1>3, <1>4, <1>6, AppendProperties DEF Ids
<1>10. TypeInv'
  BY <1>1, <1>2, <1>3, <1>4, <1>9 DEF TypeInv
<1> QED
  BY <1>2, <1>8, <1>10, OtherLoops DEF LoopInv

LEMMA FirstDifferenceKeeps ==
  ASSUME LoopInv, FirstDifference
  PROVE  LoopInv'
<1>1. TypeInv
  BY DEF LoopInv
<1>2. /\ pc = "common" /\ pc' = "orphans" /\ i <= Len(m) /\ j <= Len(s0) /\ m[i] # s0[j]
      /\ m0' = m0 /\ s0' = s0 /\ m' = m /\ i' = i /\ j' = j /\ out' = out /\ orphans' = orphans
  BY DEF FirstDifference, InBoth, input
<1>3. /\ m = m0 /\ i <= Len(m0) + 1 /\ i <= Len(s0) + 1 /\ \A k \in 1..(i - 1) : m0[k] = s0[k]
      /\ out = SubSeq(m0, 1, i - 1) /\ j = i /\ orphans = <<>>
  BY <1>2, CommonSoFar
<1>4. /\ s0 \in Seq(Nat \X Nat) /\ Len(s0) \in Nat /\ i \in Nat /\ 1 <= i
  BY <1>1, ListTypes
<1>5. SubSeq(s0, i, i - 1) = <<>>
  <2>1. i \in Int /\ i - 1 \in Int /\ ~ (i <= i - 1) /\ \A k \in i..(i - 1) : s0[k] \in Nat \X Nat
    BY <1>4
  <2>2. /\ SubSeq(s0, i, i - 1) \in Seq(Nat \X Nat)
        /\ Len(SubSeq(s0, i, i - 1)) = IF i <= i - 1 THEN i - 1 - i + 1 ELSE 0
    BY <2>1, SubSeqProperties
  <2> QED
    BY <2>1, <2>2, EmptySeq
<1>6. OrphansInv'
  <2>1. i..(i - 1) = {} /\ i <= Len(s0) + 1
    BY <1>2, <1>3, <1>4
  <2> QED
    BY <1>2, <1>3, <1>4, <1>5, <2>1 DEF OrphansInv
<1>7. CommonInv'
  BY <1>2, <1>3 DEF CommonInv
<1>8. TypeInv'
  BY <1>1, <1>2 DEF TypeInv
<1> QED
  BY <1>2, <1>6, <1>7, <1>8, OtherLoops DEF LoopInv

\* The lists agree up to the end of one of them.
LEMMA CommonEndsKeeps ==
  ASSUME LoopInv, CommonEnds
  PROVE  LoopInv'
<1>1. TypeInv
  BY DEF LoopInv
<1>2. /\ pc = "common" /\ pc' = "commonDone" /\ ~ (i <= Len(m) /\ j <= Len(s0))
      /\ m0' = m0 /\ s0' = s0 /\ m' = m /\ i' = i /\ j' = j /\ out' = out /\ orphans' = orphans
  BY DEF CommonEnds, InBoth, input
<1>3. /\ m = m0 /\ i <= Len(m0) + 1 /\ i <= Len(s0) + 1 /\ \A k \in 1..(i - 1) : m0[k] = s0[k]
      /\ out = SubSeq(m0, 1, i - 1) /\ j = i /\ orphans = <<>>
  BY <1>2, CommonSoFar
<1>4. /\ m0 \in Seq(Nat \X Nat) /\ s0 \in Seq(Nat \X Nat)
      /\ Len(m0) \in Nat /\ Len(s0) \in Nat /\ i \in Nat /\ 1 <= i
  BY <1>1, ListTypes
<1>5. PrefixLen(m0, s0) = i - 1
  <2>1. i - 1 \in Nat /\ i - 1 <= Len(m0) /\ i - 1 <= Len(s0) /\ ~ (i - 1 < Len(m0) /\ i - 1 < Len(s0))
    BY SMTT(30), <1>2, <1>3, <1>4
  <2> QED
    BY <1>3, <1>4, <2>1, PrefixLenIs
<1>6. ~ HasOrphans(m0, s0)
  <2>1. (i - 1) + 1 = i
    BY <1>4
  <2> QED
    BY <1>2, <1>3, <1>5, <2>1 DEF HasOrphans
<1>7. Common(m0, s0) = SubSeq(m0, 1, i - 1) /\ Orphans(m0, s0) = <<>>
  <2>1. (i - 1) + 0 = i - 1
    BY <1>4
  <2> QED
    BY <1>5, <1>6, <2>1 DEF Common, Orphans
<1>8. CommonAgree'
  BY <1>2, <1>3, <1>7 DEF CommonAgree
<1>9. TypeInv'
  BY <1>1, <1>2 DEF TypeInv
<1> QED
  BY <1>2, <1>8, <1>9, OtherLoops DEF LoopInv

LEMMA TakeOrphanKeeps ==
  ASSUME LoopInv, TakeOrphan
  PROVE  LoopInv'
<1>1. TypeInv
  BY DEF LoopInv
<1>2. /\ pc = "orphans" /\ pc' = "orphans" /\ j <= Len(s0) /\ s0[j] # m[i]
      /\ orphans' = Append(orphans, s0[j]) /\ j' = j + 1
      /\ m0' = m0 /\ s0' = s0 /\ m' = m /\ i' = i /\ out' = out
  BY DEF TakeOrphan, input
<1>3. /\ m = m0 /\ i <= Len(m0) + 1 /\ i <= Len(s0) + 1 /\ \A k \in 1..(i - 1) : m0[k] = s0[k]
      /\ out = SubSeq(m0, 1, i - 1)
  BY <1>2, CommonSoFar
<1>4. /\ i <= Len(m0) /\ i <= Len(s0) /\ m0[i] # s0[i] /\ i <= j
      /\ \A k \in i..(j - 1) : s0[k] # m0[i]
      /\ orphans = SubSeq(s0, i, j - 1)
  BY <1>2 DEF LoopInv, OrphansInv
<1>5. /\ s0 \in Seq(Nat \X Nat) /\ orphans \in Seq(Nat \X Nat) /\ Len(s0) \in Nat
      /\ i \in Nat /\ 1 <= i /\ j \in Nat /\ j \in 1..Len(s0)
  BY <1>1, <1>2, ListTypes
<1>6. j + 1 - 1 = j /\ i..j = (i..(j - 1)) \union {j}
  BY SMTT(30), <1>4, <1>5
<1>7. s0[j] \in Nat \X Nat
  BY <1>5, ElementOfSeq
<1>8. orphans' = SubSeq(s0, i, j)
  <2> DEFINE v == SubSeq(s0, i, j)
             w == Append(orphans, s0[j])
  <2>1. /\ i \in Int /\ j \in Int /\ j - 1 \in Int
        /\ \A k \in i..j : s0[k] \in Nat \X Nat
        /\ \A k \in i..(j - 1) : s0[k] \in Nat \X Nat
    BY SMTT(30), <1>5, ElementOfSeq
  <2>2. /\ Len(orphans) = IF i <= j - 1 THEN (j - 1) - i + 1 ELSE 0
        /\ \A k \in 1..((j - 1) - i + 1) : orphans[k] = s0[i + k - 1]
    BY <1>4, <2>1, SubSeqProperties
  <2>3. /\ v \in Seq(Nat \X Nat) /\ Len(v) = IF i <= j THEN j - i + 1 ELSE 0
        /\ \A k \in 1..(j - i + 1) : v[k] = s0[i + k - 1]
    BY <2>1, SubSeqProperties
  <2>4. /\ w \in Seq(Nat \X Nat) /\ Len(w) = Len(orphans) + 1
        /\ \A k \in 1..Len(orphans) : w[k] = orphans[k]
        /\ w[Len(orphans) + 1] = s0[j]
    BY <1>5, <1>7, AppendProperties
  <2> HIDE DEF v, w
  <2>a. i \in Nat /\ j \in Nat /\ i <= j
    BY <1>4, <1>5
  <2>b. Len(orphans) = j - i
    BY <2>a, <2>2
  <2>c. Len(v) = j - i + 1
    BY <2>a, <2>3
  <2>5. Len(orphans) = j - i /\ Len(v) = j - i + 1 /\ Len(w) = Len(v)
    BY <2>a, <2>b, <2>c, <2>4
  <2>6. ASSUME NEW k \in 1..Len(w) PROVE w[k] = v[k]
    <3>1. k \in 1..(j - i + 1) /\ v[k] = s0[i + k - 1]
      BY <2>3, <2>5
    <3>2. CASE k <= j - i
      <4>1. k \in 1..Len(orphans) /\ k \in 1..((j - 1) - i + 1)
        BY <1>5, <2>5, <3>1, <3>2
      <4> QED
        BY <2>2, <2>4, <3>1, <4>1
    <3>3. CASE k = j - i + 1
      <4>1. k = Len(orphans) + 1 /\ i + k - 1 = j
        BY <1>5, <2>5, <3>3
      <4> QED
        BY <2>4, <3>1, <4>1
    <3> QED
      BY <1>5, <3>1, <3>2, <3>3
  <2>7. w = v
    BY <2>3, <2>4, <2>5, <2>6, SeqEqual
  <2> QED
    BY <1>2, <2>7 DEF v, w
<1>9. OrphansInv'
  <2>1. i <= j + 1 /\ j + 1 <= Len(s0) + 1
    <3>1. i \in Nat /\ j \in Nat /\ Len(s0) \in Nat /\ j <= Len(s0) /\ i <= j
      BY <1>2, <1>4, <1>5
    <3> QED
      BY <3>1
  <2>2. \A k \in i..j : s0[k] # m0[i]
    BY <1>2, <1>3, <1>4, <1>6
  <2>3. j' - 1 = j /\ orphans' = SubSeq(s0', i', j' - 1)
    <3>1. j' - 1 = j
      BY <1>2, <1>6
    <3>2. s0' = s0 /\ i' = i
      BY <1>2
    <3> QED
      BY <1>8, <3>1, <3>2
  <2>4. /\ i' <= Len(m0') /\ i' <= Len(s0') /\ m0'[i'] # s0'[i']
        /\ i' <= j' /\ j' <= Len(s0') + 1
    BY <1>2, <1>4, <2>1
  <2>5. \A k \in i'..(j' - 1) : s0'[k] # m0'[i']
    BY <1>2, <2>2, <2>3
  <2> QED
    BY <2>3, <2>4, <2>5 DEF OrphansInv
<1>10. CommonInv'
  BY <1>2, <1>3 DEF CommonInv
<1>11. orphans' \in Ids
  BY <1>2, <1>5, <1>7, AppendProperties DEF Ids
<1>12. TypeInv'
  BY <1>1, <1>2, <1>5, <1>11 DEF TypeInv
<1> QED
  BY <1>2, <1>9, <1>10, <1>12, OtherLoops DEF LoopInv

LEMMA OrphansEndKeeps ==
  ASSUME LoopInv, OrphansEnd
  PROVE  LoopInv'
<1>1. TypeInv
  BY DEF LoopInv
<1>2. /\ pc = "orphans" /\ pc' = "commonDone"
      /\ j <= Len(s0) => s0[j] = m[i]
      /\ j <= Len(s0) => out' = Append(out, m[i]) /\ orphans' = orphans
      /\ ~ (j <= Len(s0)) => orphans' = <<>> /\ out' = out
      /\ m0' = m0 /\ s0' = s0 /\ m' = m /\ i' = i /\ j' = j
  BY DEF OrphansEnd, input
<1>3. /\ m = m0 /\ \A k \in 1..(i - 1) : m0[k] = s0[k]
      /\ out = SubSeq(m0, 1, i - 1)
  BY <1>2, CommonSoFar
<1>4. /\ i <= Len(m0) /\ i <= Len(s0) /\ m0[i] # s0[i] /\ i <= j /\ j <= Len(s0) + 1
      /\ \A k \in i..(j - 1) : s0[k] # m0[i]
      /\ orphans = SubSeq(s0, i, j - 1)
  BY <1>2 DEF LoopInv, OrphansInv
<1>5. /\ m0 \in Seq(Nat \X Nat) /\ s0 \in Seq(Nat \X Nat) /\ Len(s0) \in Nat /\ Len(m0) \in Nat
      /\ out \in Seq(Nat \X Nat) /\ orphans \in Seq(Nat \X Nat)
      /\ i \in Nat /\ 1 <= i /\ j \in Nat /\ i \in 1..Len(m0)
  BY <1>1, <1>4, ListTypes
<1>n. /\ i \in Nat /\ 1 <= i /\ j \in Nat /\ i <= j /\ i <= Len(m0) /\ i <= Len(s0) /\ j <= Len(s0) + 1
      /\ Len(m0) \in Nat /\ Len(s0) \in Nat
  BY <1>4, <1>5
<1>6. PrefixLen(m0, s0) = i - 1 /\ (i - 1) + 1 = i
  <2>1. /\ i - 1 \in Nat /\ i - 1 <= Len(m0) /\ i - 1 <= Len(s0)
        /\ (i - 1) + 1 = i
    BY <1>n
  <2> QED
    BY <1>3, <1>4, <1>5, <2>1, PrefixLenIs
<1>7. CASE j <= Len(s0)
  <2>a. j \in i..Len(s0)
    BY <1>n, <1>7
  <2>1. j \in i..Len(s0) /\ s0[j] = m0[i] /\ out' = Append(out, m0[i]) /\ orphans' = orphans
    BY <1>2, <1>3, <1>7, <2>a
  <2>2. Nth(LaterAt(s0, i, m0[i]), 1) = j
    BY <1>4, <1>5, <2>1, FirstLater
  <2>3. LaterAt(s0, i, m0[i]) # {}
    BY <2>1 DEF LaterAt
  <2>4. HasOrphans(m0, s0)
    BY <1>4, <1>6, <2>3 DEF HasOrphans
  <2>5. Orphans(m0, s0) = SubSeq(s0, i, j - 1)
    BY <1>6, <2>2, <2>4 DEF Orphans
  <2>6. Common(m0, s0) = SubSeq(m0, 1, i)
    BY <1>6, <2>4 DEF Common
  <2>8. Append(SubSeq(m0, 1, i - 1), m0[i]) = SubSeq(m0, 1, i)
    BY <1>5, FrontGrows
  <2>9. CommonAgree'
    BY <1>2, <1>3, <1>4, <2>1, <2>5, <2>6, <2>8 DEF CommonAgree
  <2>10. out' \in Ids /\ orphans' \in Ids
    <3>1. m0[i] \in Nat \X Nat
      BY <1>5, ElementOfSeq
    <3> QED
      BY <1>5, <2>1, <3>1, AppendProperties DEF Ids
  <2>11. TypeInv'
    BY <1>1, <1>2, <2>10 DEF TypeInv
  <2> QED
    BY <1>2, <2>9, <2>11, OtherLoops DEF LoopInv
<1>8. CASE ~ (j <= Len(s0))
  <2>a. j - 1 = Len(s0)
    BY <1>n, <1>8
  <2>1. j - 1 = Len(s0) /\ out' = out /\ orphans' = <<>>
    BY <1>2, <1>8, <2>a
  <2>2. LaterAt(s0, i, m0[i]) = {}
    BY <1>4, <2>1 DEF LaterAt
  <2>3. ~ HasOrphans(m0, s0)
    BY <1>6, <2>2 DEF HasOrphans
  <2>4. Common(m0, s0) = SubSeq(m0, 1, i - 1) /\ Orphans(m0, s0) = <<>>
    <3>1. (i - 1) + 0 = i - 1
      BY <1>5
    <3> QED
      BY <1>6, <2>3, <3>1 DEF Common, Orphans
  <2>5. CommonAgree'
    BY <1>2, <1>3, <2>1, <2>4 DEF CommonAgree
  <2>6. <<>> \in Ids
    BY EmptySeq DEF Ids
  <2>7. TypeInv'
    BY <1>1, <1>2, <2>1, <2>6 DEF TypeInv
  <2> QED
    BY <1>2, <2>5, <2>7, OtherLoops DEF LoopInv
<1> QED
  BY <1>7, <1>8

-----------------------------------------------------------------------------
(* The properties of the loops. *)

LEMMA LoopsStep == LoopInv /\ [Next]_vars => LoopInv'
<1>1. SUFFICES ASSUME LoopInv, [Next]_vars PROVE LoopInv'
  OBVIOUS
<1>2. CASE UNCHANGED vars
  BY <1>1, <1>2 DEF vars, LoopInv, TypeInv, FirstInv, UnprocessedInv, CommonInv, OrphansInv,
     FirstVersionsAgree, UnprocessedAgree, CommonAgree
<1>3. CASE Next
  BY <1>1, <1>3, TakeFirstKeeps, FirstEndsKeeps, EraseProcessedKeeps, KeepUnprocessedKeeps,
     UnprocessedEndsKeeps, TakeCommonKeeps, FirstDifferenceKeeps, CommonEndsKeeps,
     TakeOrphanKeeps, OrphansEndKeeps DEF Next
<1> QED
  BY <1>1, <1>2, <1>3

LEMMA LoopsInvariant == Spec => []LoopInv
BY InitLoops, LoopsStep, PTL DEF Spec

\* What a deletion by count takes.
InFront(l, n) == { l[k] : k \in 1..n }

\* As many ids from the front of the slave's list as the plan of a clear names are
\* the ids it names.
LEMMA FrontIsNamed ==
  ASSUME NEW S, NEW u \in Seq(S), NEW v \in Seq(S), NEW w \in Seq(S),
         w = Common(u, v) \o Orphans(u, v)
  PROVE  InFront(v, Len(w)) = Elements(w)
<1> DEFINE p == PrefixLen(u, v)
           c == Common(u, v)
           o == Orphans(u, v)
<1>1. Len(u) \in Nat /\ Len(v) \in Nat /\ DOMAIN w = 1..Len(w)
  BY LenProperties
<1>2. p \in Nat /\ p <= Len(u) /\ p <= Len(v) /\ \A k \in 1..p : u[k] = v[k]
  BY PrefixLenSpec
<1>3. c \in Seq(S) /\ o \in Seq(S)
  BY CommonSpec, OrphansSpec
<1>4. CASE ~ HasOrphans(u, v)
  <2>1. c = SubSeq(u, 1, p) /\ o = <<>>
    <3>1. p + 0 = p
      BY <1>2
    <3> QED
      BY <1>4, <3>1 DEF Common, Orphans
  <2>2. w = c
    BY <1>3, <2>1, ConcatEmptySeq
  <2>3. p \in 0..Len(u)
    BY <1>1, <1>2
  <2> HIDE DEF p
  <2>4. Len(w) = p /\ \A k \in 1..p : w[k] = u[k]
    BY <2>1, <2>2, <2>3, FrontIs
  <2>5. \A k \in 1..Len(w) : w[k] = v[k]
    BY <1>2, <2>4
  <2> QED
    BY <1>1, <2>5 DEF Elements, InFront
<1>5. CASE HasOrphans(u, v)
  <2> DEFINE n == p + 1
             I == LaterAt(v, n, u[n])
  <2>1. n <= Len(u) /\ n <= Len(v) /\ I # {}
    BY <1>5 DEF HasOrphans
  <2>2. I \in SUBSET (1..Len(v))
    BY <1>1, <1>2 DEF LaterAt
  <2>3. 1 \in 1..Cardinality(I)
    <3> HIDE DEF I
    <3>1. Cardinality(I) \in Nat /\ Cardinality(I) # 0
      BY <1>1, <2>1, <2>2, PositionsFinite
    <3> QED
      BY <3>1
  <2>4. PICK q : q = Nth(I, 1)
    OBVIOUS
  <2>5. q \in I
    <3> HIDE DEF I
    <3> QED
      BY <1>1, <2>2, <2>3, <2>4, NthSpec
  <2>6. q \in n..Len(v) /\ v[q] = u[n]
    BY <2>5 DEF LaterAt
  <2>7. c = SubSeq(u, 1, n) /\ o = SubSeq(v, n, q - 1)
    BY <1>5, <2>4 DEF Common, Orphans
  <2>8. n \in Nat /\ 1 <= n /\ n - 1 = p /\ n \in 0..Len(u) /\ q \in Nat /\ n <= q /\ q <= Len(v)
    BY <1>1, <1>2, <2>1, <2>6
  <2> HIDE DEF n, I, p
  <2>9. Len(c) = n /\ \A k \in 1..n : c[k] = u[k]
    BY <2>7, <2>8, FrontIs
  <2>10. Len(o) = q - n /\ \A k \in 1..(q - n) : o[k] = v[n + k - 1]
    <3>1. n \in Int /\ q - 1 \in Int /\ \A k \in n..(q - 1) : v[k] \in S
      BY <1>1, <2>8, ElementOfSeq
    <3>2. /\ Len(SubSeq(v, n, q - 1)) = IF n <= q - 1 THEN (q - 1) - n + 1 ELSE 0
          /\ \A k \in 1..((q - 1) - n + 1) : SubSeq(v, n, q - 1)[k] = v[n + k - 1]
      BY <3>1, SubSeqProperties
    <3>3. (q - 1) - n + 1 = q - n /\ (~ (n <= q - 1) => q - n = 0)
      BY <2>8
    <3> QED
      BY <2>7, <3>2, <3>3
  <2> HIDE DEF c, o
  <2>11. /\ Len(w) = Len(c) + Len(o)
         /\ \A k \in 1..(Len(c) + Len(o)) : w[k] = IF k <= Len(c) THEN c[k] ELSE o[k - Len(c)]
    BY <1>3, ConcatProperties DEF c, o
  <2>12. Len(w) = q
    BY <2>8, <2>9, <2>10, <2>11
  <2>13. ASSUME NEW k \in 1..q, k < n PROVE w[k] = v[k]
    <3>1. k \in 1..(Len(c) + Len(o)) /\ k <= Len(c) /\ k \in 1..n /\ k \in 1..p
      BY <2>8, <2>9, <2>10, <2>13
    <3> QED
      BY <1>2, <2>9, <2>11, <3>1 DEF p
  <2>14. w[n] = v[q]
    <3>1. n \in 1..(Len(c) + Len(o)) /\ n <= Len(c) /\ n \in 1..n
      BY <2>8, <2>9, <2>10
    <3> QED
      BY <2>6, <2>9, <2>11, <3>1
  <2>15. ASSUME NEW k \in 1..q, k > n PROVE w[k] = v[k - 1]
    <3>1. /\ k \in 1..(Len(c) + Len(o)) /\ ~ (k <= Len(c)) /\ k - Len(c) \in 1..(q - n)
          /\ n + (k - Len(c)) - 1 = k - 1
      BY <2>8, <2>9, <2>10, <2>15
    <3> QED
      BY <2>10, <2>11, <3>1
  <2>16. ASSUME NEW x \in Elements(w) PROVE \E k \in 1..q : v[k] = x
    <3>1. PICK k \in 1..q : w[k] = x
      BY <1>1, <2>12 DEF Elements
    <3>2. CASE k < n
      BY <2>13, <3>1, <3>2
    <3>3. CASE k = n
      <4>1. q \in 1..q
        BY <2>8
      <4>2. v[q] = x
        BY <2>14, <3>1, <3>3
      <4> QED
        BY <4>1, <4>2
    <3>4. CASE k > n
      <4>1. k - 1 \in 1..q
        BY <2>8, <3>4
      <4> QED
        BY <2>15, <3>1, <3>4, <4>1
    <3> QED
      BY <2>8, <3>2, <3>3, <3>4
  <2>17. ASSUME NEW k \in 1..q PROVE \E l \in 1..q : w[l] = v[k]
    <3>1. CASE k < n
      BY <2>13, <3>1
    <3>2. CASE k = q
      <4>1. n \in 1..q
        BY <2>8
      <4> QED
        BY <2>14, <3>2, <4>1
    <3>3. CASE n <= k /\ k < q
      <4>1. k + 1 \in 1..q /\ k + 1 > n /\ (k + 1) - 1 = k
        BY <2>8, <3>3
      <4> QED
        BY <2>15, <4>1
    <3>4. k < n \/ k = q \/ (n <= k /\ k < q)
      BY <2>8
    <3> QED
      BY <3>1, <3>2, <3>3, <3>4
  <2>18. \A k \in 1..q : v[k] \in Elements(w)
    BY <1>1, <2>12, <2>17 DEF Elements
  <2> QED
    BY <2>12, <2>16, <2>18 DEF InFront
<1> QED
  BY <1>4, <1>5

\* The loop of the determinant logger returns the first versions, whatever lists
\* there are.
THEOREM FirstVersionsAreAnswered == Spec => []FirstVersionsAgree
<1>1. LoopInv => FirstVersionsAgree
  BY DEF LoopInv
<1> QED
  BY <1>1, LoopsInvariant, PTL

\* The erasing loop compares position by position, although its two iterators go
\* apart with every id it erases.
THEOREM UnprocessedAreKept == Spec => []UnprocessedAgree
<1>1. LoopInv => UnprocessedAgree
  BY DEF LoopInv
<1> QED
  BY <1>1, LoopsInvariant, PTL

\* The loops of a clear take the common prefix and the orphans before the master's
\* next id.
THEOREM CommonIsTaken == Spec => []CommonAgree
<1>1. LoopInv => CommonAgree
  BY DEF LoopInv
<1> QED
  BY <1>1, LoopsInvariant, PTL

\* No packet is omitted from being replayed: a list of first versions has no base
\* twice, and each request starts with an empty set of replayed bases.
THEOREM NoneOmitted == Spec => []NeverOmitted
<1>1. LoopInv => NeverOmitted
  BY OmitsNothing DEF NeverOmitted
<1> QED
  BY <1>1, LoopsInvariant, PTL

\* A deletion from the front of the slave's list by the count of the ids named
\* deletes those ids, for any two lists.
THEOREM CountsMatchNames == Spec => []CountMatchesNames
<1>1. LoopInv => CountMatchesNames
  <2>1. SUFFICES ASSUME LoopInv, pc = "commonDone"
                 PROVE  { s0[k] : k \in 1..Len(out \o orphans) } = Elements(out \o orphans)
    BY DEF CountMatchesNames
  <2>2. TypeInv /\ out = Common(m0, s0) /\ orphans = Orphans(m0, s0)
    BY <2>1 DEF LoopInv, CommonAgree
  <2>3. /\ m0 \in Seq(Nat \X Nat) /\ s0 \in Seq(Nat \X Nat)
        /\ out \o orphans \in Seq(Nat \X Nat)
    BY <2>2, ListTypes, ConcatProperties
  <2>4. InFront(s0, Len(out \o orphans)) = Elements(out \o orphans)
    <3>1. ASSUME NEW w \in Seq(Nat \X Nat), w = Common(m0, s0) \o Orphans(m0, s0)
          PROVE  InFront(s0, Len(w)) = Elements(w)
      BY <2>3, <3>1, FrontIsNamed
    <3> QED
      BY <2>2, <2>3, <3>1
  <2> QED
    BY <2>4 DEF InFront
<1> QED
  BY <1>1, LoopsInvariant, PTL
================================================================================
