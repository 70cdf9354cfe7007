------------------------------- MODULE PacketIds -------------------------------
(***************************************************************************)
(* How a packet's id is made and carried. packetIdEncap.cc draws a         *)
(* sequence number and writes it into three 802.1Q tags below the tag of   *)
(* the policy chain; preparePacket.cc reads the id from the tags in every  *)
(* middlebox, and increaseVersionNumber.cc counts its version up.          *)
(*                                                                         *)
(*   inner    3 bits of the producer, 9 of the sequence number             *)
(*   middle   12 bits of the sequence number                               *)
(*   outer    7 bits of the sequence number, 5 of the version              *)
(*                                                                         *)
(* An id is << the inner and the middle tag's bits, the outer's >>. The    *)
(* other modules take it for a pair of a base and a version.               *)
(***************************************************************************)
EXTENDS Integers, Sequences

CONSTANTS
  Producers,    \* the producer ids of the id elements
  Starts,       \* sequence numbers the elements have come to
  MaxPackets,   \* packets that are followed (a bound)
  MaxVersion    \* versions of a packet (a bound)

MAX_SEQ_NUM == 268435456
FirstSeqNum == 128

\* The middle tag must not be one of the values 802.1Q reserves.
IsValidSeqNum(n) == (n \div 128) % 4096 \notin {0, 4095}

\* producer_id is configured from 1 to 6; the version's "valid values are 1-30".
ASSUME PacketIdsAssumption ==
  /\ Producers \subseteq 1..6
  /\ Starts \subseteq Nat
  /\ \A n \in Starts : FirstSeqNum <= n /\ n <= MAX_SEQ_NUM /\ IsValidSeqNum(n)
  /\ MaxPackets \in Nat
  /\ MaxVersion \in 1..30

VARIABLES
  seqNum,   \* _seqNum of each producer's element
  turn,     \* history: how often it started again
  stamped,  \* history: the packets' producers, turns, sequence numbers and ids
  packet    \* the last one: its tags, its annotation, the id it is stored under

idVars == << seqNum, turn, stamped, packet >>

InitIds ==
  /\ seqNum \in [Producers -> Starts]
  /\ turn = [ p \in Producers |-> 0 ]
  /\ stamped = <<>>
  /\ packet = [ at |-> "gone", tags |-> <<>>, anno |-> <<0, 0>>, stored |-> <<0, 0>> ]

-----------------------------------------------------------------------------
(* PacketIdEncap *)

\* One pass of getNexSeqNum's loop.
Pass(n) ==
  LET m == IF n > MAX_SEQ_NUM THEN FirstSeqNum ELSE n
  IN IF IsValidSeqNum(m) THEN m ELSE m + 128

\* Mutant: the reserved value 0, which follows 4095, is not skipped.
PassOnce(n) == Pass(n)

\* Both reserved values follow each other, and after them it may start again.
GetNextSeqNum(n) == Pass(Pass(Pass(n)))

CreateInnerVlan(p, n) == p * 512 + n \div 524288
CreateMiddleVlan(n) == (n \div 128) % 4096

\* Mutant: the version gets four bits.
CreateNarrowVlan(n) == (n % 128) * 16 + 1

CreateOuterVlan(n) == (n % 128) * 32 + 1

\* The bits of three tags put together. None is over 4095.
Unified(inner, middle, outer) == << inner * 4096 + middle, outer >>

\* The tag goes below the tag of the policy chain; none is pushed for a tci of 0.
PushVlanLayer(tags, tci) ==
  IF tci % 4096 = 0 THEN tags ELSE << tags[1], tci >> \o Tail(tags)

\* "strip the tsa vlan": only packets with one tag, of a policy chain, get here.
chainTag == 1

PushId(inner, middle, outer) ==
  PushVlanLayer(PushVlanLayer(PushVlanLayer(<<chainTag>>, inner), middle), outer)

Encapsulate(p) ==
  LET n == GetNextSeqNum(seqNum[p])
      id == Unified(CreateInnerVlan(p, n), CreateMiddleVlan(n), CreateOuterVlan(n))
  IN /\ Len(stamped) < MaxPackets
     /\ packet.at = "gone"
     /\ seqNum' = [ seqNum EXCEPT ![p] = n + 1 ]
     /\ turn' = [ turn EXCEPT ![p] = IF n < seqNum[p] THEN @ + 1 ELSE @ ]
     /\ stamped' = Append(stamped, [ producer |-> p, turn |-> turn'[p], seq |-> n, id |-> id ])
     /\ packet' = [ at |-> "network",
                    tags |-> PushId(CreateInnerVlan(p, n), CreateMiddleVlan(n), CreateOuterVlan(n)),
                    anno |-> id, stored |-> id ]

-----------------------------------------------------------------------------
(* The middleboxes *)

\* A packet without such a tag gives 0.
ExtractVlanByLevel(tags, level) == IF level < Len(tags) THEN tags[level + 1] ELSE 0

ReadId(tags, offset) ==
  LET inner == ExtractVlanByLevel(tags, offset + 2)
      middle == ExtractVlanByLevel(tags, offset + 1)
      outer == ExtractVlanByLevel(tags, offset)
  IN IF 0 \in {inner, middle, outer} THEN <<0, 0>> ELSE Unified(inner, middle, outer)

\* The annotation is lost on the way, and read again from the tags, by pp and by
\* pp1. VLAN_LEVEL_OFFSET is 1, at the last middlebox of the chain 0.
Prepare ==
  /\ packet.at = "network"
  /\ \/ packet' = [ packet EXCEPT !.at = "middlebox", !.anno = ReadId(packet.tags, 1) ]
     \/ packet' = [ packet EXCEPT !.at = "last", !.tags = Tail(@),
                                  !.anno = ReadId(Tail(packet.tags), 0) ]
  /\ UNCHANGED << seqNum, turn, stamped >>

NextId(id) == IF id[2] = 4095 THEN << id[1] + 1, 0 >> ELSE << id[1], id[2] + 1 >>

\* The second tag is counted up, whatever it is: at the last middlebox of the
\* chain that is the middle one. Nobody reads the tags after this.
IncreaseVersion ==
  /\ packet.at \in {"middlebox", "last"}
  /\ packet.stored[2] % 32 < MaxVersion
  /\ packet' = [ at |-> IF packet.at = "last" THEN "gone" ELSE "network",
                 tags |-> [ packet.tags EXCEPT ![2] = @ + 1 ],
                 anno |-> NextId(packet.anno), stored |-> NextId(packet.anno) ]
  /\ UNCHANGED << seqNum, turn, stamped >>

\* A middlebox sends the packet on as it is, or nobody does.
Forward ==
  /\ packet.at # "gone"
  /\ \E a \in {"network", "gone"} :
       /\ packet.at = "last" => a = "gone"
       /\ packet' = [ packet EXCEPT !.at = a ]
  /\ UNCHANGED << seqNum, turn, stamped >>

NextIds ==
  \/ \E p \in Producers : Encapsulate(p)
  \/ Prepare \/ IncreaseVersion \/ Forward

IdsSpec == InitIds /\ [][NextIds]_idVars

-----------------------------------------------------------------------------
BaseOfId(id) == << id[1], id[2] \div 32 >>

\* What a middlebox reads from the tags is the id under which the packet was
\* stored last, at every version and at the last middlebox of its chain, too:
\* what is recorded, replayed and deleted by ids is one packet for all of them.
ReadsStoredId == packet.at \in {"middlebox", "last"} => packet.anno = packet.stored

\* The versions of a packet have its base, and no other packet has it, of any
\* producer, until a producer's sequence numbers start again.
BasesDistinct ==
  /\ stamped # <<>> =>
       BaseOfId(packet.stored) = BaseOfId(stamped[Len(stamped)].id)
  /\ \A a, b \in DOMAIN stamped :
       LET s == stamped[a]  t == stamped[b]
       IN a # b /\ (s.producer = t.producer => s.turn = t.turn)
            => BaseOfId(s.id) # BaseOfId(t.id)
================================================================================
