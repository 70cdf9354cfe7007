----------------------------- MODULE PacketLists -----------------------------
(***************************************************************************)
(* The lists of packet ids the cleanup manager works on, and what it       *)
(* computes from them (cleanupManagerServer.cc, det_logger_server.cc).     *)
(*                                                                         *)
(* A packet id is a pair <<base, version>>: the 64-bit id of the code is   *)
(* base * 32 + version, "id >> 5" is the base and "id & 31" the version.   *)
(* The definitions say WHICH ids the code's loops keep; ListComparison.tla *)
(* walks the loops themselves and is checked against them.                 *)
(***************************************************************************)
EXTENDS Naturals, Sequences, FiniteSets

BaseOf(id) == id[1]
VersionOf(id) == id[2]
\* Mutant: a second ivn in the chain, as in the line mb7.click comments out.
NextVersionTwice(id) == <<BaseOf(id), VersionOf(id) + 2>>
NextVersion(id) == <<BaseOf(id), VersionOf(id) + 1>>

Elements(s) == { s[i] : i \in DOMAIN s }

\* The k-th smallest member of a finite set of numbers.
Nth(I, k) == CHOOSE i \in I : Cardinality({ j \in I : j <= i }) = k

\* The subsequence of s at the positions in I.
Keep(s, I) == [ k \in 1..Cardinality(I) |-> s[Nth(I, k)] ]

\* What is left of s once its first n elements, or all it has, are erased.
DropFirst(s, n) == SubSeq(s, 1 + (IF n <= Len(s) THEN n ELSE Len(s)), Len(s))

-----------------------------------------------------------------------------
\* Mutant: the flag "allVersions" is ignored.
FirstVersionsAll(s) == s
\* Mutant: the processed ids are not erased from the master's list.
UnprocessedAll(m, s) == m

(***************************************************************************)
(* DetLoggerServer::getProcessedPacketsForFirstVersion: of the ids of one  *)
(* base only the first listed is answered.                                 *)
(***************************************************************************)
FirstVersions(s) ==
  Keep(s, { i \in DOMAIN s : \A j \in 1..(i - 1) : BaseOf(s[j]) # BaseOf(s[i]) })

(***************************************************************************)
(* CleanupManagerServer::getUnprocessedPacketIds: the lists are compared   *)
(* position by position, and a master id goes only when the slave has the  *)
(* same id at the same position.                                           *)
(***************************************************************************)
Unprocessed(m, s) ==
  Keep(m, { i \in DOMAIN m : i \in DOMAIN s => m[i] # s[i] })

-----------------------------------------------------------------------------
\* The length of the longest common prefix: the loop of
\* getCommonProcessedPacketIds up to the first difference or the end of a list.
PrefixLen(m, s) ==
  CHOOSE n \in 0..Len(m) :
    /\ n <= Len(s)
    /\ \A i \in 1..n : m[i] = s[i]
    /\ (n < Len(m) /\ n < Len(s)) => m[n + 1] # s[n + 1]

\* The positions, from k on, where the slave's list holds id.
LaterAt(s, k, id) == { j \in k..Len(s) : s[j] = id }

\* setSlaveOrphanPacketIds found the master's first differing id later in the
\* slave's list.
HasOrphans(m, s) ==
  LET k == PrefixLen(m, s) + 1
  IN k <= Len(m) /\ k <= Len(s) /\ LaterAt(s, k, m[k]) # {}

\* Mutant: the first differing master's id is added even when the slave has
\* not got it.
CommonOneMore(m, s) == SubSeq(m, 1, PrefixLen(m, s) + (IF PrefixLen(m, s) < Len(m) THEN 1 ELSE 0))

\* The ids the two lists agree on; with orphans, the master's id that the
\* slave has only further on is added (lines 789-795).
Common(m, s) ==
  SubSeq(m, 1, PrefixLen(m, s) + (IF HasOrphans(m, s) THEN 1 ELSE 0))

\* The slave's ids that precede the master's first differing id.
Orphans(m, s) ==
  LET k == PrefixLen(m, s) + 1
  IN IF HasOrphans(m, s)
     THEN SubSeq(s, k, Nth(LaterAt(s, k, m[k]), 1) - 1)
     ELSE <<>>

(***************************************************************************)
(* CleanupManagerServer::clearReplayedPackets: what is deleted once the    *)
(* master's list m and the slave's list s are in. fromMaster and fromSlave *)
(* count ids from the front of each logger's list at the time of the       *)
(* deletion; packets names the ids whose packets are deleted.              *)
(***************************************************************************)
NothingInCommon(m, s) == m # <<>> /\ Common(m, s) = <<>> /\ Len(m) < 2 * Len(s)

\* Mutant: the master's deletion counts the orphans, as in the line the code
\* comments out.
ClearPlanOrphansFromMaster(m, s) ==
  LET lead    == IF m = <<>> THEN s ELSE m
      all     == Common(lead, s) \o Orphans(lead, s)
  IN IF NothingInCommon(m, s)
     THEN [ fromMaster |-> Len(m), fromSlave |-> Len(s), packets |-> <<>> ]
     ELSE [ fromMaster |-> Len(all), fromSlave |-> Len(all), packets |-> all ]

ClearPlan(m, s) ==
  LET lead    == IF m = <<>> THEN s ELSE m
      common  == Common(lead, s)
      orphans == Orphans(lead, s)
  IN IF NothingInCommon(m, s)
     THEN [ fromMaster |-> Len(m), fromSlave |-> Len(s), packets |-> <<>> ]
     ELSE [ fromMaster |-> Len(common), fromSlave |-> Len(common) + Len(orphans),
            packets |-> common \o orphans ]
=============================================================================
