------------------------------- MODULE MCPackets -------------------------------
(***************************************************************************)
(* What is computed of packet ids, for inputs up to a bound. Two modules   *)
(* that share nothing take turns at a run:                                 *)
(*                                                                         *)
(*   ListComparison  all lists up to a length over two bases: the master's *)
(*                   without an id twice, the slave's with repetitions and *)
(*                   with a third version                                  *)
(*   PacketIds       two producers whose ids differ in one bit, from the   *)
(*                   first sequence number, before two reserved values and *)
(*                   before the numbers start again, up to version 30      *)
(***************************************************************************)
EXTENDS ListComparison, PacketIds

CONSTANTS MaxMasterLen, MaxSlaveLen

ListsUpTo(n, S) == UNION { [1..k -> S] : k \in 0..n }
MCMasterLists ==
  { l \in ListsUpTo(MaxMasterLen, (1..2) \X (1..2)) :
      \A a, b \in DOMAIN l : l[a] = l[b] => a = b }
MCSlaveLists == ListsUpTo(MaxSlaveLen, (1..2) \X (1..2) \union {<<1, 3>>})
MCStarts == { FirstSeqNum, 524288 - 130, MAX_SEQ_NUM - 130 }

NoLists == m0 = <<>> /\ s0 = <<>> /\ pc = "first"
NoIds == stamped = <<>> /\ \A p \in Producers : seqNum[p] = FirstSeqNum

MCInit == Init /\ InitIds /\ (NoLists \/ NoIds)

MCNext ==
  \/ NoIds /\ Next /\ UNCHANGED idVars
  \/ NoLists /\ NextIds /\ UNCHANGED vars

MCSpec == MCInit /\ [][MCNext]_<< vars, idVars >>
================================================================================
