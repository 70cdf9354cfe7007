---------------------------- MODULE ListComparison ----------------------------
(***************************************************************************)
(* The loops over lists of packet ids, one iteration a step, with the      *)
(* iterators and containers of the code:                                   *)
(*                                                                         *)
(*   "first"        DetLoggerServer::getProcessedPacketsForFirstVersion    *)
(*   "unprocessed"  CleanupManagerServer::getUnprocessedPacketIds          *)
(*   "common"       CleanupManagerServer::getCommonProcessedPacketIds      *)
(*   "orphans"      CleanupManagerServer::setSlaveOrphanPacketIds          *)
(*                                                                         *)
(* PacketLists says what they return; the invariants compare the two.      *)
(***************************************************************************)
EXTENDS PacketLists

CONSTANTS
  MasterLists,  \* the master's lists the manager may be given
  SlaveLists    \* the slave's lists; a slave may hold an id twice

ASSUME ListsAssumption ==
  \A l \in MasterLists \union SlaveLists : l \in Seq(Nat \X Nat)

\* The master records an id once.
ASSUME MasterListsAssumption ==
  \A l \in MasterLists : \A a, b \in DOMAIN l : l[a] = l[b] => a = b

VARIABLES
  pc,       \* the loop that runs, or that it is done
  m0, s0,   \* the lists as they came in (m0 alone for "first")
  m,        \* the master's vector; "unprocessed" erases from it
  i, j,     \* masterIter and slaveIter, as positions; the end is Len + 1
  out,      \* returnValue, or commonProcessed
  orphans,  \* orphanSlavePackets
  bases     \* processedBases, or alreadyReplayedPackets

vars == << pc, m0, s0, m, i, j, out, orphans, bases >>
input == << m0, s0 >>

EraseAt(l, k) == SubSeq(l, 1, k - 1) \o SubSeq(l, k + 1, Len(l))

\* The request's own set of already replayed bases is new, hence empty
\* (cleanupManagerServer.cc 237, 275, 294).
Init ==
  /\ pc \in {"first", "unprocessed", "common"}
  /\ m0 \in MasterLists
  /\ s0 \in IF pc = "first" THEN { <<>> } ELSE SlaveLists
  \* The manager asks for first versions when it replays, for all when it clears.
  /\ m = IF pc = "unprocessed" THEN FirstVersions(m0) ELSE m0
  /\ i = 1 /\ j = 1
  /\ out = <<>>
  /\ orphans = <<>>
  /\ bases = {}

InBoth == i <= Len(m) /\ j <= Len(s0)

-----------------------------------------------------------------------------
(* getProcessedPacketsForFirstVersion *)

\* Mutant: processedBases is not updated.
TakeFirstForgetful ==
  /\ pc = "first"
  /\ i <= Len(m)
  /\ out' = Append(out, m[i])
  /\ i' = i + 1
  /\ UNCHANGED << pc, input, m, j, orphans, bases >>

TakeFirst ==
  /\ pc = "first"
  /\ i <= Len(m)
  /\ IF BaseOf(m[i]) \in bases
     THEN UNCHANGED << out, bases >>
     ELSE out' = Append(out, m[i]) /\ bases' = bases \union {BaseOf(m[i])}
  /\ i' = i + 1
  /\ UNCHANGED << pc, input, m, j, orphans >>

FirstEnds ==
  /\ pc = "first"
  /\ i > Len(m)
  /\ pc' = "firstDone"
  /\ UNCHANGED << input, m, i, j, out, orphans, bases >>

-----------------------------------------------------------------------------
(* getUnprocessedPacketIds *)

\* Mutant: the iterator erase returned is moved on, past the next element.
EraseProcessedSkipping ==
  /\ pc = "unprocessed"
  /\ InBoth
  /\ m[i] = s0[j]
  /\ m' = EraseAt(m, i)
  /\ bases' = bases \ {BaseOf(m[i])}
  /\ i' = i + 1
  /\ j' = j + 1
  /\ UNCHANGED << pc, input, out, orphans >>

\* The slave has the id: it is erased and masterIter stays at the next one.
EraseProcessed ==
  /\ pc = "unprocessed"
  /\ InBoth
  /\ m[i] = s0[j]
  /\ m' = EraseAt(m, i)
  /\ bases' = bases \ {BaseOf(m[i])}
  /\ j' = j + 1
  /\ UNCHANGED << pc, input, i, out, orphans >>

\* The base was met before: "packet ... is omitted from being replayed again!"
Omitted == BaseOf(m[i]) \in bases

KeepUnprocessed ==
  /\ pc = "unprocessed"
  /\ InBoth
  /\ m[i] # s0[j]
  /\ m' = IF Omitted THEN EraseAt(m, i) ELSE m
  /\ bases' = bases \union {BaseOf(m[i])}
  /\ i' = i + 1
  /\ j' = j + 1
  /\ UNCHANGED << pc, input, out, orphans >>

\* The second loop, over what is left of the master's vector.
UnprocessedEnds ==
  /\ pc = "unprocessed"
  /\ ~InBoth
  /\ bases' = bases \union { BaseOf(id) : id \in Elements(m) }
  /\ pc' = "unprocessedDone"
  /\ UNCHANGED << input, m, i, j, out, orphans >>

-----------------------------------------------------------------------------
(* getCommonProcessedPacketIds and setSlaveOrphanPacketIds. addPacket never *)
(* refuses: the manager allows as many bases as an int can count.           *)

TakeCommon ==
  /\ pc = "common"
  /\ InBoth
  /\ m[i] = s0[j]
  /\ out' = Append(out, s0[j])
  /\ i' = i + 1
  /\ j' = j + 1
  /\ UNCHANGED << pc, input, m, orphans, bases >>

FirstDifference ==
  /\ pc = "common"
  /\ InBoth
  /\ m[i] # s0[j]
  /\ pc' = "orphans"
  /\ UNCHANGED << input, m, i, j, out, orphans, bases >>

CommonEnds ==
  /\ pc = "common"
  /\ ~InBoth
  /\ pc' = "commonDone"
  /\ UNCHANGED << input, m, i, j, out, orphans, bases >>

\* The slave's iterator is passed by value: it goes on in a copy.
TakeOrphan ==
  /\ pc = "orphans"
  /\ j <= Len(s0)
  /\ s0[j] # m[i]
  /\ orphans' = Append(orphans, s0[j])
  /\ j' = j + 1
  /\ UNCHANGED << pc, input, m, i, out, bases >>

\* Mutant: the orphans are not cleared when the id is not found.
OrphansEndUncleared ==
  /\ pc = "orphans"
  /\ j <= Len(s0) => s0[j] = m[i]
  /\ out' = IF orphans # <<>> THEN Append(out, m[i]) ELSE out
  /\ pc' = "commonDone"
  /\ UNCHANGED << input, m, i, j, orphans, bases >>

\* Mutant: the master's id is taken, the orphans before it are not.
OrphansEndWithoutOrphans ==
  /\ pc = "orphans"
  /\ j <= Len(s0) => s0[j] = m[i]
  /\ out' = IF j <= Len(s0) THEN Append(out, m[i]) ELSE out
  /\ orphans' = <<>>
  /\ pc' = "commonDone"
  /\ UNCHANGED << input, m, i, j, bases >>

OrphansEnd ==
  /\ pc = "orphans"
  /\ j <= Len(s0) => s0[j] = m[i]
  /\ IF j <= Len(s0)
     THEN out' = Append(out, m[i]) /\ UNCHANGED orphans
     ELSE orphans' = <<>> /\ UNCHANGED out
  /\ pc' = "commonDone"
  /\ UNCHANGED << input, m, i, j, bases >>

Next ==
  \/ TakeFirst \/ FirstEnds
  \/ EraseProcessed \/ KeepUnprocessed \/ UnprocessedEnds
  \/ TakeCommon \/ FirstDifference \/ CommonEnds \/ TakeOrphan \/ OrphansEnd

Spec == Init /\ [][Next]_vars

-----------------------------------------------------------------------------
\* The loop of the determinant logger answers the first listed id of each base.
FirstVersionsAgree == pc = "firstDone" => out = FirstVersions(m0)

\* The erasing loop, which compares lists of changing length by two iterators,
\* keeps the ids that differ position by position in the lists as they came.
UnprocessedAgree == pc = "unprocessedDone" => m = Unprocessed(FirstVersions(m0), s0)

\* The common ids and the slave's orphans are those of PacketLists.
CommonAgree == pc = "commonDone" => out = Common(m0, s0) /\ orphans = Orphans(m0, s0)

\* No packet is ever omitted because it is among the already replayed ones: the
\* set starts empty with every request, and a list of first versions names no
\* base twice.
NeverOmitted == pc = "unprocessed" /\ InBoth /\ m[i] # s0[j] => ~Omitted

\* What a clear takes from the two lists: the slave's first ids are the common
\* ones and the orphans, though the orphans are appended after the id that
\* follows them, so a deletion by count deletes exactly the ids named.
CountMatchesNames ==
  pc = "commonDone" =>
    LET named == out \o orphans
    IN { s0[k] : k \in 1..Len(named) } = Elements(named)
===============================================================================
