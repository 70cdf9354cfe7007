--------------------------- MODULE DetLoggerServer ----------------------------
(***************************************************************************)
(* det_logger_server.cc: the handlers of the four requests, run by one     *)
(* thread per client host (asyncServer.cc), with their locks:              *)
(*                                                                         *)
(*   progressData_mtx  the map of lists      (ProgressLock)         *)
(*   spd->lock         the list of one mb    (SpdLock(mb))          *)
(*   detData_mtx       the map of packets    (DataLock)              *)
(*   packetData->lock  one packet's data                                   *)
(*                                                                         *)
(* A critical section that takes no other lock inside is one step, enabled *)
(* while its lock is free. The sections that do, deleteFirstPackets and    *)
(* the loop that prints the progress data after a store, hold their locks  *)
(* over several steps. No step waits while it holds packetData->lock, so   *)
(* that lock is left out.                                                  *)
(***************************************************************************)
EXTENDS PacketLists

CONSTANTS Threads, Mbs, PacketIds, MaxDelete

ASSUME MbsAssumption == Mbs \subseteq Nat
ASSUME PacketIdsAssumption == PacketIds \subseteq Nat \X Nat
ASSUME MaxDeleteAssumption == MaxDelete \in Nat

VARIABLES
  detData,      \* the state of each packet's data: see DataStates
  progressData, \* the ids listed for each mb that stored something
  owner,        \* who holds each lock
  thread,       \* the threads: step, request, answer, the lists still to print
  requested     \* history: the <<mb, id>> pairs clients ever asked to store

vars == << detData, progressData, owner, thread, requested >>

\* "created": getOrCreatePacketData inserted it, updatePacketData did not run.
\* "freed": deletePacketFromMbData erased it and freed its memory.
DataStates == {"absent", "created", "stored", "freed"}
Free == "free"
ASSUME ThreadsAssumption == Free \notin Threads
ProgressLock == <<"progressData">>
DataLock == <<"detData">>
SpdLock(mb) == <<"spd", mb>>
Locks == {ProgressLock, DataLock} \union { SpdLock(mb) : mb \in Mbs }

Requests ==
  [ op : {"store", "getPals"}, mb : Mbs, id : PacketIds ]
    \union [ op : {"list"}, mb : Mbs, allVersions : BOOLEAN ]
    \union [ op : {"delete"}, mb : Mbs, count : 0..MaxDelete ]
IdleThread == [ pc |-> "idle", req |-> [ op |-> "none" ], answer |-> <<>>, toPrint |-> {} ]

Init ==
  /\ detData = [ mb \in Mbs |-> [ id \in PacketIds |-> "absent" ] ]
  /\ progressData = [ mb \in {} |-> <<>> ]
  /\ owner = [ l \in Locks |-> Free ]
  /\ thread = [ t \in Threads |-> IdleThread ]
  /\ requested = {}

At(t, step) == thread[t].pc = step
Goto(t, step) == thread' = [ thread EXCEPT ![t].pc = step ]
Answer(t, a) == thread' = [ thread EXCEPT ![t].pc = "answer", ![t].answer = a ]
Listed(mb) == IF mb \in DOMAIN progressData THEN progressData[mb] ELSE <<>>
Unlocked(l) == owner[l] = Free
Lock(l, t) == Unlocked(l) /\ owner' = [ owner EXCEPT ![l] = t ]
Unlock(l) == owner' = [ owner EXCEPT ![l] = Free ]

\* What the clients may rely on to be listed: between the two halves of a
\* deletion the ids are on their way out.
Visible(mb) ==
  LET going == { n \in 0..MaxDelete :
                   \E t \in Threads : At(t, "erase") /\ thread[t].req.mb = mb
                                      /\ thread[t].req.count = n }
  IN IF going = {} THEN Listed(mb) ELSE DropFirst(Listed(mb), CHOOSE n \in going : TRUE)

\* processRequest. A master stores an id once: the version goes up between its
\* two records of a packet. (A slave may list a packet twice when it is replayed
\* twice; nobody asks its logger for determinants.)
FirstStep(op) ==
  CASE op = "store" -> "create" [] op = "getPals" -> "lookup"
    [] op \in {"list", "delete"} -> "find"

Receive(t) ==
  /\ At(t, "idle")
  /\ \E r \in Requests :
       /\ r.op = "store" => <<r.mb, r.id>> \notin requested
       /\ requested' = IF r.op = "store" THEN requested \union {<<r.mb, r.id>>} ELSE requested
       /\ thread' = [ thread EXCEPT ![t].pc = FirstStep(r.op), ![t].req = r ]
  /\ UNCHANGED << detData, progressData, owner >>

-----------------------------------------------------------------------------
(* processStoreRequest *)

\* Mutant: the determinants are not stored.
GetOrCreatePacketDataOnly(t) ==
  /\ At(t, "create")
  /\ Unlocked(DataLock)
  /\ LET r == thread[t].req
     IN detData' = [ detData EXCEPT ![r.mb][r.id] = IF @ = "absent" THEN "created" ELSE @ ]
  /\ Goto(t, "progress")
  /\ UNCHANGED << progressData, owner, requested >>

GetOrCreatePacketData(t) ==
  /\ At(t, "create")
  /\ Unlocked(DataLock)
  /\ LET r == thread[t].req
     IN detData' = [ detData EXCEPT ![r.mb][r.id] = IF @ = "absent" THEN "created" ELSE @ ]
  /\ Goto(t, "update")
  /\ UNCHANGED << progressData, owner, requested >>

UpdatePacketData(t) ==
  /\ At(t, "update")
  /\ LET r == thread[t].req IN detData' = [ detData EXCEPT ![r.mb][r.id] = "stored" ]
  /\ Goto(t, "progress")
  /\ UNCHANGED << progressData, owner, requested >>

GetOrCreateServerProgressData(t) ==
  /\ At(t, "progress")
  /\ Unlocked(ProgressLock)
  /\ progressData' = [ mb \in DOMAIN progressData \union {thread[t].req.mb} |-> Listed(mb) ]
  /\ Goto(t, "add")
  /\ UNCHANGED << detData, owner, requested >>

AddPacketId(t) ==
  /\ At(t, "add")
  /\ Unlocked(SpdLock(thread[t].req.mb))
  /\ progressData' = [ progressData EXCEPT ![thread[t].req.mb] = Append(@, thread[t].req.id) ]
  /\ Goto(t, "print")
  /\ UNCHANGED << detData, owner, requested >>

\* "Partial Progress Data State": the map stays locked while each of its lists
\* is locked, read and unlocked, in the order of the map.
StartPrint(t) ==
  /\ At(t, "print")
  /\ Lock(ProgressLock, t)
  /\ thread' = [ thread EXCEPT ![t].pc = "printing",
                               ![t].toPrint = DOMAIN progressData ]
  /\ UNCHANGED << detData, progressData, requested >>

NextToPrint(t) == CHOOSE mb \in thread[t].toPrint : \A n \in thread[t].toPrint : mb <= n

PrintList(t) ==
  /\ At(t, "printing")
  /\ thread[t].toPrint # {}
  /\ Unlocked(SpdLock(NextToPrint(t)))
  /\ thread' = [ thread EXCEPT ![t].toPrint = @ \ {NextToPrint(t)} ]
  /\ UNCHANGED << detData, progressData, owner, requested >>

EndPrint(t) ==
  /\ At(t, "printing")
  /\ thread[t].toPrint = {}
  /\ Unlock(ProgressLock)
  /\ Answer(t, <<>>)
  /\ UNCHANGED << detData, progressData, requested >>

-----------------------------------------------------------------------------
(* processGetPalsRequest *)

GetPacketData(t) ==
  /\ At(t, "lookup")
  /\ Unlocked(DataLock)
  /\ LET r == thread[t].req
     IN IF detData[r.mb][r.id] \in {"created", "stored"}
        THEN Goto(t, "convert")
        ELSE Answer(t, <<>>)
  /\ UNCHANGED << detData, progressData, owner, requested >>

\* convertPacketDataToPM works on the pointer found before: when the packet was
\* deleted meanwhile, its memory holds what it held, or anything.
ConvertPacketDataToPM(t) ==
  /\ At(t, "convert")
  /\ LET r == thread[t].req
     IN \E found \in CASE detData[r.mb][r.id] = "stored"  -> {"pals"}
                       [] detData[r.mb][r.id] = "created" -> {"no pals"}
                       [] detData[r.mb][r.id] = "freed"   -> {"pals", "garbage"} :
          Answer(t, <<found>>)
  /\ UNCHANGED << detData, progressData, owner, requested >>

-----------------------------------------------------------------------------
(* processGetProcessedPacketsRequest and processDeleteFirstPacketsRequest *)

GetServerProgressData(t) ==
  /\ At(t, "find")
  /\ Unlocked(ProgressLock)
  /\ IF thread[t].req.mb \in DOMAIN progressData
     THEN Goto(t, thread[t].req.op)
     ELSE Answer(t, <<>>)
  /\ UNCHANGED << detData, progressData, owner, requested >>

\* Mutant: the list is read without its lock.
GetProcessedPacketsUnlocked(t) ==
  /\ At(t, "list")
  /\ LET r == thread[t].req
     IN Answer(t, IF r.allVersions THEN Listed(r.mb) ELSE FirstVersions(Listed(r.mb)))
  /\ UNCHANGED << detData, progressData, owner, requested >>

GetProcessedPackets(t) ==
  /\ At(t, "list")
  /\ LET r == thread[t].req
     IN /\ Unlocked(SpdLock(r.mb))
        /\ Answer(t, IF r.allVersions THEN Listed(r.mb) ELSE FirstVersions(Listed(r.mb)))
  /\ UNCHANGED << detData, progressData, owner, requested >>

\* deleteFirstPackets: the list is locked, then the packets; the packets' data
\* goes, their lock is released, and the ids leave the list.
LockList(t) ==
  /\ At(t, "delete")
  /\ Lock(SpdLock(thread[t].req.mb), t)
  /\ Goto(t, "lock data")
  /\ UNCHANGED << detData, progressData, requested >>

LockData(t) ==
  /\ At(t, "lock data")
  /\ Lock(DataLock, t)
  /\ Goto(t, "delete data")
  /\ UNCHANGED << detData, progressData, requested >>

\* Mutant: the last packet of the request is left.
DeletePacketsFromMbDataButLast(t) ==
  /\ At(t, "delete data")
  /\ LET r == thread[t].req
         gone == { Listed(r.mb)[k] : k \in { n \in DOMAIN Listed(r.mb) : n < r.count } }
     IN detData' = [ detData EXCEPT ![r.mb] =
                       [ id \in PacketIds |-> IF id \in gone THEN "freed" ELSE @[id] ] ]
  /\ Unlock(DataLock)
  /\ Goto(t, "erase")
  /\ UNCHANGED << progressData, requested >>

DeletePacketsFromMbData(t) ==
  /\ At(t, "delete data")
  /\ LET r == thread[t].req
         gone == { Listed(r.mb)[k] : k \in { n \in DOMAIN Listed(r.mb) : n <= r.count } }
     IN detData' = [ detData EXCEPT ![r.mb] =
                       [ id \in PacketIds |-> IF id \in gone THEN "freed" ELSE @[id] ] ]
  /\ Unlock(DataLock)
  /\ Goto(t, "erase")
  /\ UNCHANGED << progressData, requested >>

\* Mutant: the list stays locked.
EraseFirstStillLocked(t) ==
  /\ At(t, "erase")
  /\ LET r == thread[t].req
     IN progressData' = [ progressData EXCEPT ![r.mb] = DropFirst(@, r.count) ]
  /\ Answer(t, <<>>)
  /\ UNCHANGED << detData, owner, requested >>

\* Mutant: the state is printed, as after a store, before the list is unlocked.
EraseFirstThenPrint(t) ==
  /\ At(t, "erase")
  /\ LET r == thread[t].req
     IN progressData' = [ progressData EXCEPT ![r.mb] = DropFirst(@, r.count) ]
  /\ Goto(t, "print")
  /\ UNCHANGED << detData, owner, requested >>

EraseFirst(t) ==
  /\ At(t, "erase")
  /\ LET r == thread[t].req
     IN /\ progressData' = [ progressData EXCEPT ![r.mb] = DropFirst(@, r.count) ]
        /\ Unlock(SpdLock(r.mb))
  /\ Answer(t, <<>>)
  /\ UNCHANGED << detData, requested >>

-----------------------------------------------------------------------------
SendAnswer(t) ==
  /\ At(t, "answer")
  /\ thread' = [ thread EXCEPT ![t] = IdleThread ]
  /\ UNCHANGED << detData, progressData, owner, requested >>

StoreStep(t) ==
  \/ GetOrCreatePacketData(t) \/ UpdatePacketData(t) \/ GetOrCreateServerProgressData(t)
  \/ AddPacketId(t) \/ StartPrint(t) \/ PrintList(t) \/ EndPrint(t)
GetPalsStep(t) == GetPacketData(t) \/ ConvertPacketDataToPM(t)
ListStep(t) == GetServerProgressData(t) \/ GetProcessedPackets(t)
DeleteStep(t) == LockList(t) \/ LockData(t) \/ DeletePacketsFromMbData(t) \/ EraseFirst(t)
Work(t) == StoreStep(t) \/ GetPalsStep(t) \/ ListStep(t) \/ DeleteStep(t) \/ SendAnswer(t)

Next == \E t \in Threads : Receive(t) \/ Work(t)

Spec == Init /\ [][Next]_vars

-----------------------------------------------------------------------------
Steps == { "idle", "create", "update", "progress", "add", "print", "printing", "lookup",
           "convert", "find", "list", "delete", "lock data", "delete data", "erase", "answer" }

\* The locks a thread holds between its steps.
Holds(t) ==
  CASE At(t, "printing")               -> {ProgressLock}
    [] At(t, "delete data")            -> {SpdLock(thread[t].req.mb), DataLock}
    [] thread[t].pc \in {"lock data", "erase"} -> {SpdLock(thread[t].req.mb)}
    [] OTHER                           -> {}

TypeOK ==
  /\ detData \in [Mbs -> [PacketIds -> DataStates]]
  /\ DOMAIN progressData \subseteq Mbs
  /\ \A mb \in DOMAIN progressData : progressData[mb] \in Seq(PacketIds)
  /\ owner \in [Locks -> Threads \union {Free}]
  /\ DOMAIN thread = Threads
  /\ \A t \in Threads :
       /\ thread[t].pc \in Steps
       /\ thread[t].req \in Requests \union {IdleThread.req}
       /\ thread[t].toPrint \subseteq DOMAIN progressData
  /\ \A l \in Locks, t \in Threads : owner[l] = t <=> l \in Holds(t)
  /\ requested \subseteq Mbs \X PacketIds

\* The list and the packets' data, which are under different locks, agree: what
\* clients may see listed has its determinants complete, so the manager never
\* replays a packet whose determinants are still on their way.
ListedHasPals ==
  \A mb \in Mbs : \A id \in Elements(Visible(mb)) : detData[mb][id] = "stored"

\* ... and data that no request is about to list is listed: nothing stays in
\* detData that deleteFirstPackets cannot reach.
Storing(mb, id) ==
  \E t \in Threads :
    /\ thread[t].pc \in {"update", "progress", "add"}
    /\ thread[t].req.mb = mb /\ thread[t].req.id = id

DataIsListed ==
  \A mb \in Mbs, id \in PacketIds :
    detData[mb][id] \in {"created", "stored"} =>
      id \in Elements(Visible(mb)) \/ Storing(mb, id)

\* The lock a thread's next step takes, if any.
NeededLocks(t) ==
  CASE thread[t].pc \in {"create", "lookup", "lock data"}  -> {DataLock}
    [] thread[t].pc \in {"progress", "print", "find"}      -> {ProgressLock}
    [] thread[t].pc \in {"add", "list", "delete"}          -> {SpdLock(thread[t].req.mb)}
    [] thread[t].pc = "printing" /\ thread[t].toPrint # {} -> {SpdLock(NextToPrint(t))}
    [] OTHER -> {}

\* No set of threads waits in a circle: printing takes progressData and then a
\* list's lock, deleting a list's lock and then detData.
NoCircularWait ==
  \A S \in (SUBSET Threads) \ {{}} :
    \E t \in S : \A l \in NeededLocks(t) : owner[l] \notin S

(***************************************************************************)
(* The handlers implement the atomic requests of DetLog. A store takes     *)
(* effect when the id is listed, GET_PALS when the packet is looked up, a  *)
(* deletion when the packets' data goes.                                   *)
(***************************************************************************)
TookEffect(t) == thread[t].pc \in {"print", "printing", "convert", "erase", "answer"}

AbstractAnswer(t) ==
  IF thread[t].req.op # "getPals" THEN thread[t].answer
  ELSE IF At(t, "convert") \/ thread[t].answer # <<>> THEN <<"found">> ELSE <<>>

Log == INSTANCE DetLog WITH
  log <- [ mb \in Mbs |-> Visible(mb) ],
  request <- [ t \in Threads |->
                 [ todo |-> thread[t].req, done |-> TookEffect(t), answer |-> AbstractAnswer(t) ] ]

ImplementsDetLog == Log!Spec
===============================================================================
