-------------------------- MODULE PacketLoggerServer --------------------------
(***************************************************************************)
(* packets_logger_server.cc: the handlers of the requests, run by one      *)
(* thread per client host (asyncServer.cc).                                *)
(*                                                                         *)
(*   packetsVersions      the map from bases to packets, under a mutex     *)
(*   packetVersions->lock the versions of one packet, under a spin lock    *)
(*                                                                         *)
(* The mutex is held to look up, insert or erase one entry, and nothing    *)
(* else is locked meanwhile: such a section is one step. A thread keeps    *)
(* the pointer it looked up after the mutex is released; deletePacket      *)
(* frees what it points to before it erases the entry. So the model keeps  *)
(* addresses: heap holds what the memory at an address was allocated for,  *)
(* and freed memory may be allocated again for another packet.             *)
(*                                                                         *)
(* A version is known by its packet id. Its offset is always 0, and its    *)
(* bytes are left out.                                                     *)
(***************************************************************************)
EXTENDS PacketLists

CONSTANTS
  NumBases,      \* packets the traffic source sends (a bound)
  NumVersions,   \* versions a packet gets: one of the id element, one per master
  MaxIds,        \* ids in a request of the manager (a bound)
  Addresses,     \* where the allocator may place a PacketVersionsData
  InOrder,       \* TRUE: a version is sent once the previous one was answered
  ManagerWaits   \* TRUE: the manager names an id when the versions up to it are
                 \* stored, and deletes one when the version after it is, too

ASSUME NumBasesAssumption == NumBases \in Nat
ASSUME NumVersionsAssumption == NumVersions \in Nat \ {0}
ASSUME MaxIdsAssumption == MaxIds \in Nat
ASSUME SwitchesAssumption == {InOrder, ManagerWaits} \subseteq BOOLEAN

VARIABLES
  packetsVersions, \* the address of each base's PacketVersionsData, if any
  heap,            \* the PacketVersionsData at each address, or Freed
  thread,          \* the server threads
  requested,       \* how many bases each storing client has sent its version of
  answered,        \* history: the ids whose store was answered
  deleted          \* history: the bases deletePacket freed

vars == << packetsVersions, heap, thread, requested, answered, deleted >>

\* The thread of the client that stores version v is v: 1 for the id element,
\* the others for the masters, in the order of the policy chain. The manager's
\* thread replays and deletes.
Storers == 1..NumVersions
Manager == 0
Threads == Storers \union {Manager}
Bases == 1..NumBases
PacketIds == Bases \X Storers
IdLists == UNION { [1..n -> PacketIds] : n \in 1..MaxIds }
Requests ==
  [ t \in Threads |->
      IF t = Manager THEN [ op : {"replay", "delete"}, ids : IdLists ]
                     ELSE [ op : {"store"}, ids : { <<id>> : id \in Bases \X {t} } ] ]

Null == "null"
ASSUME AddressesAssumption == Null \notin Addresses

\* lock is the set of the threads that hold it, {} or one thread.
NewPacket(b) == [ base |-> b, packet_versions |-> <<>>, index |-> 0, lock |-> {} ]
Freed == NewPacket(0)
IdleThread == [ pc |-> "idle", op |-> "none", ids |-> <<>>, ptr |-> Null, packet |-> {} ]

Init ==
  /\ packetsVersions = [ b \in Bases |-> Null ]
  /\ heap = [ a \in Addresses |-> Freed ]
  /\ thread = [ t \in Threads |-> IdleThread ]
  /\ requested = [ v \in Storers |-> 0 ]
  /\ answered = {}
  /\ deleted = {}

At(t, step) == thread[t].pc = step
Doing(t, op) == thread[t].op = op
Goto(t, step) == thread' = [ thread EXCEPT ![t].pc = step ]
Current(t) == Head(thread[t].ids)
Pointee(t) == heap[thread[t].ptr]

-----------------------------------------------------------------------------
(* Requests. *)

\* A client sends its version of one packet after the other. It waits for the
\* answer two seconds at most, and then passes the packet on all the same.
ReceiveStore(v) ==
  /\ At(v, "idle")
  /\ requested[v] < NumBases
  /\ LET id == <<requested[v] + 1, v>>
     IN /\ (InOrder /\ v > 1) => <<BaseOf(id), v - 1>> \in answered
        /\ thread' = [ thread EXCEPT ![v] =
                         [ IdleThread EXCEPT !.pc = "create", !.op = "store", !.ids = <<id>> ] ]
  /\ requested' = [ requested EXCEPT ![v] = @ + 1 ]
  /\ UNCHANGED << packetsVersions, heap, answered, deleted >>

StoredUpTo(b, v) == \A w \in Storers : w <= v => <<b, w>> \in answered

\* The manager names ids the master recorded; their versions were stored before.
MayName(op, id) ==
  /\ InOrder => id \in answered
  /\ ManagerWaits =>
       StoredUpTo(BaseOf(id), IF op = "delete" THEN VersionOf(id) + 1 ELSE VersionOf(id))

FirstStep(op) == IF op = "replay" THEN "connect" ELSE "find"

ReceiveFromManager ==
  /\ At(Manager, "idle")
  /\ \E r \in Requests[Manager] :
       /\ \A id \in Elements(r.ids) : MayName(r.op, id)
       /\ thread' = [ thread EXCEPT ![Manager] =
                        [ IdleThread EXCEPT !.pc = FirstStep(r.op), !.op = r.op, !.ids = r.ids ] ]
  /\ UNCHANGED << packetsVersions, heap, requested, answered, deleted >>

Answering(t) ==
  [ pc |-> "answer", op |-> thread[t].op, ids |-> <<>>, ptr |-> Null, packet |-> {} ]

SendAnswer(t) ==
  /\ At(t, "answer")
  /\ thread' = [ thread EXCEPT ![t] = IdleThread ]
  /\ answered' = IF t \in Storers THEN answered \union {<<requested[t], t>>} ELSE answered
  /\ UNCHANGED << packetsVersions, heap, requested, deleted >>

-----------------------------------------------------------------------------
\* The spin lock of the packet. In freed memory it holds anything: the thread
\* gets it, or spins for ever, which is a step it never takes.
LockPacket(t) ==
  /\ At(t, "lock")
  /\ IF Pointee(t) = Freed
     THEN UNCHANGED heap
     ELSE /\ Pointee(t).lock = {}
          /\ heap' = [ heap EXCEPT ![thread[t].ptr].lock = {t} ]
  /\ Goto(t, "work")
  /\ UNCHANGED << packetsVersions, requested, answered, deleted >>

(* processStoreRequest *)

\* Mutant: a packet that exists is replaced.
CreateServerProgressData(v) ==
  /\ At(v, "create")
  /\ LET b == BaseOf(Current(v))
     IN \E a \in Addresses :
          /\ heap[a] = Freed
          /\ heap' = [ heap EXCEPT ![a] = NewPacket(b) ]
          /\ packetsVersions' = [ packetsVersions EXCEPT ![b] = a ]
          /\ thread' = [ thread EXCEPT ![v].pc = "lock", ![v].ptr = a ]
  /\ UNCHANGED << requested, answered, deleted >>

GetOrCreateServerProgressData(v) ==
  /\ At(v, "create")
  /\ LET b == BaseOf(Current(v))
     IN \/ /\ packetsVersions[b] = Null
           /\ \E a \in Addresses :
                /\ heap[a] = Freed
                /\ heap' = [ heap EXCEPT ![a] = NewPacket(b) ]
                /\ packetsVersions' = [ packetsVersions EXCEPT ![b] = a ]
                /\ thread' = [ thread EXCEPT ![v].pc = "lock", ![v].ptr = a ]
        \/ /\ packetsVersions[b] # Null
           /\ thread' = [ thread EXCEPT ![v].pc = "lock", ![v].ptr = packetsVersions[b] ]
           /\ UNCHANGED << packetsVersions, heap >>
  /\ UNCHANGED << requested, answered, deleted >>

WithVersion(p, id, index) ==
  [ base |-> p.base, packet_versions |-> Append(p.packet_versions, id), index |-> index,
    lock |-> {} ]

\* Mutant: the index is not raised.
AddPacketVersionUncounted(v) ==
  /\ At(v, "work")
  /\ v \in Storers
  /\ heap' = [ heap EXCEPT ![thread[v].ptr] = WithVersion(@, Current(v), @.index) ]
  /\ thread' = [ thread EXCEPT ![v] = Answering(v) ]
  /\ UNCHANGED << packetsVersions, requested, answered, deleted >>

\* Written to freed memory, the version is lost, or the process dies and takes
\* no more steps.
AddPacketVersion(v) ==
  /\ At(v, "work")
  /\ v \in Storers
  /\ heap' = IF Pointee(v) = Freed
             THEN heap
             ELSE [ heap EXCEPT ![thread[v].ptr] = WithVersion(@, Current(v), @.index + 1) ]
  /\ thread' = [ thread EXCEPT ![v] = Answering(v) ]
  /\ UNCHANGED << packetsVersions, requested, answered, deleted >>

-----------------------------------------------------------------------------
(* processReplayRequest and processDeletePacketsRequest, one id after the    *)
(* other; what getPacket and deletePacket return is ignored.                 *)

\* What follows an id: the next one, or the answer.
Through(t) ==
  LET rest == Tail(thread[t].ids)
  IN [ Answering(t) EXCEPT !.pc = IF rest = <<>> THEN "answer" ELSE "find", !.ids = rest ]
ToNextId == thread' = [ thread EXCEPT ![Manager] = Through(Manager) ]

\* The slave cannot be connected to: nothing is replayed, and the answer says so.
ConnectToDestMb ==
  /\ At(Manager, "connect")
  /\ \/ Goto(Manager, "find")
     \/ thread' = [ thread EXCEPT ![Manager] = Answering(Manager) ]
  /\ UNCHANGED << packetsVersions, heap, requested, answered, deleted >>

\* The lookup both begin with; a packet that does not exist is passed over.
FindPacket ==
  /\ At(Manager, "find")
  /\ LET a == packetsVersions[BaseOf(Current(Manager))]
     IN IF a = Null
        THEN ToNextId
        ELSE thread' = [ thread EXCEPT ![Manager].pc = "lock", ![Manager].ptr = a ]
  /\ UNCHANGED << packetsVersions, heap, requested, answered, deleted >>

Smaller(m, n) == IF m < n THEN m ELSE n

\* Mutant: the versions are not sorted ("basically this step is not necessary").
FirstUnsorted(versions, k) == { versions[i] : i \in { j \in DOMAIN versions : j <= k } }

\* The first k versions once sorted.
FirstSorted(versions, k) ==
  { id \in Elements(versions) :
      Cardinality({ u \in Elements(versions) : VersionOf(u) <= VersionOf(id) }) <= k }

UnlockPacket(t) == heap' = [ heap EXCEPT ![thread[t].ptr].lock = {} ]

\* getPacket copies the versions over each other; an empty packet is not sent.
CopyPacket ==
  /\ At(Manager, "work") /\ Doing(Manager, "replay")
  /\ LET p == Pointee(Manager)
         packet == FirstSorted(p.packet_versions,
                               Smaller(VersionOf(Current(Manager)), p.index))
     IN IF packet = {}
        THEN ToNextId
        ELSE thread' = [ thread EXCEPT ![Manager].pc = "send", ![Manager].packet = packet,
                                       ![Manager].ptr = Null ]
  /\ UnlockPacket(Manager)
  /\ UNCHANGED << packetsVersions, requested, answered, deleted >>

\* send blocks while the slave does not read.
SendMsgToDstMb ==
  /\ At(Manager, "send")
  /\ ToNextId
  /\ UNCHANGED << packetsVersions, heap, requested, answered, deleted >>

\* Mutant: one version too few is asked for.
PartialButNext == VersionOf(Current(Manager)) + 1 < Pointee(Manager).index

Partial == VersionOf(Current(Manager)) < Pointee(Manager).index

\* Mutant: the packet stays locked.
RefusePartialStillLocked ==
  /\ At(Manager, "work") /\ Doing(Manager, "delete")
  /\ Partial
  /\ ToNextId
  /\ UNCHANGED << packetsVersions, heap, requested, answered, deleted >>

\* "We can't delete partial packet versions."
RefusePartial ==
  /\ At(Manager, "work") /\ Doing(Manager, "delete")
  /\ Partial
  /\ UnlockPacket(Manager)
  /\ ToNextId
  /\ UNCHANGED << packetsVersions, requested, answered, deleted >>

\* The versions go, and the vector is cleared; the index stays as it is.
FreeVersions ==
  /\ At(Manager, "work") /\ Doing(Manager, "delete")
  /\ ~Partial
  /\ heap' = [ heap EXCEPT ![thread[Manager].ptr] =
                  [ base |-> @.base, packet_versions |-> <<>>, index |-> @.index,
                    lock |-> {} ] ]
  /\ deleted' = deleted \union {BaseOf(Current(Manager))}
  /\ Goto(Manager, "free")
  /\ UNCHANGED << packetsVersions, requested, answered >>

\* Mutant: only the entry of the map goes.
FreePacketForgotten ==
  /\ At(Manager, "free")
  /\ Goto(Manager, "erase")
  /\ UNCHANGED << packetsVersions, heap, requested, answered, deleted >>

\* delete packetVersions: from here to the erasure the map holds an address that
\* may be allocated for another packet.
FreePacket ==
  /\ At(Manager, "free")
  /\ heap' = [ heap EXCEPT ![thread[Manager].ptr] = Freed ]
  /\ Goto(Manager, "erase")
  /\ UNCHANGED << packetsVersions, requested, answered, deleted >>

ErasePacket ==
  /\ At(Manager, "erase")
  /\ packetsVersions' = [ packetsVersions EXCEPT ![BaseOf(Current(Manager))] = Null ]
  /\ ToNextId
  /\ UNCHANGED << heap, requested, answered, deleted >>

-----------------------------------------------------------------------------
StoreStep(v) ==
  ReceiveStore(v) \/ GetOrCreateServerProgressData(v) \/ AddPacketVersion(v)
ReplayStep == ConnectToDestMb \/ CopyPacket \/ SendMsgToDstMb
DeleteStep == RefusePartial \/ FreeVersions \/ FreePacket \/ ErasePacket
ManagerStep == ReceiveFromManager \/ FindPacket \/ ReplayStep \/ DeleteStep

Next ==
  \/ \E v \in Storers : StoreStep(v)
  \/ ManagerStep
  \/ \E t \in Threads : LockPacket(t) \/ SendAnswer(t)

Spec == Init /\ [][Next]_vars

-----------------------------------------------------------------------------
Steps == { "idle", "create", "connect", "find", "lock", "work", "send", "free", "erase",
           "answer" }
PacketData == [ base : Bases, packet_versions : Seq(PacketIds), index : Nat,
                lock : SUBSET Threads ]

\* The index counts the versions, but for a packet about to be given back.
TypeOK ==
  /\ packetsVersions \in [Bases -> Addresses \union {Null}]
  /\ heap \in [Addresses -> PacketData \union {Freed}]
  /\ \A a \in Addresses :
       \/ heap[a].index = Len(heap[a].packet_versions)
       \/ At(Manager, "free") /\ thread[Manager].ptr = a
  /\ thread \in [Threads -> [ pc : Steps, op : {"none", "store", "replay", "delete"},
                              ids : Seq(PacketIds), ptr : Addresses \union {Null},
                              packet : SUBSET PacketIds ]]
  /\ requested \in [Storers -> 0..NumBases]
  /\ answered \subseteq PacketIds
  /\ deleted \subseteq Bases

\* A thread that is about to lock or to use a packet has an address at which
\* that packet still is: the mutex was released since the lookup.
NoUseOfFreed ==
  \A t \in Threads :
    thread[t].pc \in {"lock", "work", "free"} =>
      Pointee(t) # Freed /\ Pointee(t).base = BaseOf(Current(t))

\* Every packet in memory is in the map, under its own base: none leaks, and no
\* two entries share one.
NoLeak ==
  \A a \in Addresses :
    heap[a] # Freed =>
      packetsVersions[heap[a].base] = a

\* A thread has at most the packet locked it works on: none is locked while the
\* thread sends to a slave that may not read, or between requests.
LocksReleased ==
  \A a \in Addresses, t \in Threads :
    t \in heap[a].lock => At(t, "work") /\ thread[t].ptr = a

\* What is stored of a base.
VersionsIn(b) ==
  IF packetsVersions[b] # Null /\ heap[packetsVersions[b]].base = b
  THEN Elements(heap[packetsVersions[b]].packet_versions)
  ELSE {}

\* A version whose store was answered is kept until its packet is deleted.
AnsweredStays ==
  \A id \in answered : BaseOf(id) \in deleted \/ id \in VersionsIn(BaseOf(id))

\* A replay sends all versions up to the one it names, and no later one,
\* although they may have been stored in any order.
ReplayComplete ==
  At(Manager, "send") =>
    LET id == Current(Manager)
    IN thread[Manager].packet = { <<BaseOf(id), v>> : v \in 1..VersionOf(id) }

\* A packet is stored from its first version on: "We can't delete partial packet
\* versions."
NeverPartial ==
  \A b \in Bases : \A id \in VersionsIn(b) :
    \A v \in 1..VersionOf(id) : <<b, v>> \in VersionsIn(b)

(***************************************************************************)
(* A store takes effect when the version is added, a packet is rebuilt     *)
(* when it is copied, and deleted when its versions are freed.             *)
(***************************************************************************)
Job(t) ==
  [ op |-> thread[t].op,
    ids |-> IF thread[t].pc \in {"free", "erase"} THEN Tail(thread[t].ids) ELSE thread[t].ids,
    packet |-> thread[t].packet ]

Store == INSTANCE PacketStore WITH
  stored <- UNION { VersionsIn(b) : b \in Bases },
  job <- [ t \in Threads |-> Job(t) ]

ImplementsPacketStore == Store!Spec
===============================================================================
