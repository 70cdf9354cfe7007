----------------------- MODULE PacketLoggerServerProofs ------------------------
(***************************************************************************)
(* Theorems about PacketLoggerServer, for any number of packets, versions, *)
(* storing clients and addresses: type correctness and the release of the  *)
(* spin locks in general; when the manager deletes no packet too early,    *)
(* the safety of the pointers, and that the logger implements PacketStore. *)
(***************************************************************************)
EXTENDS PacketLoggerServer, PacketListsProofs, FunctionTheorems

USE NumBasesAssumption, NumVersionsAssumption, MaxIdsAssumption, AddressesAssumption

-----------------------------------------------------------------------------
(* Types. *)

StorerSteps == {"idle", "create", "lock", "work", "answer"}
ManagerWork == {"connect", "find", "lock", "work", "send", "free", "erase"}

\* A thread between its lookup and its answer has an id to work on and an
\* address to work at. It makes TypeOK inductive.
ThreadInv ==
  /\ \A v \in Storers :
       /\ thread[v].pc \in StorerSteps
       /\ thread[v].pc # "idle" => requested[v] \in Bases
       /\ thread[v].pc \in {"create", "lock", "work"} => thread[v].ids = << <<requested[v], v>> >>
  /\ thread[Manager].pc \in ManagerWork \union {"idle", "answer"}
  /\ thread[Manager].pc \in ManagerWork => thread[Manager].ids # <<>>
  /\ \A t \in Threads :
       thread[t].pc \in {"lock", "work", "free"} => thread[t].ptr \in Addresses

TypeInv == TypeOK /\ ThreadInv

ThreadData == [ pc : Steps, op : {"none", "store", "replay", "delete"},
                ids : Seq(PacketIds), ptr : Addresses \union {Null},
                packet : SUBSET PacketIds ]

\* The threads of the clients that store and of the manager are different.
LEMMA ThreadSets == /\ Manager \in Threads /\ Manager \notin Storers
                    /\ Storers \subseteq Threads
                    /\ \A t \in Threads : t = Manager \/ t \in Storers
BY DEF Manager, Threads, Storers

\* An idle thread, and memory that is free or was just allocated, are well typed.
LEMMA InitialData ==
  /\ IdleThread \in ThreadData
  /\ Freed \notin PacketData /\ Freed.index = 0 /\ Freed.base = 0
  /\ Freed.packet_versions = <<>> /\ Freed.lock = {} /\ Len(<<>>) = 0
  /\ \A b \in Bases : NewPacket(b) \in PacketData
<1>1. <<>> \in Seq(PacketIds) /\ Len(<<>>) = 0
  BY EmptySeq
<1> QED
  BY <1>1 DEF IdleThread, ThreadData, Steps, Freed, NewPacket, PacketData, Bases

LEMMA TypeInit == Init => TypeInv
<1> SUFFICES ASSUME Init PROVE TypeInv
  OBVIOUS
<1>1. TypeOK
  BY InitialData DEF Init, TypeOK, ThreadData
<1>2. ThreadInv
  BY ThreadSets DEF Init, ThreadInv, IdleThread, StorerSteps, ManagerWork
<1> QED
  BY <1>1, <1>2 DEF TypeInv

\* What the thread records of a well typed state are, in one place.
LEMMA Typed ==
  ASSUME TypeOK
  PROVE  /\ \A t \in Threads : thread[t] \in ThreadData
         /\ thread \in [Threads -> ThreadData]
         /\ \A a \in Addresses : heap[a] \in PacketData \/ heap[a] = Freed
BY DEF TypeOK, ThreadData

\* The id a thread works on.
LEMMA CurrentId ==
  ASSUME TypeInv
  PROVE  /\ \A v \in Storers : thread[v].pc \in {"create", "lock", "work"} =>
              Current(v) = <<requested[v], v>> /\ Current(v) \in PacketIds
                /\ BaseOf(Current(v)) = requested[v] /\ requested[v] \in Bases
         /\ thread[Manager].pc \in ManagerWork =>
              /\ Current(Manager) \in Elements(thread[Manager].ids)
              /\ Current(Manager) \in PacketIds
              /\ BaseOf(Current(Manager)) \in Bases /\ VersionOf(Current(Manager)) \in Storers
              /\ Tail(thread[Manager].ids) \in Seq(PacketIds)
              /\ Elements(Tail(thread[Manager].ids)) \subseteq Elements(thread[Manager].ids)
<1>1. ASSUME NEW v \in Storers, thread[v].pc \in {"create", "lock", "work"}
      PROVE  Current(v) = <<requested[v], v>> /\ requested[v] \in Bases
  BY <1>1 DEF TypeInv, ThreadInv, Current
<1>2. ASSUME thread[Manager].pc \in ManagerWork
      PROVE  /\ Current(Manager) \in Elements(thread[Manager].ids)
             /\ Current(Manager) \in PacketIds
             /\ Tail(thread[Manager].ids) \in Seq(PacketIds)
             /\ Elements(Tail(thread[Manager].ids)) \subseteq Elements(thread[Manager].ids)
  <2>1. thread[Manager].ids \in Seq(PacketIds) /\ thread[Manager].ids # <<>>
    BY <1>2, ThreadSets DEF TypeInv, TypeOK, ThreadInv
  <2> QED
    BY <2>1, HeadTailElements, HeadTailProperties DEF Current
<1> QED
  BY <1>1, <1>2 DEF PacketIds, BaseOf, VersionOf

\* The thread that has its answer.
LEMMA AnsweringType ==
  ASSUME TypeInv, NEW t \in Threads
  PROVE  Answering(t) \in ThreadData /\ Answering(t).pc = "answer"
<1>1. <<>> \in Seq(PacketIds) /\ thread[t] \in ThreadData
  BY EmptySeq, Typed DEF TypeInv
<1> QED
  BY <1>1 DEF Answering, ThreadData, Steps

\* What a thread goes on with is well typed.
LEMMA ThroughType ==
  ASSUME TypeInv, thread[Manager].pc \in ManagerWork
  PROVE  /\ Through(Manager) \in ThreadData
         /\ Through(Manager).pc \in {"answer", "find"}
         /\ Through(Manager).pc = "find" => Through(Manager).ids # <<>>
         /\ Through(Manager).op = thread[Manager].op
         /\ Through(Manager).ids = Tail(thread[Manager].ids)
<1> DEFINE rest == Tail(thread[Manager].ids)
<1>1. rest \in Seq(PacketIds) /\ thread[Manager] \in ThreadData
  BY Typed, CurrentId, ThreadSets DEF TypeInv
<1>2. Answering(Manager) \in ThreadData /\ Answering(Manager).op = thread[Manager].op
  BY AnsweringType, ThreadSets DEF Answering
<1>3. Through(Manager) =
        [ Answering(Manager) EXCEPT !.pc = IF rest = <<>> THEN "answer" ELSE "find",
                                    !.ids = rest ]
  BY DEF Through
<1> HIDE DEF rest
<1> QED
  BY <1>1, <1>2, <1>3 DEF ThreadData, Steps, rest

\* A step that touches one thread keeps what ThreadInv says of the others.
LEMMA OneThread ==
  ASSUME TypeInv, NEW t \in Threads, NEW r \in ThreadData,
         thread' = [ thread EXCEPT ![t] = r ],
         \A v \in Storers : v # t => requested'[v] = requested[v],
         t \in Storers =>
           /\ r.pc \in StorerSteps
           /\ r.pc # "idle" => requested'[t] \in Bases
           /\ r.pc \in {"create", "lock", "work"} => r.ids = << <<requested'[t], t>> >>,
         t = Manager =>
           /\ r.pc \in ManagerWork \union {"idle", "answer"}
           /\ r.pc \in ManagerWork => r.ids # <<>>,
         r.pc \in {"lock", "work", "free"} => r.ptr \in Addresses
  PROVE  ThreadInv' /\ thread' \in [Threads -> ThreadData]
<1>1. thread \in [Threads -> ThreadData]
  BY Typed DEF TypeInv
<1>2. thread'[t] = r /\ \A u \in Threads : u # t => thread'[u] = thread[u]
  BY <1>1
<1>3. thread' \in [Threads -> ThreadData]
  BY <1>1
<1>4. ASSUME NEW v \in Storers
      PROVE  /\ thread'[v].pc \in StorerSteps
             /\ thread'[v].pc # "idle" => requested'[v] \in Bases
             /\ thread'[v].pc \in {"create", "lock", "work"} =>
                  thread'[v].ids = << <<requested'[v], v>> >>
  BY <1>2, ThreadSets DEF TypeInv, ThreadInv
<1>5. /\ thread'[Manager].pc \in ManagerWork \union {"idle", "answer"}
      /\ thread'[Manager].pc \in ManagerWork => thread'[Manager].ids # <<>>
  BY <1>2, ThreadSets DEF TypeInv, ThreadInv
<1>6. \A u \in Threads :
        thread'[u].pc \in {"lock", "work", "free"} => thread'[u].ptr \in Addresses
  BY <1>2 DEF TypeInv, ThreadInv
<1> QED
  BY <1>3, <1>4, <1>5, <1>6 DEF ThreadInv

LEMMA TypeReceiveStore ==
  ASSUME TypeInv, NEW v \in Storers, ReceiveStore(v)
  PROVE  TypeInv'
<1> DEFINE id == <<requested[v] + 1, v>>
           r == [ IdleThread EXCEPT !.pc = "create", !.op = "store", !.ids = <<id>> ]
<1>1. requested[v] + 1 \in Bases /\ id \in PacketIds
  <2>1. requested[v] \in 0..NumBases
    BY DEF TypeInv, TypeOK
  <2>2. requested[v] < NumBases
    BY DEF ReceiveStore
  <2> QED
    BY <2>1, <2>2 DEF Bases, PacketIds
<1>2. r \in ThreadData
  <2>1. <<id>> \in Seq(PacketIds)
    BY <1>1
  <2> HIDE DEF id
  <2> QED
    BY <2>1, InitialData DEF IdleThread, ThreadData, Steps
<1>3. requested' \in [Storers -> 0..NumBases] /\ requested'[v] = requested[v] + 1
      /\ \A w \in Storers : w # v => requested'[w] = requested[w]
  BY <1>1 DEF ReceiveStore, TypeInv, TypeOK, Bases
<1>4. thread' = [ thread EXCEPT ![v] = r ]
  BY DEF ReceiveStore
<1>5. ThreadInv' /\ thread' \in [Threads -> ThreadData]
  BY <1>1, <1>2, <1>3, <1>4, ThreadSets, OneThread DEF IdleThread, StorerSteps
<1>6. thread'[Manager] = thread[Manager]
  BY <1>4, ThreadSets, Typed DEF TypeInv
<1> QED
  BY <1>3, <1>5, <1>6 DEF TypeInv, TypeOK, ThreadData, ReceiveStore, At

LEMMA TypeReceiveFromManager ==
  ASSUME TypeInv, ReceiveFromManager
  PROVE  TypeInv'
<1>1. PICK r \in Requests[Manager] :
        thread' = [ thread EXCEPT ![Manager] =
                      [ IdleThread EXCEPT !.pc = FirstStep(r.op), !.op = r.op, !.ids = r.ids ] ]
  BY DEF ReceiveFromManager
<1>2. r \in [ op : {"replay", "delete"}, ids : IdLists ]
  BY ThreadSets DEF Requests
<1>3. r.ids \in Seq(PacketIds) /\ r.ids # <<>>
  <2>1. PICK n \in 1..MaxIds : r.ids \in [1..n -> PacketIds]
    BY <1>2 DEF IdLists
  <2>2. r.ids \in Seq(PacketIds) /\ Len(r.ids) = n
    BY <2>1, SeqDef, LenProperties
  <2> QED
    BY <2>2, EmptySeq
<1> DEFINE s == [ IdleThread EXCEPT !.pc = FirstStep(r.op), !.op = r.op, !.ids = r.ids ]
<1>4. s \in ThreadData /\ s.pc \in {"connect", "find"} /\ s.ids # <<>>
  BY <1>2, <1>3, InitialData DEF IdleThread, ThreadData, Steps, FirstStep
<1>5. ThreadInv' /\ thread' \in [Threads -> ThreadData]
  BY <1>1, <1>4, ThreadSets, OneThread DEF ReceiveFromManager, ManagerWork
<1>6. /\ ~At(Manager, "free")
      /\ UNCHANGED << packetsVersions, heap, requested, answered, deleted >>
  BY DEF ReceiveFromManager, At
<1> QED
  BY <1>5, <1>6 DEF TypeInv, TypeOK, ThreadData, At

LEMMA TypeSendAnswer ==
  ASSUME TypeInv, NEW t \in Threads, SendAnswer(t)
  PROVE  TypeInv'
<1>1. thread' = [ thread EXCEPT ![t] = IdleThread ]
  BY DEF SendAnswer
<1>2. ThreadInv' /\ thread' \in [Threads -> ThreadData]
  BY <1>1, InitialData, OneThread, ThreadSets
  DEF SendAnswer, IdleThread, StorerSteps, ManagerWork
<1>3. answered' \subseteq PacketIds
  <2>1. t \in Storers => <<requested[t], t>> \in PacketIds
    BY DEF SendAnswer, At, TypeInv, ThreadInv, PacketIds
  <2> QED
    BY <2>1 DEF SendAnswer, TypeInv, TypeOK
<1>4. ASSUME At(Manager, "free") PROVE thread'[Manager] = thread[Manager]
  BY <1>1, <1>4, ThreadSets, Typed DEF SendAnswer, At, TypeInv
<1> QED
  BY <1>2, <1>3, <1>4 DEF TypeInv, TypeOK, ThreadData, SendAnswer, At

\* What a step writes to the memory at one address.
LEMMA OneAddress ==
  ASSUME TypeInv, NEW a \in Addresses, NEW p \in PacketData \union {Freed},
         heap' = [ heap EXCEPT ![a] = p ],
         \/ p.index = Len(p.packet_versions)
         \/ At(Manager, "free")' /\ thread'[Manager].ptr = a,
         At(Manager, "free") =>
           thread'[Manager] = thread[Manager] \/ thread[Manager].ptr = a
  PROVE  /\ heap' \in [Addresses -> PacketData \union {Freed}]
         /\ heap'[a] = p /\ \A c \in Addresses : c # a => heap'[c] = heap[c]
         /\ \A c \in Addresses :
              \/ heap'[c].index = Len(heap'[c].packet_versions)
              \/ At(Manager, "free")' /\ thread'[Manager].ptr = c
<1>1. heap \in [Addresses -> PacketData \union {Freed}]
  BY DEF TypeInv, TypeOK
<1>2. /\ heap' \in [Addresses -> PacketData \union {Freed}]
      /\ heap'[a] = p /\ \A c \in Addresses : c # a => heap'[c] = heap[c]
  BY <1>1
<1>3. ASSUME NEW c \in Addresses
      PROVE  \/ heap'[c].index = Len(heap'[c].packet_versions)
             \/ At(Manager, "free")' /\ thread'[Manager].ptr = c
  BY <1>2, <1>3 DEF TypeInv, TypeOK, At
<1> QED
  BY <1>2, <1>3

\* Unlocking what is not locked changes nothing.
LEMMA UnlockUnlocked ==
  ASSUME NEW base, NEW versions, NEW index, NEW p,
         p = [ base |-> base, packet_versions |-> versions, index |-> index, lock |-> {} ]
  PROVE  [ p EXCEPT !.lock = {} ] = p
OBVIOUS

\* Locking or unlocking a packet is such a write; free memory stays free when it
\* is unlocked.
LEMMA LockData ==
  ASSUME TypeInv, NEW a \in Addresses, NEW L \in SUBSET Threads,
         heap[a] # Freed \/ L = {}
  PROVE  /\ [ heap EXCEPT ![a].lock = L ] = [ heap EXCEPT ![a] = [ heap[a] EXCEPT !.lock = L ] ]
         /\ [ heap[a] EXCEPT !.lock = L ] \in PacketData \union {Freed}
         /\ [ heap[a] EXCEPT !.lock = L ].index = heap[a].index
         /\ [ heap[a] EXCEPT !.lock = L ].packet_versions = heap[a].packet_versions
         /\ [ heap[a] EXCEPT !.lock = L ].base = heap[a].base
         /\ [ heap[a] EXCEPT !.lock = L ].lock = L
<1> DEFINE p == [ heap[a] EXCEPT !.lock = L ]
<1>1. heap[a] \in PacketData \/ heap[a] = Freed
  BY Typed DEF TypeInv
<1>2. /\ p \in PacketData \union {Freed}
      /\ p.index = heap[a].index /\ p.packet_versions = heap[a].packet_versions
      /\ p.base = heap[a].base /\ p.lock = L
  <2>1. CASE heap[a] \in PacketData
    BY <2>1 DEF PacketData
  <2>2. CASE heap[a] = Freed
    <3>1. L = {}
      BY <2>2
    <3>2. heap[a] = [ base |-> 0, packet_versions |-> <<>>, index |-> 0, lock |-> {} ]
      BY <2>2 DEF Freed, NewPacket
    <3>3. [ heap[a] EXCEPT !.lock = {} ] = heap[a]
      BY <3>2, UnlockUnlocked
    <3>4. p = Freed
      BY <2>2, <3>1, <3>3
    <3> QED
      BY <2>2, <3>1, <3>4, InitialData
  <2> QED
    BY <1>1, <2>1, <2>2
<1>3. [ heap EXCEPT ![a].lock = L ] = [ heap EXCEPT ![a] = p ]
  OBVIOUS
<1> QED
  BY <1>2, <1>3

LEMMA TypeLockPacket ==
  ASSUME TypeInv, NEW t \in Threads, LockPacket(t)
  PROVE  TypeInv'
<1> DEFINE r == [ thread[t] EXCEPT !.pc = "work" ]
           a == thread[t].ptr
<1>1. r \in ThreadData /\ r.pc = "work" /\ r.ids = thread[t].ids /\ r.ptr = a
  BY Typed DEF TypeInv, ThreadData, Steps
<1>2. thread' = [ thread EXCEPT ![t] = r ]
  BY DEF LockPacket, Goto
<1>3. a \in Addresses /\ thread[t].pc = "lock"
  BY DEF LockPacket, At, TypeInv, ThreadInv
<1>4. ThreadInv' /\ thread' \in [Threads -> ThreadData]
  <2>1. /\ t \in Storers => requested'[t] \in Bases /\ r.ids = << <<requested'[t], t>> >>
        /\ t = Manager => r.ids # <<>>
    BY <1>1, <1>3 DEF LockPacket, TypeInv, ThreadInv, ManagerWork
  <2>2. requested' = requested
    BY DEF LockPacket
  <2> HIDE DEF r, a
  <2> QED
    BY <1>1, <1>2, <1>3, <2>1, <2>2, OneThread DEF StorerSteps, ManagerWork
<1>5. At(Manager, "free") => thread'[Manager] = thread[Manager]
  BY <1>2, <1>3, ThreadSets, Typed DEF At, TypeInv
<1>6. /\ heap' \in [Addresses -> PacketData \union {Freed}]
      /\ \A c \in Addresses :
           \/ heap'[c].index = Len(heap'[c].packet_versions)
           \/ At(Manager, "free")' /\ thread'[Manager].ptr = c
  <2>1. CASE heap' = heap
    BY <2>1, <1>5 DEF TypeInv, TypeOK, At
  <2>2. CASE heap[a] # Freed /\ heap' = [ heap EXCEPT ![a].lock = {t} ]
    <3> DEFINE p == [ heap[a] EXCEPT !.lock = {t} ]
    <3>1. /\ heap' = [ heap EXCEPT ![a] = p ] /\ p \in PacketData \union {Freed}
          /\ p.index = heap[a].index /\ p.packet_versions = heap[a].packet_versions
      BY SMTT(30), <2>2, <1>3, LockData
    <3>2. \/ p.index = Len(p.packet_versions)
          \/ At(Manager, "free")' /\ thread'[Manager].ptr = a
      BY <3>1, <1>3, <1>5 DEF TypeInv, TypeOK, At
    <3> HIDE DEF p, a
    <3> QED
      BY <3>1, <3>2, <1>3, <1>5, OneAddress
  <2> QED
    BY <2>1, <2>2 DEF LockPacket, Pointee
<1> QED
  BY <1>4, <1>6 DEF TypeInv, TypeOK, ThreadData, LockPacket

LEMMA TypeGetOrCreate ==
  ASSUME TypeInv, NEW v \in Storers, GetOrCreateServerProgressData(v)
  PROVE  TypeInv'
<1> DEFINE b == BaseOf(Current(v))
           r(a) == [ thread[v] EXCEPT !.pc = "lock", !.ptr = a ]
<1>1. thread[v].pc = "create" /\ b \in Bases /\ requested[v] \in Bases
      /\ thread[v].ids = << <<requested[v], v>> >> /\ requested' = requested
  BY CurrentId DEF GetOrCreateServerProgressData, At, TypeInv, ThreadInv
<1>2. PICK a \in Addresses :
        /\ thread' = [ thread EXCEPT ![v].pc = "lock", ![v].ptr = a ]
        /\ \/ UNCHANGED << packetsVersions, heap >>
           \/ /\ heap' = [ heap EXCEPT ![a] = NewPacket(b) ]
              /\ packetsVersions' = [ packetsVersions EXCEPT ![b] = a ]
  <2> HIDE DEF b
  <2>1. packetsVersions[b] # Null => packetsVersions[b] \in Addresses
    BY <1>1 DEF TypeInv, TypeOK
  <2> QED
    BY <2>1 DEF GetOrCreateServerProgressData, b
<1>3. r(a) \in ThreadData /\ r(a).pc = "lock" /\ r(a).ids = thread[v].ids /\ r(a).ptr = a
  BY ZenonT(30), ThreadSets, Typed DEF TypeInv, ThreadData, Steps
<1>4. thread' = [ thread EXCEPT ![v] = r(a) ]
  BY <1>2, ThreadSets, Typed DEF TypeInv
<1> HIDE DEF r, b
<1>5. ThreadInv' /\ thread' \in [Threads -> ThreadData]
  BY <1>1, <1>3, <1>4, ThreadSets, OneThread DEF StorerSteps
<1>6. thread'[Manager] = thread[Manager]
  BY <1>4, ThreadSets, Typed DEF TypeInv
<1>7. /\ heap' \in [Addresses -> PacketData \union {Freed}]
      /\ \A c \in Addresses :
           \/ heap'[c].index = Len(heap'[c].packet_versions)
           \/ At(Manager, "free")' /\ thread'[Manager].ptr = c
  <2>1. CASE heap' = heap
    BY <2>1, <1>6 DEF TypeInv, TypeOK, At
  <2>2. CASE heap' = [ heap EXCEPT ![a] = NewPacket(b) ]
    <3>1. /\ NewPacket(b) \in PacketData
          /\ NewPacket(b).index = Len(NewPacket(b).packet_versions)
      BY <1>1, InitialData DEF NewPacket
    <3> QED
      BY <2>2, <3>1, <1>6, OneAddress
  <2> QED
    BY <1>2, <2>1, <2>2
<1>8. packetsVersions' \in [Bases -> Addresses \union {Null}]
  BY <1>2 DEF TypeInv, TypeOK
<1> QED
  BY <1>5, <1>7, <1>8 DEF TypeInv, TypeOK, ThreadData, GetOrCreateServerProgressData

\* A packet with a version more.
LEMMA WithVersionType ==
  ASSUME NEW p \in PacketData, NEW id \in PacketIds, NEW index \in Nat
  PROVE  /\ WithVersion(p, id, index) \in PacketData
         /\ WithVersion(p, id, index).index = index
         /\ Len(WithVersion(p, id, index).packet_versions) = Len(p.packet_versions) + 1
         /\ Elements(WithVersion(p, id, index).packet_versions)
              = Elements(p.packet_versions) \union {id}
         /\ WithVersion(p, id, index).base = p.base
         /\ WithVersion(p, id, index).lock = {}
<1> DEFINE q == Append(p.packet_versions, id)
<1>1. p.packet_versions \in Seq(PacketIds) /\ p.base \in Bases
  BY DEF PacketData
<1>2. q \in Seq(PacketIds) /\ Len(q) = Len(p.packet_versions) + 1
  BY <1>1, AppendProperties
<1>3. Elements(q) = Elements(p.packet_versions) \union {id}
  BY <1>1, AppendElements
<1>4. WithVersion(p, id, index) =
        [ base |-> p.base, packet_versions |-> q, index |-> index, lock |-> {} ]
  BY DEF WithVersion
<1> HIDE DEF q
<1> QED
  BY <1>1, <1>2, <1>3, <1>4 DEF PacketData

LEMMA TypeAddPacketVersion ==
  ASSUME TypeInv, NEW v \in Storers, AddPacketVersion(v)
  PROVE  TypeInv'
<1> DEFINE a == thread[v].ptr
           p == WithVersion(heap[a], Current(v), heap[a].index + 1)
<1>1. /\ thread[v].pc = "work" /\ a \in Addresses /\ requested[v] \in Bases
      /\ Current(v) \in PacketIds /\ requested' = requested
  BY CurrentId, ThreadSets DEF AddPacketVersion, At, TypeInv, ThreadInv
<1>2. Answering(v) \in ThreadData /\ Answering(v).pc = "answer"
  BY AnsweringType, ThreadSets
<1>3. thread' = [ thread EXCEPT ![v] = Answering(v) ]
  BY DEF AddPacketVersion
<1>4. heap' = heap \/ (heap[a] # Freed /\ heap' = [ heap EXCEPT ![a] = p ])
  BY DEF AddPacketVersion, Pointee
<1>5. heap[a] # Freed => /\ p \in PacketData
                         /\ p.index = heap[a].index + 1
                         /\ Len(p.packet_versions) = Len(heap[a].packet_versions) + 1
  <2>1. heap[a] # Freed => heap[a] \in PacketData
    BY <1>1, Typed DEF TypeInv
  <2>2. heap[a] # Freed => heap[a].index + 1 \in Nat
    BY <2>1 DEF PacketData
  <2> HIDE DEF a
  <2> QED
    BY <1>1, <2>1, <2>2, WithVersionType
<1> HIDE DEF p
<1>6. ThreadInv' /\ thread' \in [Threads -> ThreadData]
  BY <1>1, <1>2, <1>3, ThreadSets, OneThread DEF StorerSteps
<1>7. thread'[Manager] = thread[Manager]
  BY <1>3, ThreadSets, Typed DEF TypeInv
<1>8. /\ heap' \in [Addresses -> PacketData \union {Freed}]
      /\ \A c \in Addresses :
           \/ heap'[c].index = Len(heap'[c].packet_versions)
           \/ At(Manager, "free")' /\ thread'[Manager].ptr = c
  <2>1. CASE heap' = heap
    BY <2>1, <1>7 DEF TypeInv, TypeOK, At
  <2>2. CASE heap[a] # Freed /\ heap' = [ heap EXCEPT ![a] = p ]
    <3>1. \/ p.index = Len(p.packet_versions)
          \/ At(Manager, "free")' /\ thread'[Manager].ptr = a
      BY <1>1, <1>5, <1>7, <2>2 DEF TypeInv, TypeOK, At
    <3> HIDE DEF a
    <3> QED
      BY <1>1, <1>5, <1>7, <2>2, <3>1, OneAddress
  <2> QED
    BY <1>4, <2>1, <2>2
<1> QED
  BY <1>6, <1>8 DEF TypeInv, TypeOK, ThreadData, AddPacketVersion

\* A step of the manager's thread that keeps the memory well typed is well typed.
LEMMA TypeManager ==
  ASSUME TypeInv, NEW r \in ThreadData, thread' = [ thread EXCEPT ![Manager] = r ],
         r.pc \in ManagerWork \union {"idle", "answer"},
         r.pc \in ManagerWork => r.ids # <<>>,
         r.pc \in {"lock", "work", "free"} => r.ptr \in Addresses,
         packetsVersions' \in [Bases -> Addresses \union {Null}],
         heap' \in [Addresses -> PacketData \union {Freed}],
         \A c \in Addresses :
           \/ heap'[c].index = Len(heap'[c].packet_versions)
           \/ At(Manager, "free")' /\ thread'[Manager].ptr = c,
         deleted' \subseteq Bases,
         UNCHANGED << requested, answered >>
  PROVE  TypeInv'
<1>1. ThreadInv' /\ thread' \in [Threads -> ThreadData]
  <2>1. \A v \in Storers : requested'[v] = requested[v]
    OBVIOUS
  <2> QED
    BY <2>1, ThreadSets, OneThread
<1> QED
  BY <1>1 DEF TypeInv, TypeOK, ThreadData

LEMMA TypeKeepsMemory ==
  ASSUME TypeInv, NEW r \in ThreadData, thread' = [ thread EXCEPT ![Manager] = r ],
         r.pc \in ManagerWork \union {"idle", "answer"},
         r.pc \in ManagerWork => r.ids # <<>>,
         r.pc \in {"lock", "work", "free"} => r.ptr \in Addresses,
         packetsVersions' \in [Bases -> Addresses \union {Null}],
         ~At(Manager, "free"),
         UNCHANGED << heap, requested, answered, deleted >>
  PROVE  TypeInv'
<1>1. /\ heap' \in [Addresses -> PacketData \union {Freed}]
      /\ \A c \in Addresses : heap'[c].index = Len(heap'[c].packet_versions)
      /\ deleted' \subseteq Bases
  BY DEF TypeInv, TypeOK
<1> QED
  BY <1>1, TypeManager

\* The manager's thread unlocks the packet it works on.
LEMMA TypeUnlocks ==
  ASSUME TypeInv, NEW r \in ThreadData, thread' = [ thread EXCEPT ![Manager] = r ],
         r.pc \in ManagerWork \union {"idle", "answer"},
         r.pc \in ManagerWork => r.ids # <<>>,
         r.pc \in {"lock", "work", "free"} => r.ptr \in Addresses,
         At(Manager, "work"), UnlockPacket(Manager),
         UNCHANGED << packetsVersions, requested, answered, deleted >>
  PROVE  TypeInv'
<1> DEFINE a == thread[Manager].ptr
           p == [ heap[a] EXCEPT !.lock = {} ]
<1>1. a \in Addresses
  BY ThreadSets DEF At, TypeInv, ThreadInv
<1>2. /\ heap' = [ heap EXCEPT ![a] = p ] /\ p \in PacketData \union {Freed}
      /\ p.index = heap[a].index /\ p.packet_versions = heap[a].packet_versions
  BY ZenonT(30), <1>1, LockData DEF UnlockPacket
<1>3. p.index = Len(p.packet_versions)
  BY <1>1, <1>2 DEF TypeInv, TypeOK, At
<1>4. ~At(Manager, "free")
  BY DEF At
<1> HIDE DEF a, p
<1>5. /\ heap' \in [Addresses -> PacketData \union {Freed}]
      /\ \A c \in Addresses :
           \/ heap'[c].index = Len(heap'[c].packet_versions)
           \/ At(Manager, "free")' /\ thread'[Manager].ptr = c
  BY <1>1, <1>2, <1>3, <1>4, OneAddress
<1>6. packetsVersions' \in [Bases -> Addresses \union {Null}] /\ deleted' \subseteq Bases
  BY DEF TypeInv, TypeOK
<1> QED
  BY <1>5, <1>6, TypeManager

LEMMA TypeToNextId ==
  ASSUME TypeInv, ToNextId, thread[Manager].pc \in ManagerWork
  PROVE  LET r == Through(Manager)
         IN /\ r \in ThreadData /\ thread' = [ thread EXCEPT ![Manager] = r ]
            /\ r.pc \in ManagerWork \union {"idle", "answer"}
            /\ r.pc \in ManagerWork => r.ids # <<>>
            /\ r.pc \notin {"lock", "work", "free"}
BY ThroughType DEF ToNextId, ManagerWork

LEMMA TypeConnectToDestMb ==
  ASSUME TypeInv, ConnectToDestMb
  PROVE  TypeInv'
<1>1. thread[Manager].pc = "connect" /\ ~At(Manager, "free")
      /\ thread[Manager] \in ThreadData /\ thread[Manager].ids # <<>>
  BY ThreadSets, Typed DEF ConnectToDestMb, At, TypeInv, ThreadInv, ManagerWork
<1>2. packetsVersions' \in [Bases -> Addresses \union {Null}]
      /\ UNCHANGED << heap, requested, answered, deleted >>
  BY DEF ConnectToDestMb, TypeInv, TypeOK
<1>3. CASE Goto(Manager, "find")
  <2> DEFINE r == [ thread[Manager] EXCEPT !.pc = "find" ]
  <2>1. r \in ThreadData /\ r.pc = "find" /\ r.ids # <<>>
    BY <1>1 DEF ThreadData, Steps
  <2>2. thread' = [ thread EXCEPT ![Manager] = r ]
    BY <1>3 DEF Goto
  <2> HIDE DEF r
  <2> QED
    BY <1>1, <1>2, <2>1, <2>2, TypeKeepsMemory DEF ManagerWork
<1>4. CASE thread' = [ thread EXCEPT ![Manager] = Answering(Manager) ]
  BY <1>1, <1>2, <1>4, ThreadSets, AnsweringType, TypeKeepsMemory DEF ManagerWork
<1> QED
  BY <1>3, <1>4 DEF ConnectToDestMb

LEMMA TypeFindPacket ==
  ASSUME TypeInv, FindPacket
  PROVE  TypeInv'
<1> DEFINE a == packetsVersions[BaseOf(Current(Manager))]
<1>1. thread[Manager].pc = "find" /\ thread[Manager].pc \in ManagerWork /\ ~At(Manager, "free")
      /\ thread[Manager] \in ThreadData /\ thread[Manager].ids # <<>>
  BY ThreadSets, Typed DEF FindPacket, At, TypeInv, ThreadInv, ManagerWork
<1>2. packetsVersions' \in [Bases -> Addresses \union {Null}]
      /\ UNCHANGED << heap, requested, answered, deleted >>
  BY DEF FindPacket, TypeInv, TypeOK
<1>3. CASE ToNextId
  BY <1>1, <1>2, <1>3, TypeToNextId, TypeKeepsMemory
<1>4. CASE /\ a # Null
           /\ thread' = [ thread EXCEPT ![Manager].pc = "lock", ![Manager].ptr = a ]
  <2> DEFINE r == [ thread[Manager] EXCEPT !.pc = "lock", !.ptr = a ]
  <2>1. a \in Addresses
    BY <1>1, <1>4, CurrentId DEF TypeInv, TypeOK
  <2>2. r \in ThreadData /\ r.pc = "lock" /\ r.ids # <<>> /\ r.ptr = a
    BY <1>1, <2>1 DEF ThreadData, Steps
  <2>3. thread' = [ thread EXCEPT ![Manager] = r ]
    BY <1>4, ThreadSets, Typed DEF TypeInv
  <2> HIDE DEF r, a
  <2> QED
    BY <1>1, <1>2, <2>1, <2>2, <2>3, TypeKeepsMemory DEF ManagerWork
<1> QED
  BY <1>3, <1>4 DEF FindPacket

LEMMA TypeSendMsgToDstMb ==
  ASSUME TypeInv, SendMsgToDstMb
  PROVE  TypeInv'
<1>1. thread[Manager].pc \in ManagerWork /\ ~At(Manager, "free") /\ ToNextId
  BY DEF SendMsgToDstMb, At, ManagerWork
<1>2. packetsVersions' \in [Bases -> Addresses \union {Null}]
      /\ UNCHANGED << heap, requested, answered, deleted >>
  BY DEF SendMsgToDstMb, TypeInv, TypeOK
<1> QED
  BY <1>1, <1>2, TypeToNextId, TypeKeepsMemory

\* What is replayed are versions of the packet.
LEMMA FirstSortedType ==
  ASSUME NEW p \in PacketData \union {Freed}, NEW k
  PROVE  FirstSorted(p.packet_versions, k) \subseteq PacketIds
<1>1. p.packet_versions \in Seq(PacketIds)
  BY InitialData, EmptySeq DEF PacketData
<1>2. Elements(p.packet_versions) \subseteq PacketIds
  BY <1>1, LenProperties DEF Elements
<1> QED
  BY <1>2 DEF FirstSorted

LEMMA TypeCopyPacket ==
  ASSUME TypeInv, CopyPacket
  PROVE  TypeInv'
<1> DEFINE p == Pointee(Manager)
           packet == FirstSorted(p.packet_versions,
                                 Smaller(VersionOf(Current(Manager)), p.index))
           r == [ thread[Manager] EXCEPT !.pc = "send", !.packet = packet, !.ptr = Null ]
<1>1. thread[Manager].pc = "work" /\ thread[Manager].pc \in ManagerWork
      /\ thread[Manager] \in ThreadData /\ thread[Manager].ids # <<>>
      /\ thread[Manager].ptr \in Addresses
  BY ThreadSets, Typed DEF CopyPacket, At, TypeInv, ThreadInv, ManagerWork
<1>2. At(Manager, "work") /\ UnlockPacket(Manager)
      /\ UNCHANGED << packetsVersions, requested, answered, deleted >>
  BY DEF CopyPacket
<1>3. CASE ToNextId
  BY <1>1, <1>2, <1>3, TypeToNextId, TypeUnlocks
<1>4. CASE thread' = [ thread EXCEPT ![Manager].pc = "send", ![Manager].packet = packet,
                                     ![Manager].ptr = Null ]
  <2>1. packet \subseteq PacketIds
    BY <1>1, Typed, FirstSortedType DEF Pointee, TypeInv
  <2> HIDE DEF packet
  <2>2. r \in ThreadData /\ r.pc = "send" /\ r.ids # <<>>
    BY <1>1, <2>1 DEF ThreadData, Steps
  <2>3. thread' = [ thread EXCEPT ![Manager] = r ]
    BY <1>4, ThreadSets, Typed DEF TypeInv
  <2> HIDE DEF r
  <2> QED
    BY <1>1, <1>2, <2>2, <2>3, TypeUnlocks DEF ManagerWork
<1> QED
  BY <1>3, <1>4 DEF CopyPacket

LEMMA TypeRefusePartial ==
  ASSUME TypeInv, RefusePartial
  PROVE  TypeInv'
<1>1. thread[Manager].pc \in ManagerWork /\ At(Manager, "work") /\ ToNextId
      /\ UnlockPacket(Manager)
      /\ UNCHANGED << packetsVersions, requested, answered, deleted >>
  BY DEF RefusePartial, At, ManagerWork
<1> QED
  BY <1>1, TypeToNextId, TypeUnlocks

LEMMA TypeFreeVersions ==
  ASSUME TypeInv, FreeVersions
  PROVE  TypeInv'
<1> DEFINE a == thread[Manager].ptr
           p == [ base |-> heap[a].base, packet_versions |-> <<>>, index |-> heap[a].index,
                  lock |-> {} ]
           r == [ thread[Manager] EXCEPT !.pc = "free" ]
<1>1. thread[Manager].pc = "work" /\ thread[Manager].pc \in ManagerWork
      /\ thread[Manager] \in ThreadData /\ thread[Manager].ids # <<>> /\ a \in Addresses
  BY ThreadSets, Typed DEF FreeVersions, At, TypeInv, ThreadInv, ManagerWork
<1>2. heap' = [ heap EXCEPT ![a] = p ]
  BY DEF FreeVersions
<1>3. p \in PacketData \union {Freed}
  <2>1. CASE heap[a] \in PacketData
    <3>1. <<>> \in Seq(PacketIds)
      BY EmptySeq
    <3> QED
      BY <2>1, <3>1 DEF PacketData
  <2>2. CASE heap[a] = Freed
    BY <2>2, InitialData DEF Freed, NewPacket
  <2> QED
    BY <1>1, <2>1, <2>2, Typed DEF TypeInv
<1>4. r \in ThreadData /\ r.pc = "free" /\ r.ids # <<>> /\ r.ptr = a
  BY <1>1 DEF ThreadData, Steps
<1>5. thread' = [ thread EXCEPT ![Manager] = r ]
  BY DEF FreeVersions, Goto
<1>6. packetsVersions' \in [Bases -> Addresses \union {Null}] /\ deleted' \subseteq Bases
      /\ UNCHANGED << requested, answered >>
  BY <1>1, CurrentId DEF FreeVersions, TypeInv, TypeOK
<1> HIDE DEF p, r
<1>7. At(Manager, "free")' /\ thread'[Manager].ptr = a
  BY <1>4, <1>5, ThreadSets, Typed DEF At, TypeInv
<1>8. ~At(Manager, "free")
  BY <1>1 DEF At
<1> HIDE DEF a
<1>9. /\ heap' \in [Addresses -> PacketData \union {Freed}]
      /\ \A c \in Addresses :
           \/ heap'[c].index = Len(heap'[c].packet_versions)
           \/ At(Manager, "free")' /\ thread'[Manager].ptr = c
  BY <1>1, <1>2, <1>3, <1>7, <1>8, OneAddress
<1> QED
  BY <1>1, <1>4, <1>5, <1>6, <1>9, TypeManager DEF ManagerWork

LEMMA TypeFreePacket ==
  ASSUME TypeInv, FreePacket
  PROVE  TypeInv'
<1> DEFINE a == thread[Manager].ptr
           r == [ thread[Manager] EXCEPT !.pc = "erase" ]
<1>1. thread[Manager].pc = "free"
      /\ thread[Manager] \in ThreadData /\ thread[Manager].ids # <<>> /\ a \in Addresses
  BY ThreadSets, Typed DEF FreePacket, At, TypeInv, ThreadInv, ManagerWork
<1>2. heap' = [ heap EXCEPT ![a] = Freed ]
  BY DEF FreePacket
<1>3. r \in ThreadData /\ r.pc = "erase" /\ r.ids # <<>>
  BY <1>1 DEF ThreadData, Steps
<1>4. thread' = [ thread EXCEPT ![Manager] = r ]
  BY DEF FreePacket, Goto
<1>5. packetsVersions' \in [Bases -> Addresses \union {Null}] /\ deleted' \subseteq Bases
      /\ UNCHANGED << requested, answered >>
  BY DEF FreePacket, TypeInv, TypeOK
<1> HIDE DEF a, r
<1>6. /\ heap' \in [Addresses -> PacketData \union {Freed}]
      /\ \A c \in Addresses :
           \/ heap'[c].index = Len(heap'[c].packet_versions)
           \/ At(Manager, "free")' /\ thread'[Manager].ptr = c
  BY <1>1, <1>2, InitialData, OneAddress DEF a
<1> QED
  BY <1>3, <1>4, <1>5, <1>6, TypeManager DEF ManagerWork

LEMMA TypeErasePacket ==
  ASSUME TypeInv, ErasePacket
  PROVE  TypeInv'
<1>1. thread[Manager].pc \in ManagerWork /\ ~At(Manager, "free") /\ ToNextId
      /\ UNCHANGED << heap, requested, answered, deleted >>
  BY DEF ErasePacket, At, ManagerWork
<1>2. packetsVersions' \in [Bases -> Addresses \union {Null}]
  BY <1>1, CurrentId DEF ErasePacket, TypeInv, TypeOK
<1> QED
  BY <1>1, <1>2, TypeToNextId, TypeKeepsMemory

LEMMA TypeNext == TypeInv /\ [Next]_vars => TypeInv'
<1> SUFFICES ASSUME TypeInv, [Next]_vars PROVE TypeInv'
  OBVIOUS
<1>1. ASSUME NEW v \in Storers, StoreStep(v) PROVE TypeInv'
  BY <1>1, TypeReceiveStore, TypeGetOrCreate, TypeAddPacketVersion DEF StoreStep
<1>2. ASSUME ManagerStep PROVE TypeInv'
  BY <1>2, TypeReceiveFromManager, TypeConnectToDestMb, TypeFindPacket, TypeCopyPacket,
     TypeSendMsgToDstMb, TypeRefusePartial, TypeFreeVersions, TypeFreePacket, TypeErasePacket
  DEF ManagerStep, ReplayStep, DeleteStep
<1>3. ASSUME NEW t \in Threads, LockPacket(t) \/ SendAnswer(t) PROVE TypeInv'
  BY <1>3, TypeLockPacket, TypeSendAnswer
<1>4. CASE UNCHANGED vars
  BY <1>4 DEF vars, TypeInv, TypeOK, ThreadInv, At
<1> QED
  BY <1>1, <1>2, <1>3, <1>4 DEF Next

LEMMA AlwaysTyped == Spec => []TypeInv
BY TypeInit, TypeNext, PTL DEF Spec

\* The memory, the map and the threads' records keep their types, and the index of
\* a packet counts its versions, whatever the clients send.
THEOREM PacketLoggerTypeCorrect == Spec => []TypeOK
BY AlwaysTyped, PTL DEF TypeInv

-----------------------------------------------------------------------------
(* The spin locks. LocksReleased is inductive once the types are known.      *)

\* A step of a thread leaves the records of the others alone.
OnlyThread(t) == \A u \in Threads : u # t => thread'[u] = thread[u]

LEMMA StoreStepIsOneThreads ==
  ASSUME TypeInv, NEW v \in Storers, StoreStep(v)
  PROVE  OnlyThread(v)
BY ThreadSets, Typed
DEF TypeInv, OnlyThread, StoreStep, ReceiveStore, GetOrCreateServerProgressData,
    AddPacketVersion

LEMMA ManagerStepIsOneThreads ==
  ASSUME TypeInv, ManagerStep
  PROVE  OnlyThread(Manager)
<1>1. thread \in [Threads -> ThreadData]
  BY Typed DEF TypeInv
<1>2. ASSUME ToNextId PROVE OnlyThread(Manager)
  BY <1>1, <1>2 DEF ToNextId, OnlyThread
<1>3. ASSUME NEW step, Goto(Manager, step) PROVE OnlyThread(Manager)
  BY <1>1, <1>3 DEF Goto, OnlyThread
<1>4. ASSUME ReceiveFromManager PROVE OnlyThread(Manager)
  BY <1>1, <1>4 DEF ReceiveFromManager, OnlyThread
<1>5. ASSUME ConnectToDestMb PROVE OnlyThread(Manager)
  BY <1>1, <1>3, <1>5 DEF ConnectToDestMb, OnlyThread
<1>6. ASSUME FindPacket PROVE OnlyThread(Manager)
  BY <1>1, <1>2, <1>6 DEF FindPacket, OnlyThread
<1>7. ASSUME CopyPacket PROVE OnlyThread(Manager)
  BY <1>1, <1>2, <1>7 DEF CopyPacket, OnlyThread
<1> QED
  BY <1>2, <1>3, <1>4, <1>5, <1>6, <1>7
  DEF ManagerStep, ReplayStep, DeleteStep, SendMsgToDstMb, RefusePartial, FreeVersions,
      FreePacket, ErasePacket

LEMMA ThreadStepIsOneThreads ==
  ASSUME TypeInv, NEW t \in Threads, LockPacket(t) \/ SendAnswer(t)
  PROVE  OnlyThread(t)
BY Typed DEF TypeInv, OnlyThread, LockPacket, SendAnswer, Goto

\* A step of one thread that locks nothing, and unlocks what it worked on, if it
\* worked on anything.
LEMMA KeepsLocksReleased ==
  ASSUME LocksReleased, NEW t \in Threads, OnlyThread(t),
         \A a \in Addresses : heap'[a].lock \subseteq heap[a].lock,
         At(t, "work") => heap'[thread[t].ptr].lock = {}
  PROVE  LocksReleased'
<1> SUFFICES ASSUME NEW a \in Addresses, NEW u \in Threads, u \in heap'[a].lock
             PROVE  thread'[u].pc = "work" /\ thread'[u].ptr = a
  BY DEF LocksReleased, At
<1>1. thread[u].pc = "work" /\ thread[u].ptr = a
  BY DEF LocksReleased, At
<1>2. u # t
  BY <1>1 DEF At
<1> QED
  BY <1>1, <1>2 DEF OnlyThread

\* Such a step where the memory at one address is written.
LEMMA UnlocksOne ==
  ASSUME TypeInv, LocksReleased, NEW t \in Threads, OnlyThread(t),
         NEW a \in Addresses, NEW p, heap' = [ heap EXCEPT ![a] = p ], p.lock = {},
         At(t, "work") => thread[t].ptr = a
  PROVE  LocksReleased'
<1>1. heap'[a] = p /\ \A c \in Addresses : c # a => heap'[c] = heap[c]
  BY DEF TypeInv, TypeOK
<1> QED
  BY <1>1, KeepsLocksReleased

LEMMA LocksStoreStep ==
  ASSUME TypeInv, LocksReleased, NEW v \in Storers, StoreStep(v)
  PROVE  LocksReleased'
<1>1. OnlyThread(v) /\ v \in Threads
  BY ThreadSets, StoreStepIsOneThreads
<1>2. CASE ReceiveStore(v)
  BY <1>1, <1>2, KeepsLocksReleased DEF ReceiveStore, At
<1>3. CASE GetOrCreateServerProgressData(v)
  <2>1. ~At(v, "work")
    BY <1>3 DEF GetOrCreateServerProgressData, At
  <2>2. CASE heap' = heap
    BY <1>1, <2>1, <2>2, KeepsLocksReleased
  <2>3. CASE \E a \in Addresses : heap' = [ heap EXCEPT ![a] = NewPacket(BaseOf(Current(v))) ]
    <3> DEFINE p == NewPacket(BaseOf(Current(v)))
    <3>1. PICK a \in Addresses : heap' = [ heap EXCEPT ![a] = p ]
      BY <2>3
    <3>2. p.lock = {}
      BY DEF NewPacket
    <3> HIDE DEF p
    <3> QED
      BY <1>1, <2>1, <3>1, <3>2, UnlocksOne
  <2>4. \/ heap' = heap
        \/ \E a \in Addresses : heap' = [ heap EXCEPT ![a] = NewPacket(BaseOf(Current(v))) ]
    BY <1>3, Zenon DEF GetOrCreateServerProgressData
  <2> QED
    BY <2>2, <2>3, <2>4
<1>4. CASE AddPacketVersion(v)
  <2> DEFINE a == thread[v].ptr
             p == WithVersion(heap[a], Current(v), heap[a].index + 1)
  <2>1. At(v, "work") /\ a \in Addresses
    BY <1>1, <1>4 DEF AddPacketVersion, At, TypeInv, ThreadInv
  <2>2. CASE heap[a] = Freed /\ heap' = heap
    BY <1>1, <2>1, <2>2, InitialData, KeepsLocksReleased
  <2>3. CASE heap' = [ heap EXCEPT ![a] = p ]
    <3>1. p.lock = {}
      BY DEF WithVersion
    <3> HIDE DEF p
    <3> QED
      BY <1>1, <2>1, <2>3, <3>1, UnlocksOne
  <2> QED
    BY <1>4, <2>2, <2>3 DEF AddPacketVersion, Pointee
<1> QED
  BY <1>2, <1>3, <1>4 DEF StoreStep

LEMMA LocksManagerStep ==
  ASSUME TypeInv, LocksReleased, ManagerStep
  PROVE  LocksReleased'
<1> DEFINE a == thread[Manager].ptr
<1>1. OnlyThread(Manager) /\ Manager \in Threads
  BY ThreadSets, ManagerStepIsOneThreads
<1>2. ASSUME heap' = heap, ~At(Manager, "work")
      PROVE  LocksReleased'
  BY <1>1, <1>2, KeepsLocksReleased
<1>3. thread[Manager].pc \in {"work", "free"} => a \in Addresses
  BY <1>1 DEF TypeInv, ThreadInv
<1>4. ASSUME At(Manager, "work"), UnlockPacket(Manager)
      PROVE  LocksReleased'
  <2> DEFINE p == [ heap[a] EXCEPT !.lock = {} ]
  <2>1. heap' = [ heap EXCEPT ![a] = p ] /\ p.lock = {}
    BY <1>3, <1>4, LockData DEF UnlockPacket, At
  <2> HIDE DEF p
  <2> QED
    BY <1>1, <1>3, <1>4, <2>1, UnlocksOne DEF At
<1>5. ASSUME FreeVersions PROVE LocksReleased'
  <2> DEFINE p == [ base |-> heap[a].base, packet_versions |-> <<>>,
                    index |-> heap[a].index, lock |-> {} ]
  <2>1. heap' = [ heap EXCEPT ![a] = p ] /\ p.lock = {} /\ At(Manager, "work")
    BY <1>5 DEF FreeVersions
  <2> HIDE DEF p
  <2> QED
    BY <1>1, <1>3, <2>1, UnlocksOne DEF At
<1>6. ASSUME FreePacket PROVE LocksReleased'
  <2>1. heap' = [ heap EXCEPT ![a] = Freed ] /\ At(Manager, "free")
    BY <1>6 DEF FreePacket
  <2> QED
    BY <1>1, <1>3, <2>1, InitialData, UnlocksOne DEF At
<1> QED
  BY <1>2, <1>4, <1>5, <1>6
  DEF ManagerStep, ReplayStep, DeleteStep, ReceiveFromManager, FindPacket, ConnectToDestMb,
      CopyPacket, SendMsgToDstMb, RefusePartial, ErasePacket, At

LEMMA LocksThreadStep ==
  ASSUME TypeInv, LocksReleased, NEW t \in Threads, LockPacket(t) \/ SendAnswer(t)
  PROVE  LocksReleased'
<1>1. OnlyThread(t)
  BY ThreadStepIsOneThreads
<1>2. CASE heap' = heap /\ ~At(t, "work")
  BY <1>1, <1>2, KeepsLocksReleased
<1>3. CASE LockPacket(t) /\ heap' = [ heap EXCEPT ![thread[t].ptr].lock = {t} ]
  <2> DEFINE a == thread[t].ptr
  <2>1. a \in Addresses /\ ~At(t, "work")
    BY <1>3 DEF LockPacket, At, TypeInv, ThreadInv
  <2>2. heap'[a].lock = {t} /\ \A c \in Addresses : c # a => heap'[c] = heap[c]
    <3> DEFINE p == [ heap[a] EXCEPT !.lock = {t} ]
    <3>1. heap' = [ heap EXCEPT ![a] = p ]
      BY <1>3
    <3>2. p.lock = {t} \/ heap[a] = Freed
      BY <2>1, LockData
    <3> QED
      BY <1>3, <2>1, <3>1, <3>2 DEF TypeInv, TypeOK, LockPacket, Pointee
  <2>3. thread'[t].pc = "work" /\ thread'[t].ptr = a
    BY <1>3, Typed DEF LockPacket, Goto, TypeInv, ThreadData
  <2> QED
    BY <1>1, <2>1, <2>2, <2>3 DEF LocksReleased, OnlyThread, At
<1> QED
  BY <1>2, <1>3 DEF LockPacket, SendAnswer, At

\* A server thread holds at most the lock of the packet it works on, and none while
\* it sends to a slave that may not read or waits for a request.
THEOREM PacketLocksReleased == Spec => []LocksReleased
<1>1. Init => LocksReleased
  BY InitialData DEF Init, LocksReleased
<1>2. TypeInv /\ LocksReleased /\ [Next]_vars => LocksReleased'
  <2>1. ASSUME TypeInv, LocksReleased, UNCHANGED vars PROVE LocksReleased'
    BY <2>1 DEF vars, LocksReleased, At
  <2> QED
    BY <2>1, LocksStoreStep, LocksManagerStep, LocksThreadStep DEF Next
<1> QED
  BY <1>1, <1>2, AlwaysTyped, PTL DEF Spec

-----------------------------------------------------------------------------
(* The memory, when the manager waits for the stores before it names an id.  *)

\* The entry of b in the map is about to be erased; the packet of b to be freed.
Stale(b) == At(Manager, "erase") /\ BaseOf(Current(Manager)) = b
Going(b) == At(Manager, "free") /\ BaseOf(Current(Manager)) = b

\* Every version of b was stored, and no client waits for the answer.
Complete(b) == \A v \in Storers : <<b, v>> \in answered

\* A client goes on to the next packet once it has its answer.
AnsweredBefore ==
  \A v \in Storers, b \in Bases :
    <<b, v>> \in answered =>
      /\ b <= requested[v]
      /\ thread[v].pc # "idle" => b # requested[v]

\* An address in the map holds the packet it is in the map for, until it is freed.
MapHolds ==
  \A b \in Bases :
    packetsVersions[b] # Null => heap[packetsVersions[b]].base = b \/ Stale(b)

\* What was deleted was complete, and is gone once it is freed.
DeletedGone ==
  \A b \in deleted :
    /\ Complete(b)
    /\ \A a \in Addresses : heap[a].base = b => Going(b)

\* What the manager deletes was stored up to the version after the one it names.
ManagerWaited ==
  /\ Doing(Manager, "delete") =>
       \A id \in Elements(thread[Manager].ids) : StoredUpTo(BaseOf(id), VersionOf(id) + 1)
  /\ thread[Manager].pc \in {"free", "erase"} => BaseOf(Current(Manager)) \in deleted

\* What a client is about to be told is stored.
AboutToAnswer ==
  \A v \in Storers : At(v, "answer") => <<requested[v], v>> \in VersionsIn(requested[v])

MemoryInv ==
  /\ NoUseOfFreed
  /\ NoLeak
  /\ AnsweredStays
  /\ AnsweredBefore
  /\ MapHolds
  /\ DeletedGone
  /\ ManagerWaited
  /\ AboutToAnswer

\* Memory is free where it holds no base.
LEMMA LiveBase ==
  ASSUME NEW p \in PacketData \union {Freed}
  PROVE  (p # Freed <=> p.base # 0) /\ p.base \in Bases \union {0}
<1>1. CASE p \in PacketData
  <2>1. p.base \in Bases /\ p # Freed
    BY <1>1, InitialData DEF PacketData
  <2> QED
    BY <2>1 DEF Bases
<1>2. CASE p = Freed
  BY <1>2, InitialData
<1> QED
  BY <1>1, <1>2

\* Where a thread uses a pointer, the base it works on is at the address.
UsesItsBase ==
  \A t \in Threads :
    thread[t].pc \in {"lock", "work", "free"} =>
      thread[t].ptr \in Addresses /\ Pointee(t).base = BaseOf(Current(t))

LEMMA UsesCurrentBase == TypeInv => (NoUseOfFreed <=> UsesItsBase)
<1> SUFFICES ASSUME TypeInv, NEW t \in Threads, thread[t].pc \in {"lock", "work", "free"}
             PROVE  /\ thread[t].ptr \in Addresses
                    /\ (Pointee(t) # Freed /\ Pointee(t).base = BaseOf(Current(t)))
                         <=> (Pointee(t).base = BaseOf(Current(t)))
  BY DEF NoUseOfFreed, UsesItsBase
<1>1. thread[t].ptr \in Addresses /\ Pointee(t) \in PacketData \union {Freed}
  BY Typed DEF TypeInv, ThreadInv, Pointee
<1>2. BaseOf(Current(t)) \in Bases
  BY ThreadSets, CurrentId DEF TypeInv, ThreadInv, StorerSteps, ManagerWork
<1> QED
  BY <1>1, <1>2, LiveBase DEF Bases

\* What a step leaves where it is: the map, and the packets but for their locks.
SameContents ==
  /\ UNCHANGED packetsVersions
  /\ \A a \in Addresses : /\ heap'[a].base = heap[a].base
                          /\ heap'[a].packet_versions = heap[a].packet_versions

LEMMA KeepsContents ==
  ASSUME TypeInv, TypeInv', SameContents
  PROVE  /\ \A b \in Bases : VersionsIn(b)' = VersionsIn(b)
         /\ NoLeak => NoLeak'
<1>1. \A b \in Bases : packetsVersions[b] \in Addresses \union {Null}
  BY DEF TypeInv, TypeOK
<1>2. \A b \in Bases : VersionsIn(b)' = VersionsIn(b)
  BY <1>1 DEF VersionsIn, SameContents
<1>3. \A a \in Addresses : heap'[a] # Freed => heap[a] # Freed
  BY LiveBase DEF SameContents, TypeInv, TypeOK
<1> QED
  BY <1>2, <1>3 DEF NoLeak, SameContents

LEMMA UsesItsBaseNext == TypeInv' /\ UsesItsBase' => NoUseOfFreed'
BY UsesCurrentBase, PTL

\* The manager's thread moves on, and touches no packet.
LEMMA QuietManager ==
  ASSUME TypeInv, TypeInv', MemoryInv, OnlyThread(Manager), SameContents,
         UNCHANGED << answered, deleted, requested >>,
         thread[Manager].pc \notin {"free", "erase"},
         thread'[Manager].pc \notin {"free", "erase"},
         thread'[Manager].op = "delete" =>
           \A id \in Elements(thread'[Manager].ids) :
             StoredUpTo(BaseOf(id), VersionOf(id) + 1),
         thread'[Manager].pc \in {"lock", "work"} =>
           heap[thread'[Manager].ptr].base = BaseOf(Current(Manager)')
  PROVE  MemoryInv'
<1>1. \A v \in Storers : thread'[v] = thread[v] /\ v \in Threads
  BY ThreadSets DEF OnlyThread
<1>2. \A b \in Bases : ~Stale(b) /\ ~Stale(b)' /\ ~Going(b) /\ ~Going(b)'
  BY DEF Stale, Going, At
<1>3. NoUseOfFreed'
  <2>1. UsesItsBase
    BY UsesCurrentBase DEF MemoryInv
  <2>2. ASSUME NEW t \in Threads, thread'[t].pc \in {"lock", "work", "free"}
        PROVE  thread'[t].ptr \in Addresses /\ Pointee(t)'.base = BaseOf(Current(t)')
    <3>1. thread'[t].ptr \in Addresses
      BY <2>2 DEF TypeInv, ThreadInv
    <3>2. CASE t = Manager
      BY <2>2, <3>1, <3>2 DEF Pointee, SameContents
    <3>3. CASE t # Manager
      <4>1. thread'[t] = thread[t]
        BY <3>3 DEF OnlyThread
      <4> QED
        BY <2>1, <2>2, <3>1, <4>1 DEF UsesItsBase, Pointee, SameContents, Current
    <3> QED
      BY <3>1, <3>2, <3>3
  <2>3. UsesItsBase'
    BY <2>2 DEF UsesItsBase, BaseOf
  <2> QED
    BY <2>3, UsesItsBaseNext
<1>4. /\ NoLeak'
      /\ \A b \in Bases : VersionsIn(b)' = VersionsIn(b)
  BY KeepsContents DEF MemoryInv
<1>5. AnsweredStays'
  BY <1>4 DEF MemoryInv, AnsweredStays, TypeInv, TypeOK, PacketIds, BaseOf
<1>6. AnsweredBefore'
  BY <1>1 DEF MemoryInv, AnsweredBefore
<1>7. MapHolds'
  <2>1. \A b \in Bases : packetsVersions[b] \in Addresses \union {Null}
    BY DEF TypeInv, TypeOK
  <2> QED
    BY <1>2, <2>1 DEF MemoryInv, MapHolds, SameContents
<1>8. DeletedGone'
  BY SMTT(30), <1>2 DEF MemoryInv, DeletedGone, SameContents, Complete, TypeInv, TypeOK
<1>9. ManagerWaited'
  BY DEF ManagerWaited, Doing, StoredUpTo
<1>10. AboutToAnswer'
  BY <1>1, <1>4 DEF MemoryInv, AboutToAnswer, At, TypeInv, ThreadInv
<1> QED
  BY <1>3, <1>4, <1>5, <1>6, <1>7, <1>8, <1>9, <1>10 DEF MemoryInv

\* Locking and unlocking a packet leave its contents alone.
LEMMA UnlockKeepsContents ==
  ASSUME TypeInv, NEW t \in Threads, thread[t].ptr \in Addresses, UnlockPacket(t),
         UNCHANGED packetsVersions
  PROVE  SameContents
<1> DEFINE a == thread[t].ptr
           p == [ heap[a] EXCEPT !.lock = {} ]
<1>1. heap' = [ heap EXCEPT ![a] = p ] /\ p.base = heap[a].base
      /\ p.packet_versions = heap[a].packet_versions
  BY LockData DEF UnlockPacket
<1> HIDE DEF p
<1> QED
  BY <1>1 DEF SameContents, TypeInv, TypeOK

LEMMA LockStepKeepsContents ==
  ASSUME TypeInv, NEW t \in Threads, LockPacket(t)
  PROVE  SameContents
<1> DEFINE a == thread[t].ptr
           p == [ heap[a] EXCEPT !.lock = {t} ]
<1>1. a \in Addresses /\ UNCHANGED packetsVersions
  BY DEF LockPacket, At, TypeInv, ThreadInv
<1>2. CASE heap' = heap
  BY <1>1, <1>2 DEF SameContents
<1>3. CASE heap[a] # Freed /\ heap' = [ heap EXCEPT ![a].lock = {t} ]
  <2>1. heap' = [ heap EXCEPT ![a] = p ] /\ p.base = heap[a].base
        /\ p.packet_versions = heap[a].packet_versions
    BY <1>1, <1>3, LockData
  <2> HIDE DEF p
  <2> QED
    BY <1>1, <2>1 DEF SameContents, TypeInv, TypeOK
<1> QED
  BY <1>2, <1>3 DEF LockPacket, Pointee

LEMMA MemoryToNextId ==
  ASSUME TypeInv, TypeInv', MemoryInv, ToNextId, SameContents,
         UNCHANGED << answered, deleted, requested >>,
         thread[Manager].pc \in {"find", "work", "send"}
  PROVE  MemoryInv'
<1>1. thread[Manager].pc \in ManagerWork
  BY DEF ManagerWork
<1>2. OnlyThread(Manager) /\ thread'[Manager] = Through(Manager)
  BY ThreadSets, Typed DEF ToNextId, OnlyThread, TypeInv
<1>3. thread'[Manager].op = "delete" =>
        \A id \in Elements(thread'[Manager].ids) : StoredUpTo(BaseOf(id), VersionOf(id) + 1)
  BY <1>1, <1>2, ThroughType, CurrentId DEF MemoryInv, ManagerWaited, Doing
<1> QED
  BY <1>1, <1>2, <1>3, ThroughType, QuietManager

LEMMA MemoryReceiveFromManager ==
  ASSUME ManagerWaits, TypeInv, TypeInv', MemoryInv, ReceiveFromManager
  PROVE  MemoryInv'
<1>1. PICK r \in Requests[Manager] :
        /\ \A id \in Elements(r.ids) : MayName(r.op, id)
        /\ thread' = [ thread EXCEPT ![Manager] =
                         [ IdleThread EXCEPT !.pc = FirstStep(r.op), !.op = r.op, !.ids = r.ids ] ]
  BY DEF ReceiveFromManager
<1> DEFINE s == [ IdleThread EXCEPT !.pc = FirstStep(r.op), !.op = r.op, !.ids = r.ids ]
<1>2. s.pc \in {"connect", "find"} /\ s.op = r.op /\ s.ids = r.ids
  BY DEF IdleThread, FirstStep
<1> HIDE DEF s
<1>3. thread'[Manager] = s /\ OnlyThread(Manager)
  BY <1>1, ThreadSets, Typed DEF s, OnlyThread, TypeInv
<1>4. s.op = "delete" => \A id \in Elements(s.ids) : StoredUpTo(BaseOf(id), VersionOf(id) + 1)
  BY <1>1, <1>2 DEF MayName
<1>5. /\ SameContents /\ thread[Manager].pc = "idle"
      /\ UNCHANGED << answered, deleted, requested >>
  BY DEF ReceiveFromManager, SameContents, At
<1> QED
  BY <1>2, <1>3, <1>4, <1>5, QuietManager

LEMMA MemoryReplayStep ==
  ASSUME TypeInv, TypeInv', MemoryInv, ReplayStep
  PROVE  MemoryInv'
<1>1. OnlyThread(Manager)
  BY ManagerStepIsOneThreads DEF ManagerStep
<1>2. \A t \in Threads : thread[t] \in ThreadData /\ thread \in [Threads -> ThreadData]
  BY Typed DEF TypeInv
<1>3. CASE ConnectToDestMb
  <2>1. /\ SameContents /\ thread[Manager].pc = "connect"
        /\ UNCHANGED << answered, deleted, requested >>
    BY <1>3 DEF ConnectToDestMb, SameContents, At
  <2>2. CASE Goto(Manager, "find")
    <3>1. /\ thread'[Manager].pc = "find" /\ thread'[Manager].op = thread[Manager].op
          /\ thread'[Manager].ids = thread[Manager].ids
      BY <1>2, <2>2, ThreadSets DEF Goto, ThreadData
    <3> QED
      BY <1>1, <2>1, <3>1, QuietManager DEF MemoryInv, ManagerWaited, Doing
  <2>3. CASE thread' = [ thread EXCEPT ![Manager] = Answering(Manager) ]
    <3>1. thread'[Manager].pc = "answer" /\ thread'[Manager].ids = <<>>
      BY <1>2, <2>3, ThreadSets DEF Answering
    <3> QED
      BY <1>1, <2>1, <3>1, EmptyElements, QuietManager
  <2> QED
    BY <1>3, <2>2, <2>3 DEF ConnectToDestMb
<1>4. CASE CopyPacket
  <2> DEFINE packet == FirstSorted(Pointee(Manager).packet_versions,
                                   Smaller(VersionOf(Current(Manager)), Pointee(Manager).index))
  <2>1. /\ thread[Manager].pc = "work" /\ thread[Manager].op = "replay"
        /\ UNCHANGED << packetsVersions, answered, deleted, requested >>
    BY <1>4 DEF CopyPacket, At, Doing
  <2>2. SameContents
    <3>1. thread[Manager].ptr \in Addresses
      BY <2>1, ThreadSets DEF TypeInv, ThreadInv
    <3> QED
      BY <1>4, <2>1, <3>1, ThreadSets, UnlockKeepsContents DEF CopyPacket
  <2>3. CASE ToNextId
    BY <2>1, <2>2, <2>3, MemoryToNextId
  <2>4. CASE thread' = [ thread EXCEPT ![Manager].pc = "send", ![Manager].packet = packet,
                                       ![Manager].ptr = Null ]
    <3> HIDE DEF packet
    <3>1. thread'[Manager].pc = "send" /\ thread'[Manager].op = "replay"
      BY <1>2, <2>1, <2>4, ThreadSets DEF ThreadData
    <3> QED
      BY <1>1, <2>1, <2>2, <3>1, QuietManager
  <2> QED
    BY <1>4, <2>3, <2>4 DEF CopyPacket
<1>5. CASE SendMsgToDstMb
  BY <1>5, MemoryToNextId DEF SendMsgToDstMb, SameContents, At
<1> QED
  BY <1>3, <1>4, <1>5 DEF ReplayStep

LEMMA MemoryFindPacket ==
  ASSUME TypeInv, TypeInv', MemoryInv, FindPacket
  PROVE  MemoryInv'
<1> DEFINE a == packetsVersions[BaseOf(Current(Manager))]
<1>1. /\ SameContents /\ thread[Manager].pc = "find"
      /\ UNCHANGED << answered, deleted, requested >>
  BY DEF FindPacket, SameContents, At
<1>2. CASE ToNextId
  BY <1>1, <1>2, MemoryToNextId
<1>3. CASE /\ a # Null
           /\ thread' = [ thread EXCEPT ![Manager].pc = "lock", ![Manager].ptr = a ]
  <2>1. /\ thread'[Manager].pc = "lock" /\ thread'[Manager].ptr = a
        /\ thread'[Manager].op = thread[Manager].op /\ thread'[Manager].ids = thread[Manager].ids
        /\ OnlyThread(Manager)
    BY <1>3, Typed, ThreadSets DEF TypeInv, ThreadData, OnlyThread
  <2>2. heap[a].base = BaseOf(Current(Manager))
    BY <1>1, <1>3, CurrentId DEF MemoryInv, MapHolds, Stale, At, ManagerWork
  <2>3. Current(Manager)' = Current(Manager)
    BY <2>1 DEF Current
  <2> QED
    BY <1>1, <2>1, <2>2, <2>3, QuietManager DEF MemoryInv, ManagerWaited, Doing
<1> QED
  BY <1>2, <1>3 DEF FindPacket

LEMMA MemoryRefusePartial ==
  ASSUME TypeInv, TypeInv', MemoryInv, RefusePartial
  PROVE  MemoryInv'
<1>1. /\ thread[Manager].pc = "work" /\ ToNextId
      /\ UNCHANGED << packetsVersions, answered, deleted, requested >>
  BY DEF RefusePartial, At
<1>2. thread[Manager].ptr \in Addresses
  BY <1>1, ThreadSets DEF TypeInv, ThreadInv
<1>3. SameContents
  BY <1>1, <1>2, ThreadSets, UnlockKeepsContents DEF RefusePartial
<1> QED
  BY <1>1, <1>3, MemoryToNextId

\* The thread of a client that stores moves on, and touches no packet.
LEMMA QuietStorer ==
  ASSUME TypeInv, TypeInv', MemoryInv, NEW v \in Storers, OnlyThread(v), SameContents,
         UNCHANGED deleted,
         answered \subseteq answered',
         \A id \in answered' \ answered :
           id = <<requested[v], v>> /\ At(v, "answer") /\ thread'[v].pc = "idle",
         \A w \in Storers : w # v => requested'[w] = requested[w],
         requested[v] <= requested'[v],
         thread'[v].pc # "idle" =>
           \/ requested[v] < requested'[v]
           \/ requested'[v] = requested[v] /\ thread[v].pc # "idle",
         thread'[v].pc \in {"lock", "work"} =>
           heap[thread'[v].ptr].base = BaseOf(Current(v)'),
         thread'[v].pc # "answer"
  PROVE  MemoryInv'
<1>1. /\ thread'[Manager] = thread[Manager]
      /\ \A w \in Storers : w # v => thread'[w] = thread[w]
      /\ thread'[v].pc # "free"
  BY ThreadSets DEF OnlyThread, TypeInv, ThreadInv, StorerSteps
<1>2. \A b \in Bases : (Stale(b)' <=> Stale(b)) /\ (Going(b)' <=> Going(b))
  BY <1>1 DEF Stale, Going, At, Current, BaseOf
<1>3. /\ NoLeak'
      /\ \A b \in Bases : VersionsIn(b)' = VersionsIn(b)
  BY KeepsContents DEF MemoryInv
<1>4. requested[v] \in Nat /\ requested'[v] \in Nat /\ requested \in [Storers -> 0..NumBases]
  BY DEF TypeInv, TypeOK
<1>5. NoUseOfFreed'
  <2>1. UsesItsBase
    BY UsesCurrentBase DEF MemoryInv
  <2>2. ASSUME NEW t \in Threads, thread'[t].pc \in {"lock", "work", "free"}
        PROVE  thread'[t].ptr \in Addresses /\ Pointee(t)'.base = BaseOf(Current(t)')
    <3>1. thread'[t].ptr \in Addresses
      BY <2>2 DEF TypeInv, ThreadInv
    <3>2. CASE t = v
      BY <1>1, <2>2, <3>1, <3>2 DEF Pointee, SameContents
    <3>3. CASE t # v
      <4>1. thread'[t] = thread[t]
        BY <3>3 DEF OnlyThread
      <4> QED
        BY <2>1, <2>2, <3>1, <4>1 DEF UsesItsBase, Pointee, SameContents, Current
    <3> QED
      BY <3>1, <3>2, <3>3
  <2>3. UsesItsBase'
    BY <2>2 DEF UsesItsBase, BaseOf
  <2> QED
    BY <2>3, UsesItsBaseNext
<1>6. AnsweredStays'
  <2> SUFFICES ASSUME NEW id \in answered'
               PROVE  BaseOf(id) \in deleted \/ id \in VersionsIn(BaseOf(id))'
    BY DEF AnsweredStays, BaseOf
  <2>1. BaseOf(id) \in Bases
    BY DEF TypeInv, TypeOK, PacketIds, BaseOf
  <2>2. BaseOf(id) \in deleted \/ id \in VersionsIn(BaseOf(id))
    <3>1. CASE id \in answered
      BY <3>1 DEF MemoryInv, AnsweredStays
    <3>2. CASE id \notin answered
      BY <3>2 DEF MemoryInv, AboutToAnswer, BaseOf
    <3> QED
      BY <3>1, <3>2
  <2> QED
    BY <1>3, <2>1, <2>2
<1>7. AnsweredBefore'
  <2> SUFFICES ASSUME NEW w \in Storers, NEW b \in Bases, <<b, w>> \in answered'
               PROVE  b <= requested'[w] /\ (thread'[w].pc # "idle" => b # requested'[w])
    BY DEF AnsweredBefore
  <2>1. CASE <<b, w>> \in answered
    <3>1. b <= requested[w] /\ (thread[w].pc # "idle" => b # requested[w])
      BY <2>1 DEF MemoryInv, AnsweredBefore
    <3>2. CASE w # v
      BY <1>1, <3>1, <3>2
    <3>3. CASE w = v
      BY <1>4, <3>1, <3>3 DEF Bases
    <3> QED
      BY <3>2, <3>3
  <2>2. CASE <<b, w>> \notin answered
    BY <2>2
  <2> QED
    BY <2>1, <2>2
<1>8. MapHolds'
  <2>1. \A b \in Bases : packetsVersions[b] \in Addresses \union {Null}
    BY DEF TypeInv, TypeOK
  <2> QED
    BY <1>2, <2>1 DEF MemoryInv, MapHolds, SameContents
<1>9. DeletedGone'
  BY ZenonT(30), <1>2 DEF MemoryInv, DeletedGone, SameContents, Complete, TypeInv, TypeOK
<1>10. ManagerWaited'
  <2>1. Current(Manager)' = Current(Manager)
    BY <1>1 DEF Current
  <2> QED
    BY <1>1, <2>1 DEF MemoryInv, ManagerWaited, Doing, StoredUpTo, BaseOf
<1>11. AboutToAnswer'
  BY <1>1, <1>3 DEF MemoryInv, AboutToAnswer, At, TypeInv, ThreadInv
<1> QED
  BY <1>3, <1>5, <1>6, <1>7, <1>8, <1>9, <1>10, <1>11 DEF MemoryInv

LEMMA MemoryReceiveStore ==
  ASSUME TypeInv, TypeInv', MemoryInv, NEW v \in Storers, ReceiveStore(v)
  PROVE  MemoryInv'
<1>1. OnlyThread(v)
  BY StoreStepIsOneThreads DEF StoreStep
<1>2. /\ requested'[v] = requested[v] + 1 /\ requested[v] \in Nat
      /\ \A w \in Storers : w # v => requested'[w] = requested[w]
  BY DEF ReceiveStore, TypeInv, TypeOK
<1>3. thread'[v].pc = "create"
  BY ThreadSets, Typed DEF ReceiveStore, TypeInv, IdleThread
<1>4. SameContents /\ UNCHANGED << deleted, answered >>
  BY DEF ReceiveStore, SameContents
<1>5. requested[v] <= requested'[v] /\ requested[v] < requested'[v]
  BY <1>2
<1> QED
  BY <1>1, <1>2, <1>3, <1>4, <1>5, QuietStorer

LEMMA MemoryLockPacket ==
  ASSUME TypeInv, TypeInv', MemoryInv, NEW t \in Threads, LockPacket(t)
  PROVE  MemoryInv'
<1>1. OnlyThread(t) /\ SameContents
  BY ThreadStepIsOneThreads, LockStepKeepsContents
<1>2. /\ thread[t].pc = "lock" /\ thread'[t].pc = "work"
      /\ thread'[t].ids = thread[t].ids /\ thread'[t].ptr = thread[t].ptr
      /\ thread'[t].op = thread[t].op
      /\ UNCHANGED << requested, answered, deleted >>
  BY Typed DEF LockPacket, Goto, At, TypeInv, ThreadData
<1>3. heap[thread'[t].ptr].base = BaseOf(Current(t)')
  BY <1>2 DEF MemoryInv, NoUseOfFreed, Pointee, Current
<1>4. CASE t = Manager
  BY <1>1, <1>2, <1>3, <1>4, QuietManager DEF MemoryInv, ManagerWaited, Doing
<1>5. CASE t \in Storers
  <2>1. requested[t] \in Nat
    BY <1>5 DEF TypeInv, TypeOK
  <2>2. requested[t] <= requested'[t]
    BY <1>2, <2>1
  <2> QED
    BY <1>1, <1>2, <1>3, <1>5, <2>2, QuietStorer
<1> QED
  BY <1>4, <1>5, ThreadSets

LEMMA MemorySendAnswer ==
  ASSUME TypeInv, TypeInv', MemoryInv, NEW t \in Threads, SendAnswer(t)
  PROVE  MemoryInv'
<1>1. OnlyThread(t) /\ SameContents
  BY ThreadStepIsOneThreads DEF SendAnswer, SameContents
<1>2. /\ At(t, "answer") /\ thread'[t].pc = "idle" /\ thread'[t].op = "none"
      /\ UNCHANGED << requested, deleted >>
  BY Typed DEF SendAnswer, TypeInv, IdleThread
<1>3. CASE t = Manager
  BY <1>1, <1>2, <1>3, ThreadSets, QuietManager DEF SendAnswer, At
<1>4. CASE t \in Storers
  <2>1. requested[t] \in Nat /\ answered' = answered \union {<<requested[t], t>>}
    BY <1>4 DEF SendAnswer, TypeInv, TypeOK
  <2>2. requested[t] <= requested'[t]
    BY <1>2, <2>1
  <2> QED
    BY <1>1, <1>2, <1>4, <2>1, <2>2, QuietStorer
<1> QED
  BY <1>3, <1>4, ThreadSets

LEMMA IntervalSize == \A n \in Nat : IsFiniteSet(1..n) /\ Cardinality(1..n) = n
<1> TAKE n \in Nat
<1>1. 1 \in Int /\ n \in Int
  OBVIOUS
<1>2. IsFiniteSet(1..n) /\ Cardinality(1..n) = IF 1 > n THEN 0 ELSE n - 1 + 1
  BY <1>1, FS_Interval, Zenon
<1> QED
  BY <1>2

\* A packet that has the versions 1 to n has at least n versions.
LEMMA ManyVersions ==
  ASSUME NEW s \in Seq(PacketIds), NEW b, NEW n \in Nat,
         \A v \in 1..n : <<b, v>> \in Elements(s)
  PROVE  n <= Len(s)
<1> SUFFICES ASSUME Len(s) < n PROVE FALSE
  BY LenProperties
<1>1. Len(s) \in Nat /\ DOMAIN s = 1..Len(s)
  BY LenProperties
<1> DEFINE f == [ v \in 1..n |-> CHOOSE i \in 1..Len(s) : s[i] = <<b, v>> ]
<1>2. \A v \in 1..n : f[v] \in 1..Len(s) /\ s[f[v]] = <<b, v>>
  BY <1>1 DEF Elements
<1>3. f \in [1..n -> 1..Len(s)]
  BY <1>2
<1> HIDE DEF f
<1>4. /\ IsFiniteSet(1..n) /\ Cardinality(1..n) = n
      /\ IsFiniteSet(1..Len(s)) /\ Cardinality(1..Len(s)) = Len(s)
  BY <1>1, IntervalSize
<1>5. PICK v \in 1..n, w \in 1..n : v # w /\ f[v] = f[w]
  BY SMTT(30), <1>3, <1>4, FS_PigeonHole
<1> QED
  BY <1>2, <1>5

\* A thread that stores a version has not been answered for it: its packet was not
\* deleted.
LEMMA StorersPacketStays ==
  ASSUME TypeInv, MemoryInv, NEW v \in Storers, thread[v].pc # "idle"
  PROVE  requested[v] \in Bases \ deleted /\ ~Complete(requested[v])
<1>1. requested[v] \in Bases
  BY DEF TypeInv, ThreadInv
<1>2. <<requested[v], v>> \notin answered
  BY <1>1 DEF MemoryInv, AnsweredBefore
<1> QED
  BY <1>1, <1>2 DEF MemoryInv, DeletedGone, Complete

LEMMA MemoryCreate ==
  ASSUME TypeInv, TypeInv', MemoryInv, NEW v \in Storers, NEW b \in Bases, NEW a \in Addresses,
         thread[v].pc = "create", BaseOf(Current(v)) = b, requested[v] = b,
         packetsVersions[b] = Null, heap[a] = Freed,
         heap' = [ heap EXCEPT ![a] = NewPacket(b) ],
         packetsVersions' = [ packetsVersions EXCEPT ![b] = a ],
         OnlyThread(v), thread'[v].pc = "lock", thread'[v].ptr = a,
         thread'[v].ids = thread[v].ids,
         UNCHANGED << requested, answered, deleted >>
  PROVE  /\ MemoryInv'
         /\ \A c \in Bases : VersionsIn(c)' = VersionsIn(c)
<1>1. /\ heap'[a].base = b /\ heap'[a].packet_versions = <<>> /\ heap'[a] # Freed
      /\ \A c \in Addresses : c # a => heap'[c] = heap[c]
      /\ heap[a].base = 0 /\ 0 \notin Bases
  <2>1. /\ NewPacket(b).base = b /\ NewPacket(b).packet_versions = <<>> /\ 0 \notin Bases
        /\ Freed.base = 0
    BY DEF NewPacket, Bases, Freed
  <2> QED
    BY <2>1 DEF TypeInv, TypeOK
<1>2. packetsVersions'[b] = a /\ \A c \in Bases : c # b => packetsVersions'[c] = packetsVersions[c]
  BY DEF TypeInv, TypeOK
<1>3. \A c \in Addresses : heap[c].base # b
  BY LiveBase DEF MemoryInv, NoLeak, TypeInv, TypeOK, Bases
<1>4. b \notin deleted
  BY StorersPacketStays
<1>5. /\ thread'[Manager] = thread[Manager]
      /\ \A w \in Storers : w # v => thread'[w] = thread[w]
  BY ThreadSets DEF OnlyThread
<1>6. \A c \in Bases : (Stale(c)' <=> Stale(c)) /\ (Going(c)' <=> Going(c))
  BY <1>5 DEF Stale, Going, At, Current, BaseOf
<1>7. \A c \in Bases : packetsVersions[c] \in Addresses \union {Null}
  BY DEF TypeInv, TypeOK
<1>8. \A c \in Bases : VersionsIn(c)' = VersionsIn(c)
  <2> SUFFICES ASSUME NEW c \in Bases PROVE VersionsIn(c)' = VersionsIn(c)
    OBVIOUS
  <2>1. CASE c = b
    <3>1. VersionsIn(b) = {}
      BY DEF VersionsIn
    <3>2. VersionsIn(b)' = Elements(heap'[a].packet_versions)
      BY <1>1, <1>2 DEF VersionsIn, Elements
    <3> QED
      BY <1>1, <2>1, <3>1, <3>2, EmptyElements
  <2>2. CASE c # b
    <3>1. packetsVersions'[c] = packetsVersions[c]
      BY <1>2, <2>2
    <3>2. CASE packetsVersions[c] = a
      BY <1>1, <2>2, <3>1, <3>2 DEF VersionsIn
    <3>3. CASE packetsVersions[c] # a
      BY <1>1, <1>7, <3>1, <3>3 DEF VersionsIn
    <3> QED
      BY <3>2, <3>3
  <2> QED
    BY <2>1, <2>2
<1>9. NoUseOfFreed'
  <2>1. UsesItsBase
    BY UsesCurrentBase DEF MemoryInv
  <2>2. ASSUME NEW t \in Threads, thread'[t].pc \in {"lock", "work", "free"}
        PROVE  thread'[t].ptr \in Addresses /\ Pointee(t)'.base = BaseOf(Current(t)')
    <3>1. CASE t = v
      BY <1>1, <3>1 DEF Pointee, Current
    <3>2. CASE t # v
      <4>1. thread'[t] = thread[t] /\ Current(t)' = Current(t)
        BY <3>2 DEF OnlyThread, Current
      <4>2. /\ thread[t].ptr \in Addresses /\ heap[thread[t].ptr] # Freed
            /\ heap[thread[t].ptr].base = BaseOf(Current(t))
        BY <2>1, <2>2, <4>1 DEF UsesItsBase, MemoryInv, NoUseOfFreed, Pointee
      <4>3. thread[t].ptr # a
        BY <4>2
      <4> QED
        BY <1>1, <4>1, <4>2, <4>3 DEF Pointee
    <3> QED
      BY <3>1, <3>2
  <2>3. UsesItsBase'
    BY <2>2 DEF UsesItsBase, BaseOf
  <2> QED
    BY <2>3, UsesItsBaseNext
<1>10. NoLeak'
  <2> SUFFICES ASSUME NEW c \in Addresses, heap'[c] # Freed
               PROVE  packetsVersions'[heap'[c].base] = c
    BY DEF NoLeak, Freed, NewPacket
  <2>1. CASE c = a
    BY <1>1, <1>2, <2>1
  <2>2. CASE c # a
    <3>1. heap'[c] = heap[c] /\ heap[c].base \in Bases /\ heap[c].base # b
      BY <1>1, <1>3, <2>2, LiveBase DEF TypeInv, TypeOK
    <3> QED
      BY <1>2, <3>1 DEF MemoryInv, NoLeak
  <2> QED
    BY <2>1, <2>2
<1>11. AnsweredStays'
  BY <1>8 DEF MemoryInv, AnsweredStays, TypeInv, TypeOK, PacketIds, BaseOf
<1>12. AnsweredBefore'
  <2> SUFFICES ASSUME NEW w \in Storers, NEW c \in Bases, <<c, w>> \in answered
               PROVE  c <= requested[w] /\ (thread'[w].pc # "idle" => c # requested[w])
    BY DEF AnsweredBefore
  <2>1. thread'[w].pc # "idle" => thread[w].pc # "idle"
    BY <1>5
  <2> QED
    BY <2>1 DEF MemoryInv, AnsweredBefore
<1>13. MapHolds'
  <2> SUFFICES ASSUME NEW c \in Bases, packetsVersions'[c] # Null
               PROVE  heap'[packetsVersions'[c]].base = c \/ Stale(c)
    BY <1>6 DEF MapHolds
  <2>1. CASE c = b
    BY <1>1, <1>2, <2>1
  <2>2. CASE c # b
    <3>1. packetsVersions'[c] = packetsVersions[c] /\ packetsVersions[c] \in Addresses
      BY <1>2, <1>7, <2>2
    <3>2. heap[packetsVersions[c]].base = c \/ Stale(c)
      BY <3>1 DEF MemoryInv, MapHolds
    <3> QED
      BY <1>1, <3>1, <3>2
  <2> QED
    BY <2>1, <2>2
<1>14. DeletedGone'
  <2> SUFFICES ASSUME NEW c \in deleted
               PROVE  Complete(c) /\ \A d \in Addresses : heap'[d].base = c => Going(c)
    BY <1>6 DEF DeletedGone, Complete, TypeInv, TypeOK
  <2>1. Complete(c) /\ \A d \in Addresses : heap[d].base = c => Going(c)
    BY DEF MemoryInv, DeletedGone
  <2> QED
    BY <1>1, <1>4, <2>1
<1>15. ManagerWaited'
  <2>1. Current(Manager)' = Current(Manager)
    BY <1>5 DEF Current
  <2> QED
    BY <1>5, <2>1 DEF MemoryInv, ManagerWaited, Doing, StoredUpTo, BaseOf
<1>16. AboutToAnswer'
  BY <1>5, <1>8 DEF MemoryInv, AboutToAnswer, At, TypeInv, ThreadInv
<1> QED
  BY <1>8, <1>9, <1>10, <1>11, <1>12, <1>13, <1>14, <1>15, <1>16 DEF MemoryInv

LEMMA MemoryGetOrCreate ==
  ASSUME TypeInv, TypeInv', MemoryInv, NEW v \in Storers, GetOrCreateServerProgressData(v)
  PROVE  /\ MemoryInv'
         /\ \A c \in Bases : VersionsIn(c)' = VersionsIn(c)
<1> DEFINE b == BaseOf(Current(v))
<1>1. /\ thread[v].pc = "create" /\ requested[v] = b /\ b \in Bases
      /\ UNCHANGED << requested, answered, deleted >>
  BY CurrentId DEF GetOrCreateServerProgressData, At
<1>2. OnlyThread(v) /\ v \in Threads
  BY ThreadSets, StoreStepIsOneThreads DEF StoreStep
<1>3. ASSUME NEW a, thread' = [ thread EXCEPT ![v].pc = "lock", ![v].ptr = a ]
      PROVE  /\ thread'[v].pc = "lock" /\ thread'[v].ptr = a /\ thread'[v].ids = thread[v].ids
             /\ Current(v)' = Current(v)
  BY <1>2, <1>3, Typed DEF TypeInv, ThreadData, Current
<1>4. CASE packetsVersions[b] = Null
  <2>1. PICK a \in Addresses :
          /\ heap[a] = Freed
          /\ heap' = [ heap EXCEPT ![a] = NewPacket(b) ]
          /\ packetsVersions' = [ packetsVersions EXCEPT ![b] = a ]
          /\ thread' = [ thread EXCEPT ![v].pc = "lock", ![v].ptr = a ]
    BY <1>4 DEF GetOrCreateServerProgressData
  <2> HIDE DEF b
  <2> QED
    BY <1>1, <1>2, <1>3, <1>4, <2>1, MemoryCreate DEF b
<1>5. CASE packetsVersions[b] # Null
  <2> DEFINE a == packetsVersions[b]
  <2>1. /\ thread' = [ thread EXCEPT ![v].pc = "lock", ![v].ptr = a ]
        /\ UNCHANGED << packetsVersions, heap >>
    BY <1>5 DEF GetOrCreateServerProgressData
  <2>2. /\ thread'[v].pc = "lock" /\ thread'[v].ptr = a /\ Current(v)' = Current(v)
        /\ SameContents
    BY <1>3, <2>1 DEF SameContents
  <2>3. ~Stale(b)
    BY <1>1, StorersPacketStays DEF MemoryInv, ManagerWaited, Stale, At
  <2>4. heap[a].base = b
    BY <1>1, <1>5, <2>3 DEF MemoryInv, MapHolds
  <2>5. requested[v] \in Nat /\ requested[v] <= requested'[v]
    BY <1>1 DEF Bases
  <2>6. MemoryInv'
    BY <1>1, <1>2, <2>2, <2>4, <2>5, QuietStorer
  <2> QED
    BY <2>2, <2>6, KeepsContents
<1> QED
  BY <1>4, <1>5

\* Where a thread works, its packet is what the map holds.
LEMMA WorksInMap ==
  ASSUME TypeInv, MemoryInv, NEW t \in Threads, thread[t].pc \in {"lock", "work", "free"}
  PROVE  /\ thread[t].ptr \in Addresses /\ heap[thread[t].ptr] \in PacketData
         /\ heap[thread[t].ptr].base = BaseOf(Current(t)) /\ BaseOf(Current(t)) \in Bases
         /\ packetsVersions[BaseOf(Current(t))] = thread[t].ptr
         /\ VersionsIn(BaseOf(Current(t))) = Elements(heap[thread[t].ptr].packet_versions)
<1>1. thread[t].ptr \in Addresses
  BY DEF TypeInv, ThreadInv
<1>2. heap[thread[t].ptr] # Freed /\ heap[thread[t].ptr].base = BaseOf(Current(t))
  BY DEF MemoryInv, NoUseOfFreed, Pointee
<1>3. heap[thread[t].ptr] \in PacketData
  BY <1>1, <1>2, Typed DEF TypeInv
<1>4. packetsVersions[BaseOf(Current(t))] = thread[t].ptr
  BY <1>1, <1>2 DEF MemoryInv, NoLeak
<1> QED
  BY <1>1, <1>2, <1>3, <1>4 DEF VersionsIn, PacketData

LEMMA MemoryAddPacketVersion ==
  ASSUME TypeInv, TypeInv', MemoryInv, NEW v \in Storers, AddPacketVersion(v)
  PROVE  /\ MemoryInv'
         /\ \A c \in Bases :
              VersionsIn(c)' = IF c = requested[v] THEN VersionsIn(c) \union {<<c, v>>}
                                                   ELSE VersionsIn(c)
<1> DEFINE a == thread[v].ptr
           b == requested[v]
           p == WithVersion(heap[a], Current(v), heap[a].index + 1)
<1>1. /\ thread[v].pc = "work" /\ v \in Threads /\ b \in Bases
      /\ Current(v) = <<b, v>> /\ Current(v) \in PacketIds /\ BaseOf(Current(v)) = b
      /\ UNCHANGED << packetsVersions, requested, answered, deleted >>
  BY CurrentId, ThreadSets DEF AddPacketVersion, At
<1>2. /\ a \in Addresses /\ heap[a] \in PacketData /\ heap[a].base = b
      /\ packetsVersions[b] = a /\ VersionsIn(b) = Elements(heap[a].packet_versions)
  BY <1>1, WorksInMap
<1>3. heap' = [ heap EXCEPT ![a] = p ]
  BY <1>2, InitialData DEF AddPacketVersion, Pointee
<1>4. p.base = b /\ Elements(p.packet_versions) = Elements(heap[a].packet_versions) \union {<<b, v>>}
  <2>1. heap[a].index + 1 \in Nat
    BY <1>2 DEF PacketData
  <2> DEFINE q == heap[a]
             id == Current(v)
             index == heap[a].index + 1
  <2>2. q \in PacketData /\ id \in PacketIds /\ index \in Nat
    BY <1>1, <1>2, <2>1
  <2>3. p = WithVersion(q, id, index)
    OBVIOUS
  <2> HIDE DEF q, id, index, p
  <2>4. p.base = q.base /\ Elements(p.packet_versions) = Elements(q.packet_versions) \union {id}
    BY <2>2, <2>3, WithVersionType
  <2> QED
    BY <1>1, <1>2, <2>4 DEF q, id
<1> HIDE DEF p, a, b
<1>5. heap'[a] = p /\ \A c \in Addresses : c # a => heap'[c] = heap[c]
  BY <1>2, <1>3 DEF TypeInv, TypeOK
<1>6. \A c \in Addresses : heap'[c].base = heap[c].base
  BY <1>2, <1>4, <1>5
<1>7. /\ OnlyThread(v) /\ thread'[v].pc = "answer"
      /\ thread'[Manager] = thread[Manager]
      /\ \A w \in Storers : w # v => thread'[w] = thread[w]
  <2>1. OnlyThread(v)
    BY StoreStepIsOneThreads DEF StoreStep
  <2>2. thread'[v] = Answering(v)
    BY <1>1, Typed DEF AddPacketVersion, TypeInv
  <2> QED
    BY <2>1, <2>2, ThreadSets, AnsweringType DEF OnlyThread
<1>8. \A c \in Bases : packetsVersions[c] \in Addresses \union {Null}
  BY DEF TypeInv, TypeOK
<1>9. \A c \in Bases :
        VersionsIn(c)' = IF c = b THEN VersionsIn(c) \union {<<b, v>>} ELSE VersionsIn(c)
  <2> TAKE c \in Bases
  <2>1. CASE c = b
    <3>1. VersionsIn(c)' = Elements(p.packet_versions)
      BY <1>1, <1>2, <1>4, <1>5, <2>1 DEF VersionsIn, Elements
    <3> QED
      BY <1>2, <1>4, <2>1, <3>1
  <2>2. CASE c # b /\ packetsVersions[c] = a
    BY <1>1, <1>2, <1>6, <2>2 DEF VersionsIn
  <2>3. CASE c # b /\ packetsVersions[c] # a
    BY <1>1, <1>5, <1>8, <2>3 DEF VersionsIn
  <2> QED
    BY <2>1, <2>2, <2>3
<1>10. \A c \in Bases : (Stale(c)' <=> Stale(c)) /\ (Going(c)' <=> Going(c))
  BY <1>7 DEF Stale, Going, At, Current, BaseOf
<1>11. NoUseOfFreed'
  <2>1. UsesItsBase
    BY UsesCurrentBase DEF MemoryInv
  <2>2. ASSUME NEW t \in Threads, thread'[t].pc \in {"lock", "work", "free"}
        PROVE  thread'[t].ptr \in Addresses /\ Pointee(t)'.base = BaseOf(Current(t)')
    <3>1. thread'[t] = thread[t] /\ Current(t)' = Current(t)
      BY <1>7, <2>2 DEF OnlyThread, Current
    <3> QED
      BY <1>6, <2>1, <2>2, <3>1 DEF UsesItsBase, Pointee
  <2>3. UsesItsBase'
    BY <2>2 DEF UsesItsBase, BaseOf
  <2> QED
    BY <2>3, UsesItsBaseNext
<1>12. NoLeak'
  <2> SUFFICES ASSUME NEW c \in Addresses, heap'[c] # Freed
               PROVE  packetsVersions[heap'[c].base] = c
    BY <1>1 DEF NoLeak, Freed, NewPacket
  <2>1. heap[c] # Freed
    BY <1>6, LiveBase DEF TypeInv, TypeOK
  <2> QED
    BY <1>6, <2>1 DEF MemoryInv, NoLeak
<1>13. AnsweredStays'
  <2> SUFFICES ASSUME NEW id \in answered
               PROVE  BaseOf(id) \in deleted \/ id \in VersionsIn(BaseOf(id))'
    BY <1>1 DEF AnsweredStays, BaseOf
  <2>1. BaseOf(id) \in Bases
    BY DEF TypeInv, TypeOK, PacketIds, BaseOf
  <2>2. BaseOf(id) \in deleted \/ id \in VersionsIn(BaseOf(id))
    BY DEF MemoryInv, AnsweredStays
  <2> QED
    BY <1>9, <2>1, <2>2
<1>14. AnsweredBefore'
  <2>1. \A w \in Storers : thread'[w].pc # "idle" => thread[w].pc # "idle"
    BY <1>1, <1>7
  <2> QED
    BY <1>1, <2>1 DEF MemoryInv, AnsweredBefore
<1>15. MapHolds'
  BY <1>1, <1>6, <1>8, <1>10 DEF MemoryInv, MapHolds
<1>16. DeletedGone'
  BY <1>1, <1>6, <1>10 DEF MemoryInv, DeletedGone, Complete, TypeInv, TypeOK
<1>17. ManagerWaited'
  <2>1. Current(Manager)' = Current(Manager)
    BY <1>7 DEF Current
  <2> QED
    BY <1>1, <1>7, <2>1 DEF MemoryInv, ManagerWaited, Doing, StoredUpTo, BaseOf
<1>18. AboutToAnswer'
  <2>1. ASSUME NEW w \in Storers, thread'[w].pc = "answer", NEW c \in Bases, c = requested[w]
        PROVE  <<c, w>> \in VersionsIn(c)'
    <3>1. CASE w = v
      BY <1>9, <2>1, <3>1 DEF b
    <3>2. CASE w # v
      <4>1. <<c, w>> \in VersionsIn(c)
        BY <1>7, <2>1, <3>2 DEF MemoryInv, AboutToAnswer, At
      <4> QED
        BY <1>9, <4>1
    <3> QED
      BY <3>1, <3>2
  <2>2. \A w \in Storers : thread'[w].pc = "answer" => requested[w] \in Bases
    BY <1>1 DEF TypeInv, ThreadInv
  <2> QED
    BY <1>1, <2>1, <2>2 DEF AboutToAnswer, At
<1>19. MemoryInv'
  BY <1>11, <1>12, <1>13, <1>14, <1>15, <1>16, <1>17, <1>18 DEF MemoryInv
<1> QED
  BY <1>9, <1>19 DEF b

\* The manager deletes a packet once all its versions were stored: one more than it
\* names was, and as many as there are fit the version it names.
LEMMA DeletesComplete ==
  ASSUME TypeInv, MemoryInv, thread[Manager].pc = "work", Doing(Manager, "delete"), ~Partial
  PROVE  Complete(BaseOf(Current(Manager)))
<1> DEFINE b == BaseOf(Current(Manager))
           n == VersionOf(Current(Manager))
           q == heap[thread[Manager].ptr].packet_versions
<1>1. /\ Current(Manager) \in Elements(thread[Manager].ids) /\ b \in Bases /\ n \in Storers
  BY CurrentId DEF ManagerWork
<1>2. StoredUpTo(b, n + 1)
  BY <1>1 DEF MemoryInv, ManagerWaited
<1>3. /\ heap[thread[Manager].ptr] \in PacketData /\ VersionsIn(b) = Elements(q)
      /\ thread[Manager].ptr \in Addresses /\ heap[thread[Manager].ptr].base = b
  BY ThreadSets, WorksInMap
<1>4. q \in Seq(PacketIds) /\ Len(q) <= n
  <2>1. heap[thread[Manager].ptr].index = Len(q)
    BY <1>3 DEF TypeInv, TypeOK, At
  <2>2. heap[thread[Manager].ptr].index \in Nat /\ q \in Seq(PacketIds)
    BY <1>3 DEF PacketData
  <2> QED
    BY <1>1, <2>1, <2>2 DEF Partial, Pointee, Storers
<1>5. b \notin deleted
  BY <1>3 DEF MemoryInv, DeletedGone, Going, At
<1>6. \A v \in Storers : v <= n + 1 => <<b, v>> \in Elements(q)
  <2> SUFFICES ASSUME NEW v \in Storers, v <= n + 1 PROVE <<b, v>> \in VersionsIn(b)
    BY <1>3
  <2>1. <<b, v>> \in answered
    BY <1>2 DEF StoredUpTo
  <2> QED
    BY <1>5, <2>1 DEF MemoryInv, AnsweredStays, BaseOf
<1> HIDE DEF b, n, q
<1>7. n = NumVersions
  <2> SUFFICES ASSUME n # NumVersions PROVE FALSE
    OBVIOUS
  <2>1. n + 1 \in Nat /\ \A v \in 1..(n + 1) : v \in Storers /\ v <= n + 1
    BY <1>1 DEF Storers
  <2>2. n + 1 <= Len(q)
    BY <1>4, <1>6, <2>1, ManyVersions
  <2> QED
    BY <1>1, <1>4, <2>2, LenProperties DEF Storers
<1> QED
  BY <1>2, <1>7 DEF Complete, StoredUpTo, Storers, b

LEMMA MemoryFreeVersions ==
  ASSUME TypeInv, TypeInv', MemoryInv, FreeVersions
  PROVE  /\ MemoryInv'
         /\ \A c \in Bases :
              VersionsIn(c)' = IF c = BaseOf(Current(Manager)) THEN {} ELSE VersionsIn(c)
<1> DEFINE a == thread[Manager].ptr
           p == [ base |-> heap[a].base, packet_versions |-> <<>>, index |-> heap[a].index,
                  lock |-> {} ]
<1>1. PICK b \in Bases : b = BaseOf(Current(Manager))
  BY CurrentId DEF FreeVersions, At, ManagerWork
<1>2. /\ thread[Manager].pc = "work" /\ Complete(b)
      /\ deleted' = deleted \union {b}
      /\ UNCHANGED << packetsVersions, requested, answered >>
  BY <1>1, DeletesComplete DEF FreeVersions, At
<1>3. /\ a \in Addresses /\ heap[a].base = b /\ packetsVersions[b] = a
  BY <1>1, <1>2, ThreadSets, WorksInMap
<1>4. heap' = [ heap EXCEPT ![a] = p ] /\ p.base = heap[a].base /\ p.packet_versions = <<>>
  BY DEF FreeVersions
<1>5. /\ OnlyThread(Manager) /\ thread'[Manager].pc = "free"
      /\ thread'[Manager].ids = thread[Manager].ids /\ thread'[Manager].ptr = a
      /\ thread'[Manager].op = thread[Manager].op
      /\ Current(Manager)' = Current(Manager)
      /\ \A v \in Storers : thread'[v] = thread[v]
  <2>1. /\ thread'[Manager].pc = "free" /\ thread'[Manager].ids = thread[Manager].ids
        /\ thread'[Manager].ptr = a /\ thread'[Manager].op = thread[Manager].op
    BY Typed, ThreadSets DEF FreeVersions, Goto, TypeInv, ThreadData
  <2>2. OnlyThread(Manager)
    BY ManagerStepIsOneThreads DEF ManagerStep, DeleteStep
  <2> QED
    BY <2>1, <2>2, ThreadSets DEF OnlyThread, Current
<1> HIDE DEF p
<1>6. \A c \in Addresses : heap'[c].base = heap[c].base /\ (c # a => heap'[c] = heap[c])
  BY <1>3, <1>4 DEF TypeInv, TypeOK
<1> HIDE DEF a
<1>7. \A c \in Bases : packetsVersions[c] \in Addresses \union {Null}
  BY DEF TypeInv, TypeOK
<1>8. \A c \in Bases : c # b => VersionsIn(c)' = VersionsIn(c)
  <2> SUFFICES ASSUME NEW c \in Bases, c # b PROVE VersionsIn(c)' = VersionsIn(c)
    OBVIOUS
  <2>1. CASE packetsVersions[c] = a
    BY <1>2, <1>3, <1>6, <2>1 DEF VersionsIn
  <2>2. CASE packetsVersions[c] # a
    BY <1>2, <1>6, <1>7, <2>2 DEF VersionsIn
  <2> QED
    BY <2>1, <2>2
<1>9. \A c \in Bases : ~Stale(c) /\ ~Stale(c)' /\ ~Going(c) /\ (Going(c)' <=> c = b)
  BY <1>1, <1>2, <1>5 DEF Stale, Going, At, BaseOf
<1>10. NoUseOfFreed'
  <2>1. UsesItsBase
    BY UsesCurrentBase DEF MemoryInv
  <2>2. ASSUME NEW t \in Threads, thread'[t].pc \in {"lock", "work", "free"}
        PROVE  thread'[t].ptr \in Addresses /\ Pointee(t)'.base = BaseOf(Current(t)')
    <3>1. thread[t].pc \in {"lock", "work", "free"} /\ Current(t)' = Current(t)
          /\ thread'[t].ptr = thread[t].ptr
      BY <1>2, <1>5, <2>2 DEF OnlyThread, Current, a
    <3> QED
      BY <1>6, <2>1, <3>1 DEF UsesItsBase, Pointee
  <2>3. UsesItsBase'
    BY <2>2 DEF UsesItsBase, BaseOf
  <2> QED
    BY <2>3, UsesItsBaseNext
<1>11. NoLeak'
  <2> SUFFICES ASSUME NEW c \in Addresses, heap'[c] # Freed
               PROVE  packetsVersions[heap'[c].base] = c
    BY <1>2 DEF NoLeak, Freed, NewPacket
  <2>1. heap[c] # Freed
    BY <1>6, LiveBase DEF TypeInv, TypeOK
  <2> QED
    BY <1>6, <2>1 DEF MemoryInv, NoLeak
<1>12. AnsweredStays'
  <2> SUFFICES ASSUME NEW id \in answered
               PROVE  BaseOf(id) \in deleted' \/ id \in VersionsIn(BaseOf(id))'
    BY <1>2 DEF AnsweredStays, BaseOf
  <2>1. BaseOf(id) \in Bases
    BY DEF TypeInv, TypeOK, PacketIds, BaseOf
  <2>2. BaseOf(id) \in deleted \/ id \in VersionsIn(BaseOf(id))
    BY DEF MemoryInv, AnsweredStays
  <2> QED
    BY <1>2, <1>8, <2>1, <2>2
<1>13. AnsweredBefore'
  BY <1>2, <1>5 DEF MemoryInv, AnsweredBefore
<1>14. MapHolds'
  BY <1>2, <1>6, <1>7, <1>9 DEF MemoryInv, MapHolds
<1>15. DeletedGone'
  BY ZenonT(30), <1>2, <1>6, <1>9 DEF MemoryInv, DeletedGone, Complete, TypeInv, TypeOK
<1>16. ManagerWaited'
  BY <1>1, <1>2, <1>5 DEF MemoryInv, ManagerWaited, Doing, StoredUpTo, BaseOf
<1>17. AboutToAnswer'
  <2>1. ASSUME NEW v \in Storers, thread'[v].pc = "answer", NEW c \in Bases, c = requested[v]
        PROVE  <<c, v>> \in VersionsIn(c)'
    <3>1. thread[v].pc = "answer"
      BY <1>5, <2>1
    <3>2. <<c, v>> \in VersionsIn(c)
      BY <2>1, <3>1 DEF MemoryInv, AboutToAnswer, At
    <3>3. c # b
      BY <1>2, <2>1, <3>1, StorersPacketStays
    <3> QED
      BY <1>8, <3>2, <3>3
  <2>2. \A v \in Storers : thread'[v].pc = "answer" => requested[v] \in Bases
    BY <1>2 DEF TypeInv, ThreadInv
  <2> QED
    BY <1>2, <2>1, <2>2 DEF AboutToAnswer, At
<1>18. VersionsIn(b)' = {}
  <2>1. heap'[a] = p
    BY <1>3, <1>4 DEF TypeInv, TypeOK
  <2>2. VersionsIn(b)' \subseteq Elements(heap'[a].packet_versions)
    BY <1>2, <1>3 DEF VersionsIn, Elements
  <2> QED
    BY <1>4, <2>1, <2>2, EmptyElements
<1>19. MemoryInv'
  BY <1>10, <1>11, <1>12, <1>13, <1>14, <1>15, <1>16, <1>17 DEF MemoryInv
<1> QED
  BY <1>1, <1>8, <1>18, <1>19

LEMMA MemoryFreePacket ==
  ASSUME TypeInv, TypeInv', MemoryInv, FreePacket
  PROVE  /\ MemoryInv'
         /\ \A c \in Bases :
              VersionsIn(c)' = IF c = BaseOf(Current(Manager)) THEN {} ELSE VersionsIn(c)
<1> DEFINE a == thread[Manager].ptr
<1>1. PICK b \in Bases : b = BaseOf(Current(Manager))
  BY CurrentId DEF FreePacket, At, ManagerWork
<1>2. /\ thread[Manager].pc = "free"
      /\ UNCHANGED << packetsVersions, requested, answered, deleted >>
  BY DEF FreePacket, At
<1>3. b \in deleted /\ Complete(b)
  BY <1>1, <1>2 DEF MemoryInv, ManagerWaited, DeletedGone
<1>4. /\ a \in Addresses /\ heap[a].base = b /\ packetsVersions[b] = a
  BY <1>1, <1>2, ThreadSets, WorksInMap
<1>5. /\ OnlyThread(Manager) /\ thread'[Manager].pc = "erase"
      /\ thread'[Manager].ids = thread[Manager].ids
      /\ thread'[Manager].op = thread[Manager].op
      /\ Current(Manager)' = Current(Manager)
      /\ \A v \in Storers : thread'[v] = thread[v]
  <2>1. /\ thread'[Manager].pc = "erase" /\ thread'[Manager].ids = thread[Manager].ids
        /\ thread'[Manager].op = thread[Manager].op
    BY Typed, ThreadSets DEF FreePacket, Goto, TypeInv, ThreadData
  <2>2. OnlyThread(Manager)
    BY ManagerStepIsOneThreads DEF ManagerStep, DeleteStep
  <2> QED
    BY <2>1, <2>2, ThreadSets DEF OnlyThread, Current
<1>6. heap'[a] = Freed /\ heap'[a].base = 0 /\ \A c \in Addresses : c # a => heap'[c] = heap[c]
  BY <1>4, InitialData DEF FreePacket, TypeInv, TypeOK
<1> HIDE DEF a
<1>7. \A c \in Bases : packetsVersions[c] \in Addresses \union {Null} /\ c # 0
  BY DEF TypeInv, TypeOK, Bases
<1>8. \A c \in Bases : c # b => VersionsIn(c)' = VersionsIn(c)
  <2> SUFFICES ASSUME NEW c \in Bases, c # b PROVE VersionsIn(c)' = VersionsIn(c)
    OBVIOUS
  <2>1. CASE packetsVersions[c] = a
    BY <1>2, <1>4, <1>6, <1>7, <2>1 DEF VersionsIn
  <2>2. CASE packetsVersions[c] # a
    BY <1>2, <1>6, <1>7, <2>2 DEF VersionsIn
  <2> QED
    BY <2>1, <2>2
<1>9. \A c \in Bases :
        ~Stale(c) /\ (Stale(c)' <=> c = b) /\ ~Going(c)' /\ (Going(c) <=> c = b)
  BY <1>1, <1>2, <1>5 DEF Stale, Going, At, BaseOf
<1>10. NoUseOfFreed'
  <2>1. UsesItsBase
    BY UsesCurrentBase DEF MemoryInv
  <2>2. ASSUME NEW t \in Threads, thread'[t].pc \in {"lock", "work", "free"}
        PROVE  thread'[t].ptr \in Addresses /\ Pointee(t)'.base = BaseOf(Current(t)')
    <3>1. t \in Storers /\ thread'[t] = thread[t]
      BY <1>5, <2>2, ThreadSets
    <3>2. thread[t].pc \in {"lock", "work"} /\ Current(t)' = Current(t)
      BY <2>2, <3>1 DEF TypeInv, ThreadInv, StorerSteps, Current
    <3>3. BaseOf(Current(t)) = requested[t] /\ requested[t] # b
      BY <1>3, <3>1, <3>2, CurrentId, StorersPacketStays
    <3>4. thread[t].ptr \in Addresses /\ heap[thread[t].ptr].base = BaseOf(Current(t))
      BY <2>1, <3>2, ThreadSets DEF UsesItsBase, Pointee
    <3>5. thread[t].ptr # a
      BY <1>4, <3>3, <3>4
    <3> QED
      BY <1>6, <3>1, <3>2, <3>4, <3>5 DEF Pointee
  <2>3. UsesItsBase'
    BY <2>2 DEF UsesItsBase, BaseOf
  <2> QED
    BY <2>3, UsesItsBaseNext
<1>11. NoLeak'
  <2> SUFFICES ASSUME NEW c \in Addresses, heap'[c] # Freed
               PROVE  packetsVersions[heap'[c].base] = c
    BY <1>2 DEF NoLeak, Freed, NewPacket
  <2>1. c # a /\ heap'[c] = heap[c]
    BY <1>6
  <2> QED
    BY <2>1 DEF MemoryInv, NoLeak
<1>12. AnsweredStays'
  <2> SUFFICES ASSUME NEW id \in answered
               PROVE  BaseOf(id) \in deleted \/ id \in VersionsIn(BaseOf(id))'
    BY <1>2 DEF AnsweredStays, BaseOf
  <2>1. BaseOf(id) \in Bases
    BY DEF TypeInv, TypeOK, PacketIds, BaseOf
  <2>2. BaseOf(id) \in deleted \/ id \in VersionsIn(BaseOf(id))
    BY DEF MemoryInv, AnsweredStays
  <2> QED
    BY <1>3, <1>8, <2>1, <2>2
<1>13. AnsweredBefore'
  BY <1>2, <1>5 DEF MemoryInv, AnsweredBefore
<1>14. MapHolds'
  <2> SUFFICES ASSUME NEW c \in Bases, packetsVersions[c] # Null
               PROVE  heap'[packetsVersions[c]].base = c \/ c = b
    BY <1>2, <1>9 DEF MapHolds
  <2>1. packetsVersions[c] \in Addresses /\ heap[packetsVersions[c]].base = c
    BY <1>7, <1>9 DEF MemoryInv, MapHolds
  <2> QED
    BY <1>4, <1>6, <2>1
<1>15. DeletedGone'
  <2> SUFFICES ASSUME NEW c \in deleted
               PROVE  Complete(c) /\ \A d \in Addresses : heap'[d].base # c
    BY <1>2 DEF DeletedGone, Complete
  <2>1. c \in Bases /\ Complete(c) /\ \A d \in Addresses : heap[d].base = c => Going(c)
    BY DEF MemoryInv, DeletedGone, TypeInv, TypeOK
  <2>2. ASSUME NEW d \in Addresses, heap'[d].base = c PROVE FALSE
    <3>1. d # a /\ heap[d].base = c
      BY <1>6, <1>7, <2>1, <2>2
    <3>2. c = b
      BY <1>9, <2>1, <3>1
    <3>3. heap[d] # Freed
      BY <1>7, <2>1, <3>1, InitialData
    <3> QED
      BY <1>4, <3>1, <3>2, <3>3 DEF MemoryInv, NoLeak
  <2> QED
    BY <2>1, <2>2
<1>16. ManagerWaited'
  BY <1>1, <1>2, <1>3, <1>5 DEF MemoryInv, ManagerWaited, Doing, StoredUpTo, BaseOf
<1>17. AboutToAnswer'
  <2>1. ASSUME NEW v \in Storers, thread'[v].pc = "answer", NEW c \in Bases, c = requested[v]
        PROVE  <<c, v>> \in VersionsIn(c)'
    <3>1. thread[v].pc = "answer"
      BY <1>5, <2>1
    <3>2. <<c, v>> \in VersionsIn(c)
      BY <2>1, <3>1 DEF MemoryInv, AboutToAnswer, At
    <3>3. c # b
      BY <1>3, <2>1, <3>1, StorersPacketStays
    <3> QED
      BY <1>8, <3>2, <3>3
  <2>2. \A v \in Storers : thread'[v].pc = "answer" => requested[v] \in Bases
    BY <1>2 DEF TypeInv, ThreadInv
  <2> QED
    BY <1>2, <2>1, <2>2 DEF AboutToAnswer, At
<1>18. VersionsIn(b)' = {}
  BY <1>2, <1>4, <1>6, <1>7 DEF VersionsIn
<1>19. MemoryInv'
  BY <1>10, <1>11, <1>12, <1>13, <1>14, <1>15, <1>16, <1>17 DEF MemoryInv
<1> QED
  BY <1>1, <1>8, <1>18, <1>19

LEMMA MemoryErasePacket ==
  ASSUME TypeInv, TypeInv', MemoryInv, ErasePacket
  PROVE  /\ MemoryInv'
         /\ \A c \in Bases : VersionsIn(c)' = VersionsIn(c)
<1>1. PICK b \in Bases : b = BaseOf(Current(Manager))
  BY CurrentId DEF ErasePacket, At, ManagerWork
<1>2. /\ thread[Manager].pc = "erase" /\ thread[Manager].pc \in ManagerWork /\ ToNextId
      /\ packetsVersions' = [ packetsVersions EXCEPT ![b] = Null ]
      /\ UNCHANGED << heap, requested, answered, deleted >>
  BY <1>1 DEF ErasePacket, At, ManagerWork
<1>3. /\ packetsVersions'[b] = Null
      /\ \A c \in Bases : c # b => packetsVersions'[c] = packetsVersions[c]
  BY <1>2 DEF TypeInv, TypeOK
<1>4. /\ thread'[Manager] = Through(Manager)
      /\ thread'[Manager].pc \in {"answer", "find"}
      /\ thread'[Manager].op = thread[Manager].op
      /\ thread'[Manager].ids = Tail(thread[Manager].ids)
      /\ \A v \in Storers : thread'[v] = thread[v]
  BY <1>2, ThreadSets, Typed, ThroughType DEF ToNextId, TypeInv
<1>5. /\ b \in deleted /\ \A a \in Addresses : heap[a].base # b
  BY <1>1, <1>2 DEF MemoryInv, ManagerWaited, DeletedGone, Going, At
<1>6. \A c \in Bases : packetsVersions[c] \in Addresses \union {Null} /\ c # 0
  BY DEF TypeInv, TypeOK, Bases
<1>7. \A c \in Bases : VersionsIn(c)' = VersionsIn(c)
  <2> SUFFICES ASSUME NEW c \in Bases PROVE VersionsIn(c)' = VersionsIn(c)
    OBVIOUS
  <2>1. CASE c = b
    BY <1>3, <1>5, <1>6, <2>1 DEF VersionsIn
  <2>2. CASE c # b
    BY <1>2, <1>3, <2>2 DEF VersionsIn
  <2> QED
    BY <2>1, <2>2
<1>8. \A c \in Bases : (Stale(c) <=> c = b) /\ ~Stale(c)' /\ ~Going(c)' /\ ~Going(c)
  BY <1>1, <1>2, <1>4 DEF Stale, Going, At
<1>9. NoUseOfFreed'
  <2>1. UsesItsBase
    BY UsesCurrentBase DEF MemoryInv
  <2>2. ASSUME NEW t \in Threads, thread'[t].pc \in {"lock", "work", "free"}
        PROVE  thread'[t].ptr \in Addresses /\ Pointee(t)'.base = BaseOf(Current(t)')
    <3>1. t \in Storers /\ thread'[t] = thread[t] /\ Current(t)' = Current(t)
      BY <1>4, <2>2, ThreadSets DEF Current
    <3> QED
      BY <1>2, <2>1, <2>2, <3>1, ThreadSets DEF UsesItsBase, Pointee
  <2>3. UsesItsBase'
    BY <2>2 DEF UsesItsBase, BaseOf
  <2> QED
    BY <2>3, UsesItsBaseNext
<1>10. NoLeak'
  <2> SUFFICES ASSUME NEW c \in Addresses, heap[c] # Freed
               PROVE  packetsVersions'[heap[c].base] = c
    BY <1>2 DEF NoLeak, Freed, NewPacket
  <2>1. heap[c].base \in Bases /\ heap[c].base # b
    BY <1>5, LiveBase DEF TypeInv, TypeOK
  <2> QED
    BY <1>3, <2>1 DEF MemoryInv, NoLeak
<1>11. AnsweredStays'
  BY <1>2, <1>7 DEF MemoryInv, AnsweredStays, TypeInv, TypeOK, PacketIds, BaseOf
<1>12. AnsweredBefore'
  BY <1>2, <1>4 DEF MemoryInv, AnsweredBefore
<1>13. MapHolds'
  BY <1>2, <1>3, <1>8 DEF MemoryInv, MapHolds
<1>14. DeletedGone'
  BY <1>2, <1>8 DEF MemoryInv, DeletedGone, Complete, TypeInv, TypeOK
<1>15. ManagerWaited'
  <2>1. Elements(Tail(thread[Manager].ids)) \subseteq Elements(thread[Manager].ids)
    BY <1>2, CurrentId
  <2> QED
    BY <1>2, <1>4, <2>1 DEF MemoryInv, ManagerWaited, Doing, StoredUpTo
<1>16. AboutToAnswer'
  BY <1>2, <1>4, <1>7 DEF MemoryInv, AboutToAnswer, At, TypeInv, ThreadInv
<1> QED
  BY <1>7, <1>9, <1>10, <1>11, <1>12, <1>13, <1>14, <1>15, <1>16 DEF MemoryInv

LEMMA MemoryInit == Init => MemoryInv
<1> SUFFICES ASSUME Init PROVE MemoryInv
  OBVIOUS
<1>1. /\ \A t \in Threads : thread[t].pc = "idle" /\ thread[t].op = "none"
      /\ thread[Manager].pc = "idle" /\ thread[Manager].op = "none"
      /\ \A v \in Storers : thread[v].pc = "idle"
  BY ThreadSets DEF Init, IdleThread
<1>2. \A a \in Addresses : heap[a] = Freed
  BY DEF Init
<1>3. \A b \in Bases : packetsVersions[b] = Null
  BY DEF Init
<1>4. answered = {} /\ deleted = {}
  BY DEF Init
<1> QED
  BY <1>1, <1>2, <1>3, <1>4
  DEF MemoryInv, NoUseOfFreed, NoLeak, AnsweredStays, AnsweredBefore, MapHolds, DeletedGone,
      ManagerWaited, AboutToAnswer, Doing, At

LEMMA MemoryNext == ManagerWaits => (TypeInv /\ TypeInv' /\ MemoryInv /\ [Next]_vars => MemoryInv')
<1> SUFFICES ASSUME ManagerWaits, TypeInv, TypeInv', MemoryInv, [Next]_vars PROVE MemoryInv'
  OBVIOUS
<1>1. ASSUME NEW v \in Storers, StoreStep(v) PROVE MemoryInv'
  BY <1>1, MemoryReceiveStore, MemoryGetOrCreate, MemoryAddPacketVersion DEF StoreStep
<1>2. ASSUME ManagerStep PROVE MemoryInv'
  BY <1>2, MemoryReceiveFromManager, MemoryReplayStep, MemoryFindPacket, MemoryRefusePartial,
     MemoryFreeVersions, MemoryFreePacket, MemoryErasePacket
  DEF ManagerStep, DeleteStep
<1>3. ASSUME NEW t \in Threads, LockPacket(t) \/ SendAnswer(t) PROVE MemoryInv'
  BY <1>3, MemoryLockPacket, MemorySendAnswer
<1>4. CASE UNCHANGED vars
  BY <1>4
  DEF vars, MemoryInv, NoUseOfFreed, NoLeak, AnsweredStays, AnsweredBefore, MapHolds,
      DeletedGone, ManagerWaited, AboutToAnswer, VersionsIn, Pointee, Current, Stale, Going,
      Complete, StoredUpTo, Doing, At
<1> QED
  BY <1>1, <1>2, <1>3, <1>4 DEF Next

LEMMA AlwaysMemoryInv == ManagerWaits => (Spec => []MemoryInv)
<1> SUFFICES ASSUME ManagerWaits PROVE Spec => []MemoryInv
  OBVIOUS
<1>1. TypeInv /\ TypeInv' /\ MemoryInv /\ [Next]_vars => MemoryInv'
  BY MemoryNext
<1> QED
  BY <1>1, MemoryInit, AlwaysTyped, PTL DEF Spec

\* If the manager waits for the stores, no thread uses a packet after it was freed,
\* although it keeps the pointer without any lock.
THEOREM PointersStayValid == ManagerWaits => (Spec => []NoUseOfFreed)
<1>1. MemoryInv => NoUseOfFreed
  BY DEF MemoryInv
<1> QED
  BY <1>1, AlwaysMemoryInv, PTL

\* Then no packet is lost from the map, although the map is changed by threads that
\* create an entry while another is about to erase one.
THEOREM PacketsNeverLeak == ManagerWaits => (Spec => []NoLeak)
<1>1. MemoryInv => NoLeak
  BY DEF MemoryInv
<1> QED
  BY <1>1, AlwaysMemoryInv, PTL

\* And a version whose store was answered stays until its packet is deleted.
THEOREM AnsweredVersionsStay == ManagerWaits => (Spec => []AnsweredStays)
<1>1. MemoryInv => AnsweredStays
  BY DEF MemoryInv
<1> QED
  BY <1>1, AlwaysMemoryInv, PTL

-----------------------------------------------------------------------------
(* Replays, when the manager waits.                                          *)

\* A packet has versions of its own base only.
OwnVersions ==
  \A a \in Addresses : \A id \in Elements(heap[a].packet_versions) : BaseOf(id) = heap[a].base

\* What the manager replays was stored up to the version it names.
ReplayWaited ==
  Doing(Manager, "replay") =>
    \A id \in Elements(thread[Manager].ids) : StoredUpTo(BaseOf(id), VersionOf(id))

ReplayInv == OwnVersions /\ ReplayWaited /\ ReplayComplete

\* There are n versions from 1 to n.
LEMMA VersionsUpTo ==
  ASSUME NEW b, NEW n \in Nat
  PROVE  /\ IsFiniteSet({ <<b, v>> : v \in 1..n })
         /\ Cardinality({ <<b, v>> : v \in 1..n }) = n
<1> DEFINE S == { <<b, v>> : v \in 1..n }
           f == [ v \in 1..n |-> <<b, v>> ]
<1>1. f \in Bijection(1..n, S)
  <2>1. f \in [1..n -> S] /\ \A v, w \in 1..n : f[v] = f[w] => v = w
    OBVIOUS
  <2>2. \A x \in S : \E v \in 1..n : f[v] = x
    OBVIOUS
  <2> HIDE DEF f, S
  <2> QED
    BY <2>1, <2>2, Fun_IsBij
<1>2. IsFiniteSet(1..n) /\ Cardinality(1..n) = n
  BY IntervalSize
<1> HIDE DEF f, S
<1> QED
  BY <1>1, <1>2, FS_Bijection DEF S, ExistsBijection

\* The first n versions of a packet that has the versions 1 to n are those.
LEMMA FirstVersions1ToN ==
  ASSUME NEW s \in Seq(PacketIds), NEW b \in Bases, NEW n \in Nat,
         \A id \in Elements(s) : BaseOf(id) = b,
         \A v \in 1..n : <<b, v>> \in Elements(s)
  PROVE  FirstSorted(s, n) = { <<b, v>> : v \in 1..n }
<1> DEFINE UpTo(v) == { <<b, w>> : w \in 1..v }
           Below(id) == { u \in Elements(s) : VersionOf(u) <= VersionOf(id) }
<1>1. \A id \in Elements(s) : id = <<b, VersionOf(id)>> /\ VersionOf(id) \in Storers
  BY LenProperties DEF Elements, PacketIds, BaseOf, VersionOf
<1>2. IsFiniteSet(Elements(s))
  <2>1. Elements(s) \subseteq UpTo(NumVersions)
    BY <1>1 DEF Storers
  <2>2. IsFiniteSet(UpTo(NumVersions))
    BY VersionsUpTo
  <2> HIDE DEF UpTo
  <2> QED
    BY <2>1, <2>2, FS_Subset
<1>3. ASSUME NEW id \in Elements(s), VersionOf(id) <= n
      PROVE  Cardinality(Below(id)) <= n
  <2>1. VersionOf(id) \in Nat /\ Below(id) \subseteq UpTo(VersionOf(id))
    BY <1>1 DEF Storers
  <2>2. /\ IsFiniteSet(UpTo(VersionOf(id)))
        /\ Cardinality(UpTo(VersionOf(id))) = VersionOf(id)
    BY ZenonT(30), <2>1, VersionsUpTo
  <2> HIDE DEF UpTo, Below
  <2>3. IsFiniteSet(Below(id)) /\ Cardinality(Below(id)) <= VersionOf(id)
    BY <2>1, <2>2, FS_Subset
  <2> QED
    BY <1>3, <2>1, <2>3, FS_CardinalityType
<1>4. ASSUME NEW id \in Elements(s), VersionOf(id) > n
      PROVE  ~(Cardinality(Below(id)) <= n)
  <2>1. id \in Below(id) /\ id \notin UpTo(n) /\ UpTo(n) \subseteq Below(id)
    BY <1>1, <1>4 DEF Storers, VersionOf
  <2>2. IsFiniteSet(UpTo(n)) /\ Cardinality(UpTo(n)) = n
    BY VersionsUpTo
  <2>3. Below(id) \subseteq Elements(s)
    OBVIOUS
  <2> HIDE DEF UpTo, Below
  <2>4. IsFiniteSet(Below(id))
    BY <1>2, <2>3, FS_Subset
  <2>5. Cardinality(UpTo(n)) <= Cardinality(Below(id))
        /\ Cardinality(UpTo(n)) # Cardinality(Below(id))
    BY <2>1, <2>4, FS_Subset
  <2> QED
    BY <2>2, <2>4, <2>5, FS_CardinalityType
<1>5. \A id \in Elements(s) : Cardinality(Below(id)) <= n <=> VersionOf(id) <= n
  BY <1>1, <1>3, <1>4 DEF Storers
<1>6. FirstSorted(s, n) = { id \in Elements(s) : VersionOf(id) <= n }
  BY <1>5 DEF FirstSorted
<1>7. { id \in Elements(s) : VersionOf(id) <= n } = { <<b, v>> : v \in 1..n }
  <2>1. \A v \in 1..n : VersionOf(<<b, v>>) = v
    BY DEF VersionOf
  <2> QED
    BY <1>1, <2>1 DEF Storers
<1> QED
  BY <1>6, <1>7

LEMMA OwnSame ==
  ASSUME OwnVersions, \A a \in Addresses : /\ heap'[a].base = heap[a].base
                                           /\ heap'[a].packet_versions = heap[a].packet_versions
  PROVE  OwnVersions'
BY DEF OwnVersions, Elements, BaseOf

LEMMA OwnOne ==
  ASSUME TypeInv, OwnVersions, NEW a \in Addresses, NEW p, heap' = [ heap EXCEPT ![a] = p ],
         \A id \in Elements(p.packet_versions) : BaseOf(id) = p.base
  PROVE  OwnVersions'
<1>1. heap'[a] = p /\ \A c \in Addresses : c # a => heap'[c] = heap[c]
  BY DEF TypeInv, TypeOK
<1>2. ASSUME NEW c \in Addresses
      PROVE  \A id \in Elements(heap'[c].packet_versions) : BaseOf(id) = heap'[c].base
  BY <1>1 DEF OwnVersions
<1> QED
  BY <1>2 DEF OwnVersions, Elements, BaseOf

LEMMA OwnStoreStep ==
  ASSUME TypeInv, MemoryInv, OwnVersions, NEW v \in Storers, StoreStep(v)
  PROVE  OwnVersions'
<1>1. CASE heap' = heap
  BY <1>1, OwnSame
<1>2. CASE GetOrCreateServerProgressData(v) /\ heap' # heap
  <2> DEFINE p == NewPacket(BaseOf(Current(v)))
  <2>1. PICK a \in Addresses : heap' = [ heap EXCEPT ![a] = p ]
    BY <1>2, Zenon DEF GetOrCreateServerProgressData
  <2>2. Elements(p.packet_versions) = {}
    BY EmptyElements DEF NewPacket
  <2> HIDE DEF p
  <2> QED
    BY <2>1, <2>2, OwnOne
<1>3. CASE AddPacketVersion(v)
  <2> DEFINE a == thread[v].ptr
             q == heap[a]
             id == Current(v)
             index == heap[a].index + 1
             p == WithVersion(q, id, index)
  <2>1. thread[v].pc = "work" /\ v \in Threads
    BY <1>3, ThreadSets DEF AddPacketVersion, At
  <2>2. /\ a \in Addresses /\ q \in PacketData /\ q.base = BaseOf(id) /\ id \in PacketIds
        /\ index \in Nat
    BY <2>1, WorksInMap, CurrentId DEF PacketData
  <2>3. heap' = [ heap EXCEPT ![a] = p ]
    BY <1>3, <2>2, InitialData DEF AddPacketVersion, Pointee
  <2>4. \A u \in Elements(q.packet_versions) : BaseOf(u) = q.base
    BY <2>2 DEF OwnVersions
  <2>5. p = WithVersion(q, id, index)
    OBVIOUS
  <2> HIDE DEF q, id, index, a, p
  <2>6. p.base = q.base /\ Elements(p.packet_versions) = Elements(q.packet_versions) \union {id}
    BY <2>2, <2>5, WithVersionType
  <2> QED
    BY <2>2, <2>3, <2>4, <2>6, OwnOne
<1> QED
  BY <1>1, <1>2, <1>3 DEF StoreStep, ReceiveStore

LEMMA OwnManagerStep ==
  ASSUME TypeInv, MemoryInv, OwnVersions, ManagerStep
  PROVE  OwnVersions'
<1>1. thread[Manager].pc \in {"work", "free"} => thread[Manager].ptr \in Addresses
  BY ThreadSets DEF TypeInv, ThreadInv
<1>2. CASE heap' = heap
  BY <1>2, OwnSame
<1>3. ASSUME At(Manager, "work"), UnlockPacket(Manager), UNCHANGED packetsVersions
      PROVE  OwnVersions'
  BY <1>1, <1>3, ThreadSets, UnlockKeepsContents, OwnSame DEF At, SameContents
<1>4. ASSUME FreeVersions PROVE OwnVersions'
  <2> DEFINE a == thread[Manager].ptr
             p == [ base |-> heap[a].base, packet_versions |-> <<>>, index |-> heap[a].index,
                    lock |-> {} ]
  <2>1. a \in Addresses /\ heap' = [ heap EXCEPT ![a] = p ]
    BY <1>1, <1>4 DEF FreeVersions, At
  <2>2. Elements(p.packet_versions) = {}
    BY EmptyElements
  <2> HIDE DEF p, a
  <2> QED
    BY <2>1, <2>2, OwnOne
<1>5. ASSUME FreePacket PROVE OwnVersions'
  <2>1. Elements(Freed.packet_versions) = {}
    BY InitialData, EmptyElements
  <2> QED
    BY <1>1, <1>5, <2>1, OwnOne DEF FreePacket, At
<1> QED
  BY <1>2, <1>3, <1>4, <1>5
  DEF ManagerStep, ReplayStep, DeleteStep, ReceiveFromManager, FindPacket, ConnectToDestMb,
      CopyPacket, SendMsgToDstMb, RefusePartial, ErasePacket

\* A step after which the manager is not about to send.
LEMMA ReplayQuiet ==
  ASSUME ReplayWaited, answered \subseteq answered', thread'[Manager].pc # "send",
         thread'[Manager].op = "replay" =>
           /\ thread[Manager].op = "replay"
           /\ Elements(thread'[Manager].ids) \subseteq Elements(thread[Manager].ids)
  PROVE  ReplayWaited' /\ ReplayComplete'
BY DEF ReplayWaited, ReplayComplete, Doing, At, StoredUpTo, Elements, BaseOf, VersionOf

LEMMA ReplaySameManager ==
  ASSUME ReplayWaited, ReplayComplete, answered \subseteq answered',
         thread'[Manager] = thread[Manager]
  PROVE  ReplayWaited' /\ ReplayComplete'
<1>1. Current(Manager)' = Current(Manager)
  BY DEF Current
<1>2. ReplayWaited'
  BY DEF ReplayWaited, Doing, StoredUpTo
<1> QED
  BY <1>1, <1>2 DEF ReplayComplete, At, BaseOf, VersionOf

\* What the manager copies are the versions up to the one it names.
LEMMA CopiesUpTo ==
  ASSUME TypeInv, MemoryInv, OwnVersions, ReplayWaited, CopyPacket
  PROVE  LET id == Current(Manager)
             p == Pointee(Manager)
         IN /\ FirstSorted(p.packet_versions, Smaller(VersionOf(id), p.index))
                 = { <<BaseOf(id), v>> : v \in 1..VersionOf(id) }
            /\ FirstSorted(p.packet_versions, VersionOf(id))
                 = { <<BaseOf(id), v>> : v \in 1..VersionOf(id) }
<1> DEFINE b == BaseOf(Current(Manager))
           n == VersionOf(Current(Manager))
           p == Pointee(Manager)
           q == p.packet_versions
<1>1. thread[Manager].pc = "work" /\ thread[Manager].op = "replay"
  BY DEF CopyPacket, At, Doing
<1>2. /\ Current(Manager) \in Elements(thread[Manager].ids) /\ b \in Bases /\ n \in Storers
  BY <1>1, CurrentId DEF ManagerWork
<1>3. /\ p \in PacketData /\ VersionsIn(b) = Elements(q) /\ p.base = b
      /\ thread[Manager].ptr \in Addresses
  BY <1>1, ThreadSets, WorksInMap DEF Pointee
<1>4. /\ q \in Seq(PacketIds) /\ p.index = Len(q) /\ p.index \in Nat
      /\ \A id \in Elements(q) : BaseOf(id) = b
  BY <1>1, <1>3 DEF PacketData, TypeInv, TypeOK, At, Pointee, OwnVersions
<1>5. b \notin deleted
  BY <1>1, <1>3 DEF MemoryInv, DeletedGone, Going, At, Pointee
<1>6. \A v \in 1..n : <<b, v>> \in Elements(q)
  <2> SUFFICES ASSUME NEW v \in 1..n PROVE <<b, v>> \in VersionsIn(b)
    BY <1>3
  <2>1. v \in Storers /\ v <= n
    BY <1>2 DEF Storers
  <2>2. <<b, v>> \in answered
    BY <1>1, <1>2, <2>1 DEF ReplayWaited, Doing, StoredUpTo
  <2> QED
    BY <1>5, <2>2 DEF MemoryInv, AnsweredStays, BaseOf
<1>7. n \in Nat
  BY <1>2 DEF Storers
<1> HIDE DEF b, n, q, p
<1>8. n <= Len(q)
  BY <1>4, <1>6, <1>7, ManyVersions
<1>9. Smaller(n, p.index) = n
  BY <1>4, <1>7, <1>8 DEF Smaller
<1>10. FirstSorted(q, n) = { <<b, v>> : v \in 1..n }
  BY <1>2, <1>4, <1>6, <1>7, FirstVersions1ToN
<1> QED
  BY <1>9, <1>10 DEF b, n, q, p

LEMMA ReplayManagerStep ==
  ASSUME ManagerWaits, TypeInv, MemoryInv, ReplayInv, ManagerStep
  PROVE  ReplayWaited' /\ ReplayComplete'
<1>1. thread \in [Threads -> ThreadData] /\ Manager \in Threads
      /\ thread[Manager] \in ThreadData
  BY Typed, ThreadSets DEF TypeInv
<1>2. ReplayWaited
  BY DEF ReplayInv
<1>3. ASSUME ToNextId, thread[Manager].pc \in ManagerWork, answered' = answered
      PROVE  ReplayWaited' /\ ReplayComplete'
  <2>1. thread'[Manager] = Through(Manager)
    BY <1>1, <1>3 DEF ToNextId
  <2> QED
    BY <1>2, <1>3, <2>1, ThroughType, CurrentId, ReplayQuiet
<1>4. ASSUME NEW step \in {"find", "free", "erase"}, Goto(Manager, step), answered' = answered
      PROVE  ReplayWaited' /\ ReplayComplete'
  <2>1. /\ thread'[Manager].pc = step /\ thread'[Manager].ids = thread[Manager].ids
        /\ thread'[Manager].op = thread[Manager].op
    BY <1>1, <1>4 DEF Goto, ThreadData
  <2> QED
    BY <1>2, <1>4, <2>1, ReplayQuiet
<1>5. ASSUME ReceiveFromManager PROVE ReplayWaited' /\ ReplayComplete'
  <2>1. PICK r \in Requests[Manager] :
          /\ \A id \in Elements(r.ids) : MayName(r.op, id)
          /\ thread' = [ thread EXCEPT ![Manager] =
               [ IdleThread EXCEPT !.pc = FirstStep(r.op), !.op = r.op, !.ids = r.ids ] ]
    BY <1>5 DEF ReceiveFromManager
  <2> DEFINE s == [ IdleThread EXCEPT !.pc = FirstStep(r.op), !.op = r.op, !.ids = r.ids ]
  <2>2. s.pc \in {"connect", "find"} /\ s.op = r.op /\ s.ids = r.ids
    BY DEF IdleThread, FirstStep
  <2> HIDE DEF s
  <2>3. thread'[Manager] = s /\ answered' = answered
    BY <1>1, <1>5, <2>1 DEF s, ReceiveFromManager
  <2>4. s.op = "replay" => \A id \in Elements(s.ids) : StoredUpTo(BaseOf(id), VersionOf(id))
    BY <2>1, <2>2 DEF MayName
  <2> QED
    BY <2>2, <2>3, <2>4
    DEF ReplayWaited, ReplayComplete, Doing, At, StoredUpTo, Elements, BaseOf, VersionOf
<1>6. ASSUME ConnectToDestMb PROVE ReplayWaited' /\ ReplayComplete'
  <2>1. CASE thread' = [ thread EXCEPT ![Manager] = Answering(Manager) ]
    <3>1. thread'[Manager].pc = "answer" /\ thread'[Manager].ids = <<>>
          /\ thread'[Manager].op = thread[Manager].op
      BY <1>1, <2>1 DEF Answering
    <3> QED
      BY <1>2, <1>6, <3>1, EmptyElements, ReplayQuiet DEF ConnectToDestMb
  <2> QED
    BY <1>4, <1>6, <2>1 DEF ConnectToDestMb
<1>7. ASSUME FindPacket PROVE ReplayWaited' /\ ReplayComplete'
  <2> DEFINE a == packetsVersions[BaseOf(Current(Manager))]
  <2>1. CASE thread' = [ thread EXCEPT ![Manager].pc = "lock", ![Manager].ptr = a ]
    <3>1. thread'[Manager].pc = "lock" /\ thread'[Manager].ids = thread[Manager].ids
          /\ thread'[Manager].op = thread[Manager].op
      BY <1>1, <2>1 DEF ThreadData
    <3> QED
      BY <1>2, <1>7, <3>1, ReplayQuiet DEF FindPacket
  <2> QED
    BY <1>3, <1>7, <2>1 DEF FindPacket, At, ManagerWork
<1>8. ASSUME CopyPacket PROVE ReplayWaited' /\ ReplayComplete'
  <2> DEFINE packet == FirstSorted(Pointee(Manager).packet_versions,
                                   Smaller(VersionOf(Current(Manager)), Pointee(Manager).index))
  <2>1. CASE thread' = [ thread EXCEPT ![Manager].pc = "send", ![Manager].packet = packet,
                                       ![Manager].ptr = Null ]
    <3>1. packet = { <<BaseOf(Current(Manager)), v>> : v \in 1..VersionOf(Current(Manager)) }
      BY <1>2, <1>8, CopiesUpTo DEF ReplayInv
    <3> HIDE DEF packet
    <3>2. /\ thread'[Manager].packet = packet /\ thread'[Manager].ids = thread[Manager].ids
          /\ thread'[Manager].op = thread[Manager].op /\ Current(Manager)' = Current(Manager)
          /\ answered' = answered
      BY <1>1, <1>8, <2>1 DEF ThreadData, Current, CopyPacket
    <3>3. ReplayWaited'
      BY <1>2, <3>2 DEF ReplayWaited, Doing, StoredUpTo
    <3>4. ReplayComplete'
      BY <3>1, <3>2 DEF ReplayComplete, BaseOf, VersionOf
    <3> QED
      BY <3>3, <3>4
  <2> QED
    BY <1>3, <1>8, <2>1 DEF CopyPacket, At, ManagerWork
<1> QED
  BY <1>3, <1>4, <1>5, <1>6, <1>7, <1>8
  DEF ManagerStep, ReplayStep, DeleteStep, SendMsgToDstMb, RefusePartial, FreeVersions,
      FreePacket, ErasePacket, At, ManagerWork

LEMMA ReplayNext ==
  ManagerWaits => (TypeInv /\ MemoryInv /\ ReplayInv /\ [Next]_vars => ReplayInv')
<1> SUFFICES ASSUME ManagerWaits, TypeInv, MemoryInv, ReplayInv, [Next]_vars PROVE ReplayInv'
  OBVIOUS
<1>1. OwnVersions /\ ReplayWaited /\ ReplayComplete
  BY DEF ReplayInv
<1>2. ASSUME NEW v \in Storers, StoreStep(v) PROVE ReplayInv'
  <2>1. OwnVersions'
    BY <1>1, <1>2, OwnStoreStep
  <2>2. thread'[Manager] = thread[Manager] /\ answered \subseteq answered'
    BY <1>2, StoreStepIsOneThreads, ThreadSets
    DEF OnlyThread, StoreStep, ReceiveStore, GetOrCreateServerProgressData, AddPacketVersion
  <2> QED
    BY <1>1, <2>1, <2>2, ReplaySameManager DEF ReplayInv
<1>3. ASSUME ManagerStep PROVE ReplayInv'
  BY <1>1, <1>3, OwnManagerStep, ReplayManagerStep DEF ReplayInv
<1>4. ASSUME NEW t \in Threads, LockPacket(t) \/ SendAnswer(t) PROVE ReplayInv'
  <2>1. OwnVersions'
    BY <1>1, <1>4, LockStepKeepsContents, OwnSame DEF SameContents, SendAnswer
  <2>2. answered \subseteq answered'
    BY <1>4 DEF LockPacket, SendAnswer
  <2>3. CASE t # Manager
    BY <1>1, <1>4, <2>1, <2>2, <2>3, ThreadStepIsOneThreads, ThreadSets, ReplaySameManager
    DEF OnlyThread, ReplayInv
  <2>4. CASE t = Manager
    <3>1. \/ /\ thread'[Manager].pc = "work" /\ thread'[Manager].op = thread[Manager].op
             /\ thread'[Manager].ids = thread[Manager].ids
          \/ thread'[Manager].pc = "idle" /\ thread'[Manager].op = "none"
      BY <1>4, <2>4, Typed DEF LockPacket, SendAnswer, Goto, TypeInv, ThreadData, IdleThread
    <3> QED
      BY <1>1, <2>1, <2>2, <3>1, ReplayQuiet DEF ReplayInv
  <2> QED
    BY <2>3, <2>4
<1>5. CASE UNCHANGED vars
  BY <1>1, <1>5, OwnSame, ReplaySameManager DEF vars, ReplayInv
<1> QED
  BY <1>2, <1>3, <1>4, <1>5 DEF Next

LEMMA ReplayInit == Init => ReplayInv
<1> SUFFICES ASSUME Init PROVE ReplayInv
  OBVIOUS
<1>1. \A a \in Addresses : Elements(heap[a].packet_versions) = {}
  BY InitialData, EmptyElements DEF Init
<1>2. thread[Manager].pc = "idle" /\ thread[Manager].op = "none"
  BY ThreadSets DEF Init, IdleThread
<1> QED
  BY <1>1, <1>2 DEF ReplayInv, OwnVersions, ReplayWaited, ReplayComplete, Doing, At

\* What the slave is sent are all versions of a packet up to the one the manager
\* names and no later one, in whatever order they were stored.
THEOREM ReplaysComplete == ManagerWaits => (Spec => []ReplayComplete)
<1> SUFFICES ASSUME ManagerWaits PROVE Spec => []ReplayComplete
  OBVIOUS
<1>1. TypeInv /\ MemoryInv /\ ReplayInv /\ [Next]_vars => ReplayInv'
  BY ReplayNext
<1>2. Spec => []MemoryInv
  BY AlwaysMemoryInv
<1>3. ReplayInv => ReplayComplete
  BY DEF ReplayInv
<1> QED
  BY <1>1, <1>2, <1>3, ReplayInit, AlwaysTyped, PTL DEF Spec

-----------------------------------------------------------------------------
(* What PacketStore sees of the threads and of the packets.                  *)

\* What a thread asks for, of the operations its client may ask for, and the packet
\* that waits to be sent.
JobFits(t, r) ==
  /\ r.pc = "idle" => r.op = "none" /\ r.ids = <<>>
  /\ r.pc = "answer" => r.op # "none" /\ r.ids = <<>>
  /\ r.packet # {} <=> r.pc = "send"
  /\ t \in Storers /\ r.pc # "idle" => r.op = "store"
  /\ t = Manager /\ r.pc \in ManagerWork => r.op \in {"replay", "delete"}
  /\ r.pc \in {"connect", "send"} => r.op = "replay"
  /\ r.pc \in {"free", "erase"} => r.op = "delete"

JobInv == \A t \in Threads : JobFits(t, thread[t])

\* A version is in a packet only after its client asked for its store, and not while
\* the store is under way.
StoredOnce ==
  \A b \in Bases, v \in Storers :
    <<b, v>> \in VersionsIn(b) =>
      /\ b <= requested[v]
      /\ thread[v].pc \in {"create", "lock", "work"} => b # requested[v]

\* No version is in a packet twice.
Counted ==
  \A a \in Addresses :
    /\ IsFiniteSet(Elements(heap[a].packet_versions))
    /\ Cardinality(Elements(heap[a].packet_versions)) = Len(heap[a].packet_versions)

\* No version comes into a packet between its deletion and its release.
Emptied == \A b \in Bases : Going(b) => VersionsIn(b) = {}

StoreInv == JobInv /\ StoredOnce /\ Counted /\ Emptied

LEMMA OneJob ==
  ASSUME JobInv, NEW t \in Threads, OnlyThread(t), JobFits(t, thread'[t])
  PROVE  JobInv'
BY DEF JobInv, OnlyThread, JobFits

LEMMA JobStoreStep ==
  ASSUME TypeInv, JobInv, NEW v \in Storers, StoreStep(v)
  PROVE  JobInv'
<1>1. /\ OnlyThread(v) /\ v \in Threads /\ v # Manager
      /\ thread \in [Threads -> ThreadData] /\ thread[v] \in ThreadData
      /\ JobFits(v, thread[v])
  BY ThreadSets, StoreStepIsOneThreads, Typed DEF TypeInv, JobInv
<1>2. CASE ReceiveStore(v)
  <2> DEFINE r == [ IdleThread EXCEPT !.pc = "create", !.op = "store",
                                      !.ids = << <<requested[v] + 1, v>> >> ]
  <2>1. thread'[v] = r
    BY <1>1, <1>2 DEF ReceiveStore
  <2>2. r.pc = "create" /\ r.op = "store" /\ r.packet = {}
    BY DEF IdleThread
  <2> HIDE DEF r
  <2> QED
    BY <1>1, <2>1, <2>2, OneJob DEF JobFits
<1>3. CASE GetOrCreateServerProgressData(v)
  <2>1. thread[v].pc = "create" /\ thread'[v].pc = "lock" /\ thread'[v].op = thread[v].op
        /\ thread'[v].packet = thread[v].packet
    BY <1>1, <1>3 DEF GetOrCreateServerProgressData, At, ThreadData
  <2> QED
    BY <1>1, <2>1, OneJob DEF JobFits
<1>4. CASE AddPacketVersion(v)
  <2>1. thread[v].pc = "work" /\ thread'[v] = Answering(v)
    BY <1>1, <1>4 DEF AddPacketVersion, At
  <2> QED
    BY <1>1, <2>1, OneJob DEF JobFits, Answering
<1> QED
  BY <1>2, <1>3, <1>4 DEF StoreStep

LEMMA JobThreadStep ==
  ASSUME TypeInv, JobInv, NEW t \in Threads, LockPacket(t) \/ SendAnswer(t)
  PROVE  JobInv'
<1>1. /\ OnlyThread(t) /\ thread[t] \in ThreadData /\ JobFits(t, thread[t])
      /\ thread \in [Threads -> ThreadData]
  BY ThreadStepIsOneThreads, Typed DEF TypeInv, JobInv
<1>2. CASE LockPacket(t)
  <2>1. thread[t].pc = "lock" /\ thread'[t].pc = "work" /\ thread'[t].op = thread[t].op
        /\ thread'[t].packet = thread[t].packet
    BY <1>1, <1>2 DEF LockPacket, Goto, At, ThreadData
  <2> QED
    BY <1>1, <2>1, OneJob DEF JobFits, ManagerWork
<1>3. CASE SendAnswer(t)
  <2>1. thread'[t] = IdleThread
    BY <1>1, <1>3 DEF SendAnswer
  <2> QED
    BY <1>1, <2>1, OneJob DEF JobFits, IdleThread, ManagerWork
<1> QED
  BY <1>2, <1>3

\* What the manager goes on with after an id.
LEMMA ThroughAnId ==
  ASSUME TypeInv, ToNextId, thread[Manager].pc \in ManagerWork
  PROVE  /\ thread'[Manager] = Through(Manager)
         /\ Through(Manager).pc = IF Tail(thread[Manager].ids) = <<>> THEN "answer" ELSE "find"
         /\ Through(Manager).op = thread[Manager].op
         /\ Through(Manager).ids = Tail(thread[Manager].ids)
         /\ Through(Manager).packet = {}
<1> DEFINE rest == Tail(thread[Manager].ids)
<1>1. thread'[Manager] = Through(Manager)
  BY ThreadSets, Typed DEF ToNextId, TypeInv
<1>2. Through(Manager) =
        [ Answering(Manager) EXCEPT !.pc = IF rest = <<>> THEN "answer" ELSE "find",
                                    !.ids = rest ]
  BY DEF Through
<1> HIDE DEF rest
<1>3. /\ Through(Manager).pc = IF rest = <<>> THEN "answer" ELSE "find"
      /\ Through(Manager).ids = rest /\ Through(Manager).packet = {}
  BY <1>2 DEF Answering
<1> QED
  BY <1>1, <1>3, ThroughType DEF rest

LEMMA JobManagerStep ==
  ASSUME TypeInv, JobInv, ManagerStep
  PROVE  JobInv'
<1>1. /\ OnlyThread(Manager) /\ Manager \in Threads /\ Manager \notin Storers
      /\ thread \in [Threads -> ThreadData] /\ thread[Manager] \in ThreadData
      /\ JobFits(Manager, thread[Manager])
  BY ThreadSets, ManagerStepIsOneThreads, Typed DEF TypeInv, JobInv
<1>2. ASSUME ToNextId, thread[Manager].pc \in ManagerWork PROVE JobInv'
  BY <1>1, <1>2, ThroughAnId, OneJob DEF JobFits, ManagerWork
<1>3. ASSUME NEW step, Goto(Manager, step), thread[Manager].pc # "send",
             \/ At(Manager, "connect") /\ step = "find"
             \/ step \in {"free", "erase"} /\ thread[Manager].op = "delete"
      PROVE  JobInv'
  <2>1. thread'[Manager].pc = step /\ thread'[Manager].op = thread[Manager].op
        /\ thread'[Manager].packet = thread[Manager].packet
    BY <1>1, <1>3 DEF Goto, ThreadData
  <2> QED
    BY <1>1, <1>3, <2>1, OneJob DEF JobFits, At, ManagerWork
<1>4. ASSUME ReceiveFromManager PROVE JobInv'
  <2>1. PICK r \in Requests[Manager] :
          thread' = [ thread EXCEPT ![Manager] =
               [ IdleThread EXCEPT !.pc = FirstStep(r.op), !.op = r.op, !.ids = r.ids ] ]
    BY <1>4 DEF ReceiveFromManager
  <2> DEFINE s == [ IdleThread EXCEPT !.pc = FirstStep(r.op), !.op = r.op, !.ids = r.ids ]
  <2>2. s.pc = FirstStep(r.op) /\ s.op = r.op /\ s.packet = {}
    BY DEF IdleThread, FirstStep
  <2>3. r.op \in {"replay", "delete"}
    BY <1>1 DEF Requests
  <2> HIDE DEF s
  <2>4. thread'[Manager] = s
    BY <1>1, <2>1 DEF s
  <2> QED
    BY <1>1, <2>2, <2>3, <2>4, OneJob DEF JobFits, FirstStep, ManagerWork
<1>5. ASSUME ConnectToDestMb PROVE JobInv'
  <2>1. thread[Manager].pc = "connect"
    BY <1>5 DEF ConnectToDestMb, At
  <2>2. CASE thread' = [ thread EXCEPT ![Manager] = Answering(Manager) ]
    <3>1. thread'[Manager] = Answering(Manager)
      BY <1>1, <2>2
    <3> QED
      BY <1>1, <2>1, <3>1, OneJob DEF JobFits, Answering, ManagerWork
  <2> QED
    BY <1>3, <1>5, <2>1, <2>2 DEF ConnectToDestMb
<1>6. ASSUME FindPacket PROVE JobInv'
  <2> DEFINE a == packetsVersions[BaseOf(Current(Manager))]
  <2>1. CASE thread' = [ thread EXCEPT ![Manager].pc = "lock", ![Manager].ptr = a ]
    <3>1. /\ thread[Manager].pc = "find" /\ thread'[Manager].pc = "lock"
          /\ thread'[Manager].op = thread[Manager].op
          /\ thread'[Manager].packet = thread[Manager].packet
      BY <1>1, <1>6, <2>1 DEF FindPacket, At, ThreadData
    <3> QED
      BY <1>1, <3>1, OneJob DEF JobFits, ManagerWork
  <2> QED
    BY <1>2, <1>6, <2>1 DEF FindPacket, At, ManagerWork
<1>7. ASSUME CopyPacket PROVE JobInv'
  <2> DEFINE packet == FirstSorted(Pointee(Manager).packet_versions,
                                   Smaller(VersionOf(Current(Manager)), Pointee(Manager).index))
  <2>1. CASE packet # {} /\ thread' = [ thread EXCEPT ![Manager].pc = "send",
                                          ![Manager].packet = packet, ![Manager].ptr = Null ]
    <3> HIDE DEF packet
    <3>1. /\ thread[Manager].op = "replay" /\ thread'[Manager].pc = "send"
          /\ thread'[Manager].op = thread[Manager].op
          /\ thread'[Manager].packet = packet
      BY <1>1, <1>7, <2>1 DEF CopyPacket, Doing, ThreadData
    <3> QED
      BY <1>1, <2>1, <3>1, OneJob DEF JobFits, ManagerWork
  <2> QED
    BY <1>2, <1>7, <2>1 DEF CopyPacket, At, ManagerWork
<1>8. ASSUME FreeVersions \/ FreePacket PROVE JobInv'
  BY <1>1, <1>3, <1>8 DEF FreeVersions, FreePacket, Doing, At, JobFits
<1> QED
  BY <1>2, <1>4, <1>5, <1>6, <1>7, <1>8
  DEF ManagerStep, ReplayStep, DeleteStep, SendMsgToDstMb, RefusePartial, ErasePacket, At,
      ManagerWork

\* Only three steps change what is stored of a base.
LEMMA SameVersions ==
  ASSUME ManagerWaits, TypeInv, TypeInv', MemoryInv, Next, ~FreeVersions, ~FreePacket,
         \A v \in Storers : ~AddPacketVersion(v)
  PROVE  \A b \in Bases : VersionsIn(b)' = VersionsIn(b)
<1>1. ASSUME heap' = heap, packetsVersions' = packetsVersions
      PROVE  \A b \in Bases : VersionsIn(b)' = VersionsIn(b)
  BY <1>1 DEF VersionsIn
<1>2. ASSUME NEW v \in Storers, StoreStep(v)
      PROVE  \A b \in Bases : VersionsIn(b)' = VersionsIn(b)
  BY <1>1, <1>2, MemoryGetOrCreate DEF StoreStep, ReceiveStore
<1>3. ASSUME At(Manager, "work"), UnlockPacket(Manager), UNCHANGED packetsVersions
      PROVE  \A b \in Bases : VersionsIn(b)' = VersionsIn(b)
  BY <1>3, ThreadSets, UnlockKeepsContents, KeepsContents DEF At, TypeInv, ThreadInv
<1>4. ASSUME ManagerStep
      PROVE  \A b \in Bases : VersionsIn(b)' = VersionsIn(b)
  BY <1>1, <1>3, <1>4, MemoryErasePacket
  DEF ManagerStep, ReplayStep, DeleteStep, ReceiveFromManager, FindPacket, ConnectToDestMb,
      CopyPacket, SendMsgToDstMb, RefusePartial
<1>5. ASSUME NEW t \in Threads, LockPacket(t) \/ SendAnswer(t)
      PROVE  \A b \in Bases : VersionsIn(b)' = VersionsIn(b)
  BY <1>1, <1>5, LockStepKeepsContents, KeepsContents DEF SendAnswer
<1> QED
  BY <1>2, <1>4, <1>5 DEF Next

\* A thread that stores goes through its steps in order.
LEMMA StoreSteps ==
  ASSUME TypeInv, Next, NEW v \in Storers,
         thread'[v].pc \in {"create", "lock", "work"}
  PROVE  \/ requested'[v] = requested[v] /\ thread[v].pc \in {"create", "lock", "work"}
         \/ requested'[v] = requested[v] + 1
<1>1. v \in Threads /\ v # Manager
  BY ThreadSets
<1>2. ASSUME NEW w \in Storers, StoreStep(w)
      PROVE  \/ requested'[v] = requested[v] /\ thread[v].pc \in {"create", "lock", "work"}
             \/ requested'[v] = requested[v] + 1
  <2>1. CASE w # v
    BY <1>1, <1>2, <2>1, StoreStepIsOneThreads
    DEF OnlyThread, StoreStep, ReceiveStore, GetOrCreateServerProgressData, AddPacketVersion,
        TypeInv, TypeOK
  <2>2. CASE w = v
    BY <1>2, <2>2
    DEF StoreStep, ReceiveStore, GetOrCreateServerProgressData, AddPacketVersion, At, TypeInv,
        TypeOK
  <2> QED
    BY <2>1, <2>2
<1>3. ASSUME ManagerStep
      PROVE  requested'[v] = requested[v] /\ thread'[v] = thread[v]
  BY <1>1, <1>3, ManagerStepIsOneThreads
  DEF OnlyThread, ManagerStep, ReplayStep, DeleteStep, ReceiveFromManager, FindPacket,
      ConnectToDestMb, CopyPacket, SendMsgToDstMb, RefusePartial, FreeVersions, FreePacket,
      ErasePacket
<1>4. ASSUME NEW t \in Threads, LockPacket(t) \/ SendAnswer(t)
      PROVE  requested'[v] = requested[v] /\ thread[v].pc \in {"create", "lock", "work"}
  <2>1. requested' = requested
    BY <1>4 DEF LockPacket, SendAnswer
  <2>2. CASE t # v
    BY <1>1, <1>4, <2>1, <2>2, ThreadStepIsOneThreads DEF OnlyThread
  <2>3. CASE t = v
    <3>1. CASE SendAnswer(v)
      BY <1>1, <3>1, Typed DEF SendAnswer, IdleThread, TypeInv
    <3> QED
      BY <1>4, <2>1, <2>3, <3>1 DEF LockPacket, At
  <2> QED
    BY <2>2, <2>3
<1> QED
  BY <1>2, <1>3, <1>4 DEF Next

\* Requests are only counted up.
LEMMA RequestedGrows ==
  ASSUME TypeInv, Next, NEW v \in Storers
  PROVE  requested[v] \in Nat /\ requested'[v] \in {requested[v], requested[v] + 1}
<1>1. requested \in [Storers -> 0..NumBases]
  BY DEF TypeInv, TypeOK
<1>2. \/ requested' = requested
      \/ \E w \in Storers : requested' = [ requested EXCEPT ![w] = @ + 1 ]
  BY DEF Next, StoreStep, ManagerStep, ReplayStep, DeleteStep, ReceiveStore,
         GetOrCreateServerProgressData, AddPacketVersion, ReceiveFromManager, FindPacket,
         ConnectToDestMb, CopyPacket, SendMsgToDstMb, RefusePartial, FreeVersions, FreePacket,
         ErasePacket, LockPacket, SendAnswer
<1> QED
  BY <1>1, <1>2

LEMMA StoredOnceNext ==
  ASSUME ManagerWaits, TypeInv, TypeInv', MemoryInv, StoredOnce, Next
  PROVE  StoredOnce'
<1> SUFFICES ASSUME NEW b \in Bases, NEW v \in Storers, <<b, v>> \in VersionsIn(b)'
             PROVE  /\ b <= requested'[v]
                    /\ thread'[v].pc \in {"create", "lock", "work"} => b # requested'[v]
  BY DEF StoredOnce
<1>1. requested[v] \in Nat /\ requested'[v] \in {requested[v], requested[v] + 1} /\ b \in Nat
  BY RequestedGrows DEF Bases
<1>2. CASE <<b, v>> \in VersionsIn(b)
  BY <1>1, <1>2, StoreSteps DEF StoredOnce
<1>3. CASE <<b, v>> \notin VersionsIn(b)
  <2>1. PICK w \in Storers : AddPacketVersion(w)
    BY <1>3, SameVersions, MemoryFreeVersions, MemoryFreePacket
  <2>2. b = requested[w] /\ w = v
    BY <1>3, <2>1, MemoryAddPacketVersion
  <2>3. thread'[v] = Answering(v) /\ requested' = requested
    BY <2>1, <2>2, ThreadSets, Typed DEF AddPacketVersion, TypeInv
  <2> QED
    BY <1>1, <2>2, <2>3 DEF Answering
<1> QED
  BY <1>2, <1>3

LEMMA EmptiedNext ==
  ASSUME ManagerWaits, TypeInv, TypeInv', MemoryInv, MemoryInv', Emptied, Next
  PROVE  Emptied'
<1> SUFFICES ASSUME NEW b \in Bases, Going(b)' PROVE VersionsIn(b)' = {}
  BY DEF Emptied
<1>1. CASE FreeVersions
  <2>1. Current(Manager)' = Current(Manager)
    BY <1>1, Typed, ThreadSets DEF FreeVersions, Goto, Current, TypeInv, ThreadData
  <2>2. b = BaseOf(Current(Manager))
    BY <2>1 DEF Going, BaseOf
  <2> QED
    BY <1>1, <2>2, MemoryFreeVersions
<1>2. CASE ~FreeVersions
  <2>1. thread'[Manager] = thread[Manager]
    <3>1. thread'[Manager].pc = "free"
      BY DEF Going, At
    <3>2. ASSUME ManagerStep PROVE FALSE
      <4>1. ASSUME ToNextId, thread[Manager].pc \in ManagerWork PROVE FALSE
        BY <3>1, <4>1, ThroughAnId
      <4>2. thread \in [Threads -> ThreadData] /\ Manager \in Threads
            /\ thread[Manager] \in ThreadData
        BY Typed, ThreadSets DEF TypeInv
      <4>3. ~ReceiveFromManager
        BY <3>1, <4>2 DEF ReceiveFromManager, IdleThread, FirstStep
      <4>4. ~ConnectToDestMb
        BY <3>1, <4>2 DEF ConnectToDestMb, Goto, Answering, ThreadData
      <4>5. ~FindPacket
        BY <3>1, <4>1, <4>2 DEF FindPacket, At, ManagerWork, ThreadData
      <4>6. ~CopyPacket
        <5> DEFINE packet == FirstSorted(Pointee(Manager).packet_versions,
                               Smaller(VersionOf(Current(Manager)), Pointee(Manager).index))
        <5>1. ~(thread' = [ thread EXCEPT ![Manager].pc = "send", ![Manager].packet = packet,
                                          ![Manager].ptr = Null ])
          <6> HIDE DEF packet
          <6> QED
            BY <3>1, <4>2 DEF ThreadData
        <5> QED
          BY <4>1, <5>1 DEF CopyPacket, At, ManagerWork
      <4>7. ~FreePacket
        BY <3>1, <4>2 DEF FreePacket, Goto, ThreadData
      <4> QED
        BY <1>2, <3>2, <4>1, <4>3, <4>4, <4>5, <4>6, <4>7
        DEF ManagerStep, ReplayStep, DeleteStep, SendMsgToDstMb, RefusePartial, ErasePacket, At,
            ManagerWork
    <3>3. ASSUME NEW t \in Threads, LockPacket(t) \/ SendAnswer(t), t = Manager PROVE FALSE
      BY <3>1, <3>3, Typed DEF LockPacket, SendAnswer, Goto, IdleThread, TypeInv, ThreadData
    <3> QED
      BY <3>2, <3>3, ThreadSets, StoreStepIsOneThreads, ThreadStepIsOneThreads
      DEF Next, OnlyThread
  <2>2. Going(b)
    BY <2>1 DEF Going, At, Current, BaseOf
  <2>3. VersionsIn(b) = {}
    BY <2>2 DEF Emptied
  <2>4. ~FreePacket
    BY <2>1, Typed, ThreadSets DEF FreePacket, Goto, At, TypeInv, ThreadData
  <2>5. ASSUME NEW v \in Storers, AddPacketVersion(v) PROVE VersionsIn(b)' = {}
    <3>1. b \in deleted
      BY <2>2 DEF MemoryInv, ManagerWaited, Going, At
    <3>2. requested[v] # b
      BY <2>5, <3>1, StorersPacketStays DEF AddPacketVersion, At
    <3> QED
      BY <2>3, <2>5, <3>2, MemoryAddPacketVersion
  <2> QED
    BY <1>2, <2>3, <2>4, <2>5, SameVersions
<1> QED
  BY <1>1, <1>2

\* How often the versions of a packet are counted.
CountedOnce(s) == IsFiniteSet(Elements(s)) /\ Cardinality(Elements(s)) = Len(s)

LEMMA NoneCounted == CountedOnce(<<>>)
BY EmptyElements, FS_EmptySet DEF CountedOnce

LEMMA OneMoreCounted ==
  ASSUME NEW s \in Seq(PacketIds), NEW id \in PacketIds, CountedOnce(s), id \notin Elements(s)
  PROVE  CountedOnce(Append(s, id))
<1> DEFINE S == Elements(s)
<1>1. Elements(Append(s, id)) = S \union {id} /\ Len(Append(s, id)) = Len(s) + 1
  BY AppendElements, AppendProperties
<1>2. IsFiniteSet(S) /\ Cardinality(S) = Len(s) /\ id \notin S
  BY DEF CountedOnce
<1> HIDE DEF S
<1>3. IsFiniteSet(S \union {id}) /\ Cardinality(S \union {id}) = Cardinality(S) + 1
  BY <1>2, FS_AddElement
<1> QED
  BY <1>1, <1>2, <1>3 DEF CountedOnce

LEMMA CountedOne ==
  ASSUME TypeInv, Counted, NEW a \in Addresses, NEW p, heap' = [ heap EXCEPT ![a] = p ],
         CountedOnce(p.packet_versions)
  PROVE  Counted'
<1>1. \A c \in Addresses : heap'[c] = IF c = a THEN p ELSE heap[c]
  BY DEF TypeInv, TypeOK
<1>2. \A c \in Addresses : CountedOnce(heap'[c].packet_versions)
  BY <1>1 DEF Counted, CountedOnce
<1> QED
  BY <1>2 DEF Counted, CountedOnce, Elements

LEMMA CountedSame ==
  ASSUME Counted, \A a \in Addresses : heap'[a].packet_versions = heap[a].packet_versions
  PROVE  Counted'
BY DEF Counted, Elements

LEMMA CountedNext ==
  ASSUME TypeInv, MemoryInv, StoredOnce, Counted, Next
  PROVE  Counted'
<1>1. CASE heap' = heap
  BY <1>1, CountedSame
<1>2. ASSUME NEW v \in Storers, GetOrCreateServerProgressData(v), heap' # heap
      PROVE  Counted'
  <2> DEFINE p == NewPacket(BaseOf(Current(v)))
  <2>1. PICK a \in Addresses : heap' = [ heap EXCEPT ![a] = p ]
    BY <1>2, Zenon DEF GetOrCreateServerProgressData
  <2>2. CountedOnce(p.packet_versions)
    BY NoneCounted DEF NewPacket
  <2> HIDE DEF p
  <2> QED
    BY <2>1, <2>2, CountedOne
<1>3. ASSUME NEW v \in Storers, AddPacketVersion(v)
      PROVE  Counted'
  <2> DEFINE a == thread[v].ptr
             q == heap[a]
             id == Current(v)
             index == heap[a].index + 1
             p == WithVersion(q, id, index)
             s == q.packet_versions
  <2>1. thread[v].pc = "work" /\ v \in Threads
    BY <1>3, ThreadSets DEF AddPacketVersion, At
  <2>2. /\ a \in Addresses /\ q \in PacketData /\ id \in PacketIds
        /\ id = <<requested[v], v>> /\ BaseOf(id) = requested[v] /\ requested[v] \in Bases
        /\ VersionsIn(BaseOf(id)) = Elements(s) /\ s \in Seq(PacketIds)
    BY <2>1, WorksInMap, CurrentId DEF PacketData
  <2>3. heap' = [ heap EXCEPT ![a] = p ]
    BY <1>3, <2>2, InitialData DEF AddPacketVersion, Pointee
  <2>4. id \notin Elements(s)
    BY <2>1, <2>2 DEF StoredOnce
  <2>5. CountedOnce(s)
    BY <2>2 DEF Counted, CountedOnce
  <2>6. p.packet_versions = Append(s, id)
    BY DEF WithVersion
  <2> HIDE DEF p, s, q, index, id, a
  <2> QED
    BY <2>2, <2>3, <2>4, <2>5, <2>6, OneMoreCounted, CountedOne
<1>4. ASSUME At(Manager, "work"), UnlockPacket(Manager), UNCHANGED packetsVersions
      PROVE  Counted'
  BY <1>4, ThreadSets, UnlockKeepsContents, CountedSame
  DEF At, SameContents, TypeInv, ThreadInv
<1>5. ASSUME FreeVersions PROVE Counted'
  <2> DEFINE a == thread[Manager].ptr
             p == [ base |-> heap[a].base, packet_versions |-> <<>>, index |-> heap[a].index,
                    lock |-> {} ]
  <2>1. a \in Addresses /\ heap' = [ heap EXCEPT ![a] = p ]
    BY <1>5, ThreadSets DEF FreeVersions, At, TypeInv, ThreadInv
  <2>2. CountedOnce(p.packet_versions)
    BY NoneCounted
  <2> HIDE DEF p, a
  <2> QED
    BY <2>1, <2>2, CountedOne
<1>6. ASSUME FreePacket PROVE Counted'
  <2>1. CountedOnce(Freed.packet_versions)
    BY InitialData, NoneCounted
  <2>2. thread[Manager].ptr \in Addresses
    BY <1>6, ThreadSets DEF FreePacket, At, TypeInv, ThreadInv
  <2> QED
    BY <1>6, <2>1, <2>2, CountedOne DEF FreePacket
<1>7. ASSUME NEW v \in Storers, StoreStep(v) PROVE Counted'
  BY <1>1, <1>2, <1>3, <1>7 DEF StoreStep, ReceiveStore
<1>8. ASSUME ManagerStep PROVE Counted'
  BY <1>1, <1>4, <1>5, <1>6, <1>8
  DEF ManagerStep, ReplayStep, DeleteStep, ReceiveFromManager, FindPacket, ConnectToDestMb,
      CopyPacket, SendMsgToDstMb, RefusePartial, ErasePacket
<1>9. ASSUME NEW t \in Threads, LockPacket(t) \/ SendAnswer(t) PROVE Counted'
  BY <1>1, <1>9, LockStepKeepsContents, CountedSame DEF SendAnswer, SameContents
<1> QED
  BY <1>7, <1>8, <1>9 DEF Next

LEMMA StoreInvInit == Init => StoreInv
<1> SUFFICES ASSUME Init PROVE StoreInv
  OBVIOUS
<1>1. \A t \in Threads : thread[t] = IdleThread
  BY DEF Init
<1>2. JobInv
  BY <1>1 DEF JobInv, JobFits, IdleThread, ManagerWork
<1>3. \A b \in Bases : VersionsIn(b) = {}
  BY DEF Init, VersionsIn
<1>4. Counted
  BY InitialData, NoneCounted DEF Init, Counted, CountedOnce
<1> QED
  BY <1>2, <1>3, <1>4 DEF StoreInv, StoredOnce, Emptied

LEMMA StoreInvNext ==
  ManagerWaits =>
    (TypeInv /\ TypeInv' /\ MemoryInv /\ MemoryInv' /\ StoreInv /\ [Next]_vars => StoreInv')
<1> SUFFICES ASSUME ManagerWaits, TypeInv, TypeInv', MemoryInv, MemoryInv', StoreInv, [Next]_vars
             PROVE  StoreInv'
  OBVIOUS
<1>1. JobInv /\ StoredOnce /\ Counted /\ Emptied
  BY DEF StoreInv
<1>2. CASE Next
  <2>1. JobInv'
    BY <1>1, <1>2, JobStoreStep, JobManagerStep, JobThreadStep DEF Next
  <2>2. StoredOnce' /\ Counted' /\ Emptied'
    BY <1>1, <1>2, StoredOnceNext, CountedNext, EmptiedNext
  <2> QED
    BY <2>1, <2>2 DEF StoreInv
<1>3. CASE UNCHANGED vars
  <2>1. \A b \in Bases : VersionsIn(b)' = VersionsIn(b) /\ (Going(b)' <=> Going(b))
    BY <1>3 DEF vars, VersionsIn, Going, At, Current, BaseOf
  <2>2. JobInv'
    BY <1>1, <1>3 DEF vars, JobInv, JobFits
  <2>3. Counted'
    BY <1>1, <1>3, CountedSame DEF vars
  <2>4. StoredOnce' /\ Emptied'
    BY <1>1, <1>3, <2>1 DEF vars, StoredOnce, Emptied
  <2> QED
    BY <2>2, <2>3, <2>4 DEF StoreInv
<1> QED
  BY <1>2, <1>3

-----------------------------------------------------------------------------
(* PacketStore: the job and the stored ids it sees, and its actions.         *)

SeenStored == UNION { VersionsIn(b) : b \in Bases }
SeenJobs == [ t \in Threads |-> Job(t) ]
JobIs(op, ids, packet) == [ op |-> op, ids |-> ids, packet |-> packet ]

LEMMA StoreVars == Store!vars = << SeenStored, SeenJobs >>
BY DEF Store!vars, SeenStored, SeenJobs, Job

\* One field of the job of one thread changes.
LEMMA ChangedPacket ==
  ASSUME NEW t \in Threads, NEW p
  PROVE  [ SeenJobs EXCEPT ![t].packet = p ]
           = [ SeenJobs EXCEPT ![t] = JobIs(SeenJobs[t].op, SeenJobs[t].ids, p) ]
<1>1. PICK x : x = SeenJobs[t]
  OBVIOUS
<1> DEFINE R == [ op : {x.op}, ids : {x.ids}, packet : {x.packet, p} ]
           y == [ x EXCEPT !.packet = p ]
<1>2. x \in R
  BY <1>1 DEF SeenJobs, Job
<1>3. \A z \in R : z = JobIs(z.op, z.ids, z.packet)
  BY DEF JobIs
<1>4. y \in R /\ y.op = x.op /\ y.ids = x.ids /\ y.packet = p
  BY <1>2
<1>5. [ SeenJobs EXCEPT ![t].packet = p ] = [ SeenJobs EXCEPT ![t] = y ]
  BY <1>1 DEF SeenJobs
<1> HIDE DEF y, R
<1>6. y = JobIs(x.op, x.ids, p)
  BY <1>3, <1>4
<1> QED
  BY <1>1, <1>5, <1>6

LEMMA ChangedIds ==
  ASSUME NEW t \in Threads, NEW i
  PROVE  [ SeenJobs EXCEPT ![t].ids = i ]
           = [ SeenJobs EXCEPT ![t] = JobIs(SeenJobs[t].op, i, SeenJobs[t].packet) ]
<1>1. PICK x : x = SeenJobs[t]
  OBVIOUS
<1> DEFINE R == [ op : {x.op}, ids : {x.ids, i}, packet : {x.packet} ]
           y == [ x EXCEPT !.ids = i ]
<1>2. x \in R
  BY <1>1 DEF SeenJobs, Job
<1>3. \A z \in R : z = JobIs(z.op, z.ids, z.packet)
  BY DEF JobIs
<1>4. y \in R /\ y.op = x.op /\ y.ids = i /\ y.packet = x.packet
  BY <1>2
<1>5. [ SeenJobs EXCEPT ![t].ids = i ] = [ SeenJobs EXCEPT ![t] = y ]
  BY <1>1 DEF SeenJobs
<1> HIDE DEF y, R
<1>6. y = JobIs(x.op, i, x.packet)
  BY <1>3, <1>4
<1> QED
  BY <1>1, <1>5, <1>6

\* What the job of a thread becomes; the others keep theirs.
Becomes(t, op, ids, packet) == SeenJobs' = [ SeenJobs EXCEPT ![t] = JobIs(op, ids, packet) ]

\* The parts of the actions of PacketStore, said of this module's state.
LEMMA StoreParts ==
  ASSUME NEW t \in Threads
  PROVE  /\ \A op : Store!Doing(t, op) <=> SeenJobs[t].op = op /\ SeenJobs[t].ids # <<>>
         /\ Store!Current(t) = Head(SeenJobs[t].ids)
         /\ Store!Done(t) <=> Becomes(t, SeenJobs[t].op, Tail(SeenJobs[t].ids), {})
         /\ Store!Idle = JobIs("none", <<>>, {})
         /\ \A b : Store!VersionsOf(b) = { id \in SeenStored : BaseOf(id) = b }
<1>1. Store!Done(t) <=>
        SeenJobs' = [ SeenJobs EXCEPT ![t].ids = Tail(SeenJobs[t].ids), ![t].packet = {} ]
  BY DEF Store!Done, SeenJobs, Job
<1>2. Store!Done(t) <=> Becomes(t, SeenJobs[t].op, Tail(SeenJobs[t].ids), {})
  <2> DEFINE i == Tail(SeenJobs[t].ids)
  <2>1. PICK x : x = SeenJobs[t]
    OBVIOUS
  <2> DEFINE R == [ op : {x.op}, ids : {x.ids, i}, packet : {x.packet, {}} ]
             y == [ x EXCEPT !.ids = i, !.packet = {} ]
  <2>2. x \in R
    BY <2>1 DEF SeenJobs, Job
  <2>3. \A z \in R : z = JobIs(z.op, z.ids, z.packet)
    BY DEF JobIs
  <2>4. y \in R /\ y.op = x.op /\ y.ids = i /\ y.packet = {}
    BY <2>2
  <2>5. [ SeenJobs EXCEPT ![t].ids = i, ![t].packet = {} ] = [ SeenJobs EXCEPT ![t] = y ]
    BY <2>1 DEF SeenJobs
  <2> HIDE DEF y, R
  <2>6. y = JobIs(x.op, i, {})
    BY <2>3, <2>4
  <2> QED
    BY <1>1, <2>1, <2>5, <2>6 DEF Becomes
<1>3. \A op : Store!Doing(t, op) <=> SeenJobs[t].op = op /\ SeenJobs[t].ids # <<>>
  BY DEF Store!Doing, SeenJobs, Job
<1>4. Store!Current(t) = Head(SeenJobs[t].ids)
  BY DEF Store!Current, SeenJobs, Job
<1>5. Store!Idle = JobIs("none", <<>>, {})
  BY DEF Store!Idle, JobIs
<1>6. \A b : Store!VersionsOf(b) = { id \in SeenStored : BaseOf(id) = b }
  BY DEF Store!VersionsOf, SeenStored, Store!BaseOf, BaseOf
<1> QED
  BY <1>2, <1>3, <1>4, <1>5, <1>6

\* When a step is one of PacketStore's.
LEMMA StoreArrive ==
  ASSUME NEW t \in Threads, SeenJobs[t] = JobIs("none", <<>>, {}), SeenStored' = SeenStored,
         NEW r \in Requests[t], Becomes(t, r.op, r.ids, {})
  PROVE  Store!Next
<1>1. SeenJobs' = [ SeenJobs EXCEPT ![t].op = r.op, ![t].ids = r.ids ]
  <2>1. PICK x : x = SeenJobs[t]
    OBVIOUS
  <2> DEFINE R == [ op : {x.op, r.op}, ids : {x.ids, r.ids}, packet : {{}} ]
             y == [ x EXCEPT !.op = r.op, !.ids = r.ids ]
  <2>2. x \in R
    BY <2>1 DEF JobIs
  <2>3. \A z \in R : z = JobIs(z.op, z.ids, z.packet)
    BY DEF JobIs
  <2>4. y \in R /\ y.op = r.op /\ y.ids = r.ids /\ y.packet = {}
    BY <2>2
  <2>5. [ SeenJobs EXCEPT ![t].op = r.op, ![t].ids = r.ids ] = [ SeenJobs EXCEPT ![t] = y ]
    BY <2>1 DEF SeenJobs
  <2> HIDE DEF y, R
  <2>6. y = JobIs(r.op, r.ids, {})
    BY <2>3, <2>4
  <2> QED
    BY <2>1, <2>5, <2>6 DEF Becomes
<1>2. Store!Arrive(t)
  BY <1>1, StoreParts DEF Store!Arrive, SeenStored, SeenJobs, Job
<1> QED
  BY <1>2 DEF Store!Next

LEMMA StoreStore ==
  ASSUME NEW t \in Threads, SeenJobs[t].op = "store", SeenJobs[t].ids # <<>>,
         SeenStored' = SeenStored \union {Head(SeenJobs[t].ids)},
         Becomes(t, SeenJobs[t].op, Tail(SeenJobs[t].ids), {})
  PROVE  Store!Next
<1>1. Store!Store(t)
  BY StoreParts DEF Store!Store, SeenStored
<1> QED
  BY <1>1 DEF Store!Next

LEMMA StoreRebuild ==
  ASSUME NEW t \in Threads, SeenJobs[t].op = "replay", SeenJobs[t].ids # <<>>,
         SeenJobs[t].packet = {}, SeenStored' = SeenStored,
         Store!Rebuilt(Head(SeenJobs[t].ids)) # {},
         Becomes(t, SeenJobs[t].op, SeenJobs[t].ids, Store!Rebuilt(Head(SeenJobs[t].ids)))
  PROVE  Store!Next
<1> DEFINE p == Store!Rebuilt(Head(SeenJobs[t].ids))
<1>1. SeenJobs' = [ SeenJobs EXCEPT ![t].packet = p ]
  BY ChangedPacket DEF Becomes
<1> HIDE DEF p
<1>2. Store!Rebuilt(Store!Current(t)) = p
  BY StoreParts DEF p
<1>3. Store!Rebuild(t)
  BY <1>1, <1>2, StoreParts DEF Store!Rebuild, SeenStored, SeenJobs, Job, p
<1> QED
  BY <1>3 DEF Store!Next

LEMMA StoreSend ==
  ASSUME NEW t \in Threads, SeenJobs[t].op = "replay", SeenJobs[t].ids # <<>>,
         SeenJobs[t].packet # {}, SeenStored' = SeenStored,
         Becomes(t, SeenJobs[t].op, Tail(SeenJobs[t].ids), {})
  PROVE  Store!Next
<1>1. Store!Send(t)
  BY StoreParts DEF Store!Send, SeenStored, SeenJobs, Job
<1> QED
  BY <1>1 DEF Store!Next

LEMMA StoreSkip ==
  ASSUME NEW t \in Threads, SeenJobs[t].op = "replay", SeenJobs[t].ids # <<>>,
         SeenStored' = SeenStored, Store!Rebuilt(Head(SeenJobs[t].ids)) = {},
         Becomes(t, SeenJobs[t].op, Tail(SeenJobs[t].ids), {})
  PROVE  Store!Next
<1>1. Store!Rebuilt(Store!Current(t)) = {}
  BY StoreParts
<1>2. Store!Skip(t)
  BY <1>1, StoreParts DEF Store!Skip, SeenStored
<1> QED
  BY <1>2 DEF Store!Next

LEMMA StoreRefuse ==
  ASSUME NEW t \in Threads, SeenJobs[t].op = "replay", SeenJobs[t].ids # <<>>,
         SeenJobs[t].packet = {}, SeenStored' = SeenStored,
         Becomes(t, SeenJobs[t].op, <<>>, {})
  PROVE  Store!Next
<1>1. SeenJobs' = [ SeenJobs EXCEPT ![t].ids = <<>> ]
  BY ChangedIds DEF Becomes
<1>2. Store!Refuse(t)
  BY <1>1, StoreParts DEF Store!Refuse, SeenStored, SeenJobs, Job
<1> QED
  BY <1>2 DEF Store!Next

LEMMA StoreDelete ==
  ASSUME NEW t \in Threads, SeenJobs[t].op = "delete", SeenJobs[t].ids # <<>>,
         NEW all, all = { id \in SeenStored : BaseOf(id) = BaseOf(Head(SeenJobs[t].ids)) },
         \/ VersionOf(Head(SeenJobs[t].ids)) < Cardinality(all) /\ SeenStored' = SeenStored
         \/ /\ ~(VersionOf(Head(SeenJobs[t].ids)) < Cardinality(all))
            /\ SeenStored' = SeenStored \ all,
         Becomes(t, SeenJobs[t].op, Tail(SeenJobs[t].ids), {})
  PROVE  Store!Next
<1>1. Store!VersionsOf(Store!BaseOf(Store!Current(t))) = all
  BY StoreParts DEF Store!BaseOf, BaseOf
<1>2. Store!VersionOf(Store!Current(t)) = VersionOf(Head(SeenJobs[t].ids))
  BY StoreParts DEF Store!VersionOf, VersionOf
<1>3. \A S : Store!Cardinality(S) = Cardinality(S)
  BY DEF Store!Cardinality, Cardinality
<1>4. Store!Delete(t) <=>
        /\ Store!Doing(t, "delete") /\ Store!Done(t)
        /\ SeenStored' = IF VersionOf(Head(SeenJobs[t].ids)) < Cardinality(all)
                         THEN SeenStored ELSE SeenStored \ all
  BY <1>1, <1>2, <1>3 DEF Store!Delete, SeenStored
<1>5. Store!Delete(t)
  BY <1>4, StoreParts
<1> QED
  BY <1>5 DEF Store!Next

LEMMA StoreReturn ==
  ASSUME NEW t \in Threads, SeenJobs[t].op # "none", SeenJobs[t].ids = <<>>,
         SeenStored' = SeenStored, Becomes(t, "none", <<>>, {})
  PROVE  Store!Next
<1>1. Store!Return(t)
  BY StoreParts DEF Store!Return, SeenStored, SeenJobs, Job, Becomes
<1> QED
  BY <1>1 DEF Store!Next

\* What is stored of a base is what PacketStore takes for its versions.
LEMMA StoredOf ==
  ASSUME TypeInv, OwnVersions, NEW b \in Bases
  PROVE  { id \in SeenStored : BaseOf(id) = b } = VersionsIn(b)
<1>1. ASSUME NEW c \in Bases, NEW id \in VersionsIn(c) PROVE BaseOf(id) = c
  BY <1>1 DEF VersionsIn, OwnVersions, TypeInv, TypeOK
<1> QED
  BY <1>1 DEF SeenStored

LEMMA SeenSame ==
  ASSUME \A b \in Bases : VersionsIn(b)' = VersionsIn(b)
  PROVE  SeenStored' = SeenStored
BY DEF SeenStored

LEMMA JobFields ==
  ASSUME NEW t \in Threads
  PROVE  /\ SeenJobs[t] = JobIs(SeenJobs[t].op, SeenJobs[t].ids, SeenJobs[t].packet)
         /\ SeenJobs[t].op = thread[t].op
         /\ SeenJobs[t].packet = thread[t].packet
         /\ SeenJobs[t].ids = IF thread[t].pc \in {"free", "erase"} THEN Tail(thread[t].ids)
                                                                    ELSE thread[t].ids
BY DEF SeenJobs, Job, JobIs

\* The job of the thread that takes a step.
LEMMA OneJobBecomes ==
  ASSUME NEW t \in Threads, OnlyThread(t), NEW op, NEW ids, NEW packet,
         thread'[t].op = op, thread'[t].packet = packet,
         ids = IF thread'[t].pc \in {"free", "erase"} THEN Tail(thread'[t].ids)
                                                      ELSE thread'[t].ids
  PROVE  Becomes(t, op, ids, packet)
<1>1. \A u \in Threads : u # t => Job(u)' = Job(u)
  BY DEF OnlyThread, Job
<1>2. Job(t)' = JobIs(op, ids, packet)
  BY DEF Job, JobIs
<1> QED
  BY <1>1, <1>2 DEF Becomes, SeenJobs

\* A step PacketStore does not see.
LEMMA StoreStutters ==
  ASSUME NEW t \in Threads, \A b \in Bases : VersionsIn(b)' = VersionsIn(b),
         Becomes(t, SeenJobs[t].op, SeenJobs[t].ids, SeenJobs[t].packet)
  PROVE  Store!vars' = Store!vars
<1>1. SeenJobs[t] = JobIs(SeenJobs[t].op, SeenJobs[t].ids, SeenJobs[t].packet)
  BY JobFields
<1>2. SeenJobs' = SeenJobs
  BY <1>1 DEF SeenJobs, Becomes
<1>3. SeenStored' = SeenStored
  BY SeenSame
<1>4. Store!vars' = << SeenStored', SeenJobs' >>
  BY DEF Store!vars, SeenStored, SeenJobs, Job
<1> QED
  BY <1>2, <1>3, <1>4, StoreVars

\* Nothing that is stored changes.
SameStored == \A b \in Bases : VersionsIn(b)' = VersionsIn(b)

\* What PacketStore sees of each step: an action of its own, or nothing.
LEMMA SeesReceiveStore ==
  ASSUME TypeInv, JobInv, SameStored, NEW v \in Storers, ReceiveStore(v)
  PROVE  Store!Next
<1>1. /\ v \in Threads /\ v # Manager /\ OnlyThread(v) /\ JobFits(v, thread[v])
      /\ thread[v].pc = "idle" /\ thread \in [Threads -> ThreadData]
  BY ThreadSets, StoreStepIsOneThreads, Typed DEF StoreStep, JobInv, TypeInv, ReceiveStore, At
<1> DEFINE id == <<requested[v] + 1, v>>
           s == [ IdleThread EXCEPT !.pc = "create", !.op = "store", !.ids = <<id>> ]
           r == [ op |-> "store", ids |-> <<id>> ]
<1>2. SeenJobs[v] = JobIs("none", <<>>, {})
  BY <1>1, JobFields DEF JobFits
<1>3. s.pc = "create" /\ s.op = "store" /\ s.ids = <<id>> /\ s.packet = {}
  BY DEF IdleThread
<1>4. r \in Requests[v] /\ r.op = "store" /\ r.ids = <<id>>
  <2>1. requested[v] \in 0..NumBases /\ requested[v] < NumBases
    BY DEF TypeInv, TypeOK, ReceiveStore
  <2>2. id \in Bases \X {v}
    BY <2>1 DEF Bases
  <2> HIDE DEF id
  <2> QED
    BY <1>1, <2>2 DEF Requests
<1>5. thread'[v] = s
  BY <1>1 DEF ReceiveStore
<1> HIDE DEF s, r, id
<1>6. Becomes(v, r.op, r.ids, {})
  BY <1>1, <1>3, <1>4, <1>5, OneJobBecomes
<1> QED
  BY <1>1, <1>2, <1>4, <1>6, SeenSame, StoreArrive DEF SameStored

LEMMA SeesReceiveFromManager ==
  ASSUME TypeInv, JobInv, SameStored, ReceiveFromManager
  PROVE  Store!Next
<1>1. /\ Manager \in Threads /\ OnlyThread(Manager) /\ JobFits(Manager, thread[Manager])
      /\ thread[Manager].pc = "idle" /\ thread \in [Threads -> ThreadData]
  BY ThreadSets, ManagerStepIsOneThreads, Typed
  DEF ManagerStep, JobInv, TypeInv, ReceiveFromManager, At
<1>2. SeenJobs[Manager] = JobIs("none", <<>>, {})
  BY <1>1, JobFields DEF JobFits
<1>3. PICK r \in Requests[Manager] :
        thread' = [ thread EXCEPT ![Manager] =
             [ IdleThread EXCEPT !.pc = FirstStep(r.op), !.op = r.op, !.ids = r.ids ] ]
  BY DEF ReceiveFromManager
<1> DEFINE s == [ IdleThread EXCEPT !.pc = FirstStep(r.op), !.op = r.op, !.ids = r.ids ]
<1>4. s.pc \notin {"free", "erase"} /\ s.op = r.op /\ s.ids = r.ids /\ s.packet = {}
  BY DEF IdleThread, FirstStep
<1>5. thread'[Manager] = s
  BY <1>1, <1>3
<1> HIDE DEF s
<1>6. Becomes(Manager, r.op, r.ids, {})
  BY <1>1, <1>4, <1>5, OneJobBecomes
<1> QED
  BY <1>1, <1>2, <1>6, SeenSame, StoreArrive DEF SameStored

LEMMA SeesSendAnswer ==
  ASSUME TypeInv, JobInv, SameStored, NEW t \in Threads, SendAnswer(t)
  PROVE  Store!Next
<1>1. OnlyThread(t) /\ JobFits(t, thread[t]) /\ thread[t].pc = "answer"
      /\ thread'[t] = IdleThread
  BY ThreadStepIsOneThreads, Typed DEF JobInv, TypeInv, SendAnswer, At
<1>2. SeenJobs[t].op # "none" /\ SeenJobs[t].ids = <<>>
  BY <1>1, JobFields DEF JobFits
<1>3. /\ IdleThread.pc = "idle" /\ IdleThread.op = "none" /\ IdleThread.ids = <<>>
      /\ IdleThread.packet = {}
  BY DEF IdleThread
<1>4. Becomes(t, "none", <<>>, {})
  BY <1>1, <1>3, OneJobBecomes
<1> QED
  BY <1>2, <1>4, SeenSame, StoreReturn DEF SameStored

LEMMA SeesGetOrCreate ==
  ASSUME TypeInv, SameStored, NEW v \in Storers, GetOrCreateServerProgressData(v)
  PROVE  Store!vars' = Store!vars
<1>1. v \in Threads /\ OnlyThread(v) /\ thread[v] \in ThreadData
      /\ thread \in [Threads -> ThreadData]
  BY ThreadSets, StoreStepIsOneThreads, Typed DEF StoreStep, TypeInv
<1>2. PICK a : thread' = [ thread EXCEPT ![v].pc = "lock", ![v].ptr = a ]
  BY DEF GetOrCreateServerProgressData
<1>3. thread'[v].pc = "lock" /\ thread'[v].op = thread[v].op /\ thread'[v].ids = thread[v].ids
      /\ thread'[v].packet = thread[v].packet
  BY <1>1, <1>2 DEF ThreadData
<1>4. thread[v].pc = "create"
  BY DEF GetOrCreateServerProgressData, At
<1>5. Becomes(v, SeenJobs[v].op, SeenJobs[v].ids, SeenJobs[v].packet)
  BY <1>1, <1>3, <1>4, JobFields, OneJobBecomes
<1> QED
  BY <1>1, <1>5, StoreStutters DEF SameStored

\* A step that only goes on.
LEMMA SeesGoto ==
  ASSUME TypeInv, SameStored, NEW t \in Threads, OnlyThread(t), NEW step, Goto(t, step),
         step \in {"free", "erase"} <=> thread[t].pc \in {"free", "erase"}
  PROVE  Store!vars' = Store!vars
<1>1. thread'[t].pc = step /\ thread'[t].op = thread[t].op /\ thread'[t].ids = thread[t].ids
      /\ thread'[t].packet = thread[t].packet
  BY Typed DEF Goto, TypeInv, ThreadData
<1>2. Becomes(t, SeenJobs[t].op, SeenJobs[t].ids, SeenJobs[t].packet)
  BY <1>1, JobFields, OneJobBecomes
<1> QED
  BY <1>2, StoreStutters DEF SameStored

LEMMA SeesToNextId ==
  ASSUME TypeInv, OnlyThread(Manager), ToNextId, thread[Manager].pc \in ManagerWork
  PROVE  Becomes(Manager, thread[Manager].op, Tail(thread[Manager].ids), {})
<1>1. thread'[Manager].pc \notin {"free", "erase"}
  BY ThroughAnId
<1> QED
  BY <1>1, ThroughAnId, ThreadSets, OneJobBecomes

LEMMA SeesAddPacketVersion ==
  ASSUME TypeInv, TypeInv', MemoryInv, JobInv, NEW v \in Storers, AddPacketVersion(v)
  PROVE  Store!Next
<1>1. /\ v \in Threads /\ OnlyThread(v) /\ JobFits(v, thread[v]) /\ thread[v].pc = "work"
      /\ thread'[v] = Answering(v)
  BY ThreadSets, StoreStepIsOneThreads, Typed DEF StoreStep, JobInv, TypeInv, AddPacketVersion, At
<1> DEFINE id == <<requested[v], v>>
<1>2. thread[v].ids = <<id>> /\ requested[v] \in Bases
  BY <1>1 DEF TypeInv, ThreadInv
<1>3. SeenJobs[v].op = "store" /\ SeenJobs[v].ids = <<id>> /\ SeenJobs[v].packet = {}
  BY <1>1, <1>2, JobFields DEF JobFits
<1>4. <<id>> # <<>> /\ Head(<<id>>) = id /\ Tail(<<id>>) = <<>>
  OBVIOUS
<1>5. /\ Answering(v).pc = "answer" /\ Answering(v).op = thread[v].op
      /\ Answering(v).ids = <<>> /\ Answering(v).packet = {}
  BY DEF Answering
<1>6. Becomes(v, SeenJobs[v].op, <<>>, {})
  BY <1>1, <1>5, JobFields, OneJobBecomes
<1>7. SeenStored' = SeenStored \union {id}
  <2>1. \A b \in Bases :
          VersionsIn(b)' = IF b = requested[v] THEN VersionsIn(b) \union {<<b, v>>}
                                               ELSE VersionsIn(b)
    BY MemoryAddPacketVersion
  <2> QED
    BY <1>2, <2>1 DEF SeenStored
<1> HIDE DEF id
<1> QED
  BY <1>1, <1>3, <1>4, <1>6, <1>7, StoreStore

LEMMA SeesConnectToDestMb ==
  ASSUME TypeInv, JobInv, SameStored, ConnectToDestMb
  PROVE  Store!Next \/ Store!vars' = Store!vars
<1>1. /\ Manager \in Threads /\ OnlyThread(Manager) /\ JobFits(Manager, thread[Manager])
      /\ thread[Manager].pc = "connect" /\ thread \in [Threads -> ThreadData]
  BY ThreadSets, ManagerStepIsOneThreads, Typed
  DEF ManagerStep, ReplayStep, JobInv, TypeInv, ConnectToDestMb, At
<1>2. CASE Goto(Manager, "find")
  BY <1>1, <1>2, SeesGoto
<1>3. CASE thread' = [ thread EXCEPT ![Manager] = Answering(Manager) ]
  <2>1. SeenJobs[Manager].op = "replay" /\ SeenJobs[Manager].ids # <<>>
        /\ SeenJobs[Manager].packet = {}
    BY <1>1, JobFields DEF JobFits, TypeInv, ThreadInv, ManagerWork
  <2>2. thread'[Manager] = Answering(Manager)
    BY <1>1, <1>3
  <2>3. /\ Answering(Manager).pc = "answer" /\ Answering(Manager).op = thread[Manager].op
        /\ Answering(Manager).ids = <<>> /\ Answering(Manager).packet = {}
    BY DEF Answering
  <2>4. Becomes(Manager, SeenJobs[Manager].op, <<>>, {})
    BY <1>1, <2>2, <2>3, JobFields, OneJobBecomes
  <2> QED
    BY <1>1, <2>1, <2>4, SeenSame, StoreRefuse DEF SameStored
<1> QED
  BY <1>2, <1>3 DEF ConnectToDestMb

\* The id the manager works on, as PacketStore sees it.
LEMMA SeesCurrent ==
  ASSUME TypeInv, JobInv, thread[Manager].pc \in ManagerWork \ {"free", "erase"}
  PROVE  /\ Manager \in Threads
         /\ SeenJobs[Manager].op = thread[Manager].op
         /\ SeenJobs[Manager].op \in {"replay", "delete"}
         /\ SeenJobs[Manager].ids = thread[Manager].ids
         /\ SeenJobs[Manager].ids # <<>>
         /\ Head(SeenJobs[Manager].ids) = Current(Manager)
         /\ SeenJobs[Manager].packet = thread[Manager].packet
         /\ SeenJobs[Manager].packet # {} <=> thread[Manager].pc = "send"
BY ThreadSets, JobFields DEF TypeInv, ThreadInv, JobInv, JobFits, Current

\* What PacketStore rebuilds of a packet.
LEMMA SeesRebuilt ==
  ASSUME TypeInv, OwnVersions, NEW id \in PacketIds
  PROVE  Store!Rebuilt(id) =
           { w \in VersionsIn(BaseOf(id)) :
               Cardinality({ u \in VersionsIn(BaseOf(id)) : VersionOf(u) <= VersionOf(w) })
                 <= VersionOf(id) }
<1>1. BaseOf(id) \in Bases
  BY DEF PacketIds, BaseOf
<1>2. Store!VersionsOf(BaseOf(id)) = VersionsIn(BaseOf(id))
  BY <1>1, StoredOf, StoreParts, ThreadSets
<1>3. \A S : Store!Cardinality(S) = Cardinality(S)
  BY DEF Store!Cardinality, Cardinality
<1> QED
  BY <1>2, <1>3
  DEF Store!Rebuilt, Store!BaseOf, BaseOf, Store!VersionOf, VersionOf

LEMMA SeesFindPacket ==
  ASSUME TypeInv, OwnVersions, JobInv, SameStored, FindPacket
  PROVE  Store!Next \/ Store!vars' = Store!vars
<1>1. /\ OnlyThread(Manager) /\ thread[Manager].pc = "find"
      /\ thread \in [Threads -> ThreadData] /\ thread[Manager] \in ThreadData
      /\ Current(Manager) \in PacketIds /\ VersionOf(Current(Manager)) \in Nat
  BY ThreadSets, ManagerStepIsOneThreads, Typed, CurrentId
  DEF ManagerStep, TypeInv, FindPacket, At, ManagerWork, Storers
<1> DEFINE b == BaseOf(Current(Manager))
<1>2. /\ Manager \in Threads /\ SeenJobs[Manager].op = thread[Manager].op
      /\ SeenJobs[Manager].op \in {"replay", "delete"}
      /\ SeenJobs[Manager].ids = thread[Manager].ids
      /\ SeenJobs[Manager].ids # <<>>
      /\ Head(SeenJobs[Manager].ids) = Current(Manager)
      /\ SeenJobs[Manager].packet = thread[Manager].packet
  BY <1>1, SeesCurrent DEF ManagerWork
<1>3. CASE packetsVersions[b] = Null /\ ToNextId
  <2>1. b \in Bases /\ VersionsIn(b) = {}
    BY <1>1, <1>3 DEF VersionsIn, PacketIds, BaseOf
  <2>2. Becomes(Manager, SeenJobs[Manager].op, Tail(SeenJobs[Manager].ids), {})
    BY <1>1, <1>2, <1>3, SeesToNextId DEF ManagerWork
  <2>3. CASE SeenJobs[Manager].op = "replay"
    <3>1. Store!Rebuilt(Head(SeenJobs[Manager].ids)) = {}
      BY <1>1, <1>2, <2>1, SeesRebuilt
    <3> QED
      BY <1>2, <2>2, <2>3, <3>1, SeenSame, StoreSkip DEF SameStored
  <2>4. CASE SeenJobs[Manager].op = "delete"
    <3> DEFINE all == { id \in SeenStored : BaseOf(id) = b }
    <3>1. all = {}
      BY <2>1, StoredOf
    <3>2. ~(VersionOf(Current(Manager)) < Cardinality({}))
      BY <1>1, FS_EmptySet
    <3>3. SeenStored' = SeenStored \ {}
      BY SeenSame DEF SameStored
    <3> QED
      BY <1>2, <2>2, <2>4, <3>1, <3>2, <3>3, StoreDelete
  <2> QED
    BY <1>2, <2>3, <2>4
<1>4. CASE thread' = [ thread EXCEPT ![Manager].pc = "lock", ![Manager].ptr = packetsVersions[b] ]
  <2> HIDE DEF b
  <2>1. /\ thread'[Manager].pc = "lock" /\ thread'[Manager].op = thread[Manager].op
        /\ thread'[Manager].ids = thread[Manager].ids
        /\ thread'[Manager].packet = thread[Manager].packet
    BY <1>1, <1>2, <1>4 DEF ThreadData
  <2>2. Becomes(Manager, SeenJobs[Manager].op, SeenJobs[Manager].ids, SeenJobs[Manager].packet)
    BY <1>1, <1>2, <2>1, OneJobBecomes
  <2> QED
    BY <1>2, <2>2, StoreStutters DEF SameStored
<1> QED
  BY <1>3, <1>4 DEF FindPacket

LEMMA SeesCopyPacket ==
  ASSUME TypeInv, MemoryInv, OwnVersions, ReplayWaited, JobInv, SameStored, CopyPacket
  PROVE  Store!Next
<1>1. /\ OnlyThread(Manager) /\ thread[Manager].pc = "work" /\ thread[Manager].op = "replay"
      /\ thread \in [Threads -> ThreadData] /\ thread[Manager] \in ThreadData
      /\ Current(Manager) \in PacketIds /\ VersionOf(Current(Manager)) \in Storers
  BY ThreadSets, ManagerStepIsOneThreads, Typed, CurrentId
  DEF ManagerStep, ReplayStep, TypeInv, CopyPacket, At, Doing, ManagerWork
<1>2. /\ Manager \in Threads /\ SeenJobs[Manager].op = thread[Manager].op
      /\ SeenJobs[Manager].ids = thread[Manager].ids
      /\ SeenJobs[Manager].ids # <<>>
      /\ Head(SeenJobs[Manager].ids) = Current(Manager)
      /\ SeenJobs[Manager].packet = {}
  BY <1>1, SeesCurrent DEF ManagerWork
<1> DEFINE id == Current(Manager)
           q == Pointee(Manager).packet_versions
           packet == FirstSorted(q, Smaller(VersionOf(id), Pointee(Manager).index))
<1>3. packet = FirstSorted(q, VersionOf(id))
      /\ packet = { <<BaseOf(id), v>> : v \in 1..VersionOf(id) }
  BY CopiesUpTo
<1>4. packet # {}
  <2>1. 1 \in 1..VersionOf(id)
    BY <1>1 DEF Storers
  <2> HIDE DEF packet, id, q
  <2> QED
    BY <1>3, <2>1
<1>5. Store!Rebuilt(id) = packet
  <2>1. VersionsIn(BaseOf(id)) = Elements(q)
    BY <1>1, <1>2, WorksInMap DEF Pointee
  <2>2. Store!Rebuilt(id) = FirstSorted(q, VersionOf(id))
    BY <1>1, <2>1, SeesRebuilt DEF FirstSorted
  <2> QED
    BY <1>3, <2>2
<1> HIDE DEF packet, q, id
<1>6. thread' = [ thread EXCEPT ![Manager].pc = "send", ![Manager].packet = packet,
                                ![Manager].ptr = Null ]
  BY <1>4 DEF CopyPacket, packet, q, id
<1>7. /\ thread'[Manager].pc = "send" /\ thread'[Manager].op = thread[Manager].op
      /\ thread'[Manager].ids = thread[Manager].ids
      /\ thread'[Manager].packet = packet
  BY <1>1, <1>2, <1>6 DEF ThreadData
<1>8. Becomes(Manager, SeenJobs[Manager].op, SeenJobs[Manager].ids, packet)
  BY <1>1, <1>2, <1>7, OneJobBecomes
<1> QED
  BY <1>1, <1>2, <1>4, <1>5, <1>8, SeenSame, StoreRebuild DEF SameStored, id

LEMMA SeesSendMsgToDstMb ==
  ASSUME TypeInv, JobInv, SameStored, SendMsgToDstMb
  PROVE  Store!Next
<1>1. OnlyThread(Manager) /\ thread[Manager].pc = "send" /\ JobFits(Manager, thread[Manager])
  BY ThreadSets, ManagerStepIsOneThreads
  DEF ManagerStep, ReplayStep, JobInv, SendMsgToDstMb, At
<1>2. /\ Manager \in Threads /\ SeenJobs[Manager].op = thread[Manager].op
      /\ SeenJobs[Manager].ids = thread[Manager].ids
      /\ SeenJobs[Manager].ids # <<>>
      /\ SeenJobs[Manager].packet # {}
  BY <1>1, SeesCurrent DEF ManagerWork
<1>3. Becomes(Manager, SeenJobs[Manager].op, Tail(SeenJobs[Manager].ids), {})
  BY <1>1, <1>2, SeesToNextId DEF SendMsgToDstMb, ManagerWork
<1> QED
  BY <1>1, <1>2, <1>3, SeenSame, StoreSend DEF SameStored, JobFits

\* The id of a deletion is compared with as many versions as PacketStore has.
LEMMA SeesVersions ==
  ASSUME TypeInv, MemoryInv, OwnVersions, Counted, thread[Manager].pc = "work"
  PROVE  LET all == { id \in SeenStored : BaseOf(id) = BaseOf(Current(Manager)) }
         IN /\ all = VersionsIn(BaseOf(Current(Manager)))
            /\ Partial <=> VersionOf(Current(Manager)) < Cardinality(all)
<1> DEFINE b == BaseOf(Current(Manager))
           all == { id \in SeenStored : BaseOf(id) = b }
           p == Pointee(Manager)
<1>1. /\ Manager \in Threads /\ thread[Manager].ptr \in Addresses
      /\ VersionsIn(b) = Elements(p.packet_versions) /\ b \in Bases
  BY ThreadSets, WorksInMap DEF Pointee
<1>2. all = VersionsIn(b)
  BY <1>1, StoredOf
<1>3. p.index = Len(p.packet_versions)
      /\ Cardinality(Elements(p.packet_versions)) = Len(p.packet_versions)
  BY <1>1 DEF Pointee, Counted, TypeInv, TypeOK, At
<1> QED
  BY <1>1, <1>2, <1>3 DEF Partial

LEMMA SeesRefusePartial ==
  ASSUME TypeInv, MemoryInv, OwnVersions, Counted, JobInv, SameStored, RefusePartial
  PROVE  Store!Next
<1>1. OnlyThread(Manager) /\ thread[Manager].pc = "work" /\ thread[Manager].op = "delete"
  BY ThreadSets, ManagerStepIsOneThreads
  DEF ManagerStep, DeleteStep, RefusePartial, At, Doing
<1>2. /\ Manager \in Threads /\ SeenJobs[Manager].op = thread[Manager].op
      /\ SeenJobs[Manager].ids = thread[Manager].ids
      /\ SeenJobs[Manager].ids # <<>>
      /\ Head(SeenJobs[Manager].ids) = Current(Manager)
  BY <1>1, SeesCurrent DEF ManagerWork
<1>3. Becomes(Manager, SeenJobs[Manager].op, Tail(SeenJobs[Manager].ids), {})
  BY <1>1, <1>2, SeesToNextId DEF RefusePartial, ManagerWork
<1> DEFINE all == { id \in SeenStored : BaseOf(id) = BaseOf(Current(Manager)) }
<1>4. VersionOf(Current(Manager)) < Cardinality(all)
  BY <1>1, SeesVersions DEF RefusePartial
<1>5. SeenStored' = SeenStored
  BY SeenSame DEF SameStored
<1> QED
  BY <1>1, <1>2, <1>3, <1>4, <1>5, StoreDelete

LEMMA SeesFreeVersions ==
  ASSUME TypeInv, TypeInv', MemoryInv, OwnVersions, Counted, JobInv, FreeVersions
  PROVE  Store!Next
<1>1. /\ OnlyThread(Manager) /\ thread[Manager].pc = "work" /\ thread[Manager].op = "delete"
      /\ Goto(Manager, "free") /\ thread \in [Threads -> ThreadData]
      /\ JobFits(Manager, thread[Manager])
  BY ThreadSets, ManagerStepIsOneThreads, Typed
  DEF ManagerStep, DeleteStep, FreeVersions, At, Doing, JobInv, TypeInv
<1>2. /\ Manager \in Threads /\ SeenJobs[Manager].op = thread[Manager].op
      /\ SeenJobs[Manager].ids = thread[Manager].ids
      /\ SeenJobs[Manager].ids # <<>>
      /\ Head(SeenJobs[Manager].ids) = Current(Manager)
  BY <1>1, SeesCurrent DEF ManagerWork
<1>3. Becomes(Manager, SeenJobs[Manager].op, Tail(SeenJobs[Manager].ids), {})
  <2>1. thread'[Manager].pc = "free" /\ thread'[Manager].op = thread[Manager].op
        /\ thread'[Manager].ids = thread[Manager].ids
        /\ thread'[Manager].packet = thread[Manager].packet
    BY <1>1, <1>2 DEF Goto, ThreadData
  <2>2. thread[Manager].packet = {}
    BY <1>1 DEF JobFits
  <2> QED
    BY <1>1, <1>2, <2>1, <2>2, OneJobBecomes
<1> DEFINE b == BaseOf(Current(Manager))
           all == { id \in SeenStored : BaseOf(id) = b }
<1>4. ~(VersionOf(Current(Manager)) < Cardinality(all)) /\ all = VersionsIn(b)
  BY <1>1, SeesVersions DEF FreeVersions
<1>5. SeenStored' = SeenStored \ all
  <2>1. \A c \in Bases : VersionsIn(c)' = IF c = b THEN {} ELSE VersionsIn(c)
    BY MemoryFreeVersions
  <2>2. \A c \in Bases : \A id \in VersionsIn(c) : BaseOf(id) = c
    BY DEF VersionsIn, OwnVersions, TypeInv, TypeOK
  <2> QED
    BY <2>1, <2>2 DEF SeenStored
<1> QED
  BY <1>1, <1>2, <1>3, <1>4, <1>5, StoreDelete

LEMMA SeesFreePacket ==
  ASSUME TypeInv, TypeInv', MemoryInv, Emptied, FreePacket
  PROVE  Store!vars' = Store!vars
<1>1. /\ Manager \in Threads /\ OnlyThread(Manager) /\ thread[Manager].pc = "free"
      /\ Goto(Manager, "erase") /\ BaseOf(Current(Manager)) \in Bases
  BY ThreadSets, ManagerStepIsOneThreads, CurrentId
  DEF ManagerStep, DeleteStep, FreePacket, At, ManagerWork
<1>2. VersionsIn(BaseOf(Current(Manager))) = {}
  BY <1>1 DEF Emptied, Going, At
<1>3. SameStored
  BY <1>2, MemoryFreePacket DEF SameStored
<1> QED
  BY <1>1, <1>3, SeesGoto

LEMMA SeesErasePacket ==
  ASSUME TypeInv, JobInv, SameStored, ErasePacket
  PROVE  Store!vars' = Store!vars
<1>1. /\ Manager \in Threads /\ OnlyThread(Manager) /\ thread[Manager].pc = "erase"
      /\ JobFits(Manager, thread[Manager])
  BY ThreadSets, ManagerStepIsOneThreads DEF ManagerStep, DeleteStep, JobInv, ErasePacket, At
<1>2. /\ SeenJobs[Manager].op = thread[Manager].op
      /\ SeenJobs[Manager].ids = Tail(thread[Manager].ids)
      /\ SeenJobs[Manager].packet = {}
  BY <1>1, JobFields DEF JobFits
<1>3. Becomes(Manager, SeenJobs[Manager].op, SeenJobs[Manager].ids, SeenJobs[Manager].packet)
  BY <1>1, <1>2, SeesToNextId DEF ErasePacket, ManagerWork
<1> QED
  BY <1>1, <1>3, StoreStutters DEF SameStored

LEMMA StoreInit == Init => Store!Init
<1> SUFFICES ASSUME Init PROVE Store!Init
  OBVIOUS
<1>1. \A b \in Bases : VersionsIn(b) = {}
  BY DEF Init, VersionsIn
<1>2. SeenStored = {}
  BY <1>1 DEF SeenStored
<1>3. \A t \in Threads : Job(t) = JobIs("none", <<>>, {})
  BY DEF Init, IdleThread, Job, JobIs
<1>4. SeenJobs = [ t \in Threads |-> JobIs("none", <<>>, {}) ]
  BY <1>3 DEF SeenJobs
<1>5. Store!Init <=> SeenStored = {} /\ SeenJobs = [ t \in Threads |-> JobIs("none", <<>>, {}) ]
  BY DEF Store!Init, Store!Idle, JobIs, SeenStored, SeenJobs, Job
<1> QED
  BY <1>2, <1>4, <1>5

LEMMA StoreNext ==
  ManagerWaits =>
    (TypeInv /\ TypeInv' /\ MemoryInv /\ ReplayInv /\ StoreInv /\ [Next]_vars
       => Store!Next \/ Store!vars' = Store!vars)
<1> SUFFICES ASSUME ManagerWaits, TypeInv, TypeInv', MemoryInv, ReplayInv, StoreInv, [Next]_vars
             PROVE  Store!Next \/ Store!vars' = Store!vars
  OBVIOUS
<1>1. OwnVersions /\ ReplayWaited /\ JobInv /\ Counted /\ Emptied
  BY DEF ReplayInv, StoreInv
<1>2. CASE UNCHANGED vars
  <2>1. SeenStored' = SeenStored /\ SeenJobs' = SeenJobs
    BY <1>2 DEF vars, SeenStored, SeenJobs, VersionsIn, Job
  <2>2. Store!vars' = << SeenStored', SeenJobs' >>
    BY DEF Store!vars, SeenStored, SeenJobs, Job
  <2> QED
    BY <2>1, <2>2, StoreVars
<1>3. CASE FreeVersions
  BY <1>1, <1>3, SeesFreeVersions
<1>4. CASE FreePacket
  BY <1>1, <1>4, SeesFreePacket
<1>5. CASE \E v \in Storers : AddPacketVersion(v)
  BY <1>1, <1>5, SeesAddPacketVersion
<1>6. CASE Next /\ ~FreeVersions /\ ~FreePacket /\ \A v \in Storers : ~AddPacketVersion(v)
  <2>1. SameStored
    BY <1>6, SameVersions DEF SameStored
  <2>2. ASSUME NEW v \in Storers, StoreStep(v) PROVE Store!Next \/ Store!vars' = Store!vars
    BY <1>1, <1>6, <2>1, <2>2, SeesReceiveStore, SeesGetOrCreate DEF StoreStep
  <2>3. ASSUME ManagerStep PROVE Store!Next \/ Store!vars' = Store!vars
    BY <1>1, <1>6, <2>1, <2>3, SeesReceiveFromManager, SeesFindPacket, SeesConnectToDestMb,
       SeesCopyPacket, SeesSendMsgToDstMb, SeesRefusePartial, SeesErasePacket
    DEF ManagerStep, ReplayStep, DeleteStep
  <2>4. ASSUME NEW t \in Threads, LockPacket(t) PROVE Store!vars' = Store!vars
    <3>1. OnlyThread(t) /\ Goto(t, "work") /\ thread[t].pc = "lock"
      BY <2>4, ThreadStepIsOneThreads DEF LockPacket, At
    <3> QED
      BY <2>1, <3>1, SeesGoto
  <2> QED
    BY <1>1, <1>6, <2>1, <2>2, <2>3, <2>4, SeesSendAnswer DEF Next
<1> QED
  BY <1>2, <1>3, <1>4, <1>5, <1>6

\* If the manager waits, the logger with its threads, locks and pointers is a store: every
\* packet of a replay or a deletion takes effect at one moment between its request and its
\* answer, and what a replay sends is what PacketStore rebuilds.
THEOREM HandlersImplementPacketStore == ManagerWaits => (Spec => ImplementsPacketStore)
<1> SUFFICES ASSUME ManagerWaits PROVE Spec => ImplementsPacketStore
  OBVIOUS
<1>1. TypeInv /\ MemoryInv /\ ReplayInv /\ [Next]_vars => ReplayInv'
  BY ReplayNext
<1>2. Spec => []MemoryInv
  BY AlwaysMemoryInv
<1>3. TypeInv /\ TypeInv' /\ MemoryInv /\ MemoryInv' /\ StoreInv /\ [Next]_vars => StoreInv'
  BY StoreInvNext
<1>4. Spec => []TypeInv /\ []MemoryInv /\ []ReplayInv /\ []StoreInv
  BY <1>1, <1>2, <1>3, ReplayInit, StoreInvInit, AlwaysTyped, PTL DEF Spec
<1>5. TypeInv /\ TypeInv' /\ MemoryInv /\ ReplayInv /\ StoreInv /\ [Next]_vars
        => [Store!Next]_(Store!vars)
  BY StoreNext
<1>6. Spec => Store!Init /\ [][Store!Next]_(Store!vars)
  BY <1>4, <1>5, StoreInit, PTL DEF Spec
<1> QED
  BY <1>6 DEF ImplementsPacketStore, Store!Spec
=============================================================================
