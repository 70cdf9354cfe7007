------------------------ MODULE DetLoggerServerProofs --------------------------
(***************************************************************************)
(* Proofs about the threads of the determinant logger, for any number of   *)
(* them, of middleboxes and of packets: type correctness with the locks    *)
(* held by whom they should, that no threads wait for each other in a      *)
(* circle, and that the lists and the packets' data, which are under       *)
(* different locks, agree.                                                 *)
(***************************************************************************)
EXTENDS DetLoggerServer, PacketListsProofs

None == IdleThread.req
Answers == Seq(PacketIds) \union Seq({"pals", "no pals", "garbage"})
ThreadData ==
  [ pc : Steps, req : Requests \union {None}, answer : Answers, toPrint : SUBSET Mbs ]

StoreSteps == { "create", "update", "progress", "add", "print", "printing" }
DeleteSteps == { "delete", "lock data", "delete data", "erase" }

\* What a thread works on at each step.
RequestInv ==
  \A t \in Threads :
    /\ thread[t].pc \in StoreSteps => thread[t].req.op = "store"
    /\ thread[t].pc \in {"lookup", "convert"} => thread[t].req.op = "getPals"
    /\ thread[t].pc = "find" => thread[t].req.op \in {"list", "delete"}
    /\ thread[t].pc = "list" => thread[t].req.op = "list"
    /\ thread[t].pc \in DeleteSteps => thread[t].req.op = "delete"
    /\ thread[t].pc \in {"add", "list"} \union DeleteSteps =>
         thread[t].req.mb \in DOMAIN progressData
    /\ thread[t].toPrint \subseteq DOMAIN progressData
    /\ thread[t].pc = "convert" => detData[thread[t].req.mb][thread[t].req.id] # "absent"

LockInv == \A l \in Locks, t \in Threads : owner[l] = t <=> l \in Holds(t)

TypeInv ==
  /\ detData \in [Mbs -> [PacketIds -> DataStates]]
  /\ DOMAIN progressData \subseteq Mbs
  /\ progressData \in [DOMAIN progressData -> Seq(PacketIds)]
  /\ owner \in [Locks -> Threads \union {Free}]
  /\ thread \in [Threads -> ThreadData]
  /\ requested \subseteq Mbs \X PacketIds
  /\ RequestInv
  /\ LockInv

-----------------------------------------------------------------------------
(* Requests and locks *)

LEMMA RequestFields ==
  ASSUME NEW r \in Requests \union {None}
  PROVE  /\ r.op \in {"store", "getPals", "list", "delete", "none"}
         /\ r.op \in {"store", "getPals"} => r.mb \in Mbs /\ r.id \in PacketIds
         /\ r.op = "list" => r.mb \in Mbs /\ r.allVersions \in BOOLEAN
         /\ r.op = "delete" => r.mb \in Mbs /\ r.count \in 0..MaxDelete /\ r.count \in Nat
<1>1. CASE r \in [ op : {"store", "getPals"}, mb : Mbs, id : PacketIds ]
  BY <1>1
<1>2. CASE r \in [ op : {"list"}, mb : Mbs, allVersions : BOOLEAN ]
  BY <1>2
<1>3. CASE r \in [ op : {"delete"}, mb : Mbs, count : 0..MaxDelete ]
  BY <1>3, MaxDeleteAssumption
<1>4. CASE r = None
  BY <1>4 DEF None, IdleThread
<1> QED BY <1>1, <1>2, <1>3, <1>4 DEF Requests

LEMMA LocksDiffer ==
  /\ ProgressLock \in Locks /\ DataLock \in Locks /\ \A mb \in Mbs : SpdLock(mb) \in Locks
  /\ ProgressLock # DataLock
  /\ \A mb : SpdLock(mb) # ProgressLock /\ SpdLock(mb) # DataLock
  /\ \A mb, nb : SpdLock(mb) = SpdLock(nb) => mb = nb
<1>1. ProgressLock # DataLock
  <2>1. ProgressLock[1] = "progressData" /\ DataLock[1] = "detData"
    BY DEF ProgressLock, DataLock
  <2> QED BY <2>1
<1>2. ASSUME NEW mb PROVE SpdLock(mb) # ProgressLock /\ SpdLock(mb) # DataLock
  <2>1. ProgressLock[1] = "progressData" /\ DataLock[1] = "detData" /\ SpdLock(mb)[1] = "spd"
    BY DEF ProgressLock, DataLock, SpdLock
  <2> QED BY <2>1
<1>3. ASSUME NEW mb, NEW nb, SpdLock(mb) = SpdLock(nb) PROVE mb = nb
  <2>1. SpdLock(mb)[2] = mb /\ SpdLock(nb)[2] = nb
    BY DEF SpdLock
  <2> QED BY <1>3, <2>1
<1> QED BY <1>1, <1>2, <1>3 DEF Locks

LEMMA ThreadFields ==
  ASSUME TypeInv, NEW t \in Threads
  PROVE  /\ thread[t] \in ThreadData /\ thread[t].pc \in Steps
         /\ thread[t].req \in Requests \union {None}
         /\ thread[t].toPrint \subseteq Mbs
         /\ t # Free
BY ThreadsAssumption DEF TypeInv, ThreadData

LEMMA GotoThread ==
  ASSUME TypeInv, NEW t \in Threads, NEW step \in Steps, Goto(t, step)
  PROVE  /\ thread' \in [Threads -> ThreadData]
         /\ thread'[t].pc = step /\ thread'[t].req = thread[t].req
         /\ thread'[t].toPrint = thread[t].toPrint /\ thread'[t].answer = thread[t].answer
         /\ \A u \in Threads : u # t => thread'[u] = thread[u]
<1> DEFINE r == [ thread[t] EXCEPT !.pc = step ]
<1>1. thread[t] \in ThreadData /\ thread \in [Threads -> ThreadData]
  BY DEF TypeInv
<1>2. /\ r \in ThreadData /\ r.pc = step /\ r.req = thread[t].req
      /\ r.toPrint = thread[t].toPrint /\ r.answer = thread[t].answer
  BY <1>1 DEF ThreadData
<1>3. thread' = [ thread EXCEPT ![t] = r ]
  BY DEF Goto
<1> HIDE DEF r
<1> QED BY <1>1, <1>2, <1>3

LEMMA AnswerThread ==
  ASSUME TypeInv, NEW t \in Threads, NEW a \in Answers, Answer(t, a)
  PROVE  /\ thread' \in [Threads -> ThreadData]
         /\ thread'[t].pc = "answer" /\ thread'[t].req = thread[t].req
         /\ thread'[t].toPrint = thread[t].toPrint /\ thread'[t].answer = a
         /\ \A u \in Threads : u # t => thread'[u] = thread[u]
<1> DEFINE r == [ thread[t] EXCEPT !.pc = "answer", !.answer = a ]
<1>1. thread[t] \in ThreadData /\ thread \in [Threads -> ThreadData] /\ "answer" \in Steps
  BY DEF TypeInv, Steps
<1>2. /\ r \in ThreadData /\ r.pc = "answer" /\ r.req = thread[t].req
      /\ r.toPrint = thread[t].toPrint /\ r.answer = a
  BY <1>1 DEF ThreadData
<1>3. thread' = [ thread EXCEPT ![t] = r ]
  BY DEF Answer
<1> HIDE DEF r
<1> QED BY <1>1, <1>2, <1>3

LEMMA EmptyAnswer == <<>> \in Answers
BY EmptySeq DEF Answers

\* Of the other threads a step changes neither the locks nor the requests, if the
\* map of lists keeps its entries.
LEMMA OtherThreads ==
  ASSUME TypeInv, NEW t \in Threads,
         \A u \in Threads : u # t => thread'[u] = thread[u]
  PROVE  \A u \in Threads : u # t => Holds(u)' = Holds(u)
BY DEF Holds, At

LEMMA RequestsKept ==
  ASSUME TypeInv, NEW t \in Threads,
         \A u \in Threads : u # t => thread'[u] = thread[u],
         DOMAIN progressData \subseteq DOMAIN progressData',
         \A mb \in Mbs, id \in PacketIds :
           detData[mb][id] # "absent" => detData'[mb][id] # "absent",
         /\ thread'[t].pc \in StoreSteps => thread'[t].req.op = "store"
         /\ thread'[t].pc \in {"lookup", "convert"} => thread'[t].req.op = "getPals"
         /\ thread'[t].pc = "find" => thread'[t].req.op \in {"list", "delete"}
         /\ thread'[t].pc = "list" => thread'[t].req.op = "list"
         /\ thread'[t].pc \in DeleteSteps => thread'[t].req.op = "delete"
         /\ thread'[t].pc \in {"add", "list"} \union DeleteSteps =>
              thread'[t].req.mb \in DOMAIN progressData'
         /\ thread'[t].toPrint \subseteq DOMAIN progressData'
         /\ thread'[t].pc = "convert" =>
              detData'[thread'[t].req.mb][thread'[t].req.id] # "absent"
  PROVE  RequestInv'
<1>1. ASSUME NEW u \in Threads, u # t
      PROVE  /\ thread'[u].pc \in StoreSteps => thread'[u].req.op = "store"
             /\ thread'[u].pc \in {"lookup", "convert"} => thread'[u].req.op = "getPals"
             /\ thread'[u].pc = "find" => thread'[u].req.op \in {"list", "delete"}
             /\ thread'[u].pc = "list" => thread'[u].req.op = "list"
             /\ thread'[u].pc \in DeleteSteps => thread'[u].req.op = "delete"
             /\ thread'[u].pc \in {"add", "list"} \union DeleteSteps =>
                  thread'[u].req.mb \in DOMAIN progressData'
             /\ thread'[u].toPrint \subseteq DOMAIN progressData'
  BY <1>1 DEF TypeInv, RequestInv
<1>2. ASSUME NEW u \in Threads, u # t, thread'[u].pc = "convert"
      PROVE  detData'[thread'[u].req.mb][thread'[u].req.id] # "absent"
  <2>1. /\ thread[u].pc = "convert" /\ thread[u].req.op = "getPals"
        /\ detData[thread[u].req.mb][thread[u].req.id] # "absent"
    BY <1>2 DEF TypeInv, RequestInv
  <2>2. thread[u].req.mb \in Mbs /\ thread[u].req.id \in PacketIds
    BY <2>1, ThreadFields, RequestFields
  <2> QED BY <1>2, <2>1, <2>2
<1> QED BY <1>1, <1>2 DEF RequestInv

LEMMA LocksKept ==
  ASSUME TypeInv, NEW t \in Threads, owner' = owner,
         \A u \in Threads : u # t => thread'[u] = thread[u],
         Holds(t)' = Holds(t)
  PROVE  LockInv'
<1>1. \A u \in Threads : Holds(u)' = Holds(u)
  BY OtherThreads
<1> QED BY <1>1 DEF TypeInv, LockInv

LEMMA LockTaken ==
  ASSUME TypeInv, NEW t \in Threads, NEW l \in Locks, Lock(l, t),
         \A u \in Threads : u # t => thread'[u] = thread[u],
         Holds(t)' = Holds(t) \union {l}
  PROVE  LockInv' /\ owner' \in [Locks -> Threads \union {Free}]
<1>1. /\ owner \in [Locks -> Threads \union {Free}] /\ owner[l] = Free
      /\ owner' = [ owner EXCEPT ![l] = t ]
  BY DEF TypeInv, Lock, Unlocked
<1>2. \A u \in Threads : u # t => Holds(u)' = Holds(u)
  BY OtherThreads
<1>3. \A u \in Threads : u # Free /\ l \notin Holds(u)
  BY <1>1, ThreadsAssumption DEF TypeInv, LockInv
<1>4. ASSUME NEW m \in Locks, NEW u \in Threads
      PROVE  owner'[m] = u <=> m \in Holds(u)'
  <2>1. owner[m] = u <=> m \in Holds(u)
    BY DEF TypeInv, LockInv
  <2>2. CASE m = l
    BY <1>1, <1>2, <1>3, <2>2
  <2>3. CASE m # l
    BY <1>1, <1>2, <2>1, <2>3
  <2> QED BY <2>2, <2>3
<1> QED BY <1>1, <1>4 DEF LockInv

LEMMA LockReleased ==
  ASSUME TypeInv, NEW t \in Threads, NEW l \in Locks, Unlock(l), l \in Holds(t),
         \A u \in Threads : u # t => thread'[u] = thread[u],
         Holds(t)' = Holds(t) \ {l}
  PROVE  LockInv' /\ owner' \in [Locks -> Threads \union {Free}]
<1>1. /\ owner \in [Locks -> Threads \union {Free}]
      /\ owner' = [ owner EXCEPT ![l] = Free ]
  BY DEF TypeInv, Unlock
<1>2. \A u \in Threads : u # t => Holds(u)' = Holds(u)
  BY OtherThreads
<1>3. owner[l] = t
  BY DEF TypeInv, LockInv
<1>4. \A u \in Threads : u # Free
  BY ThreadsAssumption
<1>5. ASSUME NEW m \in Locks, NEW u \in Threads
      PROVE  owner'[m] = u <=> m \in Holds(u)'
  <2>1. owner[m] = u <=> m \in Holds(u)
    BY DEF TypeInv, LockInv
  <2>2. CASE m = l
    BY <1>1, <1>2, <1>3, <1>4, <2>1, <2>2
  <2>3. CASE m # l
    BY <1>1, <1>2, <2>1, <2>3
  <2> QED BY <2>2, <2>3
<1> QED BY <1>1, <1>5 DEF LockInv

-----------------------------------------------------------------------------
(* Types, and who holds which lock *)

LEMMA TypeInit == Init => TypeInv
<1> SUFFICES ASSUME Init PROVE TypeInv
  OBVIOUS
<1> USE DEF Init
<1>1. IdleThread \in ThreadData
  BY EmptyAnswer DEF IdleThread, ThreadData, None, Steps
<1>2. \A t \in Threads : thread[t] = IdleThread
  OBVIOUS
<1>3. RequestInv
  BY <1>2 DEF RequestInv, IdleThread, StoreSteps, DeleteSteps
<1>4. \A t \in Threads : Holds(t) = {}
  BY <1>2 DEF Holds, At, IdleThread
<1>5. LockInv
  BY <1>4, ThreadsAssumption DEF LockInv
<1>6. detData \in [Mbs -> [PacketIds -> DataStates]]
  BY DEF DataStates
<1>7. DOMAIN progressData = {} /\ progressData \in [DOMAIN progressData -> Seq(PacketIds)]
  OBVIOUS
<1>8. thread \in [Threads -> ThreadData]
  BY <1>1
<1> QED BY <1>3, <1>5, <1>6, <1>7, <1>8 DEF TypeInv

LEMMA TypeReceive ==
  ASSUME TypeInv, NEW t \in Threads, Receive(t)
  PROVE  TypeInv'
<1>1. PICK q \in Requests :
        /\ requested' = IF q.op = "store" THEN requested \union {<<q.mb, q.id>>} ELSE requested
        /\ thread' = [ thread EXCEPT ![t].pc = FirstStep(q.op), ![t].req = q ]
  BY DEF Receive
<1>2. /\ q.op \in {"store", "getPals", "list", "delete"}
      /\ q.op = "store" => q.mb \in Mbs /\ q.id \in PacketIds
  <2>1. q.op # "none"
    BY DEF Requests
  <2> QED BY <2>1, RequestFields
<1> DEFINE r == [ thread[t] EXCEPT !.pc = FirstStep(q.op), !.req = q ]
<1>3. /\ FirstStep(q.op) \in {"create", "lookup", "find"}
      /\ FirstStep(q.op) = "create" => q.op = "store"
      /\ FirstStep(q.op) = "lookup" => q.op = "getPals"
      /\ FirstStep(q.op) = "find" => q.op \in {"list", "delete"}
  BY <1>2 DEF FirstStep
<1>4. thread[t] \in ThreadData /\ thread \in [Threads -> ThreadData] /\ FirstStep(q.op) \in Steps
  BY <1>3 DEF TypeInv, Steps
<1>5. /\ r \in ThreadData /\ r.pc = FirstStep(q.op) /\ r.req = q
      /\ r.toPrint = thread[t].toPrint
  BY <1>4 DEF ThreadData
<1>6. thread' = [ thread EXCEPT ![t] = r ]
  BY <1>1
<1> HIDE DEF r
<1>7. /\ thread' \in [Threads -> ThreadData] /\ thread'[t] = r
      /\ \A u \in Threads : u # t => thread'[u] = thread[u]
  BY <1>4, <1>5, <1>6
<1>8. RequestInv'
  <2>1. thread[t].toPrint \subseteq DOMAIN progressData
    BY DEF TypeInv, RequestInv
  <2>2. progressData' = progressData /\ detData' = detData
    BY DEF Receive
  <2> QED BY <1>3, <1>5, <1>7, <2>1, <2>2, RequestsKept DEF StoreSteps, DeleteSteps
<1>9. LockInv'
  <2>1. Holds(t) = {}
    BY DEF Holds, At, Receive
  <2>2. Holds(t)' = {}
    BY <1>3, <1>5, <1>7 DEF Holds, At
  <2> QED BY <1>7, <2>1, <2>2, LocksKept DEF Receive
<1>10. requested' \subseteq Mbs \X PacketIds
  BY <1>1, <1>2 DEF TypeInv
<1> QED BY <1>7, <1>8, <1>9, <1>10 DEF TypeInv, Receive

LEMMA TypeGetOrCreatePacketData ==
  ASSUME TypeInv, NEW t \in Threads, GetOrCreatePacketData(t)
  PROVE  TypeInv'
<1>1. /\ thread[t].pc = "create" /\ Goto(t, "update")
      /\ UNCHANGED << progressData, owner, requested >>
  BY DEF GetOrCreatePacketData, At
<1>2. /\ thread' \in [Threads -> ThreadData]
      /\ thread'[t].pc = "update" /\ thread'[t].req = thread[t].req
      /\ thread'[t].toPrint = thread[t].toPrint
      /\ \A u \in Threads : u # t => thread'[u] = thread[u]
  BY <1>1, GotoThread DEF Steps
<1>3. thread[t].req.op = "store" /\ thread[t].toPrint \subseteq DOMAIN progressData
  BY <1>1 DEF TypeInv, RequestInv, StoreSteps
<1>4. RequestInv'
  <2>1. \A mb \in Mbs, id \in PacketIds :
          detData[mb][id] # "absent" => detData'[mb][id] # "absent"
    BY DEF TypeInv, GetOrCreatePacketData
  <2> QED BY <1>1, <1>2, <1>3, <2>1, RequestsKept DEF StoreSteps, DeleteSteps
<1>5. LockInv'
  <2>1. Holds(t) = {} /\ Holds(t)' = {}
    BY <1>1, <1>2 DEF Holds, At
  <2> QED BY <1>1, <1>2, <2>1, LocksKept
<1>6. detData' \in [Mbs -> [PacketIds -> DataStates]]
  BY DEF TypeInv, GetOrCreatePacketData, DataStates
<1> QED BY <1>1, <1>2, <1>4, <1>5, <1>6 DEF TypeInv

LEMMA TypeUpdatePacketData ==
  ASSUME TypeInv, NEW t \in Threads, UpdatePacketData(t)
  PROVE  TypeInv'
<1>1. /\ thread[t].pc = "update" /\ Goto(t, "progress")
      /\ UNCHANGED << progressData, owner, requested >>
  BY DEF UpdatePacketData, At
<1>2. /\ thread' \in [Threads -> ThreadData]
      /\ thread'[t].pc = "progress" /\ thread'[t].req = thread[t].req
      /\ thread'[t].toPrint = thread[t].toPrint
      /\ \A u \in Threads : u # t => thread'[u] = thread[u]
  BY <1>1, GotoThread DEF Steps
<1>3. thread[t].req.op = "store" /\ thread[t].toPrint \subseteq DOMAIN progressData
  BY <1>1 DEF TypeInv, RequestInv, StoreSteps
<1>4. RequestInv'
  <2>1. \A mb \in Mbs, id \in PacketIds :
          detData[mb][id] # "absent" => detData'[mb][id] # "absent"
    BY DEF TypeInv, UpdatePacketData
  <2> QED BY <1>1, <1>2, <1>3, <2>1, RequestsKept DEF StoreSteps, DeleteSteps
<1>5. LockInv'
  <2>1. Holds(t) = {} /\ Holds(t)' = {}
    BY <1>1, <1>2 DEF Holds, At
  <2> QED BY <1>1, <1>2, <2>1, LocksKept
<1>6. detData' \in [Mbs -> [PacketIds -> DataStates]]
  BY DEF TypeInv, UpdatePacketData, DataStates
<1> QED BY <1>1, <1>2, <1>4, <1>5, <1>6 DEF TypeInv

LEMMA TypeGetOrCreateServerProgressData ==
  ASSUME TypeInv, NEW t \in Threads, GetOrCreateServerProgressData(t)
  PROVE  TypeInv'
<1> DEFINE mb == thread[t].req.mb
<1>1. /\ thread[t].pc = "progress" /\ Goto(t, "add")
      /\ progressData' = [ b \in DOMAIN progressData \union {mb} |-> Listed(b) ]
      /\ UNCHANGED << detData, owner, requested >>
  BY DEF GetOrCreateServerProgressData, At
<1>2. /\ thread' \in [Threads -> ThreadData]
      /\ thread'[t].pc = "add" /\ thread'[t].req = thread[t].req
      /\ thread'[t].toPrint = thread[t].toPrint
      /\ \A u \in Threads : u # t => thread'[u] = thread[u]
  BY <1>1, GotoThread DEF Steps
<1>3. thread[t].req.op = "store" /\ thread[t].toPrint \subseteq DOMAIN progressData
  BY <1>1 DEF TypeInv, RequestInv, StoreSteps
<1>4. mb \in Mbs
  BY <1>3, ThreadFields, RequestFields
<1> HIDE DEF mb
<1>5. DOMAIN progressData' = DOMAIN progressData \union {mb}
  BY <1>1
<1>6. progressData' \in [DOMAIN progressData' -> Seq(PacketIds)]
  <2>1. \A b : Listed(b) \in Seq(PacketIds)
    BY EmptySeq DEF Listed, TypeInv
  <2> QED BY <1>1, <1>5, <2>1
<1>7. RequestInv'
  BY <1>1, <1>2, <1>3, <1>5, RequestsKept DEF StoreSteps, DeleteSteps, mb
<1>8. LockInv'
  <2>1. Holds(t) = {} /\ Holds(t)' = {}
    BY <1>1, <1>2 DEF Holds, At
  <2> QED BY <1>1, <1>2, <2>1, LocksKept
<1>9. DOMAIN progressData' \subseteq Mbs
  BY <1>4, <1>5 DEF TypeInv
<1> QED BY <1>1, <1>2, <1>6, <1>7, <1>8, <1>9 DEF TypeInv

LEMMA TypeAddPacketId ==
  ASSUME TypeInv, NEW t \in Threads, AddPacketId(t)
  PROVE  TypeInv'
<1> DEFINE mb == thread[t].req.mb
<1>1. /\ thread[t].pc = "add" /\ Goto(t, "print")
      /\ progressData' = [ progressData EXCEPT ![mb] = Append(@, thread[t].req.id) ]
      /\ UNCHANGED << detData, owner, requested >>
  BY DEF AddPacketId, At
<1>2. /\ thread' \in [Threads -> ThreadData]
      /\ thread'[t].pc = "print" /\ thread'[t].req = thread[t].req
      /\ thread'[t].toPrint = thread[t].toPrint
      /\ \A u \in Threads : u # t => thread'[u] = thread[u]
  BY <1>1, GotoThread DEF Steps
<1>3. /\ thread[t].req.op = "store" /\ thread[t].toPrint \subseteq DOMAIN progressData
      /\ mb \in DOMAIN progressData
  BY <1>1 DEF TypeInv, RequestInv, StoreSteps
<1>4. thread[t].req.id \in PacketIds
  BY <1>3, ThreadFields, RequestFields
<1>5. /\ DOMAIN progressData' = DOMAIN progressData
      /\ progressData' \in [DOMAIN progressData -> Seq(PacketIds)]
  <2>1. progressData \in [DOMAIN progressData -> Seq(PacketIds)]
    BY DEF TypeInv
  <2>2. Append(progressData[mb], thread[t].req.id) \in Seq(PacketIds)
    BY <1>3, <1>4, <2>1, AppendProperties
  <2> HIDE DEF mb
  <2> QED BY <1>1, <1>3, <2>1, <2>2
<1>6. RequestInv'
  BY <1>1, <1>2, <1>3, <1>5, RequestsKept DEF StoreSteps, DeleteSteps
<1>7. LockInv'
  <2>1. Holds(t) = {} /\ Holds(t)' = {}
    BY <1>1, <1>2 DEF Holds, At
  <2> QED BY <1>1, <1>2, <2>1, LocksKept
<1> QED BY <1>1, <1>2, <1>5, <1>6, <1>7 DEF TypeInv

LEMMA TypeStartPrint ==
  ASSUME TypeInv, NEW t \in Threads, StartPrint(t)
  PROVE  TypeInv'
<1> DEFINE r == [ thread[t] EXCEPT !.pc = "printing", !.toPrint = DOMAIN progressData ]
<1>1. /\ thread[t].pc = "print" /\ Lock(ProgressLock, t)
      /\ thread' = [ thread EXCEPT ![t] = r ]
      /\ UNCHANGED << detData, progressData, requested >>
  BY DEF StartPrint, At
<1>2. /\ thread[t] \in ThreadData /\ thread \in [Threads -> ThreadData]
      /\ "printing" \in Steps /\ DOMAIN progressData \subseteq Mbs
  BY DEF TypeInv, Steps
<1>3. /\ r \in ThreadData /\ r.pc = "printing" /\ r.req = thread[t].req
      /\ r.toPrint = DOMAIN progressData
  BY <1>2 DEF ThreadData
<1> HIDE DEF r
<1>4. /\ thread' \in [Threads -> ThreadData] /\ thread'[t] = r
      /\ \A u \in Threads : u # t => thread'[u] = thread[u]
  BY <1>1, <1>2, <1>3
<1>5. thread[t].req.op = "store"
  BY <1>1 DEF TypeInv, RequestInv, StoreSteps
<1>6. RequestInv'
  BY <1>1, <1>3, <1>4, <1>5, RequestsKept DEF StoreSteps, DeleteSteps
<1>7. LockInv' /\ owner' \in [Locks -> Threads \union {Free}]
  <2>1. Holds(t) = {} /\ Holds(t)' = {ProgressLock}
    BY <1>1, <1>3, <1>4 DEF Holds, At
  <2> QED BY <1>1, <1>4, <2>1, LockTaken, LocksDiffer
<1> QED BY <1>1, <1>4, <1>6, <1>7 DEF TypeInv

LEMMA TypePrintList ==
  ASSUME TypeInv, NEW t \in Threads, PrintList(t)
  PROVE  TypeInv'
<1> DEFINE rest == thread[t].toPrint \ {NextToPrint(t)}
           r == [ thread[t] EXCEPT !.toPrint = rest ]
<1>1. /\ thread[t].pc = "printing"
      /\ thread' = [ thread EXCEPT ![t] = r ]
      /\ UNCHANGED << detData, progressData, owner, requested >>
  BY DEF PrintList, At
<1>2. /\ thread[t] \in ThreadData /\ thread \in [Threads -> ThreadData]
      /\ rest \subseteq thread[t].toPrint
  BY DEF TypeInv
<1> HIDE DEF rest
<1>3. /\ r \in ThreadData /\ r.pc = "printing" /\ r.req = thread[t].req
      /\ r.toPrint = rest
  BY <1>1, <1>2 DEF ThreadData
<1> HIDE DEF r
<1>4. /\ thread' \in [Threads -> ThreadData] /\ thread'[t] = r
      /\ \A u \in Threads : u # t => thread'[u] = thread[u]
  BY <1>1, <1>2, <1>3
<1>5. thread[t].req.op = "store" /\ rest \subseteq DOMAIN progressData
  BY <1>1, <1>2 DEF TypeInv, RequestInv, StoreSteps
<1>6. RequestInv'
  BY <1>1, <1>3, <1>4, <1>5, RequestsKept DEF StoreSteps, DeleteSteps
<1>7. LockInv'
  <2>1. Holds(t) = {ProgressLock} /\ Holds(t)' = {ProgressLock}
    BY <1>1, <1>3, <1>4 DEF Holds, At
  <2> QED BY <1>1, <1>4, <2>1, LocksKept
<1> QED BY <1>1, <1>4, <1>6, <1>7 DEF TypeInv

LEMMA TypeEndPrint ==
  ASSUME TypeInv, NEW t \in Threads, EndPrint(t)
  PROVE  TypeInv'
<1>1. /\ thread[t].pc = "printing" /\ Unlock(ProgressLock) /\ Answer(t, <<>>)
      /\ UNCHANGED << detData, progressData, requested >>
  BY DEF EndPrint, At
<1>2. /\ thread' \in [Threads -> ThreadData]
      /\ thread'[t].pc = "answer" /\ thread'[t].toPrint = thread[t].toPrint
      /\ \A u \in Threads : u # t => thread'[u] = thread[u]
  BY <1>1, AnswerThread, EmptyAnswer
<1>3. thread[t].toPrint \subseteq DOMAIN progressData
  BY DEF TypeInv, RequestInv
<1>4. RequestInv'
  BY <1>1, <1>2, <1>3, RequestsKept DEF StoreSteps, DeleteSteps
<1>5. LockInv' /\ owner' \in [Locks -> Threads \union {Free}]
  <2>1. Holds(t) = {ProgressLock} /\ Holds(t)' = {}
    BY <1>1, <1>2 DEF Holds, At
  <2> QED BY <1>1, <1>2, <2>1, LockReleased, LocksDiffer
<1> QED BY <1>1, <1>2, <1>4, <1>5 DEF TypeInv

\* The steps that only look something up, or answer.
LEMMA TypeLooksUp ==
  ASSUME TypeInv, NEW t \in Threads, UNCHANGED << detData, progressData, owner, requested >>,
         Holds(t) = {},
         \/ \E a \in Answers : Answer(t, a)
         \/ /\ thread[t].pc = "lookup" /\ Goto(t, "convert")
            /\ detData[thread[t].req.mb][thread[t].req.id] # "absent"
         \/ /\ thread[t].pc = "find" /\ Goto(t, thread[t].req.op)
            /\ thread[t].req.mb \in DOMAIN progressData
  PROVE  TypeInv'
<1>1. thread[t].toPrint \subseteq DOMAIN progressData
  BY DEF TypeInv, RequestInv
<1>2. ASSUME /\ thread' \in [Threads -> ThreadData]
             /\ thread'[t].pc \in {"answer", "convert", "list", "delete"}
             /\ \A u \in Threads : u # t => thread'[u] = thread[u]
             /\ RequestInv'
      PROVE  TypeInv'
  <2>1. Holds(t)' = {}
    BY <1>2 DEF Holds, At
  <2>2. LockInv'
    BY <1>2, <2>1, LocksKept
  <2> QED BY <1>2, <2>2 DEF TypeInv
<1>3. CASE \E a \in Answers : Answer(t, a)
  <2>1. /\ thread' \in [Threads -> ThreadData]
        /\ thread'[t].pc = "answer" /\ thread'[t].toPrint = thread[t].toPrint
        /\ \A u \in Threads : u # t => thread'[u] = thread[u]
    BY <1>3, AnswerThread
  <2>2. RequestInv'
    BY <1>1, <2>1, RequestsKept DEF StoreSteps, DeleteSteps
  <2> QED BY <1>2, <2>1, <2>2
<1>4. CASE /\ thread[t].pc = "lookup" /\ Goto(t, "convert")
           /\ detData[thread[t].req.mb][thread[t].req.id] # "absent"
  <2>1. /\ thread' \in [Threads -> ThreadData]
        /\ thread'[t].pc = "convert" /\ thread'[t].toPrint = thread[t].toPrint
        /\ thread'[t].req = thread[t].req
        /\ \A u \in Threads : u # t => thread'[u] = thread[u]
    BY <1>4, GotoThread DEF Steps
  <2>2. thread[t].req.op = "getPals"
    BY <1>4 DEF TypeInv, RequestInv
  <2>3. RequestInv'
    BY <1>1, <1>4, <2>1, <2>2, RequestsKept DEF StoreSteps, DeleteSteps
  <2> QED BY <1>2, <2>1, <2>3
<1>5. CASE /\ thread[t].pc = "find" /\ Goto(t, thread[t].req.op)
           /\ thread[t].req.mb \in DOMAIN progressData
  <2>1. thread[t].req.op \in {"list", "delete"} /\ thread[t].req.op \in Steps
    BY <1>5 DEF TypeInv, RequestInv, Steps
  <2>2. /\ thread' \in [Threads -> ThreadData]
        /\ thread'[t].pc = thread[t].req.op /\ thread'[t].toPrint = thread[t].toPrint
        /\ thread'[t].req = thread[t].req
        /\ \A u \in Threads : u # t => thread'[u] = thread[u]
    BY <1>5, <2>1, GotoThread
  <2>3. RequestInv'
    BY <1>1, <1>5, <2>1, <2>2, RequestsKept DEF StoreSteps, DeleteSteps
  <2> QED BY <1>2, <2>1, <2>2, <2>3
<1> QED BY <1>3, <1>4, <1>5

LEMMA ListedType ==
  ASSUME TypeInv, NEW mb
  PROVE  Listed(mb) \in Seq(PacketIds)
BY EmptySeq DEF Listed, TypeInv

LEMMA TypeGetPalsStep ==
  ASSUME TypeInv, NEW t \in Threads, GetPalsStep(t)
  PROVE  TypeInv'
<1>1. CASE GetPacketData(t)
  <2>1. Holds(t) = {} /\ thread[t].pc = "lookup"
    BY <1>1 DEF GetPacketData, Holds, At
  <2>2. \/ /\ Goto(t, "convert")
           /\ detData[thread[t].req.mb][thread[t].req.id] # "absent"
        \/ Answer(t, <<>>)
    BY <1>1 DEF GetPacketData
  <2> QED BY <1>1, <2>1, <2>2, TypeLooksUp, EmptyAnswer DEF GetPacketData
<1>2. CASE ConvertPacketDataToPM(t)
  <2>1. Holds(t) = {} /\ thread[t].pc = "convert"
    BY <1>2 DEF ConvertPacketDataToPM, Holds, At
  <2>2. thread[t].req.mb \in Mbs /\ thread[t].req.id \in PacketIds
    BY <2>1, ThreadFields, RequestFields DEF TypeInv, RequestInv
  <2>3. PICK found : /\ Answer(t, <<found>>)
                     /\ LET d == detData[thread[t].req.mb][thread[t].req.id]
                        IN found \in CASE d = "stored"  -> {"pals"}
                                       [] d = "created" -> {"no pals"}
                                       [] d = "freed"   -> {"pals", "garbage"}
    BY <1>2 DEF ConvertPacketDataToPM
  <2>4. found \in {"pals", "no pals", "garbage"}
    <3> DEFINE d == detData[thread[t].req.mb][thread[t].req.id]
    <3>1. d \in DataStates /\ d # "absent"
      BY <2>1, <2>2 DEF TypeInv, RequestInv
    <3> HIDE DEF d
    <3>2. d \in {"created", "stored", "freed"}
      BY <3>1 DEF DataStates
    <3>3. found \in CASE d = "stored"  -> {"pals"}
                      [] d = "created" -> {"no pals"}
                      [] d = "freed"   -> {"pals", "garbage"}
      BY <2>3 DEF d
    <3> QED BY <3>2, <3>3
  <2>5. <<found>> \in Answers
    <3> DEFINE F == {"pals", "no pals", "garbage"}
    <3>1. found \in F
      BY <2>4
    <3> HIDE DEF F
    <3>2. <<found>> \in Seq(F)
      BY <3>1
    <3> QED BY <3>2 DEF Answers, F
  <2> QED BY <1>2, <2>1, <2>3, <2>5, TypeLooksUp DEF ConvertPacketDataToPM
<1> QED BY <1>1, <1>2 DEF GetPalsStep

LEMMA TypeListStep ==
  ASSUME TypeInv, NEW t \in Threads, ListStep(t)
  PROVE  TypeInv'
<1>1. CASE GetServerProgressData(t)
  <2>1. Holds(t) = {} /\ thread[t].pc = "find"
    BY <1>1 DEF GetServerProgressData, Holds, At
  <2>2. \/ Goto(t, thread[t].req.op) /\ thread[t].req.mb \in DOMAIN progressData
        \/ Answer(t, <<>>)
    BY <1>1 DEF GetServerProgressData
  <2> QED BY <1>1, <2>1, <2>2, TypeLooksUp, EmptyAnswer DEF GetServerProgressData
<1>2. CASE GetProcessedPackets(t)
  <2>1. Holds(t) = {}
    BY <1>2 DEF GetProcessedPackets, Holds, At
  <2> DEFINE l == Listed(thread[t].req.mb)
             a == IF thread[t].req.allVersions THEN l ELSE FirstVersions(l)
  <2>2. Answer(t, a)
    BY <1>2 DEF GetProcessedPackets
  <2>3. l \in Seq(PacketIds)
    BY ListedType
  <2> HIDE DEF l
  <2>4. a \in Answers
    BY <2>3, FirstVersionsType DEF Answers
  <2> HIDE DEF a
  <2> QED BY <1>2, <2>1, <2>2, <2>4, TypeLooksUp DEF GetProcessedPackets
<1> QED BY <1>1, <1>2 DEF ListStep

LEMMA TypeLockList ==
  ASSUME TypeInv, NEW t \in Threads, LockList(t)
  PROVE  TypeInv'
<1> DEFINE l == SpdLock(thread[t].req.mb)
<1>1. /\ thread[t].pc = "delete" /\ Lock(l, t) /\ Goto(t, "lock data")
      /\ UNCHANGED << detData, progressData, requested >>
  BY DEF LockList, At
<1>2. /\ thread' \in [Threads -> ThreadData]
      /\ thread'[t].pc = "lock data" /\ thread'[t].req = thread[t].req
      /\ thread'[t].toPrint = thread[t].toPrint
      /\ \A u \in Threads : u # t => thread'[u] = thread[u]
  BY <1>1, GotoThread DEF Steps
<1>3. /\ thread[t].req.op = "delete" /\ thread[t].toPrint \subseteq DOMAIN progressData
      /\ thread[t].req.mb \in DOMAIN progressData
  BY <1>1 DEF TypeInv, RequestInv, DeleteSteps
<1>4. RequestInv'
  BY <1>1, <1>2, <1>3, RequestsKept DEF StoreSteps, DeleteSteps
<1>5. l \in Locks
  BY <1>3, ThreadFields, RequestFields, LocksDiffer
<1>6. LockInv' /\ owner' \in [Locks -> Threads \union {Free}]
  <2>1. Holds(t) = {} /\ Holds(t)' = {l}
    BY <1>1, <1>2 DEF Holds, At
  <2> HIDE DEF l
  <2> QED BY <1>1, <1>2, <1>5, <2>1, LockTaken
<1> QED BY <1>1, <1>2, <1>4, <1>6 DEF TypeInv

LEMMA TypeLockData ==
  ASSUME TypeInv, NEW t \in Threads, LockData(t)
  PROVE  TypeInv'
<1> DEFINE l == SpdLock(thread[t].req.mb)
<1>1. /\ thread[t].pc = "lock data" /\ Lock(DataLock, t) /\ Goto(t, "delete data")
      /\ UNCHANGED << detData, progressData, requested >>
  BY DEF LockData, At
<1>2. /\ thread' \in [Threads -> ThreadData]
      /\ thread'[t].pc = "delete data" /\ thread'[t].req = thread[t].req
      /\ thread'[t].toPrint = thread[t].toPrint
      /\ \A u \in Threads : u # t => thread'[u] = thread[u]
  BY <1>1, GotoThread DEF Steps
<1>3. /\ thread[t].req.op = "delete" /\ thread[t].toPrint \subseteq DOMAIN progressData
      /\ thread[t].req.mb \in DOMAIN progressData
  BY <1>1 DEF TypeInv, RequestInv, DeleteSteps
<1>4. RequestInv'
  BY <1>1, <1>2, <1>3, RequestsKept DEF StoreSteps, DeleteSteps
<1>5. LockInv' /\ owner' \in [Locks -> Threads \union {Free}]
  <2>1. Holds(t) = {l} /\ Holds(t)' = {l, DataLock}
    BY <1>1, <1>2 DEF Holds, At
  <2> HIDE DEF l
  <2>2. Holds(t)' = Holds(t) \union {DataLock}
    BY <2>1
  <2> QED BY <1>1, <1>2, <2>2, LockTaken, LocksDiffer
<1> QED BY <1>1, <1>2, <1>4, <1>5 DEF TypeInv

LEMMA TypeDeletePacketsFromMbData ==
  ASSUME TypeInv, NEW t \in Threads, DeletePacketsFromMbData(t)
  PROVE  TypeInv'
<1> DEFINE l == SpdLock(thread[t].req.mb)
<1>1. /\ thread[t].pc = "delete data" /\ Unlock(DataLock) /\ Goto(t, "erase")
      /\ UNCHANGED << progressData, requested >>
  BY DEF DeletePacketsFromMbData, At
<1>2. /\ thread' \in [Threads -> ThreadData]
      /\ thread'[t].pc = "erase" /\ thread'[t].req = thread[t].req
      /\ thread'[t].toPrint = thread[t].toPrint
      /\ \A u \in Threads : u # t => thread'[u] = thread[u]
  BY <1>1, GotoThread DEF Steps
<1>3. /\ thread[t].req.op = "delete" /\ thread[t].toPrint \subseteq DOMAIN progressData
      /\ thread[t].req.mb \in DOMAIN progressData
  BY <1>1 DEF TypeInv, RequestInv, DeleteSteps
<1>4. PICK gone : detData' = [ detData EXCEPT ![thread[t].req.mb] =
                     [ id \in PacketIds |-> IF id \in gone THEN "freed" ELSE @[id] ] ]
  BY DEF DeletePacketsFromMbData
<1>5. /\ detData' \in [Mbs -> [PacketIds -> DataStates]]
      /\ \A mb \in Mbs, id \in PacketIds :
            detData[mb][id] # "absent" => detData'[mb][id] # "absent"
  BY <1>4 DEF TypeInv, DataStates
<1>6. RequestInv'
  BY <1>1, <1>2, <1>3, <1>5, RequestsKept DEF StoreSteps, DeleteSteps
<1>7. LockInv' /\ owner' \in [Locks -> Threads \union {Free}]
  <2>1. Holds(t) = {l, DataLock} /\ Holds(t)' = {l}
    BY <1>1, <1>2 DEF Holds, At
  <2>2. l # DataLock
    BY LocksDiffer
  <2> HIDE DEF l
  <2>3. Holds(t)' = Holds(t) \ {DataLock} /\ DataLock \in Holds(t)
    BY <2>1, <2>2
  <2> QED BY <1>1, <1>2, <2>3, LockReleased, LocksDiffer
<1> QED BY <1>1, <1>2, <1>5, <1>6, <1>7 DEF TypeInv

LEMMA TypeEraseFirst ==
  ASSUME TypeInv, NEW t \in Threads, EraseFirst(t)
  PROVE  TypeInv'
<1> DEFINE mb == thread[t].req.mb  n == thread[t].req.count
<1>1. /\ thread[t].pc = "erase" /\ Unlock(SpdLock(mb)) /\ Answer(t, <<>>)
      /\ progressData' = [ progressData EXCEPT ![mb] = DropFirst(@, n) ]
      /\ UNCHANGED << detData, requested >>
  BY DEF EraseFirst, At
<1>2. /\ thread' \in [Threads -> ThreadData]
      /\ thread'[t].pc = "answer" /\ thread'[t].toPrint = thread[t].toPrint
      /\ \A u \in Threads : u # t => thread'[u] = thread[u]
  BY <1>1, AnswerThread, EmptyAnswer
<1>3. /\ thread[t].req.op = "delete" /\ thread[t].toPrint \subseteq DOMAIN progressData
      /\ mb \in DOMAIN progressData
  BY <1>1 DEF TypeInv, RequestInv, DeleteSteps
<1>4. mb \in Mbs /\ n \in Nat
  BY <1>3, ThreadFields, RequestFields
<1>5. LockInv' /\ owner' \in [Locks -> Threads \union {Free}]
  <2>1. Holds(t) = {SpdLock(mb)} /\ Holds(t)' = {}
    BY <1>1, <1>2 DEF Holds, At
  <2> HIDE DEF mb
  <2> QED BY <1>1, <1>2, <1>4, <2>1, LockReleased, LocksDiffer
<1> HIDE DEF mb, n
<1>6. /\ DOMAIN progressData' = DOMAIN progressData
      /\ progressData' \in [DOMAIN progressData -> Seq(PacketIds)]
  <2>1. progressData \in [DOMAIN progressData -> Seq(PacketIds)]
    BY DEF TypeInv
  <2>2. DropFirst(progressData[mb], n) \in Seq(PacketIds)
    BY <1>3, <1>4, <2>1, DropFirstSpec
  <2> QED BY <1>1, <1>3, <2>1, <2>2
<1>7. RequestInv'
  BY <1>1, <1>2, <1>3, <1>6, RequestsKept DEF StoreSteps, DeleteSteps
<1> QED BY <1>1, <1>2, <1>5, <1>6, <1>7 DEF TypeInv

LEMMA TypeSendAnswer ==
  ASSUME TypeInv, NEW t \in Threads, SendAnswer(t)
  PROVE  TypeInv'
<1>1. /\ thread[t].pc = "answer" /\ thread' = [ thread EXCEPT ![t] = IdleThread ]
      /\ UNCHANGED << detData, progressData, owner, requested >>
  BY DEF SendAnswer, At
<1>2. IdleThread \in ThreadData /\ IdleThread.pc = "idle" /\ IdleThread.toPrint = {}
  BY EmptyAnswer DEF IdleThread, ThreadData, None, Steps
<1>3. thread \in [Threads -> ThreadData]
  BY DEF TypeInv
<1>4. /\ thread' \in [Threads -> ThreadData] /\ thread'[t] = IdleThread
      /\ \A u \in Threads : u # t => thread'[u] = thread[u]
  BY <1>1, <1>2, <1>3
<1>5. RequestInv'
  BY <1>1, <1>2, <1>4, RequestsKept DEF StoreSteps, DeleteSteps
<1>6. LockInv'
  <2>1. Holds(t) = {} /\ Holds(t)' = {}
    BY <1>1, <1>2, <1>4 DEF Holds, At
  <2> QED BY <1>1, <1>4, <2>1, LocksKept
<1> QED BY <1>1, <1>4, <1>5, <1>6 DEF TypeInv

LEMMA TypeNext == TypeInv /\ [Next]_vars => TypeInv'
<1> SUFFICES ASSUME TypeInv, [Next]_vars PROVE TypeInv'
  OBVIOUS
<1>1. CASE UNCHANGED vars
  BY <1>1 DEF vars, TypeInv, RequestInv, LockInv, Holds, At
<1>2. CASE Next
  <2>1. PICK t \in Threads : Receive(t) \/ Work(t)
    BY <1>2 DEF Next
  <2>2. CASE Receive(t)
    BY <2>2, TypeReceive
  <2>3. CASE StoreStep(t)
    BY <2>3, TypeGetOrCreatePacketData, TypeUpdatePacketData, TypeGetOrCreateServerProgressData,
       TypeAddPacketId, TypeStartPrint, TypePrintList, TypeEndPrint DEF StoreStep
  <2>4. CASE GetPalsStep(t)
    BY <2>4, TypeGetPalsStep
  <2>5. CASE ListStep(t)
    BY <2>5, TypeListStep
  <2>6. CASE DeleteStep(t)
    BY <2>6, TypeLockList, TypeLockData, TypeDeletePacketsFromMbData, TypeEraseFirst DEF DeleteStep
  <2>7. CASE SendAnswer(t)
    BY <2>7, TypeSendAnswer
  <2> QED BY <2>1, <2>2, <2>3, <2>4, <2>5, <2>6, <2>7 DEF Work
<1> QED BY <1>1, <1>2

LEMMA TypeInvIsType == TypeInv => TypeOK
<1> SUFFICES ASSUME TypeInv PROVE TypeOK
  OBVIOUS
<1>1. \A mb \in DOMAIN progressData : progressData[mb] \in Seq(PacketIds)
  BY DEF TypeInv
<1>2. DOMAIN thread = Threads
  BY DEF TypeInv
<1>3. \A t \in Threads : /\ thread[t].pc \in Steps
                         /\ thread[t].req \in Requests \union {IdleThread.req}
                         /\ thread[t].toPrint \subseteq DOMAIN progressData
  BY ThreadFields DEF TypeInv, RequestInv, None
<1> QED BY <1>1, <1>2, <1>3 DEF TypeInv, TypeOK, LockInv

LEMMA AlwaysTyped == Spec => []TypeInv
BY TypeInit, TypeNext, PTL DEF Spec

\* The variables of the determinant logger have their types, and each lock is held by
\* the thread that is in its critical section and by no other.
THEOREM DetLoggerTypeCorrect == Spec => []TypeOK
BY AlwaysTyped, TypeInvIsType, PTL

-----------------------------------------------------------------------------
(* No circular wait *)

\* Where a thread stands that holds a lock.
LEMMA Holders ==
  ASSUME TypeInv, NEW t \in Threads, NEW u \in Threads
  PROVE  /\ owner[DataLock] = u => thread[u].pc = "delete data"
         /\ \A mb \in Mbs : owner[SpdLock(mb)] = u =>
              thread[u].pc \in {"lock data", "delete data", "erase"}
         /\ owner[ProgressLock] = u => thread[u].pc = "printing"
<1>1. \A l \in Locks : owner[l] = u => l \in Holds(u)
  BY DEF TypeInv, LockInv
<1>2. \/ thread[u].pc = "printing" /\ Holds(u) = {ProgressLock}
      \/ thread[u].pc = "delete data" /\ Holds(u) = {SpdLock(thread[u].req.mb), DataLock}
      \/ thread[u].pc \in {"lock data", "erase"} /\ Holds(u) = {SpdLock(thread[u].req.mb)}
      \/ Holds(u) = {}
  BY DEF Holds, At
<1> QED BY <1>1, <1>2, LocksDiffer

LEMMA NextIsListed ==
  ASSUME TypeInv, NEW t \in Threads, thread[t].toPrint # {}
  PROVE  NextToPrint(t) \in Mbs
<1> DEFINE T == thread[t].toPrint
<1>1. T \in SUBSET Nat /\ T \subseteq Mbs /\ T # {}
  BY ThreadFields, MbsAssumption
<1> HIDE DEF T
<1>2. \E mb \in T : \A n \in T : mb <= n
  BY <1>1, LeastMember
<1>3. (CHOOSE mb \in T : \A n \in T : mb <= n) \in T
  BY <1>2
<1> QED BY <1>1, <1>3 DEF NextToPrint, T

\* What a thread waits for: the packets, a list, or the map of lists.
LEMMA Waits ==
  ASSUME TypeInv, NEW t \in Threads
  PROVE  \/ NeededLocks(t) = {} /\ thread[t].pc \notin {"lock data"}
         \/ NeededLocks(t) = {DataLock} /\ thread[t].pc \in {"create", "lookup", "lock data"}
         \/ \E mb \in Mbs : /\ NeededLocks(t) = {SpdLock(mb)}
                            /\ thread[t].pc \in {"add", "list", "delete", "printing"}
         \/ NeededLocks(t) = {ProgressLock} /\ thread[t].pc \in {"progress", "print", "find"}
<1>1. CASE thread[t].pc \in {"create", "lookup", "lock data"}
  BY <1>1 DEF NeededLocks
<1>2. CASE thread[t].pc \in {"progress", "print", "find"}
  BY <1>2 DEF NeededLocks
<1>3. CASE thread[t].pc \in {"add", "list", "delete"}
  <2>1. thread[t].req.mb \in Mbs
    BY <1>3 DEF TypeInv, RequestInv, DeleteSteps
  <2> QED BY <1>3, <2>1 DEF NeededLocks
<1>4. CASE thread[t].pc = "printing"
  BY <1>4, NextIsListed DEF NeededLocks
<1>5. CASE thread[t].pc \in {"idle", "update", "convert", "delete data", "erase", "answer"}
  BY <1>5 DEF NeededLocks
<1> QED BY <1>1, <1>2, <1>3, <1>4, <1>5, ThreadFields DEF Steps

LEMMA LockOrder == TypeInv => NoCircularWait
<1> SUFFICES ASSUME TypeInv, NEW S \in SUBSET Threads, S # {}
             PROVE  \E t \in S : \A l \in NeededLocks(t) : owner[l] \notin S
  BY DEF NoCircularWait
<1>1. CASE \E t \in S : NeededLocks(t) = {}
  BY <1>1
<1>2. CASE /\ ~ \E t \in S : NeededLocks(t) = {}
           /\ \E t \in S : NeededLocks(t) = {DataLock}
  <2>1. PICK t \in S : NeededLocks(t) = {DataLock}
    BY <1>2
  <2>2. owner[DataLock] \notin S
    <3> SUFFICES ASSUME owner[DataLock] \in S PROVE FALSE
      OBVIOUS
    <3>1. PICK u \in S : owner[DataLock] = u
      OBVIOUS
    <3>2. u \in Threads /\ thread[u].pc = "delete data"
      BY <3>1, Holders
    <3>3. NeededLocks(u) = {}
      BY <3>2 DEF NeededLocks
    <3> QED BY <1>2, <3>3
  <2> QED BY <2>1, <2>2
<1>3. CASE /\ ~ \E t \in S : NeededLocks(t) \in {{}, {DataLock}}
           /\ \E t \in S, mb \in Mbs : NeededLocks(t) = {SpdLock(mb)}
  <2>1. PICK t \in S, mb \in Mbs : NeededLocks(t) = {SpdLock(mb)}
    BY <1>3
  <2>2. owner[SpdLock(mb)] \notin S
    <3> SUFFICES ASSUME owner[SpdLock(mb)] \in S PROVE FALSE
      OBVIOUS
    <3>1. PICK u \in S : owner[SpdLock(mb)] = u
      OBVIOUS
    <3>2. u \in Threads /\ thread[u].pc \in {"lock data", "delete data", "erase"}
      BY <3>1, Holders
    <3>3. NeededLocks(u) \in {{}, {DataLock}}
      BY <3>2 DEF NeededLocks
    <3> QED BY <1>3, <3>3
  <2> QED BY <2>1, <2>2
<1>4. CASE ~ \E t \in S : \/ NeededLocks(t) \in {{}, {DataLock}}
                          \/ \E mb \in Mbs : NeededLocks(t) = {SpdLock(mb)}
  <2>1. PICK t \in S : TRUE
    OBVIOUS
  <2>2. t \in Threads /\ NeededLocks(t) = {ProgressLock}
    BY <1>4, <2>1, Waits
  <2>3. owner[ProgressLock] \notin S
    <3> SUFFICES ASSUME owner[ProgressLock] \in S PROVE FALSE
      OBVIOUS
    <3>1. PICK u \in S : owner[ProgressLock] = u
      OBVIOUS
    <3>2. u \in Threads /\ thread[u].pc = "printing"
      BY <3>1, Holders
    <3>3. NeededLocks(u) = {} \/ \E mb \in Mbs : NeededLocks(u) = {SpdLock(mb)}
      BY <3>2, Waits
    <3> QED BY <1>4, <3>3
  <2> QED BY <2>1, <2>2, <2>3
<1> QED BY <1>1, <1>2, <1>3, <1>4

\* Printing takes progressData's lock and then a list's, deleting a list's and then
\* detData's: no threads, however many, wait for each other in a circle.
THEOREM NeverDeadlocked == Spec => []NoCircularWait
BY AlwaysTyped, LockOrder, PTL

-----------------------------------------------------------------------------
(* The lists and the packets' data *)

Distinct(s) == \A i, j \in DOMAIN s : s[i] = s[j] => i = j

StoringSteps == {"create", "update", "progress", "add"}

\* An id is listed once, and only if a client asked for it.
ListsInv ==
  \A mb \in Mbs : /\ Distinct(Listed(mb))
                 /\ \A id \in Elements(Listed(mb)) : <<mb, id>> \in requested

\* A store that is not listed yet is the only one of its id, and has its
\* determinants complete before it is listed.
Stores(t, mb, id) ==
  thread[t].pc \in StoringSteps /\ thread[t].req.mb = mb /\ thread[t].req.id = id

StoringInv ==
  \A t \in Threads : thread[t].pc \in StoringSteps =>
    \E mb \in Mbs, id \in PacketIds :
      /\ Stores(t, mb, id)
      /\ <<mb, id>> \in requested
      /\ id \notin Elements(Listed(mb))
      /\ \A u \in Threads : Stores(u, mb, id) => u = t
      /\ thread[t].pc \in {"progress", "add"} => detData[mb][id] = "stored"

DataInv == ListsInv /\ StoringInv /\ ListedHasPals /\ DataIsListed

LEMMA AppendDistinct ==
  ASSUME NEW S, NEW s \in Seq(S), NEW x \in S, Distinct(s), x \notin Elements(s)
  PROVE  Distinct(Append(s, x))
<1> DEFINE p == Append(s, x)
<1>1. /\ p \in Seq(S) /\ Len(s) \in Nat /\ Len(p) = Len(s) + 1
      /\ \A i \in 1..Len(s) : p[i] = s[i]
      /\ p[Len(s) + 1] = x
  BY AppendProperties, LenProperties
<1> HIDE DEF p
<1>2. DOMAIN s = 1..Len(s) /\ DOMAIN p = 1..(Len(s) + 1)
  BY <1>1, LenProperties
<1>3. \A i \in 1..Len(s) : s[i] # x
  BY <1>2 DEF Elements
<1>4. ASSUME NEW i \in 1..(Len(s) + 1), NEW j \in 1..(Len(s) + 1), p[i] = p[j]
      PROVE  i = j
  <2>1. CASE i <= Len(s) /\ j <= Len(s)
    <3>1. i \in 1..Len(s) /\ j \in 1..Len(s)
      BY <1>1, <2>1
    <3> QED BY <1>1, <1>2, <1>4, <3>1 DEF Distinct
  <2>2. CASE i <= Len(s) /\ j = Len(s) + 1
    <3>1. i \in 1..Len(s)
      BY <1>1, <2>2
    <3> QED BY <1>1, <1>3, <1>4, <2>2, <3>1
  <2>3. CASE i = Len(s) + 1 /\ j <= Len(s)
    <3>1. j \in 1..Len(s)
      BY <1>1, <2>3
    <3> QED BY <1>1, <1>3, <1>4, <2>3, <3>1
  <2>4. CASE i = Len(s) + 1 /\ j = Len(s) + 1
    BY <2>4
  <2> QED BY <1>1, <2>1, <2>2, <2>3, <2>4
<1> QED BY <1>2, <1>4 DEF Distinct, p

\* What is erased from the front of a list is not behind it.
LEMMA DropDistinct ==
  ASSUME NEW S, NEW s \in Seq(S), NEW n \in Nat, Distinct(s)
  PROVE  /\ Distinct(DropFirst(s, n))
         /\ \A k \in 1..Len(s) : k <= n => s[k] \notin Elements(DropFirst(s, n))
<1> DEFINE a == IF n <= Len(s) THEN n ELSE Len(s)
           p == SubSeq(s, 1 + a, Len(s))
<1>1. Len(s) \in Nat /\ DOMAIN s = 1..Len(s) /\ \A i \in 1..Len(s) : s[i] \in S
  BY LenProperties, ElementOfSeq
<1>2. a \in Nat /\ a <= Len(s) /\ \A k \in 1..Len(s) : k <= n => k <= a
  BY <1>1
<1>3. DropFirst(s, n) = p
  BY DEF DropFirst
<1> HIDE DEF a
<1>4. /\ p \in Seq(S)
      /\ Len(p) = IF 1 + a <= Len(s) THEN Len(s) - (1 + a) + 1 ELSE 0
      /\ \A i \in 1..(Len(s) - (1 + a) + 1) : p[i] = s[1 + a + i - 1]
  BY <1>1, <1>2, SubSeqProperties
<1> HIDE DEF p
<1>5. /\ DOMAIN p = 1..Len(p) /\ Len(p) \in Nat
      /\ \A i \in 1..Len(p) : i + a \in 1..Len(s) /\ p[i] = s[i + a]
  <2>1. Len(p) = Len(s) - a /\ Len(p) \in Nat
    <3>1. CASE 1 + a <= Len(s)
      BY <1>1, <1>2, <1>4, <3>1
    <3>2. CASE ~(1 + a <= Len(s))
      <4>0. a \in Nat /\ a <= Len(s) /\ Len(s) \in Nat
        BY <1>1, <1>2
      <4>1. a = Len(s)
        BY <3>2, <4>0
      <4> QED BY <1>1, <1>4, <3>2, <4>1
    <3> QED BY <3>1, <3>2
  <2>2. Len(s) - (1 + a) + 1 = Len(s) - a
    BY <1>1, <1>2
  <2>3. \A i \in 1..Len(p) : 1 + a + i - 1 = i + a /\ i + a \in 1..Len(s)
    BY <1>1, <1>2, <2>1
  <2>4. \A i \in 1..Len(p) : p[i] = s[i + a]
    BY <1>4, <2>1, <2>2, <2>3
  <2>5. DOMAIN p = 1..Len(p)
    BY <1>4, LenProperties
  <2> QED BY <2>1, <2>3, <2>4, <2>5
<1>6. ASSUME NEW i \in 1..Len(p), NEW j \in 1..Len(p), p[i] = p[j]
      PROVE  i = j
  <2>1. i + a = j + a
    BY <1>1, <1>5, <1>6 DEF Distinct
  <2> QED BY <1>2, <2>1
<1>7. ASSUME NEW k \in 1..Len(s), k <= n, NEW i \in 1..Len(p)
      PROVE  p[i] # s[k]
  <2>1. i + a \in 1..Len(s) /\ i + a # k
    BY <1>2, <1>5, <1>7
  <2> QED BY <1>1, <1>5, <2>1 DEF Distinct
<1> QED BY <1>3, <1>5, <1>6, <1>7 DEF Distinct, Elements

LEMMA DropSplits ==
  ASSUME NEW S, NEW s \in Seq(S), NEW n \in Nat
  PROVE  /\ Elements(DropFirst(s, n)) \subseteq Elements(s)
         /\ \A x \in Elements(s) :
              \/ x \in Elements(DropFirst(s, n))
              \/ x \in { s[k] : k \in { m \in DOMAIN s : m <= n } }
<1>1. DOMAIN s = 1..Len(s)
  BY LenProperties
<1>2. Elements(DropFirst(s, n)) \subseteq Elements(s)
  BY DropFirstSpec
<1>3. ASSUME NEW x \in Elements(s), x \notin Elements(DropFirst(s, n))
      PROVE  \E i \in 1..Len(s) : i <= n /\ s[i] = x
  <2>1. SUFFICES ASSUME ~ \E i \in 1..Len(s) : i <= n /\ s[i] = x PROVE FALSE
    OBVIOUS
  <2> QED BY <1>3, <2>1, DropFirstSpec
<1> QED BY <1>1, <1>2, <1>3

-----------------------------------------------------------------------------
(* What clients see listed *)

Erasing(u, mb) == At(u, "erase") /\ thread[u].req.mb = mb

VisibleFacts ==
  \A mb \in Mbs :
    /\ (\A u \in Threads : ~Erasing(u, mb)) => Visible(mb) = Listed(mb)
    /\ \A u \in Threads :
         /\ Erasing(u, mb) /\ thread[u].req.count \in 0..MaxDelete
         /\ \A v \in Threads : Erasing(v, mb) => v = u
         => Visible(mb) = DropFirst(Listed(mb), thread[u].req.count)

LEMMA VisibleIs == VisibleFacts
<1> SUFFICES ASSUME NEW mb \in Mbs
             PROVE  /\ (\A u \in Threads : ~Erasing(u, mb)) => Visible(mb) = Listed(mb)
                    /\ \A u \in Threads :
                         /\ Erasing(u, mb) /\ thread[u].req.count \in 0..MaxDelete
                         /\ \A v \in Threads : Erasing(v, mb) => v = u
                         => Visible(mb) = DropFirst(Listed(mb), thread[u].req.count)
  BY DEF VisibleFacts
<1> DEFINE going == { n \in 0..MaxDelete :
                        \E t \in Threads : At(t, "erase") /\ thread[t].req.mb = mb
                                           /\ thread[t].req.count = n }
<1>1. Visible(mb) = IF going = {} THEN Listed(mb)
                                  ELSE DropFirst(Listed(mb), CHOOSE n \in going : TRUE)
  BY DEF Visible
<1>2. ASSUME \A u \in Threads : ~Erasing(u, mb) PROVE Visible(mb) = Listed(mb)
  <2>1. going = {}
    BY <1>2 DEF Erasing
  <2> QED BY <1>1, <2>1
<1>3. ASSUME NEW u \in Threads, Erasing(u, mb), thread[u].req.count \in 0..MaxDelete,
             \A v \in Threads : Erasing(v, mb) => v = u
      PROVE  Visible(mb) = DropFirst(Listed(mb), thread[u].req.count)
  <2>1. going = {thread[u].req.count}
    BY <1>3 DEF Erasing
  <2> HIDE DEF going
  <2>2. (CHOOSE n \in going : TRUE) = thread[u].req.count /\ going # {}
    BY <2>1
  <2> QED BY <1>1, <2>2
<1> QED BY <1>2, <1>3

LEMMA VisibleListed ==
  ASSUME TypeInv, NEW mb
  PROVE  Elements(Visible(mb)) \subseteq Elements(Listed(mb)) \intersect PacketIds
<1> DEFINE going == { n \in 0..MaxDelete :
                        \E t \in Threads : At(t, "erase") /\ thread[t].req.mb = mb
                                           /\ thread[t].req.count = n }
<1>1. Visible(mb) = IF going = {} THEN Listed(mb)
                                  ELSE DropFirst(Listed(mb), CHOOSE n \in going : TRUE)
  BY DEF Visible
<1>2. going # {} => (CHOOSE n \in going : TRUE) \in Nat
  BY MaxDeleteAssumption
<1> HIDE DEF going
<1>3. Elements(Visible(mb)) \subseteq Elements(Listed(mb))
  BY <1>1, <1>2, ListedType, DropFirstSpec
<1>4. Elements(Listed(mb)) \subseteq PacketIds
  BY ListedType, LenProperties, ElementOfSeq DEF Elements
<1> QED BY <1>3, <1>4

\* Only the thread that locked a list erases from it.
LEMMA ListLocked ==
  ASSUME TypeInv, NEW u \in Threads, thread[u].pc \in {"lock data", "delete data", "erase"}
  PROVE  /\ thread[u].req.mb \in Mbs /\ thread[u].req.count \in 0..MaxDelete
         /\ thread[u].req.count \in Nat
         /\ owner[SpdLock(thread[u].req.mb)] = u
<1>1. thread[u].req.op = "delete"
  BY DEF TypeInv, RequestInv, DeleteSteps
<1>2. thread[u].req.mb \in Mbs /\ thread[u].req.count \in 0..MaxDelete /\ thread[u].req.count \in Nat
  BY <1>1, ThreadFields, RequestFields
<1>3. SpdLock(thread[u].req.mb) \in Holds(u)
  BY DEF Holds, At
<1>4. SpdLock(thread[u].req.mb) \in Locks
  BY <1>2, LocksDiffer
<1> QED BY <1>2, <1>3, <1>4 DEF TypeInv, LockInv

LEMMA OneEraser ==
  ASSUME TypeInv, NEW u \in Threads, thread[u].pc \in {"lock data", "delete data", "erase"}
  PROVE  \A v \in Threads : Erasing(v, thread[u].req.mb) => v = u
<1> TAKE v \in Threads
<1> HAVE Erasing(v, thread[u].req.mb)
<1>1. thread[v].pc = "erase" /\ thread[v].req.mb = thread[u].req.mb
  BY DEF Erasing, At
<1> QED BY <1>1, ListLocked

LEMMA NoEraser ==
  ASSUME TypeInv, NEW mb \in Mbs, Unlocked(SpdLock(mb))
  PROVE  \A v \in Threads : ~Erasing(v, mb)
<1> SUFFICES ASSUME NEW v \in Threads, Erasing(v, mb) PROVE FALSE
  OBVIOUS
<1>1. owner[SpdLock(mb)] = v
  BY ListLocked DEF Erasing, At
<1> QED BY <1>1, ThreadsAssumption DEF Unlocked

\* What a thread that deletes from another list does changes nothing.
LEMMA SeenElsewhere ==
  ASSUME NEW t \in Threads, NEW b, thread[t].req.mb # b,
         thread'[t].pc = "erase" => thread'[t].req.mb # b,
         \A u \in Threads : u # t => thread'[u] = thread[u],
         Listed(b)' = Listed(b)
  PROVE  Visible(b)' = Visible(b)
<1>1. \A u \in Threads : \A k : At(u, "erase")' /\ thread'[u].req.mb = b /\ thread'[u].req.count = k
                              <=> At(u, "erase") /\ thread[u].req.mb = b /\ thread[u].req.count = k
  BY DEF At
<1> DEFINE going == { k \in 0..MaxDelete :
                        \E u \in Threads : At(u, "erase") /\ thread[u].req.mb = b
                                           /\ thread[u].req.count = k }
<1>2. going' = going
  BY ZenonT(30), <1>1
<1>3. Visible(b) = IF going = {} THEN Listed(b)
                                 ELSE DropFirst(Listed(b), CHOOSE k \in going : TRUE)
  BY DEF Visible
<1>4. Visible(b)' = IF going' = {} THEN Listed(b)'
                                   ELSE DropFirst(Listed(b)', CHOOSE k \in going' : TRUE)
  BY DEF Visible
<1> HIDE DEF going
<1> QED BY <1>2, <1>3, <1>4

LEMMA SeenAsBefore ==
  ASSUME NEW t \in Threads, thread[t].pc # "erase", thread'[t].pc # "erase",
         \A u \in Threads : u # t => thread'[u] = thread[u],
         NEW mb, Listed(mb)' = Listed(mb)
  PROVE  Visible(mb)' = Visible(mb)
<1>1. \A u \in Threads : \A n : At(u, "erase")' /\ thread'[u].req.mb = mb /\ thread'[u].req.count = n
                              <=> At(u, "erase") /\ thread[u].req.mb = mb /\ thread[u].req.count = n
  BY DEF At
<1> DEFINE going == { n \in 0..MaxDelete :
                        \E u \in Threads : At(u, "erase") /\ thread[u].req.mb = mb
                                           /\ thread[u].req.count = n }
<1>2. going' = going
  BY <1>1
<1>3. Visible(mb) = IF going = {} THEN Listed(mb)
                                  ELSE DropFirst(Listed(mb), CHOOSE n \in going : TRUE)
  BY DEF Visible
<1>4. Visible(mb)' = IF going' = {} THEN Listed(mb)'
                                    ELSE DropFirst(Listed(mb)', CHOOSE n \in going' : TRUE)
  BY DEF Visible
<1> HIDE DEF going
<1> QED BY <1>2, <1>3, <1>4
-----------------------------------------------------------------------------
(* The lists and the packets' data agree *)

LEMMA DataInit == Init => DataInv
<1> SUFFICES ASSUME Init PROVE DataInv
  OBVIOUS
<1>1. \A mb : Listed(mb) = <<>>
  BY DEF Init, Listed
<1>2. \A u \in Threads : thread[u].pc = "idle"
  BY DEF Init, IdleThread
<1>3. \A mb \in Mbs : Visible(mb) = <<>>
  BY <1>1, <1>2, VisibleIs DEF VisibleFacts, Erasing, At
<1>4. ListsInv
  BY <1>1, EmptyElements DEF ListsInv, Distinct
<1>5. StoringInv
  BY <1>2 DEF StoringInv, StoringSteps
<1>6. ListedHasPals
  BY <1>3, EmptyElements DEF ListedHasPals
<1>7. DataIsListed
  BY DEF DataIsListed, Init
<1> QED BY <1>4, <1>5, <1>6, <1>7 DEF DataInv

LEMMA StoreFacts ==
  ASSUME StoringInv, NEW u \in Threads, NEW mb, NEW id, Stores(u, mb, id)
  PROVE  /\ mb \in Mbs /\ id \in PacketIds /\ <<mb, id>> \in requested
         /\ id \notin Elements(Listed(mb))
         /\ \A v \in Threads : Stores(v, mb, id) => v = u
         /\ thread[u].pc \in {"progress", "add"} => detData[mb][id] = "stored"
<1>1. PICK b \in Mbs, i \in PacketIds :
        /\ Stores(u, b, i)
        /\ <<b, i>> \in requested
        /\ i \notin Elements(Listed(b))
        /\ \A v \in Threads : Stores(v, b, i) => v = u
        /\ thread[u].pc \in {"progress", "add"} => detData[b][i] = "stored"
  BY DEF StoringInv, Stores
<1>2. b = mb /\ i = id
  BY <1>1 DEF Stores
<1> QED BY <1>1, <1>2

LEMMA StoringKept ==
  ASSUME StoringInv, requested \subseteq requested',
         \A u \in Threads : \A mb, id : Stores(u, mb, id)' =>
           /\ Stores(u, mb, id)
           /\ id \notin Elements(Listed(mb)')
           /\ thread'[u].pc \in {"progress", "add"} => detData'[mb][id] = "stored"
  PROVE  StoringInv'
<1>1. ASSUME NEW u \in Threads, thread'[u].pc \in StoringSteps
      PROVE  \E mb \in Mbs, id \in PacketIds :
               /\ Stores(u, mb, id)'
               /\ <<mb, id>> \in requested'
               /\ id \notin Elements(Listed(mb)')
               /\ \A v \in Threads : Stores(v, mb, id)' => v = u
               /\ thread'[u].pc \in {"progress", "add"} => detData'[mb][id] = "stored"
  <2>1. PICK mb, id : mb = thread'[u].req.mb /\ id = thread'[u].req.id
    OBVIOUS
  <2>2. Stores(u, mb, id)'
    BY <1>1, <2>1 DEF Stores
  <2>3. /\ Stores(u, mb, id) /\ id \notin Elements(Listed(mb)')
        /\ thread'[u].pc \in {"progress", "add"} => detData'[mb][id] = "stored"
    BY <2>2
  <2>4. /\ mb \in Mbs /\ id \in PacketIds /\ <<mb, id>> \in requested
        /\ \A v \in Threads : Stores(v, mb, id) => v = u
    BY <2>3, StoreFacts
  <2> QED BY <2>2, <2>3, <2>4
<1> QED BY <1>1 DEF StoringInv

\* A step that leaves the lists, the data and the storing threads alone.
LEMMA QuietStep ==
  ASSUME DataInv, NEW t \in Threads, detData' = detData, requested' = requested,
         \A mb : Listed(mb)' = Listed(mb),
         thread[t].pc # "erase", thread'[t].pc # "erase",
         \A u \in Threads : u # t => thread'[u] = thread[u],
         \/ thread[t].pc \notin StoringSteps /\ thread'[t].pc \notin StoringSteps
         \/ /\ thread[t].pc = "progress" /\ thread'[t].pc = "add"
            /\ thread'[t].req = thread[t].req
  PROVE  DataInv'
<1>1. \A mb : Visible(mb)' = Visible(mb)
  BY SeenAsBefore
<1>2. ListsInv'
  BY DEF DataInv, ListsInv
<1>3. StoringInv'
  <2>1. ASSUME NEW u \in Threads, NEW mb, NEW id, Stores(u, mb, id)'
        PROVE  /\ Stores(u, mb, id)
               /\ thread'[u].pc \in {"progress", "add"} => thread[u].pc \in {"progress", "add"}
    BY <2>1 DEF Stores, StoringSteps
  <2>2. ASSUME NEW u \in Threads, NEW mb, NEW id, Stores(u, mb, id)'
        PROVE  /\ Stores(u, mb, id)
               /\ id \notin Elements(Listed(mb)')
               /\ thread'[u].pc \in {"progress", "add"} => detData'[mb][id] = "stored"
    <3>1. /\ Stores(u, mb, id)
          /\ thread'[u].pc \in {"progress", "add"} => thread[u].pc \in {"progress", "add"}
      BY <2>1, <2>2
    <3>2. StoringInv
      BY DEF DataInv
    <3>3. /\ id \notin Elements(Listed(mb))
          /\ thread[u].pc \in {"progress", "add"} => detData[mb][id] = "stored"
      <4>1. Stores(u, mb, id)
        BY <3>1
      <4>2. /\ mb \in Mbs /\ id \in PacketIds /\ <<mb, id>> \in requested
            /\ id \notin Elements(Listed(mb))
            /\ \A v \in Threads : Stores(v, mb, id) => v = u
            /\ thread[u].pc \in {"progress", "add"} => detData[mb][id] = "stored"
        BY <3>2, <4>1, StoreFacts
      <4> QED BY <4>2
    <3>4. id \notin Elements(Listed(mb)')
      BY <3>3
    <3>5. thread'[u].pc \in {"progress", "add"} => detData'[mb][id] = "stored"
      <4>1. SUFFICES ASSUME thread'[u].pc \in {"progress", "add"}
                     PROVE  detData'[mb][id] = "stored"
        OBVIOUS
      <4>2. thread[u].pc \in {"progress", "add"}
        BY <3>1, <4>1
      <4>3. detData[mb][id] = "stored"
        BY <3>3, <4>2
      <4> QED BY <4>3
    <3> QED BY <3>1, <3>4, <3>5
  <2> QED BY <2>2, StoringKept DEF DataInv
<1>4. ListedHasPals'
  BY <1>1 DEF DataInv, ListedHasPals
<1>5. \A mb, id : Storing(mb, id) => Storing(mb, id)'
  BY DEF Storing, StoringSteps
<1>6. DataIsListed'
  BY <1>1, <1>5 DEF DataInv, DataIsListed
<1> QED BY <1>2, <1>3, <1>4, <1>6 DEF DataInv

LEMMA DataReceive ==
  ASSUME TypeInv, DataInv, NEW t \in Threads, Receive(t)
  PROVE  DataInv'
<1>1. PICK q \in Requests :
        /\ q.op = "store" => <<q.mb, q.id>> \notin requested
        /\ requested' = IF q.op = "store" THEN requested \union {<<q.mb, q.id>>} ELSE requested
        /\ thread' = [ thread EXCEPT ![t].pc = FirstStep(q.op), ![t].req = q ]
  BY DEF Receive
<1>2. /\ q.op \in {"store", "getPals", "list", "delete"}
      /\ q.op = "store" => q.mb \in Mbs /\ q.id \in PacketIds
  <2>1. q.op # "none"
    BY DEF Requests
  <2> QED BY <2>1, RequestFields
<1>3. /\ FirstStep(q.op) = "create" => q.op = "store"
      /\ FirstStep(q.op) \in {"create", "lookup", "find"}
  BY <1>2 DEF FirstStep
<1>4. /\ thread'[t].pc = FirstStep(q.op) /\ thread'[t].req = q
      /\ \A u \in Threads : u # t => thread'[u] = thread[u]
  BY <1>1, ThreadFields DEF TypeInv, ThreadData
<1>5. /\ thread[t].pc = "idle" /\ detData' = detData /\ progressData' = progressData
      /\ requested \subseteq requested'
  BY <1>1 DEF Receive, At
<1>6. \A mb : Listed(mb)' = Listed(mb)
  BY <1>5 DEF Listed
<1>7. \A mb : Visible(mb)' = Visible(mb)
  BY <1>3, <1>4, <1>5, <1>6, SeenAsBefore
<1>8. ListsInv'
  BY <1>5, <1>6 DEF DataInv, ListsInv
<1>9. StoringInv'
  <2>1. ASSUME NEW u \in Threads, u # t, thread'[u].pc \in StoringSteps
        PROVE  \E mb \in Mbs, id \in PacketIds :
                 /\ Stores(u, mb, id)
                 /\ <<mb, id>> \in requested
                 /\ id \notin Elements(Listed(mb))
                 /\ \A v \in Threads : Stores(v, mb, id) => v = u
                 /\ thread[u].pc \in {"progress", "add"} => detData[mb][id] = "stored"
    BY <1>4, <2>1 DEF DataInv, StoringInv
  <2>2. \A u \in Threads : \A mb, id : u # t => (Stores(u, mb, id)' <=> Stores(u, mb, id))
    BY <1>4 DEF Stores
  <2>3. ASSUME NEW mb, NEW id, Stores(t, mb, id)'
        PROVE  /\ mb \in Mbs /\ id \in PacketIds
               /\ <<mb, id>> \notin requested /\ <<mb, id>> \in requested'
               /\ thread'[t].pc = "create"
    <3>1. thread'[t].pc = "create"
      BY <1>3, <1>4, <2>3 DEF Stores, StoringSteps
    <3>2. q.op = "store" /\ q.mb = mb /\ q.id = id
      BY <1>3, <1>4, <2>3, <3>1 DEF Stores
    <3> QED BY <1>1, <1>2, <3>1, <3>2
  <2>4. ASSUME NEW u \in Threads, thread'[u].pc \in StoringSteps
        PROVE  \E mb \in Mbs, id \in PacketIds :
                 /\ Stores(u, mb, id)'
                 /\ <<mb, id>> \in requested'
                 /\ id \notin Elements(Listed(mb)')
                 /\ \A v \in Threads : Stores(v, mb, id)' => v = u
                 /\ thread'[u].pc \in {"progress", "add"} => detData'[mb][id] = "stored"
    <3>1. CASE u = t
      <4>1. Stores(t, q.mb, q.id)'
        BY <1>4, <2>4, <3>1 DEF Stores
      <4>2. /\ q.mb \in Mbs /\ q.id \in PacketIds
            /\ <<q.mb, q.id>> \notin requested /\ <<q.mb, q.id>> \in requested'
            /\ thread'[t].pc = "create"
        BY <2>3, <4>1
      <4>3. q.id \notin Elements(Listed(q.mb)')
        BY <1>6, <4>2 DEF DataInv, ListsInv
      <4>4. \A v \in Threads : Stores(v, q.mb, q.id)' => v = t
        <5> SUFFICES ASSUME NEW v \in Threads, Stores(v, q.mb, q.id), v # t PROVE FALSE
          BY <2>2
        <5>1. <<q.mb, q.id>> \in requested
          BY ZenonT(30) DEF DataInv, StoringInv, Stores
        <5> QED BY <4>2, <5>1
      <4> QED BY <3>1, <4>1, <4>2, <4>3, <4>4
    <3>2. CASE u # t
      <4>1. PICK mb \in Mbs, id \in PacketIds :
              /\ Stores(u, mb, id)
              /\ <<mb, id>> \in requested
              /\ id \notin Elements(Listed(mb))
              /\ \A v \in Threads : Stores(v, mb, id) => v = u
              /\ thread[u].pc \in {"progress", "add"} => detData[mb][id] = "stored"
        BY <2>1, <2>4, <3>2
      <4>2. \A v \in Threads : Stores(v, mb, id)' => v = u
        BY <2>2, <2>3, <4>1
      <4>3. Stores(u, mb, id)'
        BY <2>2, <3>2, <4>1
      <4> QED BY <1>4, <1>5, <1>6, <3>2, <4>1, <4>2, <4>3
    <3> QED BY <3>1, <3>2
  <2> QED BY <2>4 DEF StoringInv
<1>10. ListedHasPals'
  BY <1>5, <1>7 DEF DataInv, ListedHasPals
<1>11. \A mb, id : Storing(mb, id) => Storing(mb, id)'
  BY <1>4, <1>5 DEF Storing
<1>12. DataIsListed'
  BY <1>5, <1>7, <1>11 DEF DataInv, DataIsListed
<1> QED BY <1>8, <1>9, <1>10, <1>12 DEF DataInv

LEMMA DataGetOrCreatePacketData ==
  ASSUME TypeInv, DataInv, NEW t \in Threads, GetOrCreatePacketData(t)
  PROVE  DataInv'
<1> DEFINE mb == thread[t].req.mb  id == thread[t].req.id
<1>1. /\ thread[t].pc = "create" /\ Goto(t, "update")
      /\ progressData' = progressData /\ requested' = requested
      /\ detData' = [ detData EXCEPT ![mb][id] = IF @ = "absent" THEN "created" ELSE @ ]
  BY DEF GetOrCreatePacketData, At
<1>2. /\ thread'[t].pc = "update" /\ thread'[t].req = thread[t].req
      /\ \A u \in Threads : u # t => thread'[u] = thread[u]
  BY <1>1, GotoThread DEF Steps
<1>3. \A b : Listed(b)' = Listed(b)
  BY <1>1 DEF Listed
<1>4. \A b : Visible(b)' = Visible(b)
  BY <1>1, <1>2, <1>3, SeenAsBefore
<1>5. \A b \in Mbs, i \in PacketIds :
        /\ <<b, i>> # <<mb, id>> \/ detData[b][i] # "absent" => detData'[b][i] = detData[b][i]
  BY <1>1 DEF TypeInv
<1>6. ListsInv'
  BY <1>1, <1>3 DEF DataInv, ListsInv
<1>7. StoringInv'
  <2>1. ASSUME NEW u \in Threads, NEW b, NEW i, Stores(u, b, i)'
        PROVE  /\ Stores(u, b, i)
               /\ thread'[u].pc \in {"progress", "add"} => thread[u].pc \in {"progress", "add"}
    BY <1>1, <1>2, <2>1 DEF Stores, StoringSteps
  <2>2. ASSUME NEW u \in Threads, NEW b, NEW i, Stores(u, b, i)'
        PROVE  /\ Stores(u, b, i)
               /\ i \notin Elements(Listed(b)')
               /\ thread'[u].pc \in {"progress", "add"} => detData'[b][i] = "stored"
    <3>0. StoringInv /\ Stores(u, b, i)
      BY <2>1, <2>2 DEF DataInv
    <3>1. /\ b \in Mbs /\ i \in PacketIds /\ i \notin Elements(Listed(b))
          /\ thread[u].pc \in {"progress", "add"} => detData[b][i] = "stored"
      BY <3>0, StoreFacts
    <3> QED BY <1>3, <1>5, <2>1, <2>2, <3>1
  <2> QED BY <1>1, <2>2, StoringKept DEF DataInv
<1>8. ListedHasPals'
  BY <1>4, <1>5, VisibleListed DEF DataInv, ListedHasPals
<1>9. DataIsListed'
  <2>1. ASSUME NEW b \in Mbs, NEW i \in PacketIds, <<b, i>> = <<mb, id>>
        PROVE  Storing(b, i)'
    BY <1>2, <2>1 DEF Storing
  <2>2. \A b, i : Storing(b, i) => Storing(b, i)'
    BY <1>1, <1>2 DEF Storing
  <2>3. ASSUME NEW b \in Mbs, NEW i \in PacketIds, detData'[b][i] \in {"created", "stored"}
        PROVE  i \in Elements(Visible(b)') \/ Storing(b, i)'
    <3>1. CASE <<b, i>> = <<mb, id>>
      BY <2>1, <3>1
    <3>2. CASE <<b, i>> # <<mb, id>>
      <4>1. detData[b][i] \in {"created", "stored"}
        BY <1>5, <2>3, <3>2
      <4>2. i \in Elements(Visible(b)) \/ Storing(b, i)
        BY <4>1 DEF DataInv, DataIsListed
      <4> QED BY <1>4, <2>2, <4>2
    <3> QED BY <3>1, <3>2
  <2> QED BY <2>3 DEF DataIsListed
<1> QED BY <1>6, <1>7, <1>8, <1>9 DEF DataInv

LEMMA DataUpdatePacketData ==
  ASSUME TypeInv, DataInv, NEW t \in Threads, UpdatePacketData(t)
  PROVE  DataInv'
<1> DEFINE mb == thread[t].req.mb  id == thread[t].req.id
<1>1. /\ thread[t].pc = "update" /\ Goto(t, "progress")
      /\ progressData' = progressData /\ requested' = requested
      /\ detData' = [ detData EXCEPT ![mb][id] = "stored" ]
  BY DEF UpdatePacketData, At
<1>2. /\ thread'[t].pc = "progress" /\ thread'[t].req = thread[t].req
      /\ \A u \in Threads : u # t => thread'[u] = thread[u]
  BY <1>1, GotoThread DEF Steps
<1>3. \A b : Listed(b)' = Listed(b)
  BY <1>1 DEF Listed
<1>4. \A b : Visible(b)' = Visible(b)
  BY <1>1, <1>2, <1>3, SeenAsBefore
<1>5. \A b \in Mbs, i \in PacketIds :
        detData'[b][i] = IF <<b, i>> = <<mb, id>> THEN "stored" ELSE detData[b][i]
  BY <1>1 DEF TypeInv
<1>6. ListsInv'
  BY <1>1, <1>3 DEF DataInv, ListsInv
<1>7. StoringInv'
  <2>1. ASSUME NEW u \in Threads, NEW b, NEW i, Stores(u, b, i)'
        PROVE  /\ Stores(u, b, i)
               /\ u = t => <<b, i>> = <<mb, id>>
               /\ u # t => thread'[u].pc = thread[u].pc
    BY <1>1, <1>2, <2>1 DEF Stores, StoringSteps
  <2>2. ASSUME NEW u \in Threads, NEW b, NEW i, Stores(u, b, i)'
        PROVE  /\ Stores(u, b, i)
               /\ i \notin Elements(Listed(b)')
               /\ thread'[u].pc \in {"progress", "add"} => detData'[b][i] = "stored"
    <3>0. StoringInv /\ Stores(u, b, i)
      BY <2>1, <2>2 DEF DataInv
    <3>1. /\ b \in Mbs /\ i \in PacketIds /\ i \notin Elements(Listed(b))
          /\ thread[u].pc \in {"progress", "add"} => detData[b][i] = "stored"
      BY <3>0, StoreFacts
    <3> QED BY <1>3, <1>5, <2>1, <2>2, <3>1
  <2> QED BY <1>1, <2>2, StoringKept DEF DataInv
<1>8. ListedHasPals'
  BY <1>4, <1>5, VisibleListed DEF DataInv, ListedHasPals
<1>9. DataIsListed'
  <2>1. \A b, i : Storing(b, i) => Storing(b, i)'
    BY <1>1, <1>2 DEF Storing
  <2>2. ASSUME NEW b \in Mbs, NEW i \in PacketIds, <<b, i>> = <<mb, id>>
        PROVE  Storing(b, i)'
    BY <1>2, <2>2 DEF Storing
  <2>3. ASSUME NEW b \in Mbs, NEW i \in PacketIds, detData'[b][i] \in {"created", "stored"}
        PROVE  i \in Elements(Visible(b)') \/ Storing(b, i)'
    <3>1. CASE <<b, i>> = <<mb, id>>
      BY <2>2, <3>1
    <3>2. CASE <<b, i>> # <<mb, id>>
      <4>1. detData[b][i] \in {"created", "stored"}
        BY <1>5, <2>3, <3>2
      <4>2. i \in Elements(Visible(b)) \/ Storing(b, i)
        BY <4>1 DEF DataInv, DataIsListed
      <4> QED BY <1>4, <2>1, <4>2
    <3> QED BY <3>1, <3>2
  <2> QED BY <2>3 DEF DataIsListed
<1> QED BY <1>6, <1>7, <1>8, <1>9 DEF DataInv

LEMMA SeenAdded ==
  ASSUME TypeInv, NEW t \in Threads, AddPacketId(t),
         NEW mb, NEW id, mb = thread[t].req.mb, id = thread[t].req.id
  PROVE  /\ mb \in Mbs
         /\ Listed(mb)' = Append(Listed(mb), id)
         /\ \A b : b # mb => Listed(b)' = Listed(b)
         /\ Visible(mb) = Listed(mb) /\ Visible(mb)' = Listed(mb)'
         /\ \A b : b # mb => Visible(b)' = Visible(b)
<1>1. /\ thread[t].pc = "add" /\ Goto(t, "print") /\ Unlocked(SpdLock(mb))
      /\ progressData' = [ progressData EXCEPT ![mb] = Append(@, id) ]
  BY DEF AddPacketId, At
<1>2. /\ thread'[t].pc = "print"
      /\ \A u \in Threads : u # t => thread'[u] = thread[u]
  BY <1>1, GotoThread DEF Steps
<1>3. mb \in DOMAIN progressData /\ mb \in Mbs
  BY <1>1 DEF TypeInv, RequestInv
<1>4. /\ Listed(mb)' = Append(Listed(mb), id)
      /\ \A b : b # mb => Listed(b)' = Listed(b)
  BY <1>1, <1>3 DEF TypeInv, Listed
<1>5. Visible(mb)' = Listed(mb)' /\ Visible(mb) = Listed(mb)
  <2>1. \A v \in Threads : ~Erasing(v, mb)
    BY <1>1, <1>3, NoEraser
  <2>2. \A v \in Threads : ~Erasing(v, mb)'
    BY <1>2, <2>1 DEF Erasing, At
  <2>3. VisibleFacts /\ VisibleFacts'
    BY VisibleIs, PTL
  <2> QED BY <1>3, <2>1, <2>2, <2>3 DEF VisibleFacts
<1>6. \A b : b # mb => Visible(b)' = Visible(b)
  BY <1>1, <1>2, <1>4, SeenAsBefore
<1> QED BY <1>3, <1>4, <1>5, <1>6

LEMMA DataAddPacketId ==
  ASSUME TypeInv, DataInv, NEW t \in Threads, AddPacketId(t)
  PROVE  DataInv'
<1>1. PICK mb, id : mb = thread[t].req.mb /\ id = thread[t].req.id
  OBVIOUS
<1>2. /\ thread[t].pc = "add" /\ Goto(t, "print") /\ Unlocked(SpdLock(mb))
      /\ detData' = detData /\ owner' = owner /\ requested' = requested
      /\ progressData' = [ progressData EXCEPT ![mb] = Append(@, id) ]
  BY <1>1 DEF AddPacketId, At
<1>3. /\ thread'[t].pc = "print" /\ thread'[t].req = thread[t].req
      /\ \A u \in Threads : u # t => thread'[u] = thread[u]
  BY <1>2, GotoThread DEF Steps
<1>4. Stores(t, mb, id)
  BY <1>1, <1>2 DEF Stores, StoringSteps
<1>5. /\ mb \in Mbs /\ id \in PacketIds /\ <<mb, id>> \in requested
      /\ id \notin Elements(Listed(mb)) /\ detData[mb][id] = "stored"
      /\ \A v \in Threads : Stores(v, mb, id) => v = t
  BY <1>2, <1>4, StoreFacts DEF DataInv
<1>7. /\ Listed(mb)' = Append(Listed(mb), id)
      /\ \A b : b # mb => Listed(b)' = Listed(b)
      /\ Visible(mb) = Listed(mb) /\ Visible(mb)' = Listed(mb)'
      /\ \A b : b # mb => Visible(b)' = Visible(b)
  BY <1>1, SeenAdded
<1>8. /\ Elements(Listed(mb)') = Elements(Listed(mb)) \union {id}
      /\ Distinct(Listed(mb)) => Distinct(Listed(mb)')
  BY <1>5, <1>7, ListedType, AppendElements, AppendDistinct
<1>11. ListsInv'
  <2>1. ASSUME NEW b \in Mbs
        PROVE  /\ Distinct(Listed(b)')
               /\ \A i \in Elements(Listed(b)') : <<b, i>> \in requested'
    <3>1. /\ Distinct(Listed(b))
          /\ \A i \in Elements(Listed(b)) : <<b, i>> \in requested
      BY DEF DataInv, ListsInv
    <3>2. CASE b = mb
      BY <1>2, <1>5, <1>8, <3>1, <3>2
    <3>3. CASE b # mb
      BY <1>2, <1>7, <3>1, <3>3
    <3> QED BY <3>2, <3>3
  <2> QED BY <2>1 DEF ListsInv
<1>12. StoringInv'
  <2>1. ASSUME NEW u \in Threads, NEW b, NEW i, Stores(u, b, i)'
        PROVE  u # t /\ Stores(u, b, i) /\ thread'[u].pc = thread[u].pc
    BY <1>3, <2>1 DEF Stores, StoringSteps
  <2>2. ASSUME NEW u \in Threads, NEW b, NEW i, Stores(u, b, i)'
        PROVE  /\ Stores(u, b, i)
               /\ i \notin Elements(Listed(b)')
               /\ thread'[u].pc \in {"progress", "add"} => detData'[b][i] = "stored"
    <3>0. StoringInv /\ Stores(u, b, i)
      BY <2>1, <2>2 DEF DataInv
    <3>1. /\ i \notin Elements(Listed(b))
          /\ thread[u].pc \in {"progress", "add"} => detData[b][i] = "stored"
      BY <3>0, StoreFacts
    <3>2. b # mb \/ i # id
      BY <1>5, <2>1, <2>2
    <3> QED BY <1>2, <1>7, <1>8, <2>1, <2>2, <3>1, <3>2
  <2> QED BY <1>2, <2>2, StoringKept DEF DataInv
<1>13. ListedHasPals'
  <2>1. ASSUME NEW b \in Mbs, NEW i \in Elements(Visible(b)') PROVE detData'[b][i] = "stored"
    <3>1. i \in Elements(Visible(b)) \/ (b = mb /\ i = id)
      BY <1>7, <1>8, <2>1
    <3> QED BY <1>2, <1>5, <3>1 DEF DataInv, ListedHasPals
  <2> QED BY <2>1 DEF ListedHasPals
<1>14. DataIsListed'
  <2>1. ASSUME NEW b \in Mbs, NEW i \in PacketIds, detData'[b][i] \in {"created", "stored"}
        PROVE  i \in Elements(Visible(b)') \/ Storing(b, i)'
    <3>1. i \in Elements(Visible(b)) \/ Storing(b, i)
      BY <1>2, <2>1 DEF DataInv, DataIsListed
    <3>2. CASE b = mb /\ i = id
      BY <1>7, <1>8, <3>2
    <3>3. CASE i \in Elements(Visible(b))
      BY <1>7, <1>8, <3>3
    <3>4. CASE Storing(b, i) /\ ~(b = mb /\ i = id)
      BY <1>1, <1>3, <3>4 DEF Storing
    <3> QED BY <3>1, <3>2, <3>3, <3>4
  <2> QED BY <2>1 DEF DataIsListed
<1> QED BY <1>11, <1>12, <1>13, <1>14 DEF DataInv

LEMMA SeenDeleted ==
  ASSUME TypeInv, NEW t \in Threads, DeletePacketsFromMbData(t),
         NEW mb, NEW n, mb = thread[t].req.mb, n = thread[t].req.count
  PROVE  /\ mb \in Mbs /\ n \in Nat
         /\ \A b : Listed(b)' = Listed(b)
         /\ Visible(mb) = Listed(mb) /\ Visible(mb)' = DropFirst(Listed(mb), n)
         /\ \A b : b # mb => Visible(b)' = Visible(b)
<1>1. thread[t].pc = "delete data" /\ Goto(t, "erase") /\ progressData' = progressData
  BY DEF DeletePacketsFromMbData, At
<1>2. /\ thread'[t].pc = "erase" /\ thread'[t].req = thread[t].req
      /\ \A u \in Threads : u # t => thread'[u] = thread[u]
  BY <1>1, GotoThread DEF Steps
<1>3. \A b : Listed(b)' = Listed(b)
  BY <1>1 DEF Listed
<1>4. /\ mb \in Mbs /\ n \in 0..MaxDelete /\ n \in Nat
      /\ \A v \in Threads : Erasing(v, mb) => v = t
  BY <1>1, ListLocked, OneEraser
<1>5. Visible(mb) = Listed(mb) /\ Visible(mb)' = DropFirst(Listed(mb), n)
  <2>1. \A v \in Threads : ~Erasing(v, mb)
    BY <1>1, <1>4 DEF Erasing, At
  <2>2. Erasing(t, mb)' /\ \A v \in Threads : Erasing(v, mb)' => v = t
    BY <1>2, <2>1 DEF Erasing, At
  <2>3. VisibleFacts /\ VisibleFacts'
    BY VisibleIs, PTL
  <2>4. thread'[t].req.count = n
    BY <1>2
  <2>5. Visible(mb)' = DropFirst(Listed(mb)', n)
    BY <1>4, <2>2, <2>3, <2>4 DEF VisibleFacts
  <2> QED BY <1>3, <1>4, <2>1, <2>3, <2>5 DEF VisibleFacts
<1>6. \A b : b # mb => Visible(b)' = Visible(b)
  BY <1>2, <1>3, SeenElsewhere
<1> QED BY <1>3, <1>4, <1>5, <1>6

\* The packets' data that goes is that of the ids that leave the list.
LEMMA DataDeletePacketsFromMbData ==
  ASSUME TypeInv, DataInv, NEW t \in Threads, DeletePacketsFromMbData(t)
  PROVE  DataInv'
<1>1. PICK mb, n : mb = thread[t].req.mb /\ n = thread[t].req.count
  OBVIOUS
<1> DEFINE s == Listed(mb)
           gone == { s[k] : k \in { m \in DOMAIN s : m <= n } }
<1>2. /\ thread[t].pc = "delete data" /\ Goto(t, "erase")
      /\ progressData' = progressData /\ requested' = requested
      /\ detData' = [ detData EXCEPT ![mb] =
                        [ id \in PacketIds |-> IF id \in gone THEN "freed" ELSE @[id] ] ]
  BY <1>1 DEF DeletePacketsFromMbData, At
<1>3. /\ thread'[t].pc = "erase" /\ thread'[t].req = thread[t].req
      /\ \A u \in Threads : u # t => thread'[u] = thread[u]
  BY <1>2, GotoThread DEF Steps
<1>4. \A b : Listed(b)' = Listed(b)
  BY <1>2 DEF Listed
<1>5. mb \in Mbs /\ n \in Nat
  BY <1>1, SeenDeleted
<1>6. /\ Visible(mb) = s /\ Visible(mb)' = DropFirst(s, n)
      /\ \A b : b # mb => Visible(b)' = Visible(b)
  BY <1>1, SeenDeleted
<1>8. /\ s \in Seq(PacketIds) /\ Distinct(s)
      /\ DOMAIN s = 1..Len(s)
  BY <1>5, ListedType, LenProperties DEF DataInv, ListsInv
<1>9. /\ Elements(DropFirst(s, n)) \subseteq Elements(s)
      /\ \A x \in Elements(s) : x \in Elements(DropFirst(s, n)) \/ x \in gone
  BY <1>5, <1>8, DropSplits
<1>10. \A x \in gone : x \in Elements(s) /\ x \notin Elements(DropFirst(s, n))
  <2>1. \A k \in 1..Len(s) : k <= n => s[k] \notin Elements(DropFirst(s, n))
    BY <1>5, <1>8, DropDistinct
  <2> QED BY <1>8, <2>1 DEF Elements
<1> HIDE DEF gone, s
<1>11. \A b \in Mbs, i \in PacketIds :
         detData'[b][i] = IF b = mb /\ i \in gone THEN "freed" ELSE detData[b][i]
  BY <1>2 DEF TypeInv
<1>12. ListsInv'
  BY <1>2, <1>4 DEF DataInv, ListsInv
<1>13. StoringInv'
  <2>1. ASSUME NEW u \in Threads, NEW b, NEW i, Stores(u, b, i)'
        PROVE  Stores(u, b, i) /\ thread'[u].pc = thread[u].pc
    BY <1>3, <2>1 DEF Stores, StoringSteps
  <2>2. ASSUME NEW u \in Threads, NEW b, NEW i, Stores(u, b, i)'
        PROVE  /\ Stores(u, b, i)
               /\ i \notin Elements(Listed(b)')
               /\ thread'[u].pc \in {"progress", "add"} => detData'[b][i] = "stored"
    <3>0. StoringInv /\ Stores(u, b, i)
      BY <2>1, <2>2 DEF DataInv
    <3>1. /\ b \in Mbs /\ i \in PacketIds /\ i \notin Elements(Listed(b))
          /\ thread[u].pc \in {"progress", "add"} => detData[b][i] = "stored"
      BY <3>0, StoreFacts
    <3>2. ~(b = mb /\ i \in gone)
      BY <1>10, <3>1 DEF s
    <3> QED BY <1>4, <1>11, <2>1, <2>2, <3>1, <3>2
  <2> QED BY <1>2, <2>2, StoringKept DEF DataInv
<1>14. ListedHasPals'
  <2>1. ASSUME NEW b \in Mbs, NEW i \in Elements(Visible(b)') PROVE detData'[b][i] = "stored"
    <3>1. i \in Elements(Visible(b)) /\ ~(b = mb /\ i \in gone)
      BY <1>6, <1>9, <1>10, <2>1
    <3>2. i \in PacketIds /\ detData[b][i] = "stored"
      BY <3>1, VisibleListed DEF DataInv, ListedHasPals
    <3> QED BY <1>11, <3>1, <3>2
  <2> QED BY <2>1 DEF ListedHasPals
<1>15. DataIsListed'
  <2>1. ASSUME NEW b, NEW i, Storing(b, i) PROVE Storing(b, i)'
    BY <1>2, <1>3, <2>1 DEF Storing
  <2>2. ASSUME NEW b \in Mbs, NEW i \in PacketIds, detData'[b][i] \in {"created", "stored"}
        PROVE  i \in Elements(Visible(b)') \/ Storing(b, i)'
    <3>1. ~(b = mb /\ i \in gone) /\ detData[b][i] \in {"created", "stored"}
      BY <1>11, <2>2
    <3>2. i \in Elements(Visible(b)) \/ Storing(b, i)
      BY <3>1 DEF DataInv, DataIsListed
    <3>3. CASE i \in Elements(Visible(b))
      BY <1>6, <1>9, <3>1, <3>3
    <3> QED BY <2>1, <3>2, <3>3
  <2> QED BY <2>2 DEF DataIsListed
<1> QED BY <1>12, <1>13, <1>14, <1>15 DEF DataInv

LEMMA SeenErased ==
  ASSUME TypeInv, NEW t \in Threads, EraseFirst(t),
         NEW mb, NEW n, mb = thread[t].req.mb, n = thread[t].req.count
  PROVE  /\ mb \in Mbs /\ n \in Nat
         /\ Listed(mb)' = DropFirst(Listed(mb), n)
         /\ \A b : b # mb => Listed(b)' = Listed(b)
         /\ \A b : Visible(b)' = Visible(b)
<1>1. /\ thread[t].pc = "erase" /\ Answer(t, <<>>)
      /\ progressData' = [ progressData EXCEPT ![mb] = DropFirst(@, n) ]
  BY DEF EraseFirst, At
<1>2. /\ thread'[t].pc = "answer"
      /\ \A u \in Threads : u # t => thread'[u] = thread[u]
  BY <1>1, EmptyAnswer, AnswerThread
<1>3. /\ mb \in Mbs /\ n \in 0..MaxDelete /\ n \in Nat
      /\ \A v \in Threads : Erasing(v, mb) => v = t
  BY <1>1, ListLocked, OneEraser
<1>4. mb \in DOMAIN progressData
  BY <1>1 DEF TypeInv, RequestInv, DeleteSteps
<1>5. /\ Listed(mb)' = DropFirst(Listed(mb), n)
      /\ \A b : b # mb => Listed(b)' = Listed(b)
  BY <1>1, <1>4 DEF TypeInv, Listed
<1>6. Visible(mb)' = Visible(mb)
  <2>1. \A v \in Threads : ~Erasing(v, mb)'
    BY <1>2, <1>3 DEF Erasing, At
  <2>2. Erasing(t, mb)
    BY <1>1 DEF Erasing, At
  <2>3. VisibleFacts /\ VisibleFacts'
    BY VisibleIs, PTL
  <2>4. Visible(mb) = DropFirst(Listed(mb), n)
    BY <1>3, <2>2, <2>3 DEF VisibleFacts
  <2>5. Visible(mb)' = Listed(mb)'
    BY <1>3, <2>1, <2>3 DEF VisibleFacts
  <2> QED BY <1>5, <2>4, <2>5
<1>7. \A b : b # mb => Visible(b)' = Visible(b)
  BY <1>2, <1>5, SeenElsewhere
<1> QED BY <1>3, <1>5, <1>6, <1>7

LEMMA DataEraseFirst ==
  ASSUME TypeInv, DataInv, NEW t \in Threads, EraseFirst(t)
  PROVE  DataInv'
<1>1. PICK mb, n : mb = thread[t].req.mb /\ n = thread[t].req.count
  OBVIOUS
<1> DEFINE s == Listed(mb)
<1>2. /\ thread[t].pc = "erase" /\ Answer(t, <<>>)
      /\ detData' = detData /\ requested' = requested
      /\ progressData' = [ progressData EXCEPT ![mb] = DropFirst(@, n) ]
  BY <1>1 DEF EraseFirst, At
<1>3. /\ thread'[t].pc = "answer"
      /\ \A u \in Threads : u # t => thread'[u] = thread[u]
  BY <1>2, EmptyAnswer, AnswerThread
<1>4. mb \in Mbs /\ n \in Nat
  BY <1>1, SeenErased
<1>6. /\ Listed(mb)' = DropFirst(s, n)
      /\ \A b : b # mb => Listed(b)' = Listed(b)
  BY <1>1, SeenErased
<1>9. s \in Seq(PacketIds) /\ Distinct(s)
  BY <1>4, ListedType DEF DataInv, ListsInv
<1>10. Elements(DropFirst(s, n)) \subseteq Elements(s) /\ Distinct(DropFirst(s, n))
  BY <1>4, <1>9, DropFirstSpec, DropDistinct
<1>11. \A b : Elements(Listed(b)') \subseteq Elements(Listed(b))
  BY <1>6, <1>10
<1>12. ListsInv'
  <2>1. \A b \in Mbs : Distinct(Listed(b)')
    BY <1>6, <1>10 DEF DataInv, ListsInv
  <2>2. \A b \in Mbs : \A i \in Elements(Listed(b)') : <<b, i>> \in requested'
    BY <1>2, <1>11 DEF DataInv, ListsInv
  <2> QED BY <2>1, <2>2 DEF ListsInv
<1>13. StoringInv'
  <2>1. ASSUME NEW u \in Threads, NEW b, NEW i, Stores(u, b, i)'
        PROVE  Stores(u, b, i) /\ thread'[u].pc = thread[u].pc
    BY <1>3, <2>1 DEF Stores, StoringSteps
  <2>2. ASSUME NEW u \in Threads, NEW b, NEW i, Stores(u, b, i)'
        PROVE  /\ Stores(u, b, i)
               /\ i \notin Elements(Listed(b)')
               /\ thread'[u].pc \in {"progress", "add"} => detData'[b][i] = "stored"
    <3>0. StoringInv /\ Stores(u, b, i)
      BY <2>1, <2>2 DEF DataInv
    <3>1. /\ i \notin Elements(Listed(b))
          /\ thread[u].pc \in {"progress", "add"} => detData[b][i] = "stored"
      BY <3>0, StoreFacts
    <3> QED BY <1>2, <1>11, <2>1, <2>2, <3>1
  <2> QED BY <1>2, <2>2, StoringKept DEF DataInv
<1>14. \A b : Visible(b)' = Visible(b)
  BY <1>1, SeenErased
<1>15. ListedHasPals'
  BY <1>2, <1>14 DEF DataInv, ListedHasPals
<1>16. DataIsListed'
  <2>1. ASSUME NEW b, NEW i, Storing(b, i) PROVE Storing(b, i)'
    BY <1>2, <1>3, <2>1 DEF Storing
  <2> QED BY <1>2, <1>14, <2>1 DEF DataInv, DataIsListed
<1> QED BY <1>12, <1>13, <1>15, <1>16 DEF DataInv

LEMMA DataGetOrCreateServerProgressData ==
  ASSUME TypeInv, DataInv, NEW t \in Threads, GetOrCreateServerProgressData(t)
  PROVE  DataInv'
<1>1. /\ thread[t].pc = "progress" /\ Goto(t, "add")
      /\ detData' = detData /\ requested' = requested
      /\ progressData' =
           [ mb \in DOMAIN progressData \union {thread[t].req.mb} |-> Listed(mb) ]
  BY DEF GetOrCreateServerProgressData, At
<1>2. /\ thread'[t].pc = "add" /\ thread'[t].req = thread[t].req
      /\ \A u \in Threads : u # t => thread'[u] = thread[u]
  BY <1>1, GotoThread DEF Steps
<1>3. \A mb : Listed(mb)' = Listed(mb)
  BY <1>1 DEF Listed
<1> QED BY <1>1, <1>2, <1>3, QuietStep

\* The steps that print, look up, answer and lock.
LEMMA DataOtherSteps ==
  ASSUME TypeInv, DataInv, NEW t \in Threads,
         \/ StartPrint(t) \/ PrintList(t) \/ EndPrint(t) \/ GetPalsStep(t) \/ ListStep(t)
         \/ LockList(t) \/ LockData(t) \/ SendAnswer(t)
  PROVE  DataInv'
<1>1. detData' = detData /\ requested' = requested /\ progressData' = progressData
  BY DEF StartPrint, PrintList, EndPrint, GetPalsStep, GetPacketData, ConvertPacketDataToPM,
         ListStep, GetServerProgressData, GetProcessedPackets, LockList, LockData, SendAnswer
<1>2. /\ thread[t].pc \notin StoringSteps /\ thread[t].pc # "erase"
      /\ thread'[t].pc \notin StoringSteps /\ thread'[t].pc # "erase"
      /\ \A u \in Threads : u # t => thread'[u] = thread[u]
  <2>1. ASSUME NEW step \in {"convert", "list", "delete", "lock data", "delete data"},
               Goto(t, step)
        PROVE  /\ thread'[t].pc = step
               /\ \A u \in Threads : u # t => thread'[u] = thread[u]
    BY <2>1, GotoThread DEF Steps
  <2>3. thread \in [Threads -> ThreadData] /\ thread[t] \in ThreadData
    BY DEF TypeInv
  <2>2. ASSUME NEW a, Answer(t, a)
        PROVE  /\ thread'[t].pc = "answer"
               /\ \A u \in Threads : u # t => thread'[u] = thread[u]
    <3> DEFINE r == [ thread[t] EXCEPT !.pc = "answer", !.answer = a ]
    <3>1. thread' = [ thread EXCEPT ![t] = r ] /\ r.pc = "answer"
      BY <2>2, <2>3 DEF Answer, ThreadData
    <3> HIDE DEF r
    <3> QED BY <2>3, <3>1
  <2>4. CASE StartPrint(t)
    BY <2>3, <2>4 DEF StartPrint, At, ThreadData, StoringSteps
  <2>5. CASE PrintList(t)
    BY <2>3, <2>5 DEF PrintList, At, ThreadData, StoringSteps
  <2>6. CASE EndPrint(t)
    BY <2>2, <2>6 DEF EndPrint, At, StoringSteps
  <2>7. CASE GetPalsStep(t)
    <3>1. CASE GetPacketData(t)
      BY <2>1, <2>2, <3>1 DEF GetPacketData, At, StoringSteps
    <3>2. CASE ConvertPacketDataToPM(t)
      <4>1. thread[t].pc = "convert" /\ \E a : Answer(t, a)
        BY <3>2 DEF ConvertPacketDataToPM, At
      <4> QED BY <2>2, <4>1 DEF StoringSteps
    <3> QED BY <2>7, <3>1, <3>2 DEF GetPalsStep
  <2>8. CASE ListStep(t)
    <3>1. CASE GetServerProgressData(t)
      <4>1. thread[t].pc = "find" /\ thread[t].req.op \in {"list", "delete"}
        BY <3>1 DEF GetServerProgressData, At, TypeInv, RequestInv
      <4>2. Goto(t, thread[t].req.op) \/ Answer(t, <<>>)
        BY <3>1 DEF GetServerProgressData
      <4> QED BY <2>1, <2>2, <4>1, <4>2 DEF StoringSteps
    <3>2. CASE GetProcessedPackets(t)
      <4>1. thread[t].pc = "list" /\ \E a : Answer(t, a)
        BY <3>2 DEF GetProcessedPackets, At
      <4> QED BY <2>2, <4>1 DEF StoringSteps
    <3> QED BY <2>8, <3>1, <3>2 DEF ListStep
  <2>9. CASE LockList(t)
    BY <2>1, <2>9 DEF LockList, At, StoringSteps
  <2>10. CASE LockData(t)
    BY <2>1, <2>10 DEF LockData, At, StoringSteps
  <2>11. CASE SendAnswer(t)
    BY <2>3, <2>11 DEF SendAnswer, At, IdleThread, StoringSteps
  <2> QED BY <2>4, <2>5, <2>6, <2>7, <2>8, <2>9, <2>10, <2>11
<1>3. \A mb : Listed(mb)' = Listed(mb)
  BY <1>1 DEF Listed
<1> QED BY <1>1, <1>2, <1>3, QuietStep

LEMMA DataNext == TypeInv /\ DataInv /\ [Next]_vars => DataInv'
<1> SUFFICES ASSUME TypeInv, DataInv, [Next]_vars PROVE DataInv'
  OBVIOUS
<1>1. CASE UNCHANGED vars
  <2>1. UNCHANGED << detData, progressData, owner, thread, requested >>
    BY <1>1 DEF vars
  <2>2. ListsInv'
    BY <2>1 DEF DataInv, ListsInv, Listed
  <2>3. StoringInv'
    BY <2>1 DEF DataInv, StoringInv, Stores, Listed
  <2>4. \A mb : Visible(mb)' = Visible(mb)
    BY <2>1 DEF Visible, Listed, At
  <2>5. ListedHasPals'
    BY <2>1, <2>4 DEF DataInv, ListedHasPals
  <2>6. DataIsListed'
    BY <2>1, <2>4 DEF DataInv, DataIsListed, Storing
  <2> QED BY <2>2, <2>3, <2>5, <2>6 DEF DataInv
<1>2. CASE Next
  <2>1. PICK t \in Threads : Receive(t) \/ Work(t)
    BY <1>2 DEF Next
  <2>2. CASE Receive(t)
    BY <2>2, DataReceive
  <2>3. CASE StoreStep(t)
    BY <2>3, DataGetOrCreatePacketData, DataUpdatePacketData, DataGetOrCreateServerProgressData,
       DataAddPacketId, DataOtherSteps DEF StoreStep
  <2>4. CASE DeleteStep(t)
    BY <2>4, DataDeletePacketsFromMbData, DataEraseFirst, DataOtherSteps DEF DeleteStep
  <2>5. CASE GetPalsStep(t) \/ ListStep(t) \/ SendAnswer(t)
    BY <2>5, DataOtherSteps
  <2> QED BY <2>1, <2>2, <2>3, <2>4, <2>5 DEF Work
<1> QED BY <1>1, <1>2

LEMMA AlwaysAgree == Spec => []DataInv
<1>1. Init => DataInv
  BY DataInit
<1>2. TypeInv /\ DataInv /\ [Next]_vars => DataInv'
  BY DataNext
<1> QED BY <1>1, <1>2, AlwaysTyped, PTL DEF Spec

\* What clients may see listed has its determinants complete, whatever stores and
\* deletions of other threads are under way between the two maps.
THEOREM ListedIsComplete == Spec => []ListedHasPals
<1>1. DataInv => ListedHasPals
  BY DEF DataInv
<1> QED BY <1>1, AlwaysAgree, PTL

\* Determinants that no request is about to list are listed: no order of stores and
\* deletions leaves any behind that deleteFirstPackets cannot reach.
THEOREM NothingUnreachable == Spec => []DataIsListed
<1>1. DataInv => DataIsListed
  BY DEF DataInv
<1> QED BY <1>1, AlwaysAgree, PTL

-----------------------------------------------------------------------------
(* The handlers implement DetLog *)

\* A thread that has not answered has no answer yet.
AnswersInv ==
  \A t \in Threads : /\ thread[t].pc # "answer" => thread[t].answer = <<>>
                     /\ thread[t].pc = "idle" => thread[t].req = None

LEMMA AnswersInit == Init => AnswersInv
BY DEF Init, AnswersInv, IdleThread, None

LEMMA StepKinds ==
  ASSUME TypeInv, NEW t \in Threads, Work(t)
  PROVE  \/ /\ thread[t].pc # "answer"
            /\ \E step : step # "idle" /\ Goto(t, step)
         \/ \E a : Answer(t, a)
         \/ StartPrint(t) \/ PrintList(t) \/ SendAnswer(t)
<1>1. CASE \/ GetOrCreatePacketData(t) \/ UpdatePacketData(t) \/ GetOrCreateServerProgressData(t)
           \/ AddPacketId(t) \/ LockList(t) \/ LockData(t) \/ DeletePacketsFromMbData(t)
  <2>1. thread[t].pc \in {"create", "update", "progress", "add", "delete", "lock data", "delete data"}
    BY <1>1 DEF GetOrCreatePacketData, UpdatePacketData, GetOrCreateServerProgressData, AddPacketId,
                LockList, LockData, DeletePacketsFromMbData, At
  <2>2. \E step \in {"update", "progress", "add", "print", "lock data", "delete data", "erase"} :
          Goto(t, step)
    BY <1>1 DEF GetOrCreatePacketData, UpdatePacketData, GetOrCreateServerProgressData, AddPacketId,
                LockList, LockData, DeletePacketsFromMbData
  <2> QED BY <2>1, <2>2
<1>2. CASE EndPrint(t) \/ ConvertPacketDataToPM(t) \/ GetProcessedPackets(t) \/ EraseFirst(t)
  BY <1>2 DEF EndPrint, ConvertPacketDataToPM, GetProcessedPackets, EraseFirst
<1>3. CASE GetPacketData(t)
  BY <1>3 DEF GetPacketData, At
<1>4. CASE GetServerProgressData(t)
  <2>1. thread[t].pc = "find" /\ thread[t].req.op \in {"list", "delete"}
    BY <1>4 DEF GetServerProgressData, At, TypeInv, RequestInv
  <2> QED BY <1>4, <2>1 DEF GetServerProgressData
<1>5. CASE StartPrint(t) \/ PrintList(t) \/ SendAnswer(t)
  BY <1>5
<1> QED BY <1>1, <1>2, <1>3, <1>4, <1>5 DEF Work, StoreStep, GetPalsStep, ListStep, DeleteStep

LEMMA AnswersNext == TypeInv /\ AnswersInv /\ [Next]_vars => AnswersInv'
<1> SUFFICES ASSUME TypeInv, AnswersInv, [Next]_vars PROVE AnswersInv'
  OBVIOUS
<1>1. CASE UNCHANGED vars
  BY <1>1 DEF vars, AnswersInv
<1>2. ASSUME NEW t \in Threads, Receive(t) \/ Work(t) PROVE AnswersInv'
  <2>1. /\ thread \in [Threads -> ThreadData] /\ thread[t] \in ThreadData
        /\ thread[t].pc # "answer" => thread[t].answer = <<>>
    BY DEF TypeInv, AnswersInv
  <2>2. ASSUME NEW r, thread' = [ thread EXCEPT ![t] = r ],
               r.pc # "answer" => r.answer = <<>>, r.pc = "idle" => r.req = None
        PROVE  AnswersInv'
    BY <2>1, <2>2 DEF AnswersInv
  <2>3. CASE Receive(t)
    <3>1. PICK q \in Requests :
            thread' = [ thread EXCEPT ![t].pc = FirstStep(q.op), ![t].req = q ]
      BY <2>3 DEF Receive
    <3>2. FirstStep(q.op) # "idle"
      <4>1. q.op \in {"store", "getPals", "list", "delete"}
        BY DEF Requests
      <4> QED BY <4>1 DEF FirstStep
    <3> DEFINE r == [ thread[t] EXCEPT !.pc = FirstStep(q.op), !.req = q ]
    <3>3. thread' = [ thread EXCEPT ![t] = r ]
      BY <3>1
    <3>4. r.pc = FirstStep(q.op) /\ r.answer = thread[t].answer /\ thread[t].pc = "idle"
      BY <2>1, <2>3 DEF ThreadData, Receive, At
    <3> HIDE DEF r
    <3> QED BY <2>1, <2>2, <3>2, <3>3, <3>4
  <2>4. CASE /\ thread[t].pc # "answer"
             /\ \E step : step # "idle" /\ Goto(t, step)
    <3>1. PICK step : step # "idle" /\ Goto(t, step)
      BY <2>4
    <3> DEFINE r == [ thread[t] EXCEPT !.pc = step ]
    <3>2. thread' = [ thread EXCEPT ![t] = r ]
      BY <3>1 DEF Goto
    <3>3. r.pc = step /\ r.answer = thread[t].answer
      BY <2>1 DEF ThreadData
    <3> HIDE DEF r
    <3> QED BY <2>1, <2>2, <2>4, <3>1, <3>2, <3>3
  <2>5. CASE \E a : Answer(t, a)
    <3>1. PICK a : Answer(t, a)
      BY <2>5
    <3> DEFINE r == [ thread[t] EXCEPT !.pc = "answer", !.answer = a ]
    <3>2. thread' = [ thread EXCEPT ![t] = r ] /\ r.pc = "answer"
      BY <2>1, <3>1 DEF Answer, ThreadData
    <3> HIDE DEF r
    <3> QED BY <2>2, <3>2
  <2>6. CASE StartPrint(t)
    <3> DEFINE r == [ thread[t] EXCEPT !.pc = "printing", !.toPrint = DOMAIN progressData ]
    <3>1. /\ thread' = [ thread EXCEPT ![t] = r ] /\ thread[t].pc = "print"
          /\ r.pc = "printing" /\ r.answer = thread[t].answer
      BY <2>1, <2>6 DEF StartPrint, At, ThreadData
    <3> HIDE DEF r
    <3> QED BY <2>1, <2>2, <3>1
  <2>7. CASE PrintList(t)
    <3> DEFINE r == [ thread[t] EXCEPT !.toPrint = @ \ {NextToPrint(t)} ]
    <3>1. /\ thread' = [ thread EXCEPT ![t] = r ] /\ thread[t].pc = "printing"
          /\ r.pc = "printing" /\ r.answer = thread[t].answer
      BY <2>1, <2>7 DEF PrintList, At, ThreadData
    <3> HIDE DEF r
    <3> QED BY <2>1, <2>2, <3>1
  <2>8. CASE SendAnswer(t)
    BY <2>2, <2>8 DEF SendAnswer, IdleThread, None
  <2> QED BY <1>2, <2>3, <2>4, <2>5, <2>6, <2>7, <2>8, StepKinds
<1> QED BY <1>1, <1>2 DEF Next

\* What DetLog sees of the lists and of the threads.
SeenLog == [ mb \in Mbs |-> Visible(mb) ]
RequestOf(t) == [ todo |-> thread[t].req, done |-> TookEffect(t), answer |-> AbstractAnswer(t) ]
SeenRequests == [ t \in Threads |-> RequestOf(t) ]

LEMMA LogVars == Log!vars = << SeenLog, SeenRequests >>
BY DEF Log!vars, SeenLog, SeenRequests, RequestOf

LEMMA LogStep ==
  ASSUME NEW t \in Threads
  PROVE  /\ Log!Next <=> \E u \in Threads :
              \/ \E r \in Log!Requests : Log!Arrive(u, r)
              \/ Log!Store(u) \/ Log!GetPals(u) \/ Log!List(u) \/ Log!Delete(u) \/ Log!Return(u)
         /\ \A op : Log!Waiting(t, op) <=> thread[t].req.op = op /\ ~TookEffect(t)
         /\ \A a : Log!Answered(t, a) <=>
              SeenRequests' = [ SeenRequests EXCEPT ![t].done = TRUE, ![t].answer = a ]
BY DEF Log!Next, Log!Waiting, Log!Answered, SeenRequests, RequestOf

LEMMA SameElements == \A s : Log!Elements(s) = Elements(s)
BY DEF Log!Elements, Elements

LEMMA SameFirstVersions == \A s : Log!FirstVersions(s) = FirstVersions(s)
BY DEF Log!FirstVersions, FirstVersions, Log!Keep, Keep, Log!Nth, Nth, Log!BaseOf, BaseOf,
       Log!Cardinality, Cardinality

LEMMA SameDropFirst == \A s, n : Log!DropFirst(s, n) = DropFirst(s, n)
BY DEF Log!DropFirst, DropFirst

LEMMA LogActions ==
  ASSUME NEW t \in Threads
  PROVE  /\ \A r : Log!Arrive(t, r) <=>
              /\ SeenRequests[t] = [ todo |-> None, done |-> FALSE, answer |-> <<>> ]
              /\ SeenRequests' = [ SeenRequests EXCEPT ![t] =
                                     [ todo |-> r, done |-> FALSE, answer |-> <<>> ] ]
              /\ SeenLog' = SeenLog
         /\ Log!Store(t) <=>
              /\ Log!Waiting(t, "store") /\ Log!Answered(t, <<>>)
              /\ SeenLog' = [ SeenLog EXCEPT ![thread[t].req.mb] = Append(@, thread[t].req.id) ]
         /\ Log!Delete(t) <=>
              /\ Log!Waiting(t, "delete") /\ Log!Answered(t, <<>>)
              /\ SeenLog' = [ SeenLog EXCEPT ![thread[t].req.mb] =
                                DropFirst(@, thread[t].req.count) ]
         /\ \A a :
              /\ Log!Waiting(t, "list") /\ Log!Answered(t, a) /\ SeenLog' = SeenLog
              /\ thread[t].req.allVersions => a = SeenLog[thread[t].req.mb]
              /\ ~thread[t].req.allVersions => a = FirstVersions(SeenLog[thread[t].req.mb])
              => Log!List(t)
         /\ Log!Return(t) <=>
              /\ SeenRequests[t].done /\ SeenLog' = SeenLog
              /\ SeenRequests' = [ SeenRequests EXCEPT ![t] =
                                     [ todo |-> None, done |-> FALSE, answer |-> <<>> ] ]
<1>1. SeenRequests[t].todo = thread[t].req
  BY DEF SeenRequests, RequestOf
<1>2. \A r : Log!Arrive(t, r) <=>
           /\ SeenRequests[t] = [ todo |-> None, done |-> FALSE, answer |-> <<>> ]
           /\ SeenRequests' = [ SeenRequests EXCEPT ![t] =
                                  [ todo |-> r, done |-> FALSE, answer |-> <<>> ] ]
           /\ SeenLog' = SeenLog
  BY DEF Log!Arrive, Log!Idle, Log!Pending, Log!None, None, IdleThread, SeenLog, SeenRequests, RequestOf
<1>3. Log!Store(t) <=>
        /\ Log!Waiting(t, "store") /\ Log!Answered(t, <<>>)
        /\ SeenLog' = [ SeenLog EXCEPT ![thread[t].req.mb] = Append(@, thread[t].req.id) ]
  BY <1>1 DEF Log!Store, SeenLog, SeenRequests, RequestOf
<1>4. Log!Delete(t) <=>
        /\ Log!Waiting(t, "delete") /\ Log!Answered(t, <<>>)
        /\ SeenLog' = [ SeenLog EXCEPT ![thread[t].req.mb] =
                          DropFirst(@, thread[t].req.count) ]
  BY <1>1, SameDropFirst DEF Log!Delete, SeenLog, SeenRequests, RequestOf
<1>5. ASSUME NEW a, Log!Waiting(t, "list"), Log!Answered(t, a), SeenLog' = SeenLog,
             thread[t].req.allVersions => a = SeenLog[thread[t].req.mb],
             ~thread[t].req.allVersions => a = FirstVersions(SeenLog[thread[t].req.mb])
      PROVE  Log!List(t)
  <2> DEFINE q == SeenRequests[t].todo
             b == IF q.allVersions THEN SeenLog[q.mb] ELSE Log!FirstVersions(SeenLog[q.mb])
  <2>1. Log!List(t) <=>
          /\ Log!Waiting(t, "list") /\ SeenLog' = SeenLog
          /\ SeenRequests' = [ SeenRequests EXCEPT ![t].done = TRUE, ![t].answer = b ]
    BY DEF Log!List, Log!Answered, SeenLog, SeenRequests, RequestOf
  <2>2. b = a
    BY <1>1, <1>5, SameFirstVersions, Zenon
  <2> HIDE DEF b
  <2>3. SeenRequests' = [ SeenRequests EXCEPT ![t].done = TRUE, ![t].answer = a ]
    BY <1>5, LogStep
  <2> QED BY <1>5, <2>1, <2>2, <2>3
<1>6. Log!Return(t) <=>
        /\ SeenRequests[t].done /\ SeenLog' = SeenLog
        /\ SeenRequests' = [ SeenRequests EXCEPT ![t] =
                               [ todo |-> None, done |-> FALSE, answer |-> <<>> ] ]
  BY DEF Log!Return, Log!Idle, Log!Pending, Log!None, None, IdleThread, SeenLog, SeenRequests, RequestOf
<1> QED BY <1>2, <1>3, <1>4, <1>5, <1>6

\* A step of one thread that DetLog does not see.
LEMMA LogStutters ==
  ASSUME NEW t \in Threads, \A u \in Threads : u # t => thread'[u] = thread[u],
         RequestOf(t)' = RequestOf(t), \A mb \in Mbs : Visible(mb)' = Visible(mb)
  PROVE  Log!vars' = Log!vars
<1>1. \A u \in Threads : RequestOf(u)' = RequestOf(u)
  <2>1. \A u \in Threads : u # t => RequestOf(u)' = RequestOf(u)
    BY DEF RequestOf, TookEffect, AbstractAnswer, At
  <2> QED BY <2>1
<1>2. SeenRequests' = SeenRequests
  BY <1>1 DEF SeenRequests
<1>3. SeenLog' = SeenLog
  BY DEF SeenLog
<1>4. Log!vars' = << SeenLog', SeenRequests' >>
  BY DEF Log!vars, SeenLog, SeenRequests, RequestOf
<1> QED BY <1>2, <1>3, <1>4, LogVars

\* The request of one thread changes.
LEMMA RequestChanged ==
  ASSUME NEW t \in Threads, \A u \in Threads : u # t => thread'[u] = thread[u]
  PROVE  /\ SeenRequests[t] = RequestOf(t)
         /\ \A r : RequestOf(t)' = r => SeenRequests' = [ SeenRequests EXCEPT ![t] = r ]
<1>1. \A u \in Threads : u # t => RequestOf(u)' = RequestOf(u)
  BY DEF RequestOf, TookEffect, AbstractAnswer, At
<1> QED BY <1>1 DEF SeenRequests

LEMMA TakesEffect ==
  ASSUME NEW t \in Threads, \A u \in Threads : u # t => thread'[u] = thread[u],
         thread'[t].req = thread[t].req, ~TookEffect(t), TookEffect(t)',
         NEW a, AbstractAnswer(t)' = a
  PROVE  /\ Log!Answered(t, a)
         /\ \A op : Log!Waiting(t, op) <=> thread[t].req.op = op
<1>1. RequestOf(t)' = [ todo |-> thread[t].req, done |-> TRUE, answer |-> a ]
  BY DEF RequestOf, TookEffect
<1>2. SeenRequests' = [ SeenRequests EXCEPT ![t] =
                          [ todo |-> thread[t].req, done |-> TRUE, answer |-> a ] ]
  BY <1>1, RequestChanged
<1>3. [ SeenRequests EXCEPT ![t].done = TRUE, ![t].answer = a ]
        = [ SeenRequests EXCEPT ![t] = [ todo |-> thread[t].req, done |-> TRUE, answer |-> a ] ]
  <2> DEFINE x == RequestOf(t)
             y == [ x EXCEPT !.done = TRUE, !.answer = a ]
  <2>1. y = [ todo |-> thread[t].req, done |-> TRUE, answer |-> a ]
    <3> DEFINE R == [ todo : {thread[t].req}, done : BOOLEAN, answer : {a, AbstractAnswer(t)} ]
    <3>1. TookEffect(t) \in BOOLEAN
      BY DEF TookEffect
    <3>2. x \in R
      BY <3>1 DEF RequestOf
    <3> HIDE DEF x
    <3>3. y \in R /\ y.done = TRUE /\ y.answer = a
      BY <3>2
    <3> HIDE DEF y
    <3> QED BY <3>3
  <2>2. SeenRequests[t] = x
    BY DEF SeenRequests
  <2>3. [ SeenRequests EXCEPT ![t].done = TRUE, ![t].answer = a ] = [ SeenRequests EXCEPT ![t] = y ]
    BY <2>2 DEF SeenRequests
  <2> HIDE DEF y
  <2> QED BY <2>1, <2>3
<1> QED BY <1>2, <1>3, LogStep

\* Before it takes effect, or after, a step that only goes on is not seen.
LEMMA GoesOn ==
  ASSUME TypeInv, NEW t \in Threads, NEW step \in Steps, Goto(t, step),
         ~TookEffect(t), step \notin {"print", "printing", "convert", "erase", "answer"},
         \A mb \in Mbs : Visible(mb)' = Visible(mb)
  PROVE  Log!vars' = Log!vars
<1>1. /\ thread'[t].pc = step /\ thread'[t].req = thread[t].req
      /\ thread'[t].answer = thread[t].answer
      /\ \A u \in Threads : u # t => thread'[u] = thread[u]
  BY GotoThread
<1>2. RequestOf(t)' = RequestOf(t)
  BY <1>1 DEF RequestOf, TookEffect, AbstractAnswer, At
<1> QED BY <1>1, <1>2, LogStutters

LEMMA LogArrives ==
  ASSUME TypeInv, AnswersInv, NEW t \in Threads, Receive(t)
  PROVE  Log!Next
<1>1. PICK q \in Requests :
        thread' = [ thread EXCEPT ![t].pc = FirstStep(q.op), ![t].req = q ]
  BY DEF Receive
<1>2. q \in Log!Requests /\ q.op \in {"store", "getPals", "list", "delete"}
  <2>1. CASE q \in [ op : {"store", "getPals"}, mb : Mbs, id : PacketIds ]
    BY <2>1 DEF Log!Requests, Log!StoreRequests
  <2>2. CASE q \in [ op : {"list"}, mb : Mbs, allVersions : BOOLEAN ]
    BY <2>2 DEF Log!Requests
  <2>3. CASE q \in [ op : {"delete"}, mb : Mbs, count : 0..MaxDelete ]
    BY <2>3 DEF Log!Requests
  <2> QED BY <2>1, <2>2, <2>3 DEF Requests
<1>3. FirstStep(q.op) \in {"create", "lookup", "find"}
  BY <1>2 DEF FirstStep
<1>4. /\ thread[t].pc = "idle" /\ thread[t].req = None /\ thread[t].answer = <<>>
      /\ progressData' = progressData
  BY DEF Receive, At, AnswersInv
<1>5. /\ thread'[t].pc = FirstStep(q.op) /\ thread'[t].req = q /\ thread'[t].answer = <<>>
      /\ \A u \in Threads : u # t => thread'[u] = thread[u]
  <2>1. thread \in [Threads -> ThreadData] /\ thread[t] \in ThreadData
    BY DEF TypeInv
  <2> DEFINE r == [ thread[t] EXCEPT !.pc = FirstStep(q.op), !.req = q ]
  <2>2. /\ thread' = [ thread EXCEPT ![t] = r ]
        /\ r.pc = FirstStep(q.op) /\ r.req = q /\ r.answer = thread[t].answer
    BY <1>1, <2>1 DEF ThreadData
  <2> HIDE DEF r
  <2> QED BY <1>4, <2>1, <2>2
<1>6. \A mb \in Mbs : Visible(mb)' = Visible(mb)
  <2>1. \A mb : Listed(mb)' = Listed(mb)
    BY <1>4 DEF Listed
  <2> QED BY <1>3, <1>4, <1>5, <2>1, SeenAsBefore
<1>7. SeenLog' = SeenLog
  BY <1>6 DEF SeenLog
<1>8. RequestOf(t) = [ todo |-> None, done |-> FALSE, answer |-> <<>> ]
  <2>1. TookEffect(t) = FALSE
    BY <1>4 DEF TookEffect
  <2>2. AbstractAnswer(t) = <<>>
    BY <1>4 DEF AbstractAnswer, At
  <2> QED BY <1>4, <2>1, <2>2, Zenon DEF RequestOf
<1>9. RequestOf(t)' = [ todo |-> q, done |-> FALSE, answer |-> <<>> ]
  <2>1. TookEffect(t)' = FALSE
    BY <1>3, <1>5 DEF TookEffect
  <2>2. AbstractAnswer(t)' = <<>>
    BY <1>3, <1>5 DEF AbstractAnswer, At
  <2> QED BY <1>5, <2>1, <2>2, Zenon DEF RequestOf
<1>10. Log!Arrive(t, q)
  <2>1. SeenRequests[t] = [ todo |-> None, done |-> FALSE, answer |-> <<>> ]
    BY <1>5, <1>8, RequestChanged, Zenon
  <2>2. SeenRequests' = [ SeenRequests EXCEPT ![t] =
                           [ todo |-> q, done |-> FALSE, answer |-> <<>> ] ]
    BY <1>5, <1>9, RequestChanged, Zenon
  <2> QED BY <1>7, <2>1, <2>2, LogActions, Zenon
<1> QED BY <1>2, <1>10, LogStep

LEMMA LogStores ==
  ASSUME TypeInv, AnswersInv, NEW t \in Threads, AddPacketId(t)
  PROVE  Log!Next
<1>1. PICK mb, id : mb = thread[t].req.mb /\ id = thread[t].req.id
  OBVIOUS
<1>2. thread[t].pc = "add" /\ Goto(t, "print")
  BY DEF AddPacketId, At
<1>3. /\ thread'[t].pc = "print" /\ thread'[t].req = thread[t].req
      /\ thread'[t].answer = thread[t].answer
      /\ \A u \in Threads : u # t => thread'[u] = thread[u]
  BY <1>2, GotoThread DEF Steps
<1>4. thread[t].req.op = "store" /\ thread[t].answer = <<>>
  BY <1>2 DEF TypeInv, RequestInv, StoreSteps, AnswersInv
<1>5. /\ mb \in Mbs /\ Visible(mb)' = Append(Visible(mb), id)
      /\ \A b : b # mb => Visible(b)' = Visible(b)
  BY <1>1, SeenAdded
<1>6. SeenLog' = [ SeenLog EXCEPT ![mb] = Append(@, id) ]
  BY <1>5 DEF SeenLog
<1>7. Log!Answered(t, <<>>) /\ Log!Waiting(t, "store")
  <2>1. AbstractAnswer(t)' = <<>> /\ ~TookEffect(t) /\ TookEffect(t)'
    BY <1>2, <1>3, <1>4 DEF AbstractAnswer, TookEffect
  <2> QED BY <1>3, <1>4, <2>1, TakesEffect
<1>8. Log!Store(t)
  BY <1>1, <1>6, <1>7, LogActions
<1> QED BY <1>8, LogStep

LEMMA LogDeletes ==
  ASSUME TypeInv, AnswersInv, NEW t \in Threads, DeletePacketsFromMbData(t)
  PROVE  Log!Next
<1>1. PICK mb, n : mb = thread[t].req.mb /\ n = thread[t].req.count
  OBVIOUS
<1>2. thread[t].pc = "delete data" /\ Goto(t, "erase")
  BY DEF DeletePacketsFromMbData, At
<1>3. /\ thread'[t].pc = "erase" /\ thread'[t].req = thread[t].req
      /\ thread'[t].answer = thread[t].answer
      /\ \A u \in Threads : u # t => thread'[u] = thread[u]
  BY <1>2, GotoThread DEF Steps
<1>4. thread[t].req.op = "delete" /\ thread[t].answer = <<>>
  BY <1>2 DEF TypeInv, RequestInv, DeleteSteps, AnswersInv
<1>5. /\ mb \in Mbs /\ Visible(mb)' = DropFirst(Visible(mb), n)
      /\ \A b : b # mb => Visible(b)' = Visible(b)
  BY <1>1, SeenDeleted
<1>6. SeenLog' = [ SeenLog EXCEPT ![mb] = DropFirst(@, n) ]
  BY <1>5 DEF SeenLog
<1>7. Log!Answered(t, <<>>) /\ Log!Waiting(t, "delete")
  <2>1. AbstractAnswer(t)' = <<>> /\ ~TookEffect(t) /\ TookEffect(t)'
    BY <1>2, <1>3, <1>4 DEF AbstractAnswer, TookEffect
  <2> QED BY <1>3, <1>4, <2>1, TakesEffect
<1>8. Log!Delete(t)
  BY <1>1, <1>6, <1>7, LogActions
<1> QED BY <1>8, LogStep

LEMMA LogGetPals ==
  ASSUME NEW t \in Threads, NEW mb, NEW id, mb = thread[t].req.mb, id = thread[t].req.id,
         Log!Waiting(t, "getPals"), SeenLog' = SeenLog,
         \/ /\ Log!Answered(t, <<"found">>)
            /\ \/ id \in Elements(SeenLog[mb])
               \/ \E u \in Threads : /\ Log!Waiting(u, "store")
                                    /\ thread[u].req.mb = mb /\ thread[u].req.id = id
         \/ Log!Answered(t, <<>>) /\ id \notin Elements(SeenLog[mb])
  PROVE  Log!GetPals(t)
<1>1. /\ SeenRequests[t].todo.mb = mb /\ SeenRequests[t].todo.id = id
      /\ \A u \in Threads : SeenRequests[u].todo = thread[u].req
  BY DEF SeenRequests, RequestOf
<1>2. Log!BeingStored(mb, id) <=>
        \E u \in Threads : /\ Log!Waiting(u, "store")
                          /\ SeenRequests[u].todo.mb = mb /\ SeenRequests[u].todo.id = id
  BY DEF Log!BeingStored, SeenRequests, RequestOf
<1> DEFINE r == SeenRequests[t].todo
           stored == { i \in {r.id} : Log!BeingStored(r.mb, i) }
<1>3. Log!GetPals(t) <=>
        /\ Log!Waiting(t, "getPals")
        /\ \/ r.id \in Log!Elements(SeenLog[r.mb]) \union stored /\ Log!Answered(t, <<"found">>)
           \/ r.id \notin Log!Elements(SeenLog[r.mb]) /\ Log!Answered(t, <<>>)
        /\ SeenLog' = SeenLog
  BY DEF Log!GetPals, SeenLog, SeenRequests, RequestOf
<1>4. CASE Log!Answered(t, <<>>) /\ id \notin Elements(SeenLog[mb])
  BY <1>1, <1>3, <1>4, SameElements
<1>5. CASE Log!Answered(t, <<"found">>) /\ id \in Elements(SeenLog[mb])
  BY <1>1, <1>3, <1>5, SameElements
<1>6. CASE /\ Log!Answered(t, <<"found">>)
           /\ \E u \in Threads : /\ Log!Waiting(u, "store")
                                 /\ thread[u].req.mb = mb /\ thread[u].req.id = id
  <2>1. Log!BeingStored(mb, id)
    BY <1>1, <1>2, <1>6
  <2>2. r.id \in stored
    BY <1>1, <2>1
  <2> HIDE DEF stored
  <2> QED BY <1>3, <1>6, <2>2
<1> QED BY <1>4, <1>5, <1>6

\* A packet is looked up: what is found is listed, or being stored.
LEMMA LogLooksUp ==
  ASSUME TypeInv, DataInv, AnswersInv, NEW t \in Threads, GetPacketData(t)
  PROVE  Log!Next
<1>1. PICK mb, id : mb = thread[t].req.mb /\ id = thread[t].req.id
  OBVIOUS
<1>2. /\ thread[t].pc = "lookup"
      /\ IF detData[mb][id] \in {"created", "stored"} THEN Goto(t, "convert") ELSE Answer(t, <<>>)
      /\ progressData' = progressData
  BY <1>1 DEF GetPacketData, At
<1>3. /\ thread[t].req.op = "getPals" /\ thread[t].answer = <<>>
      /\ mb \in Mbs /\ id \in PacketIds
  <2>1. thread[t].req.op = "getPals" /\ thread[t].answer = <<>>
    BY <1>2 DEF TypeInv, RequestInv, AnswersInv
  <2> QED BY <1>1, <2>1, ThreadFields, RequestFields
<1>4. /\ thread'[t].pc \in {"convert", "answer"} /\ thread'[t].req = thread[t].req
      /\ \A u \in Threads : u # t => thread'[u] = thread[u]
      /\ detData[mb][id] \in {"created", "stored"} => thread'[t].pc = "convert"
      /\ detData[mb][id] \notin {"created", "stored"} =>
           thread'[t].pc = "answer" /\ thread'[t].answer = <<>>
  <2>1. CASE detData[mb][id] \in {"created", "stored"}
    BY <1>2, <2>1, GotoThread DEF Steps
  <2>2. CASE detData[mb][id] \notin {"created", "stored"}
    BY <1>2, <2>2, AnswerThread, EmptyAnswer
  <2> QED BY <2>1, <2>2
<1>5. \A b \in Mbs : Visible(b)' = Visible(b)
  <2>1. \A b : Listed(b)' = Listed(b)
    BY <1>2 DEF Listed
  <2> QED BY <1>2, <1>4, <2>1, SeenAsBefore
<1>6. SeenLog' = SeenLog /\ SeenLog[mb] = Visible(mb)
  BY <1>3, <1>5 DEF SeenLog
<1>7. ~TookEffect(t) /\ TookEffect(t)'
  BY <1>2, <1>4 DEF TookEffect
<1>8. CASE detData[mb][id] \in {"created", "stored"}
  <2>1. AbstractAnswer(t)' = <<"found">>
    BY <1>3, <1>4, <1>8 DEF AbstractAnswer, At
  <2>2. Log!Answered(t, <<"found">>) /\ Log!Waiting(t, "getPals")
    BY <1>3, <1>4, <1>7, <2>1, TakesEffect
  <2>3. id \in Elements(Visible(mb)) \/ Storing(mb, id)
    BY <1>3, <1>8 DEF DataInv, DataIsListed
  <2>4. ASSUME Storing(mb, id)
        PROVE  \E u \in Threads : /\ Log!Waiting(u, "store")
                                  /\ thread[u].req.mb = mb /\ thread[u].req.id = id
    <3>1. PICK u \in Threads : /\ thread[u].pc \in {"update", "progress", "add"}
                              /\ thread[u].req.mb = mb /\ thread[u].req.id = id
      BY <2>4 DEF Storing
    <3>2. thread[u].req.op = "store" /\ ~TookEffect(u)
      BY <3>1 DEF TypeInv, RequestInv, StoreSteps, TookEffect
    <3>3. Log!Waiting(u, "store")
      BY <3>2, LogStep
    <3> QED BY <3>1, <3>3
  <2>5. \/ id \in Elements(SeenLog[mb])
        \/ \E u \in Threads : /\ Log!Waiting(u, "store")
                             /\ thread[u].req.mb = mb /\ thread[u].req.id = id
    BY <1>6, <2>3, <2>4
  <2>6. Log!GetPals(t)
    BY <1>1, <1>6, <2>2, <2>5, LogGetPals
  <2> QED BY <2>6, LogStep
<1>9. CASE detData[mb][id] \notin {"created", "stored"}
  <2>1. AbstractAnswer(t)' = <<>>
    BY <1>4, <1>9 DEF AbstractAnswer, At
  <2>2. Log!Answered(t, <<>>) /\ Log!Waiting(t, "getPals")
    BY <1>3, <1>4, <1>7, <2>1, TakesEffect
  <2>3. id \notin Elements(Visible(mb))
    BY <1>3, <1>9 DEF DataInv, ListedHasPals
  <2>4. Log!GetPals(t)
    BY <1>1, <1>6, <2>2, <2>3, LogGetPals
  <2> QED BY <2>4, LogStep
<1> QED BY <1>8, <1>9

\* A list is answered: of what is visible while its lock is free.
LEMMA LogLists ==
  ASSUME TypeInv, AnswersInv, NEW t \in Threads, GetProcessedPackets(t)
  PROVE  Log!Next
<1>1. PICK mb : mb = thread[t].req.mb
  OBVIOUS
<1>2. PICK a : a = IF thread[t].req.allVersions THEN Listed(mb) ELSE FirstVersions(Listed(mb))
  OBVIOUS
<1>3. /\ thread[t].pc = "list" /\ Unlocked(SpdLock(mb)) /\ Answer(t, a)
      /\ progressData' = progressData
  BY <1>1, <1>2 DEF GetProcessedPackets, At
<1>4. /\ thread[t].req.op = "list" /\ mb \in Mbs
  BY <1>1, <1>3 DEF TypeInv, RequestInv
<1>5. a \in Answers
  <2>1. Listed(mb) \in Seq(PacketIds)
    BY ListedType
  <2> QED BY <1>2, <2>1, FirstVersionsType DEF Answers
<1>6. /\ thread'[t].pc = "answer" /\ thread'[t].req = thread[t].req /\ thread'[t].answer = a
      /\ \A u \in Threads : u # t => thread'[u] = thread[u]
  BY <1>3, <1>5, AnswerThread
<1>7. \A b \in Mbs : Visible(b)' = Visible(b)
  <2>1. \A b : Listed(b)' = Listed(b)
    BY <1>3 DEF Listed
  <2> QED BY <1>3, <1>6, <2>1, SeenAsBefore
<1>8. Visible(mb) = Listed(mb)
  <2>1. \A v \in Threads : ~Erasing(v, mb)
    BY <1>3, <1>4, NoEraser
  <2> QED BY <1>4, <2>1, VisibleIs DEF VisibleFacts
<1>9. SeenLog' = SeenLog /\ SeenLog[mb] = Listed(mb)
  BY <1>4, <1>7, <1>8 DEF SeenLog
<1>10. Log!Answered(t, a) /\ Log!Waiting(t, "list")
  <2>1. AbstractAnswer(t)' = a /\ ~TookEffect(t) /\ TookEffect(t)'
    BY <1>3, <1>4, <1>6 DEF AbstractAnswer, TookEffect
  <2> QED BY <1>4, <1>6, <2>1, TakesEffect
<1>11. /\ thread[t].req.allVersions => a = SeenLog[thread[t].req.mb]
       /\ ~thread[t].req.allVersions => a = FirstVersions(SeenLog[thread[t].req.mb])
  BY <1>1, <1>2, <1>9
<1>12. Log!List(t)
  BY <1>9, <1>10, <1>11, LogActions
<1> QED BY <1>12, LogStep

\* Of a list that is not there nothing is answered, and nothing goes.
LEMMA NoList ==
  ASSUME NEW n \in Nat
  PROVE  FirstVersions(<<>>) = <<>> /\ DropFirst(<<>>, n) = <<>>
<1>1. FirstVersions(<<>>) = <<>>
  <2>1. { i \in DOMAIN <<>> : \A j \in 1..(i - 1) : BaseOf(<<>>[j]) # BaseOf(<<>>[i]) } = {}
    OBVIOUS
  <2>2. FirstVersions(<<>>) = Keep(<<>>, {})
    BY <2>1 DEF FirstVersions
  <2>3. Keep(<<>>, {}) \in Seq(Nat)
    BY KeepSpec, EmptySeq
  <2>4. DOMAIN Keep(<<>>, {}) = 1..0
    BY FS_EmptySet DEF Keep
  <2>5. Len(Keep(<<>>, {})) = 0
    BY <2>3, <2>4, LenProperties
  <2> QED BY <2>2, <2>3, <2>5, EmptySeq
<1>2. DropFirst(<<>>, n) = <<>>
  <2>1. DropFirst(<<>>, n) = SubSeq(<<>>, 1, 0)
    BY DEF DropFirst
  <2> QED BY <2>1
<1> QED BY <1>1, <1>2

LEMMA LogFinds ==
  ASSUME TypeInv, AnswersInv, NEW t \in Threads, GetServerProgressData(t)
  PROVE  Log!Next \/ Log!vars' = Log!vars
<1>1. PICK mb : mb = thread[t].req.mb
  OBVIOUS
<1>2. /\ thread[t].pc = "find" /\ thread[t].answer = <<>> /\ thread[t].req.op \in {"list", "delete"}
      /\ progressData' = progressData
  BY DEF GetServerProgressData, At, TypeInv, RequestInv, AnswersInv
<1>3. /\ mb \in Mbs
      /\ thread[t].req.op = "delete" => thread[t].req.count \in Nat
  BY <1>1, <1>2, ThreadFields, RequestFields
<1>4. \A b : Listed(b)' = Listed(b)
  BY <1>2 DEF Listed
<1>5. CASE mb \in DOMAIN progressData
  <2>1. Goto(t, thread[t].req.op)
    BY <1>1, <1>5 DEF GetServerProgressData
  <2>2. PICK step \in {"list", "delete"} : step = thread[t].req.op
    BY <1>2
  <2>3. step \in Steps /\ Goto(t, step)
    BY <2>1, <2>2 DEF Steps
  <2>4. /\ thread'[t].pc # "erase"
        /\ \A u \in Threads : u # t => thread'[u] = thread[u]
    BY <2>2, <2>3, GotoThread
  <2>5. \A b \in Mbs : Visible(b)' = Visible(b)
    BY <1>2, <1>4, <2>4, SeenAsBefore
  <2>6. ~TookEffect(t)
    BY <1>2 DEF TookEffect
  <2>7. Log!vars' = Log!vars
    BY <2>2, <2>3, <2>5, <2>6, GoesOn
  <2> QED BY <2>7
<1>6. CASE mb \notin DOMAIN progressData
  <2>1. Answer(t, <<>>)
    BY <1>1, <1>6 DEF GetServerProgressData
  <2>2. /\ thread'[t].pc = "answer" /\ thread'[t].req = thread[t].req /\ thread'[t].answer = <<>>
        /\ \A u \in Threads : u # t => thread'[u] = thread[u]
    BY <2>1, AnswerThread, EmptyAnswer
  <2>3. \A b \in Mbs : Visible(b)' = Visible(b)
    BY <1>2, <1>4, <2>2, SeenAsBefore
  <2>4. Visible(mb) = <<>>
    <3>1. \A v \in Threads : ~Erasing(v, mb)
      BY <1>6 DEF Erasing, At, TypeInv, RequestInv, DeleteSteps
    <3> QED BY <1>3, <1>6, <3>1, VisibleIs DEF VisibleFacts, Listed
  <2>5. SeenLog' = SeenLog /\ SeenLog[mb] = <<>>
    BY <1>3, <2>3, <2>4 DEF SeenLog
  <2>6. Log!Answered(t, <<>>) /\ \A op : Log!Waiting(t, op) <=> thread[t].req.op = op
    <3>1. AbstractAnswer(t)' = <<>> /\ ~TookEffect(t) /\ TookEffect(t)'
      BY <1>2, <2>2 DEF AbstractAnswer, TookEffect
    <3> QED BY <2>2, <3>1, TakesEffect
  <2>7. CASE thread[t].req.op = "list"
    <3>1. Log!Waiting(t, "list")
      BY <2>6, <2>7
    <3>2. FirstVersions(SeenLog[mb]) = <<>>
      BY <2>5, NoList
    <3>3. Log!List(t)
      BY <1>1, <2>5, <2>6, <3>1, <3>2, LogActions
    <3> QED BY <3>3, LogStep
  <2>8. CASE thread[t].req.op = "delete"
    <3>1. Log!Waiting(t, "delete")
      BY <2>6, <2>8
    <3>2. DropFirst(SeenLog[mb], thread[t].req.count) = SeenLog[mb]
      BY <1>3, <2>5, <2>8, NoList
    <3>3. SeenLog' = [ SeenLog EXCEPT ![mb] = DropFirst(@, thread[t].req.count) ]
      BY <1>3, <2>5, <3>2 DEF SeenLog
    <3>4. Log!Delete(t)
      BY <1>1, <2>6, <3>1, <3>3, LogActions
    <3> QED BY <3>4, LogStep
  <2> QED BY <1>2, <2>7, <2>8
<1> QED BY <1>5, <1>6

\* Once a request took effect, going on, printing and answering is not seen.
LEMMA LogAnswered ==
  ASSUME TypeInv, AnswersInv, NEW t \in Threads,
         \/ StartPrint(t) \/ PrintList(t) \/ EndPrint(t) \/ ConvertPacketDataToPM(t)
         \/ EraseFirst(t)
  PROVE  Log!vars' = Log!vars
<1>0. thread \in [Threads -> ThreadData] /\ thread[t] \in ThreadData
  BY DEF TypeInv
<1>1. CASE StartPrint(t) \/ PrintList(t)
  <2>1. /\ thread[t].pc \in {"print", "printing"} /\ thread'[t].pc = "printing"
        /\ thread'[t].req = thread[t].req /\ thread'[t].answer = thread[t].answer
        /\ \A u \in Threads : u # t => thread'[u] = thread[u]
        /\ progressData' = progressData
    <3>1. CASE StartPrint(t)
      BY <1>0, <3>1 DEF StartPrint, At, ThreadData
    <3>2. CASE PrintList(t)
      BY <1>0, <3>2 DEF PrintList, At, ThreadData
    <3> QED BY <1>1, <3>1, <3>2
  <2>2. RequestOf(t)' = RequestOf(t)
    BY <2>1 DEF RequestOf, TookEffect, AbstractAnswer, At
  <2>3. \A mb : Listed(mb)' = Listed(mb)
    BY <2>1 DEF Listed
  <2>4. \A mb : Visible(mb)' = Visible(mb)
    BY <2>1, <2>3, SeenAsBefore
  <2> QED BY <2>1, <2>2, <2>4, LogStutters
<1>2. CASE EndPrint(t)
  <2>1. /\ thread[t].pc = "printing" /\ Answer(t, <<>>) /\ progressData' = progressData
        /\ thread[t].answer = <<>> /\ thread[t].req.op = "store"
    BY <1>2 DEF EndPrint, At, AnswersInv, TypeInv, RequestInv, StoreSteps
  <2>2. /\ thread'[t].pc = "answer" /\ thread'[t].req = thread[t].req /\ thread'[t].answer = <<>>
        /\ \A u \in Threads : u # t => thread'[u] = thread[u]
    BY <2>1, AnswerThread, EmptyAnswer
  <2>3. RequestOf(t)' = RequestOf(t)
    BY <2>1, <2>2 DEF RequestOf, TookEffect, AbstractAnswer, At
  <2>4. \A mb : Listed(mb)' = Listed(mb)
    BY <2>1 DEF Listed
  <2>5. \A mb : Visible(mb)' = Visible(mb)
    BY <2>1, <2>2, <2>4, SeenAsBefore
  <2> QED BY <2>2, <2>3, <2>5, LogStutters
<1>3. CASE ConvertPacketDataToPM(t)
  <2>1. /\ thread[t].pc = "convert" /\ progressData' = progressData
        /\ thread[t].req.op = "getPals"
    BY <1>3 DEF ConvertPacketDataToPM, At, TypeInv, RequestInv
  <2>2. PICK found : Answer(t, <<found>>)
    BY <1>3 DEF ConvertPacketDataToPM
  <2>3. /\ thread'[t].pc = "answer" /\ thread'[t].req = thread[t].req
        /\ thread'[t].answer = <<found>>
        /\ \A u \in Threads : u # t => thread'[u] = thread[u]
    <3> DEFINE r == [ thread[t] EXCEPT !.pc = "answer", !.answer = <<found>> ]
    <3>1. /\ thread' = [ thread EXCEPT ![t] = r ]
          /\ r.pc = "answer" /\ r.req = thread[t].req /\ r.answer = <<found>>
      BY <1>0, <2>2 DEF Answer, ThreadData
    <3> HIDE DEF r
    <3> QED BY <1>0, <3>1
  <2>4. RequestOf(t)' = RequestOf(t)
    BY <2>1, <2>3 DEF RequestOf, TookEffect, AbstractAnswer, At
  <2>5. \A mb : Listed(mb)' = Listed(mb)
    BY <2>1 DEF Listed
  <2>6. \A mb : Visible(mb)' = Visible(mb)
    BY <2>1, <2>3, <2>5, SeenAsBefore
  <2> QED BY <2>3, <2>4, <2>6, LogStutters
<1>4. CASE EraseFirst(t)
  <2>1. PICK mb, n : mb = thread[t].req.mb /\ n = thread[t].req.count
    OBVIOUS
  <2>2. /\ thread[t].pc = "erase" /\ Answer(t, <<>>)
        /\ thread[t].answer = <<>> /\ thread[t].req.op = "delete"
    BY <1>4 DEF EraseFirst, At, AnswersInv, TypeInv, RequestInv, DeleteSteps
  <2>3. /\ thread'[t].pc = "answer" /\ thread'[t].req = thread[t].req /\ thread'[t].answer = <<>>
        /\ \A u \in Threads : u # t => thread'[u] = thread[u]
    BY <2>2, AnswerThread, EmptyAnswer
  <2>4. RequestOf(t)' = RequestOf(t)
    BY <2>2, <2>3 DEF RequestOf, TookEffect, AbstractAnswer, At
  <2>5. \A b : Visible(b)' = Visible(b)
    BY <1>4, <2>1, SeenErased
  <2> QED BY <2>3, <2>4, <2>5, LogStutters
<1> QED BY <1>1, <1>2, <1>3, <1>4

LEMMA LogReturns ==
  ASSUME TypeInv, NEW t \in Threads, SendAnswer(t)
  PROVE  Log!Next
<1>1. /\ thread[t].pc = "answer" /\ thread' = [ thread EXCEPT ![t] = IdleThread ]
      /\ progressData' = progressData
  BY DEF SendAnswer, At
<1>2. /\ thread'[t] = IdleThread
      /\ \A u \in Threads : u # t => thread'[u] = thread[u]
  BY <1>1 DEF TypeInv
<1>3. thread'[t].pc = "idle" /\ thread'[t].req = None /\ thread'[t].answer = <<>>
  BY <1>2 DEF IdleThread, None
<1>4. \A mb \in Mbs : Visible(mb)' = Visible(mb)
  <2>1. \A mb : Listed(mb)' = Listed(mb)
    BY <1>1 DEF Listed
  <2> QED BY <1>1, <1>2, <1>3, <2>1, SeenAsBefore
<1>5. SeenLog' = SeenLog
  BY <1>4 DEF SeenLog
<1>6. RequestOf(t)' = [ todo |-> None, done |-> FALSE, answer |-> <<>> ]
  <2>1. TookEffect(t)' = FALSE
    BY <1>3 DEF TookEffect
  <2>2. AbstractAnswer(t)' = <<>>
    BY <1>3 DEF AbstractAnswer, At
  <2> QED BY <1>3, <2>1, <2>2, Zenon DEF RequestOf
<1>7. SeenRequests' = [ SeenRequests EXCEPT ![t] =
                          [ todo |-> None, done |-> FALSE, answer |-> <<>> ] ]
  BY <1>2, <1>6, RequestChanged, Zenon
<1>8. SeenRequests[t].done
  BY <1>1 DEF SeenRequests, RequestOf, TookEffect
<1>9. Log!Return(t)
  BY <1>5, <1>7, <1>8, LogActions, Zenon
<1> QED BY <1>9, LogStep

\* The steps before a request takes effect, but for those that look something up.
LEMMA LogGoesOn ==
  ASSUME TypeInv, NEW t \in Threads,
         \/ GetOrCreatePacketData(t) \/ UpdatePacketData(t) \/ GetOrCreateServerProgressData(t)
         \/ LockList(t) \/ LockData(t)
  PROVE  Log!vars' = Log!vars
<1>1. /\ thread[t].pc \in {"create", "update", "progress", "delete", "lock data"}
      /\ \E step \in {"update", "progress", "add", "lock data", "delete data"} : Goto(t, step)
  BY DEF GetOrCreatePacketData, UpdatePacketData, GetOrCreateServerProgressData, LockList, LockData, At
<1>2. PICK step \in {"update", "progress", "add", "lock data", "delete data"} : Goto(t, step)
  BY <1>1
<1>3. step \in Steps /\ ~TookEffect(t)
  BY <1>1 DEF Steps, TookEffect
<1>4. /\ thread'[t].pc = step
      /\ \A u \in Threads : u # t => thread'[u] = thread[u]
  BY <1>2, <1>3, GotoThread
<1>5. \A mb : Listed(mb)' = Listed(mb)
  BY DEF GetOrCreatePacketData, UpdatePacketData, GetOrCreateServerProgressData, LockList, LockData,
         Listed
<1>6. \A mb : Visible(mb)' = Visible(mb)
  BY <1>1, <1>4, <1>5, SeenAsBefore
<1> QED BY <1>2, <1>3, <1>6, GoesOn

LEMMA LogInit == Init => Log!Init
<1> SUFFICES ASSUME Init PROVE Log!Init
  OBVIOUS
<1>1. \A t \in Threads : thread[t] = IdleThread
  BY DEF Init
<1>2. \A mb \in Mbs : Visible(mb) = <<>>
  <2>1. \A mb : Listed(mb) = <<>>
    BY DEF Init, Listed
  <2>2. \A u \in Threads : \A mb : ~Erasing(u, mb)
    BY <1>1 DEF Erasing, At, IdleThread
  <2> QED BY <2>1, <2>2, VisibleIs DEF VisibleFacts
<1>3. \A t \in Threads : RequestOf(t) = [ todo |-> None, done |-> FALSE, answer |-> <<>> ]
  <2> TAKE t \in Threads
  <2>1. thread[t].pc = "idle" /\ thread[t].req = None /\ thread[t].answer = <<>>
    BY <1>1 DEF IdleThread, None
  <2>2. TookEffect(t) = FALSE
    BY <2>1 DEF TookEffect
  <2>3. AbstractAnswer(t) = <<>>
    BY <2>1 DEF AbstractAnswer, At
  <2> QED BY <2>1, <2>2, <2>3, Zenon DEF RequestOf
<1>4. Log!Init <=> /\ SeenLog = [ mb \in Mbs |-> <<>> ]
                   /\ SeenRequests =
                        [ t \in Threads |-> [ todo |-> None, done |-> FALSE, answer |-> <<>> ] ]
  BY DEF Log!Init, Log!Idle, Log!Pending, Log!None, None, IdleThread, SeenLog, SeenRequests, RequestOf
<1>5. SeenLog = [ mb \in Mbs |-> <<>> ]
  BY <1>2 DEF SeenLog
<1>6. SeenRequests = [ t \in Threads |-> [ todo |-> None, done |-> FALSE, answer |-> <<>> ] ]
  BY <1>3, Zenon DEF SeenRequests
<1> QED BY <1>4, <1>5, <1>6

LEMMA LogNext ==
  TypeInv /\ DataInv /\ AnswersInv /\ [Next]_vars => Log!Next \/ Log!vars' = Log!vars
<1> SUFFICES ASSUME TypeInv, DataInv, AnswersInv, [Next]_vars
             PROVE  Log!Next \/ Log!vars' = Log!vars
  OBVIOUS
<1>1. CASE UNCHANGED vars
  <2>1. UNCHANGED << progressData, thread >>
    BY <1>1 DEF vars
  <2>2. SeenLog' = SeenLog
    BY <2>1 DEF SeenLog, Visible, Listed, At
  <2>3. SeenRequests' = SeenRequests
    BY <2>1 DEF SeenRequests, RequestOf, TookEffect, AbstractAnswer, At
  <2>4. Log!vars' = << SeenLog', SeenRequests' >>
    BY DEF Log!vars, SeenLog, SeenRequests, RequestOf
  <2> QED BY <2>2, <2>3, <2>4, LogVars
<1>2. CASE Next
  <2>1. PICK t \in Threads : Receive(t) \/ Work(t)
    BY <1>2 DEF Next
  <2>2. CASE Receive(t)
    BY <2>2, LogArrives
  <2>3. CASE StoreStep(t)
    BY <2>3, LogGoesOn, LogStores, LogAnswered DEF StoreStep
  <2>4. CASE GetPalsStep(t)
    BY <2>4, LogLooksUp, LogAnswered DEF GetPalsStep
  <2>5. CASE ListStep(t)
    BY <2>5, LogFinds, LogLists DEF ListStep
  <2>6. CASE DeleteStep(t)
    BY <2>6, LogGoesOn, LogDeletes, LogAnswered DEF DeleteStep
  <2>7. CASE SendAnswer(t)
    BY <2>7, LogReturns
  <2> QED BY <2>1, <2>2, <2>3, <2>4, <2>5, <2>6, <2>7 DEF Work
<1> QED BY <1>1, <1>2

\* Every request takes effect at one moment between its arrival and its answer: the
\* handlers, with their locks and however many threads run them, do what DetLog allows.
THEOREM HandlersImplementDetLog == Spec => ImplementsDetLog
<1>1. Init => AnswersInv
  BY AnswersInit
<1>2. TypeInv /\ AnswersInv /\ [Next]_vars => AnswersInv'
  BY AnswersNext
<1>3. Spec => []AnswersInv
  BY <1>1, <1>2, AlwaysTyped, PTL DEF Spec
<1>4. Init => Log!Init
  BY LogInit
<1>5. TypeInv /\ DataInv /\ AnswersInv /\ [Next]_vars => [Log!Next]_(Log!vars)
  BY LogNext
<1>6. Spec => Log!Init /\ [][Log!Next]_(Log!vars)
  BY <1>3, <1>4, <1>5, AlwaysTyped, AlwaysAgree, PTL DEF Spec
<1> QED BY <1>6 DEF ImplementsDetLog, Log!Spec
==============================================================================
