---------------------------- MODULE RecoveryProofs ----------------------------
(***************************************************************************)
(* Theorems about Recovery, for any number of packets and rounds, any pace *)
(* of the slave and any of the failures the module has.                    *)
(***************************************************************************)
EXTENDS Recovery, PacketListsProofs

-----------------------------------------------------------------------------
(* Types. *)

\* What can be on its way to the slave: the packet logger stores the versions 1
\* and 2 only. It makes TypeOK inductive, since the slave adds one to the
\* version it gets.
WireIds == (Bases \X {1, 2}) \union {NoId}

TypeInv ==
  /\ TypeOK
  /\ slaveIn \in Seq(WireIds)
  /\ slave.id \in WireIds
  /\ master.pc \in {"version", "storeNext"} => master.base \in Bases

\* Every id on the wire is an id, and so is its next version.
LEMMA WireIdsAreIds ==
  /\ WireIds \subseteq Ids
  /\ Seq(WireIds) \subseteq Lists
  /\ \A id \in WireIds : NextVersion(id) \in Ids /\ IdRead(id) \in WireIds
<1>1. WireIds \subseteq Ids
  BY DEF WireIds, Ids, NoId
<1>2. Seq(WireIds) \subseteq Lists
  BY <1>1, SeqMonotonic DEF Lists
<1>3. ASSUME NEW id \in WireIds PROVE NextVersion(id) \in Ids
  <2>1. CASE id \in Bases \X {1, 2}
    BY <2>1 DEF NextVersion, BaseOf, VersionOf, Ids
  <2>2. CASE id = NoId
    BY <2>2 DEF NextVersion, BaseOf, VersionOf, Ids, NoId
  <2> QED
    BY <2>1, <2>2 DEF WireIds
<1>4. \A id \in WireIds : IdRead(id) \in WireIds
  BY DEF IdRead, WireIds
<1> QED
  BY <1>1, <1>2, <1>3, <1>4

\* The packet logger sends an id of the base it was asked for.
LEMMA PacketOnWireType ==
  ASSUME TypeOK, NEW id \in Ids, StoredVersions(BaseOf(id)) # {}
  PROVE  PacketOnWire(id) \in WireIds
<1> DEFINE b == BaseOf(id)
           stored == StoredVersions(b)
           n == Cardinality(stored)
           k == IF VersionOf(id) < n THEN VersionOf(id) ELSE n
<1>1. b \in Bases /\ stored = packets[b]
  BY DEF StoredVersions
<1>2. stored \in SUBSET (1..2)
  BY <1>1 DEF TypeOK
<1>3. VersionOf(id) \in 1..3
  <2>1. 0 \notin Bases
    BY DEF Bases
  <2> QED
    BY <1>1, <2>1 DEF Ids, NoId, BaseOf, VersionOf
<1>4. n \in Nat /\ n # 0
  BY <1>2, PositionsFinite
<1>5. PacketOnWire(id) = << b, Nth(stored, k) >>
  BY DEF PacketOnWire
<1> HIDE DEF b, stored, n
<1>6. k \in 1..n
  BY <1>3, <1>4
<1>7. Nth(stored, k) \in stored
  BY <1>2, <1>6, NthSpec DEF n
<1> QED
  BY <1>1, <1>2, <1>5, <1>7 DEF WireIds

\* The initial state is well typed.
LEMMA TypeInit == Init => TypeInv
<1> SUFFICES ASSUME Init PROVE TypeInv
  OBVIOUS
<1>1. <<>> \in Lists /\ <<>> \in Seq(WireIds)
      /\ <<>> \in Seq([ op : {"replay", "delete"}, ids : Lists ])
  BY EmptySeq DEF Lists
<1>2. NoId \in WireIds /\ NoId \in Ids
  BY DEF WireIds, Ids
<1> QED
  BY <1>1, <1>2, NumPacketsAssumption, MaxRoundsAssumption
  DEF Init, TypeInv, TypeOK, Idle, IdleLogger, MgrSteps, AllCommands, Bases

\* The master's side of a step: the traffic and the determinants it records.
LEMMA TypeMaster ==
  ASSUME TypeInv, Encap \/ Master \/ MasterFails
  PROVE  TypeInv'
<1> USE NumPacketsAssumption DEF TypeInv, TypeOK, Lists
<1>1. CASE Encap
  BY SMTT(30), <1>1 DEF Encap, control, slaveSide, Bases
<1>2. CASE MasterStore
  <2>1. master.base + 1 \in Bases /\ master.base + 1 \in 0..NumPackets
    BY SMTT(30), <1>2 DEF MasterStore, Bases
  <2>2. <<master.base + 1, 1>> \in Ids
    BY <2>1 DEF Ids
  <2>3. masterLog' \in Seq(Ids) /\ recorded' \in SUBSET Ids
    BY ZenonT(30), <1>2, <2>2, AppendProperties DEF MasterStore, RecordForMaster
  <2> QED
    BY <1>2, <2>1, <2>3 DEF MasterStore, control, slaveSide
<1>3. CASE MasterNewVersion
  BY <1>3 DEF MasterNewVersion, control, slaveSide
<1>4. CASE MasterStoreNext
  <2>1. <<master.base, 2>> \in Ids
    BY <1>4 DEF MasterStoreNext, Ids
  <2>2. masterLog' \in Seq(Ids) /\ recorded' \in SUBSET Ids
    BY ZenonT(30), <1>4, <2>1, AppendProperties DEF MasterStoreNext, RecordForMaster
  <2> QED
    BY <1>4, <2>2 DEF MasterStoreNext, control, slaveSide
<1>5. CASE MasterFails
  BY <1>5 DEF MasterFails, control, slaveSide
<1> QED
  BY <1>1, <1>2, <1>3, <1>4, <1>5 DEF Master

\* The slave's steps.
LEMMA TypeSlave ==
  ASSUME TypeInv, Slave
  PROVE  TypeInv'
<1> USE DEF TypeInv, TypeOK, Lists
<1>1. CASE SlaveReceive
  <2>1. Head(slaveIn) \in WireIds /\ Tail(slaveIn) \in Seq(WireIds)
    BY <1>1, HeadTailProperties DEF SlaveReceive
  <2>2. IdRead(Head(slaveIn)) \in WireIds /\ IdRead(Head(slaveIn)) \in Ids
    BY <2>1, WireIdsAreIds
  <2>3. Tail(slaveIn) \in Seq(Ids)
    BY <2>1, WireIdsAreIds
  <2>4. slave' = [ pc |-> "store", id |-> IdRead(Head(slaveIn)),
                   pals |-> HasPals(IdRead(Head(slaveIn))) ]
    BY <1>1 DEF SlaveReceive
  <2>5. HasPals(IdRead(Head(slaveIn))) \in BOOLEAN
    BY DEF HasPals
  <2> QED
    BY SMTT(30), <1>1, <2>1, <2>2, <2>3, <2>4, <2>5 DEF SlaveReceive, traffic, control
<1>2. CASE SlaveStore
  <2>1. slaveLog' \in Seq(Ids) /\ replayed' \in SUBSET Ids
    BY <1>2, AppendProperties DEF SlaveStore, RecordForSlave
  <2> QED
    BY <1>2, <2>1 DEF SlaveStore, traffic, control
<1>3. CASE SlaveGetPals
  <2>1. HasPals(slave.id) \in BOOLEAN
    BY DEF HasPals
  <2> QED
    BY <1>3, <2>1 DEF SlaveGetPals, traffic, control
<1>4. CASE SlaveStoreNext
  <2>1. NextVersion(slave.id) \in Ids
    BY WireIdsAreIds
  <2>2. slaveLog' \in Seq(Ids) /\ replayed' \in SUBSET Ids
    BY <1>4, <2>1, AppendProperties DEF SlaveStoreNext, RecordForSlave
  <2> QED
    BY <1>4, <2>2 DEF SlaveStoreNext, traffic, control
<1> QED
  BY <1>1, <1>2, <1>3, <1>4 DEF Slave

\* A round that starts leaves a well-typed manager.
LEMMA StartRoundType ==
  ASSUME TypeInv, NEW cmd \in AllCommands, StartRound(cmd)
  PROVE  /\ rounds' \in 0..MaxRounds
         /\ mgr' \in [ pc : MgrSteps, cmd : AllCommands \union {"none"}, m : Lists,
                       fromMaster : Nat, fromSlave : Nat, packets : Lists,
                       progress : BOOLEAN ]
<1>1. rounds' \in 0..MaxRounds
  BY MaxRoundsAssumption DEF StartRound, TypeInv, TypeOK
<1>2. <<>> \in Lists
  BY EmptySeq DEF Lists
<1>3. mgr' = [ Idle EXCEPT !.pc = FirstStep(cmd), !.cmd = cmd ]
  BY DEF StartRound
<1>4. FirstStep(cmd) \in MgrSteps
  BY DEF FirstStep, MgrSteps
<1> QED
  BY <1>1, <1>2, <1>3, <1>4 DEF Idle

\* A request to the packet logger is appended to those it still has to serve.
LEMMA RequestType ==
  ASSUME TypeInv, NEW op \in {"replay", "delete"}, NEW ids \in Lists, Request(op, ids)
  PROVE  logger' \in [ op : {"none", "replay", "delete"}, work : Lists,
                       requests : Seq([ op : {"replay", "delete"}, ids : Lists ]),
                       answers : Nat ]
<1>1. [ op |-> op, ids |-> ids ] \in [ op : {"replay", "delete"}, ids : Lists ]
  OBVIOUS
<1>2. Append(logger.requests, [ op |-> op, ids |-> ids ])
        \in Seq([ op : {"replay", "delete"}, ids : Lists ])
  BY <1>1, AppendProperties DEF TypeInv, TypeOK
<1> QED
  BY <1>2 DEF Request, TypeInv, TypeOK

\* The manager's steps.
LEMMA TypeManager ==
  ASSUME TypeInv, TsaCommand \/ Manager \/ StopWaiting \/ Reroute
  PROVE  TypeInv'
<1> DEFINE MgrType == [ pc : MgrSteps, cmd : AllCommands \union {"none"}, m : Lists,
                        fromMaster : Nat, fromSlave : Nat, packets : Lists,
                        progress : BOOLEAN ]
<1>0. <<>> \in Lists /\ mgr \in MgrType /\ masterLog \in Lists /\ slaveLog \in Lists
  BY EmptySeq DEF TypeInv, TypeOK, Lists
<1>a. ASSUME mgr' \in MgrType, UNCHANGED << boxes, data, logger, rounds, route >>
      PROVE  TypeInv'
  BY <1>a DEF TypeInv, TypeOK, boxes, data, traffic
<1>b. AfterReplay \in MgrType /\ Idle \in MgrType
  BY <1>0 DEF AfterReplay, Idle, MgrSteps
<1>1. CASE TsaCommand
  <2>1. PICK cmd \in Commands : StartRound(cmd)
    BY <1>1 DEF TsaCommand
  <2>2. cmd \in AllCommands
    BY CommandsAssumption
  <2>3. rounds' \in 0..MaxRounds /\ mgr' \in MgrType
    BY <2>1, <2>2, StartRoundType
  <2> QED
    BY <1>1, <2>3 DEF TsaCommand, TypeInv, TypeOK, boxes, data, traffic
<1>2. CASE ReplayFetchMaster
  <2>1. FirstVersions(masterLog) \in Lists
    BY <1>0, FirstVersionsType DEF Lists
  <2>2. mgr' \in MgrType
    BY <1>0, <1>2, <2>1 DEF ReplayFetchMaster, MgrSteps
  <2> QED
    BY <1>2, <1>a, <2>2 DEF ReplayFetchMaster
<1>3. CASE ReplayFetchSlave
  <2> DEFINE unprocessed == Unprocessed(mgr.m, FirstVersions(slaveLog))
  <2>1. unprocessed \in Lists
    BY <1>0, UnprocessedType DEF Lists
  <2>2. CASE unprocessed = <<>>
    BY <1>3, <1>a, <1>b, <2>2 DEF ReplayFetchSlave
  <2>3. CASE unprocessed # <<>>
    <3>1. Request("replay", unprocessed)
      BY <1>3, <2>3 DEF ReplayFetchSlave
    <3>2. logger' \in [ op : {"none", "replay", "delete"}, work : Lists,
                       requests : Seq([ op : {"replay", "delete"}, ids : Lists ]),
                       answers : Nat ]
      BY <2>1, <3>1, RequestType
    <3>3. mgr' = [ mgr EXCEPT !.pc = "replaying", !.m = <<>>, !.progress = TRUE ]
      BY <1>3, <2>3 DEF ReplayFetchSlave
    <3>4. mgr' \in MgrType
      BY <1>0, <3>3 DEF MgrSteps
    <3> QED
      BY <1>3, <3>2, <3>4 DEF ReplayFetchSlave, TypeInv, TypeOK, boxes, data, traffic
  <2> QED
    BY <2>2, <2>3
<1>4. ASSUME GoOn PROVE mgr' \in MgrType
  <2>1. CASE mgr.pc = "replaying"
    BY <1>4, <1>b, <2>1 DEF GoOn
  <2>2. CASE mgr.pc # "replaying"
    <3>1. mgr' = [ mgr EXCEPT !.pc = "end" ]
      BY <1>4, <2>2 DEF GoOn
    <3> QED
      BY <1>0, <3>1 DEF MgrSteps
  <2> QED
    BY <2>1, <2>2
<1>5. CASE ReceiveAnswer
  <2>1. logger' \in [ op : {"none", "replay", "delete"}, work : Lists,
                     requests : Seq([ op : {"replay", "delete"}, ids : Lists ]),
                     answers : Nat ]
    <3>1. logger.answers \in Nat /\ logger.answers > 0
      BY <1>5 DEF ReceiveAnswer, TypeInv, TypeOK
    <3>2. logger.answers - 1 \in Nat
      BY <3>1
    <3>3. logger' = [ logger EXCEPT !.answers = logger.answers - 1 ]
      BY <1>5 DEF ReceiveAnswer
    <3> QED
      BY <3>2, <3>3 DEF TypeInv, TypeOK
  <2>2. mgr' \in MgrType
    BY <1>5, <1>4 DEF ReceiveAnswer
  <2> QED
    BY <1>5, <2>1, <2>2 DEF ReceiveAnswer, TypeInv, TypeOK, boxes, data, traffic
<1>6. CASE StopWaiting
  BY <1>6, <1>4, <1>a DEF StopWaiting
<1>7. CASE ClearFetchMaster
  <2>1. mgr' \in MgrType
    BY <1>0, <1>7 DEF ClearFetchMaster, MgrSteps
  <2> QED
    BY <1>7, <1>a, <2>1 DEF ClearFetchMaster
<1>8. CASE ClearFetchSlave
  <2> DEFINE plan == ClearPlan(mgr.m, slaveLog)
  <2>1. plan.fromMaster \in Nat /\ plan.fromSlave \in Nat /\ plan.packets \in Lists
    BY <1>0, ClearPlanSpec DEF Lists
  <2>2. mgr' = [ mgr EXCEPT !.pc = "delete:master", !.packets = plan.packets,
                            !.fromMaster = plan.fromMaster, !.fromSlave = plan.fromSlave,
                            !.progress = @ \/ plan.packets # <<>> ]
    BY <1>8 DEF ClearFetchSlave
  <2> HIDE DEF plan
  <2>3. mgr' \in MgrType
    BY <1>0, <2>1, <2>2 DEF MgrSteps
  <2> QED
    BY <1>8, <1>a, <2>3 DEF ClearFetchSlave
<1>9. CASE DeleteFromMaster
  <2>1. DropFirst(masterLog, mgr.fromMaster) \in Lists
    BY <1>0, DropFirstSpec DEF Lists
  <2>2. mgr' \in MgrType
    BY <1>0, <1>9 DEF DeleteFromMaster, MgrSteps
  <2> QED
    BY <1>9, <2>1, <2>2 DEF DeleteFromMaster, TypeInv, TypeOK, boxes, traffic
<1>10. CASE DeleteFromSlave
  <2>1. DropFirst(slaveLog, mgr.fromSlave) \in Lists
    BY <1>0, DropFirstSpec DEF Lists
  <2>2. mgr' = [ mgr EXCEPT !.pc = IF mgr.packets # <<>> THEN "deleting" ELSE "end",
                            !.m = <<>>, !.packets = <<>> ]
    BY <1>10 DEF DeleteFromSlave
  <2>3. mgr' \in MgrType
    BY <1>0, <2>2 DEF MgrSteps
  <2>4. logger' \in [ op : {"none", "replay", "delete"}, work : Lists,
                     requests : Seq([ op : {"replay", "delete"}, ids : Lists ]),
                     answers : Nat ]
    BY <1>0, <1>10, RequestType DEF DeleteFromSlave, TypeInv, TypeOK
  <2> QED
    BY <1>10, <2>1, <2>3, <2>4 DEF DeleteFromSlave, TypeInv, TypeOK, boxes, traffic
<1>11. CASE RoundEnds
  <2>1. CASE mgr.cmd = "stopmaster" /\ mgr.progress
    <3>1. StartRound("stopmaster") /\ UNCHANGED << boxes, data, logger, route >>
      BY <1>11, <2>1 DEF RoundEnds
    <3>2. rounds' \in 0..MaxRounds /\ mgr' \in MgrType
      BY <3>1, StartRoundType DEF AllCommands
    <3> QED
      BY <3>1, <3>2 DEF TypeInv, TypeOK, boxes, data, traffic
  <2>2. CASE ~ (mgr.cmd = "stopmaster" /\ mgr.progress)
    <3>1. /\ mgr' = Idle
          /\ route' = IF mgr.cmd = "stopmaster" THEN "answered" ELSE route
          /\ UNCHANGED << boxes, data, logger, rounds >>
      BY <1>11, <2>2 DEF RoundEnds
    <3> QED
      BY <1>b, <3>1 DEF TypeInv, TypeOK, boxes, data, traffic
  <2> QED
    BY <2>1, <2>2
<1>12. CASE Reroute
  BY <1>12 DEF Reroute, TypeInv, TypeOK, boxes, data, traffic
<1> QED
  BY <1>1, <1>2, <1>3, <1>5, <1>6, <1>7, <1>8, <1>9, <1>10, <1>11, <1>12 DEF Manager

\* The packet logger's steps.
LEMMA TypeLogger ==
  ASSUME TypeInv, PacketLogger \/ ReplayRefused
  PROVE  TypeInv'
<1> DEFINE Requests == [ op : {"replay", "delete"}, ids : Lists ]
           LoggerType == [ op : {"none", "replay", "delete"}, work : Lists,
                           requests : Seq(Requests), answers : Nat ]
<1>0. logger \in LoggerType
  BY DEF TypeInv, TypeOK
<1>a. ASSUME logger' \in LoggerType, UNCHANGED << boxes, data, mgr, rounds, route >>
      PROVE  TypeInv'
  BY <1>a DEF TypeInv, TypeOK, boxes, data, traffic
<1>b. ASSUME logger.requests # <<>>
      PROVE  Head(logger.requests) \in Requests /\ Tail(logger.requests) \in Seq(Requests)
  <2>1. logger.requests \in Seq(Requests)
    BY <1>0
  <2> HIDE DEF Requests
  <2> QED
    BY <1>b, <2>1, HeadTailProperties
<1>c. ASSUME logger.work # <<>>
      PROVE  Head(logger.work) \in Ids /\ Tail(logger.work) \in Lists
  BY <1>0, <1>c, HeadTailProperties DEF Lists
<1>d. logger.answers + 1 \in Nat
  <2>1. logger.answers \in Nat
    BY <1>0
  <2> QED
    BY <2>1
<1>1. CASE TakeRequest
  <2>1. logger' = [ logger EXCEPT !.op = Head(logger.requests).op,
                                  !.work = Head(logger.requests).ids,
                                  !.requests = Tail(@) ]
    BY <1>1 DEF TakeRequest
  <2>2. /\ Head(logger.requests).op \in {"replay", "delete"}
        /\ Head(logger.requests).ids \in Lists
        /\ Tail(logger.requests) \in Seq(Requests)
    BY <1>1, <1>b DEF TakeRequest
  <2>3. logger' \in LoggerType
    BY <1>0, <2>1, <2>2
  <2> QED
    BY <1>1, <1>a, <2>3 DEF TakeRequest
<1>2. CASE ReplayRefused
  <2>1. logger' = [ logger EXCEPT !.requests = Tail(logger.requests),
                                  !.answers = logger.answers + 1 ]
    BY <1>2 DEF ReplayRefused
  <2>2. Tail(logger.requests) \in Seq(Requests)
    BY <1>2, <1>b DEF ReplayRefused
  <2>3. logger' \in LoggerType
    BY <1>0, <1>d, <2>1, <2>2
  <2> QED
    BY <1>2, <1>a, <2>3 DEF ReplayRefused
<1>3. CASE SendPacket
  <2> DEFINE id == Head(logger.work)
  <2>1. id \in Ids /\ logger' \in LoggerType
    BY <1>0, <1>3, <1>c DEF SendPacket
  <2>2. slaveIn' \in Seq(WireIds)
    <3>1. CASE StoredVersions(BaseOf(id)) = {}
      BY <1>3, <3>1 DEF SendPacket, TypeInv
    <3>2. CASE StoredVersions(BaseOf(id)) # {}
      <4>1. slaveIn' = Append(slaveIn, PacketOnWire(id))
        BY <1>3, <3>2 DEF SendPacket
      <4>2. PacketOnWire(id) \in WireIds
        BY <2>1, <3>2, PacketOnWireType DEF TypeInv
      <4> QED
        BY <4>1, <4>2, AppendProperties DEF TypeInv
    <3> QED
      BY <3>1, <3>2
  <2>3. slaveIn' \in Lists
    BY <2>2, WireIdsAreIds
  <2> HIDE DEF id
  <2> QED
    BY <1>3, <2>1, <2>2, <2>3 DEF SendPacket, TypeInv, TypeOK, boxes, traffic
<1>4. CASE DeletePacket
  <2>1. logger' \in LoggerType
    BY <1>0, <1>4, <1>c DEF DeletePacket
  <2>2. packets' \in [Bases -> SUBSET {1, 2}]
    BY <1>4 DEF DeletePacket, TypeInv, TypeOK
  <2>3. UNCHANGED << boxes, masterLog, slaveLog, slaveIn, mgr, rounds, route >>
    BY <1>4 DEF DeletePacket
  <2> QED
    BY <2>1, <2>2, <2>3 DEF TypeInv, TypeOK, boxes, traffic
<1>5. CASE SendAnswer
  <2>1. logger' = [ logger EXCEPT !.op = "none", !.answers = logger.answers + 1 ]
    BY <1>5 DEF SendAnswer
  <2>2. logger' \in LoggerType
    BY <1>0, <1>d, <2>1
  <2> QED
    BY <1>5, <1>a, <2>2 DEF SendAnswer
<1> QED
  BY <1>1, <1>2, <1>3, <1>4, <1>5 DEF PacketLogger

\* Type correctness: whatever the environment does, every list holds ids and no
\* id goes beyond version 3.
THEOREM TypeCorrect == Spec => []TypeOK
<1>1. Init => TypeInv
  BY TypeInit
<1>2. TypeInv /\ [Next]_vars => TypeInv'
  <2>1. ASSUME TypeInv, UNCHANGED vars PROVE TypeInv'
    BY <2>1 DEF vars, TypeInv, TypeOK
  <2>2. ASSUME TypeInv, Next PROVE TypeInv'
    BY <2>2, TypeMaster, TypeSlave, TypeManager, TypeLogger DEF Next
  <2> QED
    BY <2>1, <2>2
<1>3. TypeInv => TypeOK
  BY DEF TypeInv
<1> QED
  BY <1>1, <1>2, <1>3, PTL DEF Spec

-----------------------------------------------------------------------------
(* The packets stay available. *)

\* Every id whose packet is, or will be, deleted was recorded by the slave: the
\* plan of a clear comes from the slave's list, and a request keeps its ids
\* while it waits and while it is served.
DeletesReplayed ==
  /\ Elements(slaveLog) \subseteq replayed
  /\ Elements(mgr.packets) \subseteq replayed
  /\ \A i \in DOMAIN logger.requests :
       logger.requests[i].op = "delete" => Elements(logger.requests[i].ids) \subseteq replayed
  /\ logger.op = "delete" => Elements(logger.work) \subseteq replayed

\* A request that may wait is appended to those that do.
LEMMA RequestReplayed ==
  ASSUME TypeInv, DeletesReplayed, NEW op \in {"replay", "delete"}, NEW ids \in Lists,
         Request(op, ids), op = "delete" => Elements(ids) \subseteq replayed,
         UNCHANGED replayed
  PROVE  /\ \A i \in DOMAIN logger'.requests :
              logger'.requests[i].op = "delete" =>
                Elements(logger'.requests[i].ids) \subseteq replayed'
         /\ logger'.op = logger.op /\ logger'.work = logger.work
<1> DEFINE r == [ op |-> op, ids |-> ids ]
           Requests == [ op : {"replay", "delete"}, ids : Lists ]
<1>1. r \in Requests /\ r.op = op /\ r.ids = ids
  OBVIOUS
<1>2. logger.requests \in Seq(Requests) /\ logger' = [ logger EXCEPT !.requests = Append(@, r) ]
  BY DEF TypeInv, TypeOK, Request
<1>3. /\ logger'.requests = Append(logger.requests, r)
      /\ logger'.op = logger.op /\ logger'.work = logger.work
  BY <1>2 DEF TypeInv, TypeOK
<1> HIDE DEF r, Requests
<1>4. /\ Append(logger.requests, r) \in Seq(Requests)
      /\ Len(Append(logger.requests, r)) = Len(logger.requests) + 1
      /\ \A i \in 1..Len(logger.requests) : Append(logger.requests, r)[i] = logger.requests[i]
      /\ Append(logger.requests, r)[Len(logger.requests) + 1] = r
  BY <1>1, <1>2, AppendProperties
<1>5. /\ Len(logger.requests) \in Nat
      /\ DOMAIN logger.requests = 1..Len(logger.requests)
      /\ DOMAIN Append(logger.requests, r) = 1..(Len(logger.requests) + 1)
  BY <1>2, <1>4, LenProperties
<1>6. 1..(Len(logger.requests) + 1) =
        (1..Len(logger.requests)) \union {Len(logger.requests) + 1}
  BY <1>5
<1> QED
  BY <1>1, <1>3, <1>4, <1>5, <1>6 DEF DeletesReplayed

\* The slave never forgets what it recorded.
LEMMA ReplayedGrows ==
  ASSUME Next
  PROVE  replayed \subseteq replayed'
<1>1. CASE Encap \/ Master \/ MasterFails
  BY <1>1 DEF Encap, Master, MasterFails, MasterStore, MasterNewVersion, MasterStoreNext,
     slaveSide
<1>2. CASE Slave
  BY <1>2 DEF Slave, SlaveReceive, SlaveStore, SlaveGetPals, SlaveStoreNext, RecordForSlave
<1>3. CASE TsaCommand \/ Manager \/ StopWaiting \/ Reroute
  BY <1>3 DEF TsaCommand, Manager, StopWaiting, Reroute, ReplayFetchMaster,
     ReplayFetchSlave, ReceiveAnswer, ClearFetchMaster, ClearFetchSlave,
     DeleteFromMaster, DeleteFromSlave, RoundEnds, boxes
<1>4. CASE PacketLogger \/ ReplayRefused
  BY <1>4 DEF PacketLogger, ReplayRefused, TakeRequest, SendPacket, DeletePacket,
     SendAnswer, boxes
<1> QED
  BY <1>1, <1>2, <1>3, <1>4 DEF Next

\* The middleboxes' steps.
LEMMA DeletesReplayedBoxes ==
  ASSUME TypeInv, DeletesReplayed, Encap \/ Master \/ MasterFails \/ Slave
  PROVE  DeletesReplayed'
<1>a. ASSUME UNCHANGED << mgr, logger >>, replayed \subseteq replayed',
             Elements(slaveLog') \subseteq replayed'
      PROVE  DeletesReplayed'
  BY <1>a DEF DeletesReplayed
<1>1. CASE Encap \/ Master \/ MasterFails
  <2>1. UNCHANGED << mgr, logger, replayed, slaveLog >>
    BY <1>1 DEF Encap, Master, MasterFails, MasterStore, MasterNewVersion,
       MasterStoreNext, slaveSide, control
  <2> QED
    BY <2>1, <1>a DEF DeletesReplayed
<1>2. CASE SlaveReceive \/ SlaveGetPals
  <2>1. UNCHANGED << mgr, logger, replayed, slaveLog >>
    BY <1>2 DEF SlaveReceive, SlaveGetPals, control
  <2> QED
    BY <2>1, <1>a DEF DeletesReplayed
<1>3. ASSUME NEW id \in Ids, RecordForSlave(id)
      PROVE  replayed \subseteq replayed' /\ Elements(slaveLog') \subseteq replayed'
  BY <1>3, AppendElements DEF RecordForSlave, DeletesReplayed, TypeInv, TypeOK, Lists
<1>4. CASE SlaveStore
  BY <1>3, <1>4, <1>a DEF SlaveStore, control, TypeInv, TypeOK
<1>5. CASE SlaveStoreNext
  <2>1. NextVersion(slave.id) \in Ids
    BY WireIdsAreIds DEF TypeInv
  <2> QED
    BY <1>3, <1>5, <1>a, <2>1 DEF SlaveStoreNext, control
<1> QED
  BY <1>1, <1>2, <1>4, <1>5 DEF Slave

\* The manager's steps.
LEMMA DeletesReplayedManager ==
  ASSUME TypeInv, DeletesReplayed, TsaCommand \/ Manager \/ StopWaiting \/ Reroute
  PROVE  DeletesReplayed'
<1>a. ASSUME UNCHANGED << slaveLog, replayed >>, Elements(mgr'.packets) \subseteq replayed,
             /\ logger'.requests = logger.requests
             /\ logger'.op = logger.op /\ logger'.work = logger.work
      PROVE  DeletesReplayed'
  BY <1>a DEF DeletesReplayed
<1>b. Idle.packets = <<>> /\ AfterReplay.packets \in {<<>>, mgr.packets}
  BY DEF Idle, AfterReplay, TypeInv, TypeOK
<1>c. ASSUME GoOn PROVE mgr'.packets \in {<<>>, mgr.packets}
  <2>1. CASE mgr.pc = "replaying"
    BY <1>b, <1>c, <2>1 DEF GoOn
  <2>2. CASE mgr.pc # "replaying"
    BY <1>c, <2>2 DEF GoOn, TypeInv, TypeOK
  <2> QED
    BY <2>1, <2>2
<1>d. ASSUME NEW cmd, StartRound(cmd) PROVE mgr'.packets = <<>>
  BY <1>d DEF StartRound, Idle
<1>e. \A s \in {<<>>, mgr.packets} : Elements(s) \subseteq replayed
  BY EmptyElements DEF DeletesReplayed
<1>1. CASE TsaCommand \/ ReplayFetchMaster \/ ClearFetchMaster \/ Reroute \/ StopWaiting
             \/ DeleteFromMaster \/ RoundEnds
  <2>1. UNCHANGED << slaveLog, replayed, logger >>
    BY <1>1 DEF TsaCommand, ReplayFetchMaster, ClearFetchMaster, Reroute, StopWaiting,
       DeleteFromMaster, RoundEnds, boxes, data
  <2>2. mgr'.packets \in {<<>>, mgr.packets}
    <3>1. CASE TsaCommand
      BY <3>1, <1>d DEF TsaCommand
    <3>2. CASE ReplayFetchMaster \/ ClearFetchMaster \/ DeleteFromMaster \/ Reroute
      BY <3>2 DEF ReplayFetchMaster, ClearFetchMaster, DeleteFromMaster, Reroute,
         TypeInv, TypeOK
    <3>3. CASE StopWaiting
      BY <3>3, <1>c DEF StopWaiting
    <3>4. CASE RoundEnds
      BY <3>4, <1>b, <1>d DEF RoundEnds
    <3> QED
      BY <1>1, <3>1, <3>2, <3>3, <3>4
  <2> QED
    BY <2>1, <2>2, <1>a, <1>e
<1>2. CASE ReplayFetchSlave
  <2> DEFINE unprocessed == Unprocessed(mgr.m, FirstVersions(slaveLog))
  <2>1. unprocessed \in Lists
    BY UnprocessedType DEF Lists, TypeInv, TypeOK
  <2>2. UNCHANGED << slaveLog, replayed >>
    BY <1>2 DEF ReplayFetchSlave, boxes, data
  <2>3. CASE unprocessed = <<>>
    <3>1. mgr' = AfterReplay /\ UNCHANGED logger
      BY <1>2, <2>3 DEF ReplayFetchSlave
    <3> QED
      BY <3>1, <2>2, <1>a, <1>b, <1>e
  <2>4. CASE unprocessed # <<>>
    <3>1. /\ Request("replay", unprocessed)
          /\ mgr' = [ mgr EXCEPT !.pc = "replaying", !.m = <<>>, !.progress = TRUE ]
      BY <1>2, <2>4 DEF ReplayFetchSlave
    <3>2. mgr'.packets = mgr.packets
      BY <3>1 DEF TypeInv, TypeOK
    <3>3. /\ \A i \in DOMAIN logger'.requests :
                logger'.requests[i].op = "delete" =>
                  Elements(logger'.requests[i].ids) \subseteq replayed'
          /\ logger'.op = logger.op /\ logger'.work = logger.work
      BY <2>1, <2>2, <3>1, RequestReplayed
    <3> QED
      BY <2>2, <3>2, <3>3 DEF DeletesReplayed
  <2> QED
    BY <2>3, <2>4
<1>3. CASE ReceiveAnswer
  <2>1. UNCHANGED << slaveLog, replayed >> /\ GoOn
    BY <1>3 DEF ReceiveAnswer, boxes, data
  <2>2. /\ logger'.requests = logger.requests
        /\ logger'.op = logger.op /\ logger'.work = logger.work
    BY <1>3 DEF ReceiveAnswer, TypeInv, TypeOK
  <2> QED
    BY <2>1, <2>2, <1>a, <1>c, <1>e
<1>4. CASE ClearFetchSlave
  <2> DEFINE plan == ClearPlan(mgr.m, slaveLog)
  <2>1. Elements(plan.packets) \subseteq replayed
    BY ClearPlanSpec DEF DeletesReplayed, TypeInv, TypeOK, Lists
  <2>2. mgr'.packets = plan.packets /\ UNCHANGED << slaveLog, replayed, logger >>
    BY <1>4 DEF ClearFetchSlave, boxes, data, TypeInv, TypeOK
  <2> QED
    BY <2>1, <2>2, <1>a
<1>5. CASE DeleteFromSlave
  <2>1. mgr'.packets = <<>> /\ UNCHANGED replayed
    BY <1>5 DEF DeleteFromSlave, boxes, TypeInv, TypeOK
  <2>2. Elements(slaveLog') \subseteq replayed
    BY <1>5, DropFirstSpec DEF DeleteFromSlave, DeletesReplayed, TypeInv, TypeOK, Lists
  <2>3. /\ \A i \in DOMAIN logger'.requests :
              logger'.requests[i].op = "delete" =>
                Elements(logger'.requests[i].ids) \subseteq replayed'
        /\ logger'.op = logger.op /\ logger'.work = logger.work
    <3>1. CASE Request("delete", mgr.packets)
      BY <2>1, <3>1, RequestReplayed DEF DeletesReplayed, TypeInv, TypeOK
    <3>2. CASE UNCHANGED logger
      BY <2>1, <3>2 DEF DeletesReplayed
    <3> QED
      BY <1>5, <3>1, <3>2 DEF DeleteFromSlave
  <2> QED
    BY <2>1, <2>2, <2>3, EmptyElements DEF DeletesReplayed
<1> QED
  BY <1>1, <1>2, <1>3, <1>4, <1>5 DEF Manager

\* The packet logger's steps.
LEMMA DeletesReplayedLogger ==
  ASSUME TypeInv, DeletesReplayed, PacketLogger \/ ReplayRefused
  PROVE  DeletesReplayed'
<1> DEFINE Requests == [ op : {"replay", "delete"}, ids : Lists ]
<1>1. UNCHANGED << mgr, slaveLog, replayed >>
  BY DEF PacketLogger, ReplayRefused, TakeRequest, SendPacket, DeletePacket, SendAnswer,
     boxes, data
<1>2. logger.requests \in Seq(Requests) /\ logger.work \in Seq(Ids)
  BY DEF TypeInv, TypeOK, Lists
<1>3. ASSUME logger.requests # <<>>
      PROVE  /\ \A i \in DOMAIN Tail(logger.requests) :
                  Tail(logger.requests)[i].op = "delete" =>
                    Elements(Tail(logger.requests)[i].ids) \subseteq replayed
             /\ Head(logger.requests).op = "delete" =>
                  Elements(Head(logger.requests).ids) \subseteq replayed
  <2> HIDE DEF Requests
  <2>1. /\ Tail(logger.requests) \in Seq(Requests)
        /\ Len(Tail(logger.requests)) = Len(logger.requests) - 1
        /\ \A i \in 1..Len(Tail(logger.requests)) :
             Tail(logger.requests)[i] = logger.requests[i + 1]
    BY <1>2, <1>3, HeadTailProperties
  <2>2. /\ Len(logger.requests) \in Nat \ {0}
        /\ DOMAIN logger.requests = 1..Len(logger.requests)
        /\ DOMAIN Tail(logger.requests) = 1..(Len(logger.requests) - 1)
    BY <1>2, <1>3, <2>1, LenProperties, EmptySeq
  <2>3. /\ 1 \in DOMAIN logger.requests /\ Head(logger.requests) = logger.requests[1]
        /\ \A i \in 1..(Len(logger.requests) - 1) : i + 1 \in DOMAIN logger.requests
    BY <2>2
  <2> QED
    BY <2>1, <2>2, <2>3 DEF DeletesReplayed
<1>4. CASE TakeRequest
  <2>1. /\ logger'.requests = Tail(logger.requests)
        /\ logger'.op = Head(logger.requests).op
        /\ logger'.work = Head(logger.requests).ids
    BY <1>4 DEF TakeRequest, TypeInv, TypeOK
  <2>2. logger.requests # <<>>
    BY <1>4 DEF TakeRequest
  <2> QED
    BY <1>1, <1>3, <2>1, <2>2 DEF DeletesReplayed
<1>5. CASE ReplayRefused
  <2>1. /\ logger'.requests = Tail(logger.requests)
        /\ logger'.op = logger.op /\ logger'.work = logger.work
    BY <1>5 DEF ReplayRefused, TypeInv, TypeOK
  <2>2. logger.requests # <<>>
    BY <1>5 DEF ReplayRefused
  <2> QED
    BY <1>1, <1>3, <2>1, <2>2 DEF DeletesReplayed
<1>6. CASE SendPacket \/ DeletePacket
  <2>1. logger' = [ logger EXCEPT !.work = Tail(logger.work) ] /\ logger.work # <<>>
    BY <1>6 DEF SendPacket, DeletePacket
  <2>2. /\ logger'.requests = logger.requests /\ logger'.op = logger.op
        /\ logger'.work = Tail(logger.work)
    BY <2>1 DEF TypeInv, TypeOK
  <2>3. Elements(Tail(logger.work)) \subseteq Elements(logger.work)
    BY <1>2, <2>1, HeadTailElements
  <2> QED
    BY <1>1, <2>2, <2>3 DEF DeletesReplayed
<1>7. CASE SendAnswer
  <2>1. logger'.requests = logger.requests /\ logger'.op = "none"
    BY <1>7 DEF SendAnswer, TypeInv, TypeOK
  <2> QED
    BY <1>1, <2>1 DEF DeletesReplayed
<1> QED
  BY <1>4, <1>5, <1>6, <1>7 DEF PacketLogger

\* A step keeps the first version of every base the slave has not recorded.
LEMMA PacketAvailableStep ==
  ASSUME TypeInv, DeletesReplayed, PacketAvailable, Next
  PROVE  PacketAvailable'
<1> SUFFICES ASSUME NEW b \in 1..sent',
                    \A id \in replayed' : BaseOf(id) # b
             PROVE  1 \in packets'[b]
  BY DEF PacketAvailable
<1>0. \A id \in replayed : BaseOf(id) # b
  BY ReplayedGrows
<1>1. CASE Encap
  <2>1. /\ sent' = sent + 1 /\ sent + 1 \in Bases
        /\ packets' = [ packets EXCEPT ![sent + 1] = @ \union {1} ]
    BY <1>1, NumPacketsAssumption DEF Encap, Bases, TypeInv, TypeOK
  <2>2. CASE b = sent + 1
    BY <2>1, <2>2 DEF TypeInv, TypeOK
  <2>3. CASE b # sent + 1
    <3>1. b \in 1..sent /\ b \in Bases
      BY <2>1, <2>3, NumPacketsAssumption DEF Bases, TypeInv, TypeOK
    <3>2. 1 \in packets[b]
      BY <3>1, <1>0 DEF PacketAvailable
    <3> QED
      BY <2>1, <2>3, <3>1, <3>2 DEF TypeInv, TypeOK
  <2> QED
    BY <2>2, <2>3
<1>2. ASSUME UNCHANGED sent PROVE b \in Bases /\ 1 \in packets[b]
  <2>1. b \in 1..sent
    BY <1>2
  <2>2. b \in Bases
    BY <2>1, NumPacketsAssumption DEF Bases, TypeInv, TypeOK
  <2> QED
    BY <2>1, <2>2, <1>0 DEF PacketAvailable
<1>3. CASE MasterNewVersion
  <2>1. UNCHANGED sent /\ packets' = [ packets EXCEPT ![master.base] = @ \union {2} ]
    BY <1>3 DEF MasterNewVersion
  <2> QED
    BY <1>2, <2>1 DEF TypeInv, TypeOK
<1>4. CASE DeletePacket
  <2> DEFINE id == Head(logger.work)
  <2>1. logger.op = "delete" /\ logger.work # <<>> /\ UNCHANGED sent
    BY <1>4 DEF DeletePacket, boxes, traffic
  <2>2. id \in replayed
    BY <2>1, HeadTailElements DEF DeletesReplayed, TypeInv, TypeOK, Lists
  <2>3. BaseOf(id) # b
    BY <1>0, <2>2
  <2>4. packets' \in { packets, [ c \in Bases |-> IF c = BaseOf(id) THEN {} ELSE packets[c] ] }
    BY <1>4 DEF DeletePacket
  <2> HIDE DEF id
  <2> QED
    BY <1>2, <2>1, <2>3, <2>4
<1>5. CASE UNCHANGED << sent, packets >>
  BY <1>2, <1>5
<1>6. ASSUME ~ Encap, ~ MasterNewVersion, ~ DeletePacket
      PROVE  UNCHANGED << sent, packets >>
  <2>1. CASE Master \/ MasterFails
    BY <1>6, <2>1 DEF Master, MasterFails, MasterStore, MasterStoreNext
  <2>2. CASE Slave
    BY <2>2 DEF Slave, SlaveReceive, SlaveStore, SlaveGetPals, SlaveStoreNext, traffic
  <2>3. CASE TsaCommand \/ Manager \/ StopWaiting \/ Reroute
    BY <2>3 DEF TsaCommand, Manager, StopWaiting, Reroute, ReplayFetchMaster,
       ReplayFetchSlave, ReceiveAnswer, ClearFetchMaster, ClearFetchSlave,
       DeleteFromMaster, DeleteFromSlave, RoundEnds, boxes, data, traffic
  <2>4. CASE PacketLogger \/ ReplayRefused
    BY <1>6, <2>4 DEF PacketLogger, ReplayRefused, TakeRequest, SendPacket, SendAnswer,
       boxes, data, traffic
  <2> QED
    BY <1>6, <2>1, <2>2, <2>3, <2>4 DEF Next
<1> QED
  BY <1>1, <1>3, <1>4, <1>5, <1>6

SafeInv == TypeInv /\ DeletesReplayed /\ PacketAvailable

\* The invariant is inductive.
LEMMA SafeInvStep == SafeInv /\ [Next]_vars => SafeInv'
<1>1. ASSUME SafeInv, UNCHANGED vars PROVE SafeInv'
  BY <1>1 DEF SafeInv, vars, TypeInv, TypeOK, DeletesReplayed, PacketAvailable
<1>2. ASSUME SafeInv, Next PROVE SafeInv'
  <2>1. TypeInv'
    BY <1>2, TypeMaster, TypeSlave, TypeManager, TypeLogger DEF Next, SafeInv
  <2>2. DeletesReplayed'
    BY <1>2, DeletesReplayedBoxes, DeletesReplayedManager, DeletesReplayedLogger
    DEF Next, SafeInv
  <2>3. PacketAvailable'
    BY <1>2, PacketAvailableStep DEF SafeInv
  <2> QED
    BY <2>1, <2>2, <2>3 DEF SafeInv
<1> QED
  BY <1>1, <1>2

LEMMA SafeInvInit == Init => SafeInv
<1> SUFFICES ASSUME Init PROVE SafeInv
  OBVIOUS
<1>1. DeletesReplayed
  BY EmptyElements DEF Init, DeletesReplayed, Idle, IdleLogger
<1>2. PacketAvailable
  BY DEF Init, PacketAvailable
<1> QED
  BY <1>1, <1>2, TypeInit DEF SafeInv

\* A packet the slave has not started to replay can be rebuilt as the encap
\* element sent it, in every state and whatever fails.
THEOREM AlwaysAvailable == Spec => []PacketAvailable
<1>1. SafeInv => PacketAvailable
  BY DEF SafeInv
<1> QED
  BY <1>1, SafeInvInit, SafeInvStep, PTL DEF Spec

-----------------------------------------------------------------------------
(* The regular clear deletes only what was replayed. *)

\* The copy of the master's list that a clear works on stays a prefix of the
\* list, which only grows meanwhile, and in the regular case the slave recorded
\* as much of the copy as will be deleted.
ClearInv ==
  /\ mgr.pc \in {"clear:slave", "delete:master"} =>
       /\ Len(mgr.m) <= Len(masterLog)
       /\ \A i \in 1..Len(mgr.m) : mgr.m[i] = masterLog[i]
  /\ RegularClear =>
       /\ mgr.fromMaster <= Len(mgr.m)
       /\ \A i \in 1..mgr.fromMaster : mgr.m[i] \in replayed

\* Only a clear's own steps touch its copy of the list.
LEMMA ClearInvStep ==
  ASSUME TypeInv, DeletesReplayed, ClearInv, Next
  PROVE  ClearInv'
<1>0. replayed \subseteq replayed'
  BY ReplayedGrows
<1>a. ASSUME UNCHANGED << mgr, masterLog >> PROVE ClearInv'
  BY <1>0, <1>a DEF ClearInv, RegularClear
<1>b. ASSUME mgr'.pc \notin {"clear:slave", "delete:master"} PROVE ClearInv'
  BY <1>b DEF ClearInv, RegularClear
<1>c. ASSUME NEW id \in Ids, RecordForMaster(id), UNCHANGED mgr PROVE ClearInv'
  <2>1. masterLog \in Seq(Ids) /\ mgr.m \in Seq(Ids)
    BY DEF TypeInv, TypeOK, Lists
  <2>2. /\ masterLog' = Append(masterLog, id)
        /\ Len(masterLog') = Len(masterLog) + 1
        /\ \A i \in 1..Len(masterLog) : masterLog'[i] = masterLog[i]
    BY <1>c, <2>1, AppendProperties DEF RecordForMaster
  <2>3. Len(masterLog) \in Nat /\ Len(mgr.m) \in Nat
    BY <2>1, LenProperties
  <2>4. ASSUME Len(mgr.m) <= Len(masterLog), \A i \in 1..Len(mgr.m) : mgr.m[i] = masterLog[i]
        PROVE  /\ Len(mgr.m) <= Len(masterLog')
               /\ \A i \in 1..Len(mgr.m) : mgr.m[i] = masterLog'[i]
    BY <2>2, <2>3, <2>4
  <2> QED
    BY <1>0, <1>c, <2>4 DEF ClearInv, RegularClear
<1>1. CASE Encap \/ MasterNewVersion \/ MasterFails
  BY <1>1, <1>a DEF Encap, MasterNewVersion, MasterFails, control
<1>2. CASE MasterStore
  <2>1. <<master.base + 1, 1>> \in Ids
    <3>1. master.base + 1 \in Bases
      BY <1>2, NumPacketsAssumption DEF MasterStore, Bases, TypeInv, TypeOK
    <3> QED
      BY <3>1 DEF Ids
  <2> QED
    BY <1>2, <1>c, <2>1 DEF MasterStore, control
<1>3. CASE MasterStoreNext
  <2>1. <<master.base, 2>> \in Ids
    BY <1>3 DEF MasterStoreNext, Ids, TypeInv, TypeOK
  <2> QED
    BY <1>3, <1>c, <2>1 DEF MasterStoreNext, control
<1>4. CASE Slave
  BY <1>4, <1>a DEF Slave, SlaveReceive, SlaveStore, SlaveGetPals, SlaveStoreNext, traffic,
     control
<1>5. CASE PacketLogger \/ ReplayRefused \/ Reroute
  BY <1>5, <1>a DEF PacketLogger, ReplayRefused, Reroute, TakeRequest, SendPacket,
     DeletePacket, SendAnswer, boxes, data
<1>d. ASSUME NEW cmd, StartRound(cmd)
      PROVE  mgr'.pc \notin {"clear:slave", "delete:master"}
  BY <1>d DEF StartRound, Idle, FirstStep
<1>e. /\ Idle.pc \notin {"clear:slave", "delete:master"}
      /\ AfterReplay.pc \notin {"clear:slave", "delete:master"}
  BY DEF Idle, AfterReplay, TypeInv, TypeOK
<1>f. ASSUME GoOn PROVE mgr'.pc \notin {"clear:slave", "delete:master"}
  <2>1. CASE mgr.pc = "replaying"
    BY <1>e, <1>f, <2>1 DEF GoOn
  <2>2. CASE mgr.pc # "replaying"
    BY <1>f, <2>2 DEF GoOn, TypeInv, TypeOK
  <2> QED
    BY <2>1, <2>2
<1>6. CASE TsaCommand
  BY <1>6, <1>b, <1>d DEF TsaCommand
<1>7. CASE ReplayFetchMaster
  BY <1>7, <1>b DEF ReplayFetchMaster, TypeInv, TypeOK
<1>8. CASE ReplayFetchSlave
  <2>1. \/ mgr' = AfterReplay
        \/ mgr' = [ mgr EXCEPT !.pc = "replaying", !.m = <<>>, !.progress = TRUE ]
    BY <1>8 DEF ReplayFetchSlave
  <2>2. mgr'.pc \notin {"clear:slave", "delete:master"}
    BY <1>e, <2>1 DEF TypeInv, TypeOK
  <2> QED
    BY <1>b, <2>2
<1>9. CASE ReceiveAnswer \/ StopWaiting
  BY <1>9, <1>b, <1>f DEF ReceiveAnswer, StopWaiting
<1>10. CASE ClearFetchMaster
  <2>1. mgr'.pc = "clear:slave" /\ mgr'.m = masterLog /\ UNCHANGED masterLog
    BY <1>10 DEF ClearFetchMaster, data, TypeInv, TypeOK
  <2>2. Len(masterLog) \in Nat
    BY LenProperties DEF TypeInv, TypeOK, Lists
  <2>3. /\ Len(mgr'.m) <= Len(masterLog')
        /\ \A i \in 1..Len(mgr'.m) : mgr'.m[i] = masterLog'[i]
    <3>1. mgr'.m = masterLog /\ masterLog' = masterLog
      BY <2>1
    <3>2. Len(masterLog) <= Len(masterLog)
      BY <2>2
    <3> QED
      BY <3>1, <3>2, Zenon
  <2>4. ~ RegularClear'
    BY <2>1 DEF RegularClear
  <2> QED
    BY <2>3, <2>4 DEF ClearInv
<1>11. CASE ClearFetchSlave
  <2> DEFINE plan == ClearPlan(mgr.m, slaveLog)
  <2>1. /\ mgr'.m = mgr.m /\ mgr'.fromMaster = plan.fromMaster
        /\ mgr'.packets = plan.packets /\ UNCHANGED << masterLog, replayed >>
    BY <1>11 DEF ClearFetchSlave, boxes, data, TypeInv, TypeOK
  <2>2. mgr.m # <<>> /\ plan.packets # <<>> =>
          /\ plan.fromMaster <= Len(mgr.m)
          /\ \A i \in 1..plan.fromMaster : mgr.m[i] \in Elements(slaveLog)
    BY ClearPlanSpec DEF TypeInv, TypeOK, Lists
  <2>3. mgr.pc = "clear:slave"
    BY <1>11 DEF ClearFetchSlave
  <2> HIDE DEF plan
  <2> QED
    BY <2>1, <2>2, <2>3 DEF ClearInv, RegularClear, DeletesReplayed
<1>12. CASE DeleteFromMaster
  BY <1>12, <1>b DEF DeleteFromMaster, TypeInv, TypeOK
<1>13. CASE DeleteFromSlave
  <2>1. mgr'.pc \in {"deleting", "end"}
    BY <1>13 DEF DeleteFromSlave, TypeInv, TypeOK
  <2> QED
    BY <1>b, <2>1
<1>14. CASE RoundEnds
  BY <1>14, <1>b, <1>d, <1>e DEF RoundEnds
<1> QED
  BY <1>1, <1>2, <1>3, <1>4, <1>5, <1>6, <1>7, <1>8, <1>9, <1>10, <1>11, <1>12, <1>13, <1>14
  DEF Next, Master, Manager

\* What a step in the regular case takes from the master's list.
LEMMA RegularClearDeletes ==
  ASSUME TypeInv, ClearInv, Next, RegularClear
  PROVE  Elements(masterLog) \ Elements(masterLog') \subseteq replayed
<1>1. masterLog \in Seq(Ids) /\ mgr.fromMaster \in Nat
  BY DEF TypeInv, TypeOK, Lists
<1>2. CASE masterLog' = DropFirst(masterLog, mgr.fromMaster)
  <2>1. SUFFICES ASSUME NEW x \in Elements(masterLog) \ Elements(masterLog')
                 PROVE  x \in replayed
    OBVIOUS
  <2>2. PICK i \in 1..Len(masterLog) : i <= mgr.fromMaster /\ masterLog[i] = x
    <3> DEFINE n == mgr.fromMaster
               rest == DropFirst(masterLog, n)
    <3>1. x \in Elements(masterLog) /\ x \notin Elements(rest)
      BY <1>2, <2>1
    <3>2. n \in Nat
      BY <1>1
    <3> HIDE DEF n
    <3>3. \A y \in Elements(masterLog) :
            \/ y \in Elements(rest)
            \/ \E i \in 1..Len(masterLog) : i <= n /\ masterLog[i] = y
      BY <1>1, <3>2, DropFirstSpec
    <3> HIDE DEF rest
    <3> QED
      BY <3>1, <3>3 DEF n
  <2>3. Len(masterLog) \in Nat /\ Len(mgr.m) \in Nat
    BY LenProperties DEF TypeInv, TypeOK, Lists
  <2>4. /\ mgr.fromMaster <= Len(mgr.m)
        /\ \A j \in 1..Len(mgr.m) : mgr.m[j] = masterLog[j]
        /\ \A j \in 1..mgr.fromMaster : mgr.m[j] \in replayed
    BY DEF ClearInv, RegularClear
  <2>5. i \in 1..mgr.fromMaster /\ i \in 1..Len(mgr.m)
    BY <1>1, <2>2, <2>3, <2>4
  <2> QED
    BY <2>2, <2>4, <2>5
<1>3. CASE \E id \in Ids : RecordForMaster(id)
  <2>1. PICK id \in Ids : masterLog' = Append(masterLog, id)
    BY <1>3 DEF RecordForMaster
  <2> QED
    BY <1>1, <2>1, AppendElements
<1>4. CASE UNCHANGED masterLog
  BY <1>4
<1>5. \/ masterLog' = DropFirst(masterLog, mgr.fromMaster)
      \/ \E id \in Ids : RecordForMaster(id)
      \/ UNCHANGED masterLog
  <2>1. CASE Encap \/ MasterNewVersion \/ MasterFails
    BY <2>1 DEF Encap, MasterNewVersion, MasterFails
  <2>2. CASE MasterStore
    <3>1. master.base + 1 \in Bases
      BY <2>2, NumPacketsAssumption DEF MasterStore, Bases, TypeInv, TypeOK
    <3>2. <<master.base + 1, 1>> \in Ids
      BY <3>1 DEF Ids
    <3> QED
      BY <2>2, <3>2 DEF MasterStore
  <2>3. CASE MasterStoreNext
    <3>1. <<master.base, 2>> \in Ids
      BY <2>3 DEF MasterStoreNext, Ids, TypeInv, TypeOK
    <3> QED
      BY <2>3, <3>1 DEF MasterStoreNext
  <2>4. CASE Slave
    BY <2>4 DEF Slave, SlaveReceive, SlaveStore, SlaveGetPals, SlaveStoreNext
  <2>5. CASE PacketLogger \/ ReplayRefused
    BY <2>5 DEF PacketLogger, ReplayRefused, TakeRequest, SendPacket, DeletePacket,
       SendAnswer, data
  <2>6. CASE TsaCommand \/ Manager \/ StopWaiting \/ Reroute
    BY <2>6 DEF TsaCommand, Manager, StopWaiting, Reroute, ReplayFetchMaster,
       ReplayFetchSlave, ReceiveAnswer, ClearFetchMaster, ClearFetchSlave,
       DeleteFromMaster, DeleteFromSlave, RoundEnds, data
  <2> QED
    BY <2>1, <2>2, <2>3, <2>4, <2>5, <2>6 DEF Next, Master
<1> QED
  BY <1>2, <1>3, <1>4, <1>5

\* The regular clear never deletes by count what the slave has not recorded,
\* however much the master recorded since its list was read.
THEOREM RegularClearKeepsUnreplayed == Spec => ClearKeepsUnreplayed
<1> DEFINE Inv == SafeInv /\ ClearInv
           A == RegularClear => Elements(masterLog) \ Elements(masterLog') \subseteq replayed
<1>1. Init => Inv
  <2>1. Init => ClearInv
    BY DEF Init, ClearInv, RegularClear, Idle
  <2> QED
    BY <2>1, SafeInvInit
<1>2. Inv /\ [Next]_vars => Inv'
  <2>1. ASSUME Inv, UNCHANGED vars PROVE ClearInv'
    BY <2>1 DEF vars, ClearInv, RegularClear
  <2>2. ASSUME Inv, Next PROVE ClearInv'
    BY <2>2, ClearInvStep DEF SafeInv
  <2> QED
    BY <2>1, <2>2, SafeInvStep
<1>3. Inv /\ [Next]_vars => [A]_vars
  BY RegularClearDeletes DEF SafeInv
<1> QED
  BY <1>1, <1>2, <1>3, PTL DEF Spec, ClearKeepsUnreplayed

(***************************************************************************)
(* A failover with a slave that keeps up.  The master records first and    *)
(* second versions in one order, so a history is told by one number, and a *)
(* list by the place behind which it begins.  The invariant relates four   *)
(* such numbers: how far the master and the slave have recorded and how    *)
(* much each logger has deleted.                                           *)
(***************************************************************************)

\* The ids the master stores: a packet's own and the one of the determinants
\* that are recorded of it afterwards.
StoredIds == Bases \X {1, 2}

\* The place of an id in the order in which the master records.
Pos(id) == 2 * BaseOf(id) + VersionOf(id) - 2

\* The first n ids of that order.
UpTo(n) == { id \in StoredIds : Pos(id) <= n }

\* A list of consecutive ids, the first of them right behind place d.
Run(s, d) == \A i \in 1..Len(s) : s[i] \in StoredIds /\ Pos(s[i]) = d + i

\* First versions of consecutive packets, from packet b + 1 on: what the packet
\* logger resends.
Firsts(s, b) == \A i \in 1..Len(s) : s[i] = <<b + i, 1>>

\* What FirstVersions makes of a run that begins behind place d = 2 * h or
\* d = 2 * h + 1: in the second case its first id is a second version.
FirstsOfRun(m, d, h) ==
  \A k \in 1..Len(m) : m[k] = <<h + k, IF k = 1 /\ d = 2 * h + 1 THEN 2 ELSE 1>>

\* The parts of a stored id, and its place.
LEMMA StoredIdParts ==
  ASSUME NEW id \in StoredIds
  PROVE  /\ BaseOf(id) \in Bases /\ BaseOf(id) \in Nat /\ BaseOf(id) >= 1
         /\ VersionOf(id) \in {1, 2}
         /\ Pos(id) = 2 * BaseOf(id) + VersionOf(id) - 2
         /\ Pos(id) \in Nat
         /\ id = <<BaseOf(id), VersionOf(id)>>
         /\ id \in Ids
BY DEF StoredIds, Bases, BaseOf, VersionOf, Pos, Ids

\* The id made of a packet and a version.
LEMMA StoredIdIs ==
  ASSUME NEW b \in Bases, NEW v \in {1, 2}
  PROVE  <<b, v>> \in StoredIds /\ Pos(<<b, v>>) = 2 * b + v - 2 /\ <<b, v>> \in Ids
BY DEF StoredIds, Bases, BaseOf, VersionOf, Pos, Ids

\* The place determines the id.
LEMMA PosInjective ==
  ASSUME NEW x \in StoredIds, NEW y \in StoredIds, Pos(x) = Pos(y)
  PROVE  x = y
<1>1. BaseOf(x) = BaseOf(y) /\ VersionOf(x) = VersionOf(y)
  BY StoredIdParts
<1> QED
  BY <1>1, StoredIdParts

\* A run holds every id of its places.
LEMMA RunHolds ==
  ASSUME NEW s \in Seq(Ids), NEW d \in Nat, Run(s, d), NEW id \in StoredIds,
         d < Pos(id), Pos(id) <= d + Len(s)
  PROVE  id \in Elements(s)
<1>1. Len(s) \in Nat /\ DOMAIN s = 1..Len(s) /\ Pos(id) \in Nat
  BY LenProperties, StoredIdParts
<1> DEFINE i == Pos(id) - d
<1>2. i \in 1..Len(s) /\ d + i = Pos(id)
  BY <1>1
<1> HIDE DEF i
<1>3. s[i] \in StoredIds /\ Pos(s[i]) = Pos(id)
  BY <1>2 DEF Run
<1>4. s[i] = id
  BY <1>3, PosInjective
<1> QED
  BY <1>1, <1>2, <1>4 DEF Elements

\* A run grows by the id of the next place.
LEMMA RunAppend ==
  ASSUME NEW s \in Seq(Ids), NEW d \in Nat, Run(s, d), NEW id \in StoredIds,
         Pos(id) = d + Len(s) + 1
  PROVE  Run(Append(s, id), d) /\ Len(Append(s, id)) = Len(s) + 1
<1>1. id \in Ids
  BY StoredIdParts
<1>2. /\ Len(Append(s, id)) = Len(s) + 1 /\ Len(s) \in Nat
      /\ \A i \in 1..Len(s) : Append(s, id)[i] = s[i]
      /\ Append(s, id)[Len(s) + 1] = id
  BY <1>1, AppendProperties, LenProperties
<1>3. ASSUME NEW i \in 1..(Len(s) + 1)
      PROVE  Append(s, id)[i] \in StoredIds /\ Pos(Append(s, id)[i]) = d + i
  <2>1. CASE i \in 1..Len(s)
    BY <1>2, <2>1 DEF Run
  <2>2. CASE i = Len(s) + 1
    BY <1>2, <2>2
  <2> QED
    BY <1>2, <2>1, <2>2
<1> QED
  BY <1>2, <1>3 DEF Run

\* A run without its first ids is a run that begins later.
LEMMA RunDrop ==
  ASSUME NEW s \in Seq(Ids), NEW d \in Nat, Run(s, d), NEW n \in Nat, NEW a \in Nat,
         IF n <= Len(s) THEN a = n ELSE a = Len(s)
  PROVE  /\ Len(DropFirst(s, n)) = Len(s) - a
         /\ Run(DropFirst(s, n), d + a)
<1>a. Len(s) \in Nat /\ a <= Len(s)
  BY LenProperties
<1>b. Len(DropFirst(s, n)) = Len(s) - a
  BY ZenonT(30), DropFirstIs
<1>c. \A i \in 1..(Len(s) - a) : DropFirst(s, n)[i] = s[a + i]
  BY DropFirstIs
<1>2. ASSUME NEW i \in 1..(Len(s) - a)
      PROVE  s[a + i] \in StoredIds /\ Pos(s[a + i]) = (d + a) + i
  <2>1. a + i \in 1..Len(s) /\ d + (a + i) = (d + a) + i
    BY <1>a
  <2> QED
    BY <2>1 DEF Run
<1> QED
  BY <1>a, <1>b, <1>c, <1>2 DEF Run

\* A number is twice another, or one more.
LEMMA Half ==
  ASSUME NEW d \in Nat
  PROVE  \E h \in Nat : d = 2 * h \/ d = 2 * h + 1
<1> DEFINE T == { h \in Nat : d <= 2 * h + 1 }
<1>1. d \in T
  OBVIOUS
<1>2. PICK h \in T : \A k \in T : h <= k
  BY <1>1, LeastMember
<1>3. h # 0 => h - 1 \notin T
  BY <1>2
<1> QED
  BY <1>2, <1>3

\* Of a run the first versions are answered, and its first id.
LEMMA FirstVersionsOfRun ==
  ASSUME NEW s \in Seq(Ids), NEW d \in Nat, Run(s, d)
  PROVE  \E h \in Nat :
           /\ d = 2 * h \/ d = 2 * h + 1
           /\ FirstsOfRun(FirstVersions(s), d, h)
           /\ s = <<>> => Len(FirstVersions(s)) = 0
           /\ s # <<>> => /\ Len(FirstVersions(s)) > 0
                          /\ 2 * (h + Len(FirstVersions(s))) - 1 <= d + Len(s)
                          /\ d + Len(s) <= 2 * (h + Len(FirstVersions(s)))
<1> DEFINE n == Len(s)
           I == { i \in DOMAIN s : \A j \in 1..(i - 1) : BaseOf(s[j]) # BaseOf(s[i]) }
           b(i) == BaseOf(s[i])
           v(i) == VersionOf(s[i])
<1>0. n \in Nat /\ DOMAIN s = 1..n
  BY LenProperties
<1>1. PICK h \in Nat : d = 2 * h \/ d = 2 * h + 1
  BY Half
<1>2. \A i \in 1..n : /\ b(i) \in Nat /\ v(i) \in {1, 2} /\ 2 * b(i) + v(i) - 2 = d + i
                      /\ s[i] = <<b(i), v(i)>>
  BY StoredIdParts DEF Run
<1> DEFINE l == IF n = 0 THEN 0 ELSE b(n) - h
<1>a. FirstVersions(s) = Keep(s, I) /\ I \in SUBSET (1..n)
  BY <1>0 DEF FirstVersions
<1>3. \A i \in 1..n : i \in I <=> i = 1 \/ v(i) = 1
  <2> HIDE DEF b, v
  <2>1. TAKE i \in 1..n
  <2>2. i \in I <=> \A j \in 1..(i - 1) : b(j) # b(i)
    BY <1>0 DEF b
  <2>3. CASE i = 1
    <3>1. \A j \in 1..(i - 1) : FALSE
      BY <2>3
    <3> QED
      BY <2>2, <2>3, <3>1
  <2>4. CASE v(i) = 1
    <3>1. ASSUME NEW j \in 1..(i - 1) PROVE b(j) # b(i)
      <4>1. j \in 1..n /\ j < i
        BY <1>0
      <4>2. b(i) \in Nat /\ v(i) \in {1, 2} /\ 2 * b(i) + v(i) - 2 = d + i
        BY <1>2
      <4>3. b(j) \in Nat /\ v(j) \in {1, 2} /\ 2 * b(j) + v(j) - 2 = d + j
        BY <1>2, <4>1
      <4> QED
        BY <1>0, <2>4, <4>1, <4>2, <4>3
    <3> QED
      BY <2>2, <2>4, <3>1
  <2>5. CASE i # 1 /\ v(i) # 1
    <3>1. i - 1 \in 1..n /\ i - 1 \in 1..(i - 1)
      BY <1>0, <2>5
    <3>2. b(i - 1) = b(i)
      <4>1. PICK j \in 1..n : j = i - 1
        BY <3>1
      <4>2. b(i) \in Nat /\ v(i) \in {1, 2} /\ 2 * b(i) + v(i) - 2 = d + i
        BY <1>2
      <4>3. b(j) \in Nat /\ v(j) \in {1, 2} /\ 2 * b(j) + v(j) - 2 = d + j
        BY <1>2
      <4>4. b(j) = b(i)
        BY <1>0, <2>5, <4>1, <4>2, <4>3
      <4> QED
        BY <4>1, <4>4
    <3> QED
      BY <2>2, <2>5, <3>1, <3>2
  <2> QED
    BY <2>3, <2>4, <2>5
<1> HIDE DEF b, v, n, I
<1>4. /\ l \in Nat
      /\ n # 0 => l >= 1 /\ 2 * (h + l) - 1 <= d + n /\ d + n <= 2 * (h + l)
  <2>1. CASE n = 0
    BY <2>1
  <2>2. CASE n # 0
    <3>1. n \in 1..n
      BY <1>0, <2>2
    <3>2. b(n) \in Nat /\ v(n) \in {1, 2} /\ 2 * b(n) + v(n) - 2 = d + n
      BY <1>2, <3>1
    <3>3. l = b(n) - h
      BY <2>2
    <3> HIDE DEF l
    <3> QED
      BY <1>0, <1>1, <2>2, <3>2, <3>3
  <2> QED
    BY <2>1, <2>2
<1> HIDE DEF l
<1>b. n = 0 => l = 0
  BY DEF l
<1> DEFINE f == [ k \in 1..l |-> IF k = 1 THEN 1 ELSE 2 * (h + k) - 1 - d ]
<1>5. ASSUME NEW k \in 1..l
      PROVE  /\ f[k] \in I /\ f[k] \in Nat
             /\ b(f[k]) = h + k
             /\ v(f[k]) = IF k = 1 /\ d = 2 * h + 1 THEN 2 ELSE 1
             /\ k # 1 => f[k] = 2 * (h + k) - 1 - d
             /\ k = 1 => f[k] = 1
  <2>1. n # 0 /\ n \in Nat /\ h \in Nat /\ l \in Nat
    BY <1>0, <1>4, <1>b
  <2>2. f[k] \in 1..n
    BY <1>1, <1>4, <2>1
  <2>3. k # 1 => f[k] = 2 * (h + k) - 1 - d
    OBVIOUS
  <2>4. k = 1 => f[k] = 1
    OBVIOUS
  <2>5. b(f[k]) \in Nat /\ v(f[k]) \in {1, 2} /\ 2 * b(f[k]) + v(f[k]) - 2 = d + f[k]
    BY <1>2, <2>2
  <2> HIDE DEF f
  <2>6. /\ b(f[k]) = h + k
        /\ v(f[k]) = IF k = 1 /\ d = 2 * h + 1 THEN 2 ELSE 1
    BY <1>1, <2>1, <2>3, <2>4, <2>5
  <2>7. f[k] \in I
    BY <1>3, <2>2, <2>4, <2>6
  <2> QED
    BY <2>2, <2>3, <2>4, <2>6, <2>7
<1>6. f \in [1..l -> I]
  BY <1>5
<1>7. ASSUME NEW i \in I PROVE \E k \in 1..l : f[k] = i
  <2>1. i \in 1..n /\ (i = 1 \/ v(i) = 1)
    BY <1>3, <1>a
  <2>2. n \in 1..n /\ n # 0 /\ l = b(n) - h
    BY <1>0, <2>1 DEF l
  <2>3. b(i) \in Nat /\ 2 * b(i) + v(i) - 2 = d + i /\ v(i) \in {1, 2}
    BY <1>2, <2>1
  <2>4. b(n) \in Nat /\ 2 * b(n) + v(n) - 2 = d + n /\ v(n) \in {1, 2}
    BY <1>2, <2>2
  <2> DEFINE k == b(i) - h
  <2>5. k \in 1..l
    BY SMTT(30), <1>0, <1>1, <2>1, <2>2, <2>3, <2>4
  <2>6. IF k = 1 THEN i = 1 ELSE i = 2 * (h + k) - 1 - d
    <3> HIDE DEF b, v
    <3>1. CASE v(i) = 1
      BY SMTT(30), <1>0, <1>1, <2>1, <2>3, <3>1
    <3>2. CASE v(i) = 2 /\ i = 1
      BY <1>0, <1>1, <2>1, <2>3, <3>2
    <3> QED
      BY <2>1, <2>3, <3>1, <3>2
  <2> HIDE DEF k
  <2>7. f[k] = i
    BY <2>5, <2>6
  <2> QED
    BY <2>5, <2>7
<1> HIDE DEF f
<1>8. ASSUME NEW j \in 1..l, NEW k \in 1..l, j < k PROVE f[j] < f[k]
  <2>1. k # 1 /\ f[k] = 2 * (h + k) - 1 - d /\ k \in Nat /\ j \in Nat /\ j >= 1
    BY <1>5, <1>8
  <2>2. j = 1 => f[j] = 1
    BY <1>5
  <2>3. j # 1 => f[j] = 2 * (h + j) - 1 - d
    BY <1>5
  <2> QED
    BY <1>1, <1>8, <2>1, <2>2, <2>3
<1>9. /\ DOMAIN Keep(s, I) = 1..l
      /\ \A k \in 1..l : Keep(s, I)[k] = s[f[k]]
  <2>1. I \in SUBSET Nat
    BY <1>0, <1>a
  <2>2. \A j, k \in 1..l : j < k => f[j] < f[k]
    BY <1>8
  <2>3. \A i \in I : \E k \in 1..l : f[k] = i
    BY <1>7
  <2> QED
    BY <1>4, <1>6, <2>1, <2>2, <2>3, KeepIs
<1>10. Len(Keep(s, I)) = l
  <2>1. Keep(s, I) \in Seq(Ids)
    BY <1>0, <1>a, KeepSpec
  <2>2. DOMAIN Keep(s, I) = 1..Len(Keep(s, I)) /\ Len(Keep(s, I)) \in Nat
    BY <2>1, LenProperties
  <2> QED
    BY <1>4, <1>9, <2>2
<1>11. FirstsOfRun(Keep(s, I), d, h)
  <2>1. ASSUME NEW k \in 1..l
        PROVE  Keep(s, I)[k] = <<h + k, IF k = 1 /\ d = 2 * h + 1 THEN 2 ELSE 1>>
    <3>1. f[k] \in 1..n
      BY <1>5, <1>a
    <3>2. s[f[k]] = <<b(f[k]), v(f[k])>>
      BY <1>2, <3>1
    <3>3. /\ b(f[k]) = h + k
          /\ v(f[k]) = IF k = 1 /\ d = 2 * h + 1 THEN 2 ELSE 1
      BY <1>5
    <3>4. Keep(s, I)[k] = s[f[k]]
      BY <1>9
    <3> QED
      BY <3>2, <3>3, <3>4
  <2> QED
    BY <1>10, <2>1 DEF FirstsOfRun
<1>12. s = <<>> <=> n = 0
  BY EmptySeq DEF n
<1>13. FirstVersions(s) = Keep(s, I) /\ Len(FirstVersions(s)) = l
  BY <1>a, <1>10
<1>14. (n = 0 => l = 0) /\ (n # 0 => l > 0)
  BY <1>4, <1>b
<1> QED
  BY <1>1, <1>4, <1>11, <1>12, <1>13, <1>14 DEF n

\* The master has recorded the first n ids; its list holds the last of them.
\* Between the two versions of a packet it is at an odd place.
MasterInv(n) ==
  /\ recorded = UpTo(n)
  /\ Len(masterLog) <= n /\ Run(masterLog, n - Len(masterLog))
  /\ master.pc = "receive" => n = 2 * master.base
  /\ master.pc \in {"version", "storeNext"} => n = 2 * master.base - 1
  /\ master.pc = "down" => n = 2 * master.base \/ n = 2 * master.base - 1
  /\ master.base <= sent


\* How far the slave has recorded when r packets have gone through it.
SlaveAt(r) == IF slave.pc \in {"getPals", "storeNext"} THEN 2 * r + 1 ELSE 2 * r

\* The slave has recorded those ids, its list holds the last of them, and the
\* packet it works on is the next, whose determinants it found.
SlaveInv(r) ==
  /\ replayed = UpTo(SlaveAt(r))
  /\ Len(slaveLog) <= SlaveAt(r) /\ Run(slaveLog, SlaveAt(r) - Len(slaveLog))
  /\ slave.pc # "receive" => slave.id = <<r + 1, 1>>
  /\ slave.pc = "store" => slave.pals = TRUE


\* The packets the slave has taken, and with those on the wire.
Taken(r) == IF slave.pc = "receive" THEN r ELSE r + 1
OnTheWay(r) == Taken(r) + Len(slaveIn)

\* On the wire, in the logger's hands and in a waiting request are the packets
\* that follow those the slave took, in order, none twice, and none of them
\* beyond what the master recorded.  A request to replay waits only while
\* nothing else is on its way.
PipeInv(n, r) ==
  /\ Firsts(slaveIn, Taken(r))
  /\ slave.pc # "receive" \/ slaveIn # <<>> => 2 * OnTheWay(r) - 1 <= n
  /\ logger.op = "replay" =>
       /\ Firsts(logger.work, OnTheWay(r))
       /\ logger.work # <<>> => 2 * (OnTheWay(r) + Len(logger.work)) - 1 <= n
  /\ \A i \in DOMAIN logger.requests : logger.requests[i].op = "replay" =>
       /\ i = 1 /\ slave.pc = "receive" /\ slaveIn = <<>> /\ logger.op = "none"
       /\ Firsts(logger.requests[i].ids, r)
       /\ logger.requests[i].ids # <<>>
       /\ 2 * (r + Len(logger.requests[i].ids)) - 1 <= n


\* How many ids the master's logger has deleted.
FromMaster(n) == n - Len(masterLog)

\* What the manager has deleted at the master and not yet at the slave.
Promised == IF mgr.pc = "delete:slave" THEN mgr.fromSlave ELSE 0

\* How many ids the slave's logger has deleted or is about to.
FromSlave(r) == SlaveAt(r) - Len(slaveLog) + Promised

\* Both lists begin at the same place: a clear deletes as much of one as of the
\* other, or all the master's.  Only a clear after a failure deletes.
Evenly(n, r) ==
  /\ FromSlave(r) <= SlaveAt(r)
  /\ FromMaster(n) = IF FromSlave(r) <= n THEN FromSlave(r) ELSE n
  /\ master.pc # "down" => FromSlave(r) = 0 /\ FromMaster(n) = 0


\* The steps of a clear.
Clearing ==
  mgr.pc \in {"clear:master", "clear:slave", "delete:master", "delete:slave",
              "deleting", "end"}

\* What the manager's local copies and answers still say of the lists, after the
\* steps others took since it fetched them.
MgrInv(n, r) ==
  /\ mgr.pc # "idle" => mgr.cmd \in {"replay", "stopmaster"}
  /\ mgr.pc # "idle" /\ mgr.cmd = "stopmaster" => master.pc = "down"
  /\ Clearing => mgr.cmd = "stopmaster"
  /\ mgr.pc \in {"replay:master", "replay:slave"} => SlaveCaughtUp
  /\ mgr.pc = "replay:slave" =>
       \E h \in Nat :
         /\ FromMaster(n) = 2 * h \/ FromMaster(n) = 2 * h + 1
         /\ FirstsOfRun(mgr.m, FromMaster(n), h)
         /\ mgr.m # <<>> => masterLog # <<>> /\ 2 * (h + Len(mgr.m)) - 1 <= n
         /\ mgr.cmd = "stopmaster" =>
              IF mgr.m = <<>> THEN masterLog = <<>> ELSE n <= 2 * (h + Len(mgr.m))
  /\ mgr.pc = "replaying" => mgr.progress = TRUE
  /\ mgr.pc = "clear:slave" => mgr.m = masterLog
  /\ mgr.pc = "delete:master" => mgr.fromMaster = mgr.fromSlave /\ mgr.fromSlave <= Len(slaveLog)
  /\ Clearing /\ mgr.progress = FALSE => n <= SlaveAt(r)
  /\ route # "master" => master.pc = "down" /\ mgr.pc = "idle" /\ n <= SlaveAt(r)


\* The invariant, for the two numbers that exist in every state.
FailoverAt(n, r) ==
  /\ MasterInv(n) /\ SlaveInv(r) /\ PipeInv(n, r) /\ Evenly(n, r) /\ MgrInv(n, r)
FailoverInv == \E n \in 0..(2 * NumPackets), r \in 0..NumPackets : FailoverAt(n, r)


\* The assumptions: a replay is commanded only once the slave has worked off the
\* one before, a manager that sees its logger fail stops, and the commands
\* are those of a failover.
PacedFailover ==
  SlaveKeepsUp /\ StopOnFailure /\ Commands \subseteq {"replay", "stopmaster"}

\* The numbers of the invariant are numbers.
LEMMA FailoverTypes ==
  ASSUME TypeInv, NEW n \in Nat, NEW r \in Nat
  PROVE  /\ masterLog \in Seq(Ids) /\ Len(masterLog) \in Nat
         /\ slaveLog \in Seq(Ids) /\ Len(slaveLog) \in Nat
         /\ slaveIn \in Seq(Ids) /\ Len(slaveIn) \in Nat
         /\ SlaveAt(r) \in Nat /\ Taken(r) \in Nat /\ OnTheWay(r) \in Nat
         /\ Promised \in Nat /\ FromMaster(n) \in Int /\ FromSlave(r) \in Int
         /\ sent \in 0..NumPackets /\ master.base \in 0..NumPackets
<1>1. masterLog \in Seq(Ids) /\ slaveLog \in Seq(Ids) /\ slaveIn \in Seq(Ids)
  BY DEF TypeInv, TypeOK, Lists
<1>2. Len(masterLog) \in Nat /\ Len(slaveLog) \in Nat /\ Len(slaveIn) \in Nat
  BY <1>1, LenProperties
<1>3. SlaveAt(r) \in Nat /\ Taken(r) \in Nat
  BY DEF SlaveAt, Taken
<1>4. OnTheWay(r) \in Nat
  BY <1>2, <1>3 DEF OnTheWay
<1>5. Promised \in Nat
  BY DEF Promised, TypeInv, TypeOK
<1>6. FromMaster(n) \in Int /\ FromSlave(r) \in Int
  BY <1>2, <1>3, <1>5 DEF FromMaster, FromSlave
<1> QED
  BY <1>1, <1>2, <1>3, <1>4, <1>5, <1>6 DEF TypeInv, TypeOK

\* A waiting request is a request for a list of ids.
LEMMA RequestIds ==
  ASSUME TypeInv, NEW i \in DOMAIN logger.requests
  PROVE  /\ logger.requests[i].ids \in Seq(Ids) /\ Len(logger.requests[i].ids) \in Nat
         /\ logger.requests[i].op \in {"replay", "delete"}
<1> DEFINE Requests == [ op : {"replay", "delete"}, ids : Lists ]
<1>1. logger.requests \in Seq(Requests)
  BY DEF TypeInv, TypeOK
<1> HIDE DEF Requests
<1>2. logger.requests[i] \in Requests
  BY <1>1, LenProperties, ElementOfSeq
<1>3. logger.requests[i].ids \in Seq(Ids) /\ logger.requests[i].op \in {"replay", "delete"}
  BY <1>2 DEF Requests, Lists
<1> QED
  BY <1>3, LenProperties

\* It holds when nothing has been sent.
LEMMA FailoverInit == Init => FailoverInv
<1> SUFFICES ASSUME Init PROVE FailoverInv
  OBVIOUS
<1>0. 0 \in 0..(2 * NumPackets) /\ 0 \in 0..NumPackets
  BY NumPacketsAssumption
<1>1. UpTo(0) = {}
  BY StoredIdParts DEF UpTo
<1>2. Len(<<>>) = 0
  BY EmptySeq
<1>3. /\ recorded = {} /\ replayed = {} /\ masterLog = <<>> /\ slaveLog = <<>> /\ slaveIn = <<>>
      /\ master.pc = "receive" /\ master.base = 0 /\ sent = 0 /\ slave.pc = "receive"
      /\ mgr.pc = "idle" /\ logger.op = "none" /\ logger.requests = <<>> /\ route = "master"
  BY DEF Init, Idle, IdleLogger
<1>4. MasterInv(0)
  BY <1>1, <1>2, <1>3 DEF MasterInv, Run
<1>5. SlaveInv(0)
  BY <1>1, <1>2, <1>3 DEF SlaveInv, SlaveAt, Run
<1>6. PipeInv(0, 0)
  BY <1>2, <1>3 DEF PipeInv, Firsts
<1>7. Evenly(0, 0)
  <2>1. SlaveAt(0) = 0 /\ Promised = 0
    BY <1>3 DEF SlaveAt, Promised
  <2>2. FromSlave(0) = 0 /\ FromMaster(0) = 0
    <3>a. Len(masterLog) = 0 /\ Len(slaveLog) = 0
      BY <1>2, <1>3, Zenon
    <3>1. 0 - Len(masterLog) = 0 /\ SlaveAt(0) - Len(slaveLog) + Promised = 0
      BY <3>a, <2>1
    <3> QED
      BY <3>1 DEF FromMaster, FromSlave
  <2> QED
    BY <2>1, <2>2 DEF Evenly
<1>8. MgrInv(0, 0)
  BY <1>3 DEF MgrInv, Clearing
<1> QED
  BY <1>0, <1>4, <1>5, <1>6, <1>7, <1>8 DEF FailoverInv, FailoverAt

\* What a step of someone else leaves true of the manager.
LEMMA MgrKept ==
  ASSUME TypeInv, NEW n \in Nat, NEW k \in Nat, NEW r \in Nat, NEW q \in Nat,
         MgrInv(n, r), UNCHANGED << mgr, route >>,
         n <= k, FromMaster(k)' = FromMaster(n), masterLog # <<>> => masterLog' # <<>>,
         master.pc = "down" => master'.pc = "down" /\ k = n /\ masterLog' = masterLog,
         mgr.pc \in {"replay:master", "replay:slave"} =>
           slave' = slave /\ slaveIn' = slaveIn /\ logger' = logger,
         mgr.pc = "clear:slave" => masterLog' = masterLog,
         Len(slaveLog) \in Nat, Len(slaveLog') \in Nat, Len(slaveLog) <= Len(slaveLog'),
         SlaveAt(r) \in Nat, SlaveAt(q)' \in Nat, SlaveAt(r) <= SlaveAt(q)'
  PROVE  MgrInv(k, q)'
<1>1. ASSUME mgr.pc = "replay:slave"
      PROVE  \E h \in Nat :
         /\ FromMaster(k)' = 2 * h \/ FromMaster(k)' = 2 * h + 1
         /\ FirstsOfRun(mgr.m, FromMaster(k)', h)
         /\ mgr.m # <<>> => masterLog' # <<>> /\ 2 * (h + Len(mgr.m)) - 1 <= k
         /\ mgr.cmd = "stopmaster" =>
              IF mgr.m = <<>> THEN masterLog' = <<>> ELSE k <= 2 * (h + Len(mgr.m))
  <2>1. PICK h \in Nat :
         /\ FromMaster(n) = 2 * h \/ FromMaster(n) = 2 * h + 1
         /\ FirstsOfRun(mgr.m, FromMaster(n), h)
         /\ mgr.m # <<>> => masterLog # <<>> /\ 2 * (h + Len(mgr.m)) - 1 <= n
         /\ mgr.cmd = "stopmaster" =>
              IF mgr.m = <<>> THEN masterLog = <<>> ELSE n <= 2 * (h + Len(mgr.m))
    BY <1>1 DEF MgrInv
  <2>2. mgr.cmd = "stopmaster" => master.pc = "down"
    BY <1>1 DEF MgrInv
  <2>3. Len(mgr.m) \in Nat
    BY LenProperties DEF TypeInv, TypeOK, Lists
  <2>4. mgr.m # <<>> => masterLog' # <<>> /\ 2 * (h + Len(mgr.m)) - 1 <= k
    BY SMTT(30), <2>1, <2>3
  <2>5. mgr.cmd = "stopmaster" =>
              IF mgr.m = <<>> THEN masterLog' = <<>> ELSE k <= 2 * (h + Len(mgr.m))
    BY <2>1, <2>2
  <2> QED
    BY <2>1, <2>4, <2>5
<1>2. mgr.pc = "clear:slave" => mgr.m = masterLog'
  BY DEF MgrInv
<1>3. /\ mgr.pc = "delete:master" =>
           mgr.fromMaster = mgr.fromSlave /\ mgr.fromSlave <= Len(slaveLog')
  BY SMTT(30) DEF MgrInv, TypeInv, TypeOK
<1>4. Clearing' <=> Clearing
  BY DEF Clearing
<1>5. Clearing /\ mgr.progress = FALSE => k <= SlaveAt(q)'
  <2>1. Clearing => master.pc = "down"
    BY DEF MgrInv, Clearing
  <2> QED
    BY <2>1 DEF MgrInv
<1>6. route # "master" => master'.pc = "down" /\ mgr.pc = "idle" /\ k <= SlaveAt(q)'
  BY DEF MgrInv
<1>7. mgr.pc # "idle" /\ mgr.cmd = "stopmaster" => master'.pc = "down"
  BY DEF MgrInv
<1>8. mgr.pc \in {"replay:master", "replay:slave"} => SlaveCaughtUp'
  BY DEF MgrInv, SlaveCaughtUp
<1> QED
  BY <1>1, <1>2, <1>3, <1>4, <1>5, <1>6, <1>7, <1>8 DEF MgrInv

\* A step that leaves a part's variables alone.
LEMMA PartsKept ==
  ASSUME NEW n \in Nat, NEW r \in Nat, FailoverAt(n, r)
  PROVE  /\ UNCHANGED << recorded, masterLog, master, sent >> => MasterInv(n)'
         /\ UNCHANGED << replayed, slaveLog, slave >> => SlaveInv(r)'
         /\ UNCHANGED << slave, slaveIn, logger >> => PipeInv(n, r)'
         /\ UNCHANGED << masterLog, master, slaveLog, slave, mgr >> => Evenly(n, r)'
<1>1. ASSUME UNCHANGED << recorded, masterLog, master, sent >> PROVE MasterInv(n)'
  BY <1>1 DEF FailoverAt, MasterInv
<1>2. ASSUME UNCHANGED << replayed, slaveLog, slave >> PROVE SlaveInv(r)'
  BY <1>2 DEF FailoverAt, SlaveInv, SlaveAt
<1>3. ASSUME UNCHANGED << slave, slaveIn, logger >> PROVE PipeInv(n, r)'
  BY <1>3 DEF FailoverAt, PipeInv, Taken, OnTheWay
<1>4. ASSUME UNCHANGED << masterLog, master, slaveLog, slave, mgr >> PROVE Evenly(n, r)'
  BY <1>4 DEF FailoverAt, Evenly, FromMaster, FromSlave, SlaveAt, Promised
<1> QED
  BY <1>1, <1>2, <1>3, <1>4

\* The manager's part after a step that moves none of what it is about.
LEMMA MgrKeptStill ==
  ASSUME TypeInv, NEW n \in Nat, NEW r \in Nat, MgrInv(n, r),
         UNCHANGED << mgr, route, masterLog, slaveLog >>,
         master.pc = "down" => master'.pc = "down",
         SlaveAt(r)' = SlaveAt(r),
         mgr.pc \in {"replay:master", "replay:slave"} =>
           slave' = slave /\ slaveIn' = slaveIn /\ logger' = logger
  PROVE  MgrInv(n, r)'
<1>1. SlaveAt(r) \in Nat /\ Len(slaveLog) \in Nat
  BY FailoverTypes
<1>2. FromMaster(n)' = FromMaster(n)
  BY DEF FromMaster
<1>3. /\ Len(slaveLog') \in Nat /\ Len(slaveLog) <= Len(slaveLog')
      /\ SlaveAt(r)' \in Nat /\ SlaveAt(r) <= SlaveAt(r)'
  BY <1>1
<1>4. masterLog # <<>> => masterLog' # <<>>
  OBVIOUS
<1>5. n <= n
  OBVIOUS
<1> QED
  BY <1>1, <1>2, <1>3, <1>4, <1>5, MgrKept

\* The master records the id of the next place.
LEMMA MasterRecords ==
  ASSUME TypeInv, NEW n \in Nat, NEW r \in Nat, FailoverAt(n, r),
         NEW id \in StoredIds, Pos(id) = n + 1, RecordForMaster(id),
         UNCHANGED << slaveIn, slaveSide, control >>,
         master.pc # "down", master'.pc # "down"
  PROVE  /\ recorded' = UpTo(n + 1)
         /\ Len(masterLog') <= n + 1 /\ Run(masterLog', n + 1 - Len(masterLog'))
         /\ SlaveInv(r)' /\ PipeInv(n + 1, r)' /\ Evenly(n + 1, r)' /\ MgrInv(n + 1, r)'
<1>0. /\ masterLog \in Seq(Ids) /\ Len(masterLog) \in Nat /\ OnTheWay(r) \in Nat
      /\ SlaveAt(r) \in Nat /\ Len(slaveLog) \in Nat
      /\ FromSlave(r) \in Int
  BY FailoverTypes
<1>1. recorded' = UpTo(n + 1)
  <2>1. recorded' = UpTo(n) \union {id}
    BY DEF RecordForMaster, FailoverAt, MasterInv
  <2>2. ASSUME NEW x \in StoredIds PROVE Pos(x) <= n + 1 <=> Pos(x) <= n \/ x = id
    <3>1. Pos(x) \in Nat
      BY StoredIdParts
    <3>2. Pos(x) = n + 1 => x = id
      BY PosInjective
    <3> QED
      BY <3>1, <3>2
  <2> QED
    BY <2>1, <2>2 DEF UpTo
<1> DEFINE d == n - Len(masterLog)
<1>2. d \in Nat /\ Run(masterLog, d) /\ d + Len(masterLog) + 1 = n + 1
  BY <1>0 DEF FailoverAt, MasterInv
<1> HIDE DEF d
<1>3. Run(masterLog', d) /\ Len(masterLog') = Len(masterLog) + 1
  <2>1. masterLog' = Append(masterLog, id)
    BY DEF RecordForMaster
  <2>2. Pos(id) = d + Len(masterLog) + 1
    BY <1>2
  <2>3. Run(Append(masterLog, id), d) /\ Len(Append(masterLog, id)) = Len(masterLog) + 1
    BY <1>0, <1>2, <2>2, RunAppend
  <2> QED
    BY <2>1, <2>3
<1>4. d = n + 1 - Len(masterLog') /\ Len(masterLog') <= n + 1
  BY <1>0, <1>2, <1>3 DEF d
<1>5. SlaveInv(r)'
  BY PartsKept DEF slaveSide
<1>6. PipeInv(n + 1, r)'
  <2>1. /\ UNCHANGED << slave, slaveIn, logger >>
        /\ OnTheWay(r)' = OnTheWay(r) /\ Taken(r)' = Taken(r)
    BY DEF slaveSide, control, OnTheWay, Taken
  <2>2. \A x \in Int : x <= n => x <= n + 1
    OBVIOUS
  <2>3. Len(logger.work) \in Nat
    BY LenProperties DEF TypeInv, TypeOK, Lists
  <2>4. /\ 2 * OnTheWay(r) - 1 \in Int
        /\ 2 * (OnTheWay(r) + Len(logger.work)) - 1 \in Int
    BY SMTT(30), <1>0, <2>3
  <2>5. ASSUME NEW i \in DOMAIN logger.requests PROVE 2 * (r + Len(logger.requests[i].ids)) - 1 \in Int
    <3>1. logger.requests[i].ids \in Seq(Ids)
      BY RequestIds
    <3>2. Len(logger.requests[i].ids) \in Nat
      BY <3>1, LenProperties
    <3> QED
      BY <3>2
  <2>6. PipeInv(n, r)
    BY DEF FailoverAt
  <2> QED
    BY <2>1, <2>2, <2>4, <2>5, <2>6 DEF PipeInv
<1>7. FromMaster(n + 1)' = FromMaster(n)
  BY <1>0, <1>3 DEF FromMaster
<1>8. Evenly(n + 1, r)'
  <2>1. FromSlave(r) = 0 /\ FromMaster(n) = 0
    BY DEF FailoverAt, Evenly
  <2>2. FromSlave(r)' = FromSlave(r) /\ SlaveAt(r)' = SlaveAt(r)
    BY DEF FromSlave, SlaveAt, Promised, slaveSide, control
  <2> QED
    BY <1>0, <1>7, <2>1, <2>2 DEF Evenly
<1>9. MgrInv(n + 1, r)'
  <2>1. MgrInv(n, r) /\ UNCHANGED << mgr, route, slaveLog, slave, slaveIn, logger >>
    BY DEF FailoverAt, slaveSide, control
  <2>2. masterLog' # <<>>
    BY <1>0, <1>3, EmptySeq
  <2>3. mgr.pc \in {"replay:master", "replay:slave"} =>
           slave' = slave /\ slaveIn' = slaveIn /\ logger' = logger
    BY <2>1
  <2>4. mgr.pc # "clear:slave"
    BY <2>1 DEF MgrInv, Clearing
  <2>5. SlaveAt(r)' = SlaveAt(r) /\ Len(slaveLog') = Len(slaveLog)
    BY <2>1 DEF SlaveAt
  <2>6. /\ Len(slaveLog') \in Nat /\ Len(slaveLog) <= Len(slaveLog')
        /\ SlaveAt(r)' \in Nat /\ SlaveAt(r) <= SlaveAt(r)' /\ n <= n + 1 /\ n + 1 \in Nat
    BY <1>0, <2>5
  <2> QED
    BY <1>0, <1>7, <2>1, <2>2, <2>3, <2>4, <2>6, MgrKept
<1> QED
  BY <1>1, <1>3, <1>4, <1>5, <1>6, <1>8, <1>9

\* The master's side of a step.
LEMMA FailoverMaster ==
  ASSUME TypeInv, NEW n \in 0..(2 * NumPackets), NEW r \in 0..NumPackets,
         FailoverAt(n, r), Encap \/ Master \/ MasterFails
  PROVE  FailoverInv'
<1>0. n \in Nat /\ r \in Nat /\ NumPackets \in Nat
  BY NumPacketsAssumption
<1>a. ASSUME UNCHANGED << recorded, masterLog, slaveIn, slaveSide, control >>,
             MasterInv(n)', Evenly(n, r)',
             master.pc = "down" => master'.pc = "down"
      PROVE  FailoverInv'
  <2>1. SlaveInv(r)' /\ PipeInv(n, r)'
    BY <1>0, <1>a, PartsKept DEF slaveSide, control
  <2>2. MgrInv(n, r)'
    <3>1. UNCHANGED << mgr, route, masterLog, slaveLog >> /\ MgrInv(n, r)
      BY <1>a DEF slaveSide, control, FailoverAt
    <3>2. SlaveAt(r)' = SlaveAt(r)
      BY <1>a DEF slaveSide, SlaveAt
    <3>3. mgr.pc \in {"replay:master", "replay:slave"} =>
            slave' = slave /\ slaveIn' = slaveIn /\ logger' = logger
      BY <1>a DEF slaveSide, control
    <3> QED
      BY <1>0, <1>a, <3>1, <3>2, <3>3, MgrKeptStill
  <2>3. FailoverAt(n, r)'
    BY <1>a, <2>1, <2>2 DEF FailoverAt
  <2> QED
    BY <2>3 DEF FailoverInv
<1>b. sent \in 0..NumPackets /\ master.base \in 0..NumPackets /\ MasterInv(n) /\ Evenly(n, r)
  BY <1>0, FailoverTypes DEF FailoverAt
<1>1. CASE Encap
  <2>1. UNCHANGED << master, recorded, masterLog, slaveIn, slaveSide, control >> /\ sent' = sent + 1
    BY <1>1 DEF Encap
  <2>2. MasterInv(n)'
    BY <1>b, <2>1 DEF MasterInv
  <2>3. Evenly(n, r)'
    BY <1>0, <2>1, PartsKept DEF slaveSide, control
  <2> QED
    BY <1>a, <2>1, <2>2, <2>3
<1>2. CASE MasterStore
  <2> DEFINE b == master.base + 1
  <2>1. b \in Bases /\ n = 2 * master.base /\ b <= sent
    <3>1. master.pc = "receive" /\ master.base < sent
      BY <1>2 DEF MasterStore
    <3> QED
      BY SMTT(30), <1>0, <1>b, <3>1 DEF MasterInv, Bases
  <2>2. << b, 1 >> \in StoredIds /\ Pos(<< b, 1 >>) = n + 1
    <3>1. << b, 1 >> \in StoredIds /\ Pos(<< b, 1 >>) = 2 * b + 1 - 2
      BY <2>1, StoredIdIs
    <3> QED
      BY <1>b, <2>1, <3>1
  <2>3. /\ RecordForMaster(<< b, 1 >>) /\ UNCHANGED << sent, slaveIn, slaveSide, control >>
        /\ master' = [ pc |-> "version", base |-> b ] /\ master.pc = "receive"
    BY <1>2 DEF MasterStore
  <2>4. master'.pc = "version" /\ master'.base = b
    BY <2>3
  <2>5. n + 1 \in 0..(2 * NumPackets) /\ n + 1 = 2 * b - 1
    BY <1>0, <1>b, <2>1 DEF Bases
  <2> HIDE DEF b
  <2>6. /\ recorded' = UpTo(n + 1)
        /\ Len(masterLog') <= n + 1 /\ Run(masterLog', n + 1 - Len(masterLog'))
        /\ SlaveInv(r)' /\ PipeInv(n + 1, r)' /\ Evenly(n + 1, r)' /\ MgrInv(n + 1, r)'
    BY <1>0, <2>2, <2>3, <2>4, MasterRecords
  <2>7. MasterInv(n + 1)'
    BY <2>1, <2>3, <2>4, <2>5, <2>6 DEF MasterInv
  <2>8. FailoverAt(n + 1, r)'
    BY <2>6, <2>7 DEF FailoverAt
  <2> QED
    BY <2>5, <2>8 DEF FailoverInv
<1>3. CASE MasterNewVersion
  <2>1. /\ UNCHANGED << sent, recorded, masterLog, slaveIn, slaveSide, control >>
        /\ master.pc = "version" /\ master' = [ master EXCEPT !.pc = "storeNext" ]
    BY <1>3 DEF MasterNewVersion
  <2>2. master'.pc = "storeNext" /\ master'.base = master.base
    BY <2>1 DEF TypeInv, TypeOK
  <2>3. MasterInv(n)'
    BY <1>b, <2>1, <2>2 DEF MasterInv
  <2>4. Evenly(n, r)'
    BY <1>b, <2>1, <2>2 DEF Evenly, FromMaster, FromSlave, SlaveAt, Promised, slaveSide, control
  <2> QED
    BY <1>a, <2>1, <2>3, <2>4
<1>4. CASE MasterStoreNext
  <2> DEFINE b == master.base
  <2>1. b \in Bases /\ n = 2 * b - 1 /\ b <= sent
    BY <1>4, <1>b DEF MasterStoreNext, MasterInv, TypeInv
  <2>2. << b, 2 >> \in StoredIds /\ Pos(<< b, 2 >>) = n + 1
    <3>1. << b, 2 >> \in StoredIds /\ Pos(<< b, 2 >>) = 2 * b + 2 - 2
      BY <2>1, StoredIdIs
    <3> QED
      BY <1>b, <2>1, <3>1
  <2>3. /\ RecordForMaster(<< b, 2 >>) /\ UNCHANGED << sent, slaveIn, slaveSide, control >>
        /\ master' = [ master EXCEPT !.pc = "receive" ] /\ master.pc = "storeNext"
    BY <1>4 DEF MasterStoreNext
  <2>4. master'.pc = "receive" /\ master'.base = b
    BY <2>3 DEF TypeInv, TypeOK
  <2>5. n + 1 \in 0..(2 * NumPackets) /\ n + 1 = 2 * b
    BY <1>0, <1>b, <2>1 DEF Bases
  <2> HIDE DEF b
  <2>6. /\ recorded' = UpTo(n + 1)
        /\ Len(masterLog') <= n + 1 /\ Run(masterLog', n + 1 - Len(masterLog'))
        /\ SlaveInv(r)' /\ PipeInv(n + 1, r)' /\ Evenly(n + 1, r)' /\ MgrInv(n + 1, r)'
    BY <1>0, <2>2, <2>3, <2>4, MasterRecords
  <2>7. MasterInv(n + 1)'
    BY <2>1, <2>3, <2>4, <2>5, <2>6 DEF MasterInv
  <2>8. FailoverAt(n + 1, r)'
    BY <2>6, <2>7 DEF FailoverAt
  <2> QED
    BY <2>5, <2>8 DEF FailoverInv
<1>5. CASE MasterFails
  <2>1. /\ UNCHANGED << sent, recorded, masterLog, slaveIn, slaveSide, control >>
        /\ master.pc # "down" /\ master' = [ master EXCEPT !.pc = "down" ]
    BY <1>5 DEF MasterFails
  <2>2. master'.pc = "down" /\ master'.base = master.base
    BY <2>1 DEF TypeInv, TypeOK
  <2>3. n = 2 * master.base \/ n = 2 * master.base - 1
    <3>1. master.pc \in {"receive", "version", "storeNext"}
      BY <2>1 DEF TypeInv, TypeOK
    <3> QED
      BY <1>b, <3>1 DEF MasterInv
  <2>4. MasterInv(n)'
    BY <1>b, <2>1, <2>2, <2>3 DEF MasterInv
  <2>5. Evenly(n, r)'
    BY <1>b, <2>1, <2>2 DEF Evenly, FromMaster, FromSlave, SlaveAt, Promised, slaveSide, control
  <2> QED
    BY <1>a, <2>1, <2>2, <2>4, <2>5
<1> QED
  BY <1>1, <1>2, <1>3, <1>4, <1>5 DEF Master

\* What the slave's steps leave alone.
LEMMA SlaveKeeps ==
  ASSUME TypeInv, NEW n \in Nat, NEW r \in Nat, FailoverAt(n, r),
         UNCHANGED << traffic, masterLog, control >>
  PROVE  MasterInv(n)' /\ FromMaster(n)' = FromMaster(n) /\ Promised' = Promised
<1>1. UNCHANGED << recorded, masterLog, master, sent, mgr >>
  BY DEF traffic, control
<1> QED
  BY <1>1, PartsKept DEF FromMaster, Promised

\* The slave records the id of the next place.
LEMMA SlaveRecords ==
  ASSUME TypeInv, NEW n \in Nat, NEW r \in Nat, NEW q \in Nat, FailoverAt(n, r),
         NEW id \in StoredIds, NEW p \in Nat, SlaveAt(r) = p, Pos(id) = p + 1,
         RecordForSlave(id), UNCHANGED << traffic, masterLog, control >>,
         slave.pc # "receive", SlaveAt(q)' = p + 1
  PROVE  /\ replayed' = UpTo(p + 1)
         /\ Len(slaveLog') <= p + 1 /\ Run(slaveLog', p + 1 - Len(slaveLog'))
         /\ Evenly(n, q)' /\ MgrInv(n, q)'
<1>0. /\ slaveLog \in Seq(Ids) /\ Len(slaveLog) \in Nat /\ Promised \in Nat
      /\ FromMaster(n) \in Int
  BY FailoverTypes
<1>1. replayed' = UpTo(p + 1)
  <2>1. replayed' = UpTo(p) \union {id}
    BY DEF RecordForSlave, FailoverAt, SlaveInv
  <2>2. ASSUME NEW x \in StoredIds PROVE Pos(x) <= p + 1 <=> Pos(x) <= p \/ x = id
    <3>1. Pos(x) \in Nat
      BY StoredIdParts
    <3>2. Pos(x) = p + 1 => x = id
      BY PosInjective
    <3> QED
      BY <3>1, <3>2
  <2> QED
    BY <2>1, <2>2 DEF UpTo
<1> DEFINE d == p - Len(slaveLog)
<1>2. d \in Nat /\ Run(slaveLog, d) /\ d + Len(slaveLog) + 1 = p + 1
  BY <1>0 DEF FailoverAt, SlaveInv
<1> HIDE DEF d
<1>3. Run(slaveLog', d) /\ Len(slaveLog') = Len(slaveLog) + 1
  <2>1. slaveLog' = Append(slaveLog, id)
    BY DEF RecordForSlave
  <2>2. Pos(id) = d + Len(slaveLog) + 1
    BY <1>2
  <2>3. Run(Append(slaveLog, id), d) /\ Len(Append(slaveLog, id)) = Len(slaveLog) + 1
    BY <1>0, <1>2, <2>2, RunAppend
  <2> QED
    BY <2>1, <2>3
<1>4. d = p + 1 - Len(slaveLog') /\ Len(slaveLog') <= p + 1
  BY <1>0, <1>2, <1>3 DEF d
<1>5. FromMaster(n)' = FromMaster(n) /\ Promised' = Promised
  BY SlaveKeeps
<1>6. Evenly(n, q)'
  <2>1. /\ FromSlave(r) <= p
        /\ FromMaster(n) = IF FromSlave(r) <= n THEN FromSlave(r) ELSE n
        /\ master.pc # "down" => FromSlave(r) = 0 /\ FromMaster(n) = 0
    BY DEF FailoverAt, Evenly
  <2>2. FromSlave(r) = p - Len(slaveLog) + Promised
    BY DEF FromSlave
  <2>3. FromSlave(q)' = (p + 1) - Len(slaveLog') + Promised'
    BY DEF FromSlave
  <2>4. FromSlave(q)' = FromSlave(r)
    BY <1>0, <1>3, <1>5, <2>2, <2>3
  <2>5. FromSlave(r) <= p + 1
    BY <1>0, <2>1, <2>2
  <2>6. master' = master
    BY DEF traffic
  <2> QED
    BY <1>5, <2>1, <2>4, <2>5, <2>6 DEF Evenly
<1>7. MgrInv(n, q)'
  <2>1. MgrInv(n, r) /\ UNCHANGED << mgr, route, masterLog, master >>
    BY DEF FailoverAt, control, traffic
  <2>2. mgr.pc \notin {"replay:master", "replay:slave"}
    BY <2>1 DEF MgrInv, SlaveCaughtUp
  <2>3. Len(slaveLog') \in Nat /\ Len(slaveLog) <= Len(slaveLog') /\ n <= n /\ p <= p + 1
    BY <1>0, <1>3
  <2>4. SlaveAt(r) \in Nat /\ SlaveAt(q)' \in Nat /\ SlaveAt(r) <= SlaveAt(q)'
    BY <2>3
  <2> QED
    BY <1>0, <1>5, <2>1, <2>2, <2>3, <2>4, MgrKept
<1> QED
  BY <1>1, <1>3, <1>4, <1>6, <1>7

\* The slave's steps.
LEMMA FailoverSlave ==
  ASSUME TypeInv, NEW n \in 0..(2 * NumPackets), NEW r \in 0..NumPackets,
         FailoverAt(n, r), Slave
  PROVE  FailoverInv'
<1>0. /\ n \in Nat /\ r \in Nat /\ NumPackets \in Nat
      /\ MasterInv(n) /\ SlaveInv(r) /\ PipeInv(n, r) /\ Evenly(n, r) /\ MgrInv(n, r)
  BY NumPacketsAssumption DEF FailoverAt
<1>1. CASE SlaveReceive
  <2>0. /\ slaveIn \in Seq(Ids) /\ Len(slaveIn) \in Nat /\ slaveIn # <<>> /\ slave.pc = "receive"
        /\ UNCHANGED << traffic, packets, masterLog, slaveLog, replayed, control >>
        /\ slaveIn' = Tail(slaveIn)
    BY <1>0, <1>1, FailoverTypes DEF SlaveReceive
  <2>1. /\ Len(slaveIn) >= 1 /\ Head(slaveIn) = slaveIn[1]
        /\ Len(slaveIn') = Len(slaveIn) - 1
        /\ \A i \in 1..(Len(slaveIn) - 1) : slaveIn'[i] = slaveIn[i + 1]
    BY <2>0, HeadTailProperties, EmptySeq
  <2>2. OnTheWay(r) = r + Len(slaveIn) /\ Taken(r) = r /\ 2 * (r + Len(slaveIn)) - 1 <= n
    BY <1>0, <2>0 DEF PipeInv, OnTheWay, Taken
  <2>3. Head(slaveIn) = << r + 1, 1 >>
    BY <1>0, <2>1, <2>2 DEF PipeInv, Firsts
  <2> DEFINE id == << r + 1, 1 >>
  <2>4. id \in StoredIds /\ Pos(id) = 2 * r + 1
    <3>1. r + 1 \in Bases
      BY <1>0, <2>0, <2>1, <2>2 DEF Bases
    <3>2. << r + 1, 1 >> \in StoredIds /\ Pos(<< r + 1, 1 >>) = 2 * (r + 1) + 1 - 2
      BY <3>1, StoredIdIs
    <3> QED
      BY <1>0, <3>2
  <2>5. IdRead(Head(slaveIn)) = id
    BY <2>3 DEF IdRead, VersionOf
  <2>6. HasPals(id) = TRUE
    <3>1. /\ FromMaster(n) = n - Len(masterLog) /\ FromMaster(n) \in Nat
          /\ Run(masterLog, FromMaster(n)) /\ masterLog \in Seq(Ids) /\ Len(masterLog) \in Nat
      BY <1>0, FailoverTypes DEF MasterInv, FromMaster
    <3>2. FromMaster(n) <= 2 * r
      <4>1. FromSlave(r) <= 2 * r /\ FromSlave(r) \in Int
        BY <1>0, <2>0, FailoverTypes DEF Evenly, SlaveAt
      <4>2. FromMaster(n) <= FromSlave(r)
        BY <1>0, <4>1 DEF Evenly
      <4> QED
        BY <1>0, <3>1, <4>1, <4>2
    <3>3. Pos(id) <= FromMaster(n) + Len(masterLog) /\ FromMaster(n) < Pos(id)
      BY <1>0, <2>0, <2>1, <2>2, <2>4, <3>1, <3>2
    <3>4. id \in Elements(masterLog)
      BY <2>4, <3>1, <3>3, RunHolds
    <3> QED
      BY <3>4 DEF HasPals
  <2> HIDE DEF id
  <2>7. slave' = [ pc |-> "store", id |-> id, pals |-> HasPals(id) ]
    BY <1>1, <2>5 DEF SlaveReceive
  <2>8. slave'.pc = "store" /\ slave'.id = id /\ slave'.pals = TRUE
    BY <2>6, <2>7
  <2>9. SlaveAt(r)' = SlaveAt(r)
    BY <2>0, <2>8 DEF SlaveAt
  <2>10. SlaveInv(r)'
    BY <1>0, <2>0, <2>8, <2>9 DEF SlaveInv, id
  <2>11. Taken(r)' = r + 1 /\ OnTheWay(r)' = OnTheWay(r)
    <3>1. Taken(r)' = r + 1
      BY <2>8 DEF Taken
    <3>2. OnTheWay(r)' = (r + 1) + Len(slaveIn')
      BY <3>1 DEF OnTheWay
    <3> QED
      BY <1>0, <2>0, <2>1, <2>2, <3>1, <3>2
  <2>12. PipeInv(n, r)'
    <3>1. Firsts(slaveIn', r + 1)
      <4>1. ASSUME NEW i \in 1..(Len(slaveIn) - 1) PROVE slaveIn'[i] = << (r + 1) + i, 1 >>
        <5>1. i + 1 \in 1..Len(slaveIn) /\ r + (i + 1) = (r + 1) + i
          BY <1>0, <2>0
        <5>2. slaveIn[i + 1] = << r + (i + 1), 1 >>
          BY <1>0, <2>2, <5>1 DEF PipeInv, Firsts
        <5> QED
          BY <2>1, <5>1, <5>2
      <4> QED
        BY <2>1, <4>1 DEF Firsts
    <3>2. logger' = logger
      BY <2>0 DEF control
    <3>3. 2 * OnTheWay(r) - 1 <= n
      BY <2>2
    <3>4. \A i \in DOMAIN logger.requests : logger.requests[i].op # "replay"
      BY <1>0, <2>0 DEF PipeInv
    <3> QED
      BY <1>0, <2>11, <3>1, <3>2, <3>3, <3>4 DEF PipeInv
  <2>13. Evenly(n, r)'
    <3>1. UNCHANGED << masterLog, master, slaveLog, mgr >>
      BY <2>0 DEF traffic, control
    <3> QED
      BY <1>0, <2>9, <3>1 DEF Evenly, FromMaster, FromSlave, Promised
  <2>14. MgrInv(n, r)'
    <3>1. mgr.pc \notin {"replay:master", "replay:slave"}
      BY <1>0, <2>0 DEF MgrInv, SlaveCaughtUp
    <3>2. UNCHANGED << mgr, route, masterLog, slaveLog, master >>
      BY <2>0 DEF traffic, control
    <3> QED
      BY <1>0, <2>9, <3>1, <3>2, MgrKeptStill
  <2>15. MasterInv(n)'
    BY <1>0, <2>0, SlaveKeeps
  <2>16. FailoverAt(n, r)'
    BY <2>10, <2>12, <2>13, <2>14, <2>15 DEF FailoverAt
  <2> QED
    BY <2>16 DEF FailoverInv
<1>2. CASE SlaveStore
  <2>0. /\ slave.pc = "store" /\ RecordForSlave(slave.id)
        /\ slave' = [ slave EXCEPT !.pc = "getPals" ]
        /\ UNCHANGED << traffic, packets, masterLog, slaveIn, control >>
    BY <1>2 DEF SlaveStore
  <2>1. slave'.pc = "getPals" /\ slave'.id = slave.id /\ slave.id = << r + 1, 1 >>
        /\ slave.id \in WireIds
    BY <1>0, <2>0 DEF TypeInv, TypeOK, SlaveInv
  <2>2. r + 1 \in Bases
    BY <1>0, <2>1 DEF WireIds, NoId
  <2>3. slave.id \in StoredIds /\ Pos(slave.id) = 2 * r + 1
    <3>1. << r + 1, 1 >> \in StoredIds /\ Pos(<< r + 1, 1 >>) = 2 * (r + 1) + 1 - 2
      BY <2>2, StoredIdIs
    <3> QED
      BY <1>0, <2>1, <3>1
  <2>4. SlaveAt(r) = 2 * r /\ SlaveAt(r)' = 2 * r + 1 /\ 2 * r \in Nat
    BY <1>0, <2>0, <2>1 DEF SlaveAt
  <2>5. PICK id \in StoredIds : id = slave.id
    BY <2>3
  <2>6. /\ replayed' = UpTo(2 * r + 1)
        /\ Len(slaveLog') <= 2 * r + 1 /\ Run(slaveLog', 2 * r + 1 - Len(slaveLog'))
        /\ Evenly(n, r)' /\ MgrInv(n, r)'
    <3>1. RecordForSlave(id) /\ Pos(id) = 2 * r + 1 /\ slave.pc # "receive"
      BY <2>0, <2>3, <2>5
    <3>2. PICK p \in Nat : p = 2 * r
      BY <2>4
    <3>3. SlaveAt(r) = p /\ SlaveAt(r)' = p + 1 /\ Pos(id) = p + 1
      BY <2>4, <3>1, <3>2
    <3>4. /\ replayed' = UpTo(p + 1)
          /\ Len(slaveLog') <= p + 1 /\ Run(slaveLog', p + 1 - Len(slaveLog'))
          /\ Evenly(n, r)' /\ MgrInv(n, r)'
      BY <1>0, <2>0, <3>1, <3>3, SlaveRecords
    <3> QED
      BY <3>2, <3>4
  <2>7. SlaveInv(r)'
    BY <2>1, <2>4, <2>6 DEF SlaveInv
  <2>8. PipeInv(n, r)'
    <3>1. Taken(r)' = Taken(r) /\ OnTheWay(r)' = OnTheWay(r) /\ UNCHANGED << slaveIn, logger >>
      BY <2>0, <2>1 DEF Taken, OnTheWay, control
    <3> QED
      BY <1>0, <2>0, <2>1, <3>1 DEF PipeInv
  <2>9. MasterInv(n)'
    BY <1>0, <2>0, SlaveKeeps
  <2>10. FailoverAt(n, r)'
    BY <2>6, <2>7, <2>8, <2>9 DEF FailoverAt
  <2> QED
    BY <2>10 DEF FailoverInv
<1>3. CASE SlaveGetPals
  <2>0. /\ slave.pc = "getPals"
        /\ slave' = [ slave EXCEPT !.pc = "storeNext", !.pals = HasPals(slave.id) ]
        /\ UNCHANGED << traffic, packets, masterLog, slaveIn, slaveLog, replayed, control >>
    BY <1>3 DEF SlaveGetPals
  <2>1. slave'.pc = "storeNext" /\ slave'.id = slave.id
    BY <2>0 DEF TypeInv, TypeOK
  <2>2. SlaveAt(r)' = SlaveAt(r)
    BY <2>0, <2>1 DEF SlaveAt
  <2>3. SlaveInv(r)'
    BY <1>0, <2>0, <2>1, <2>2 DEF SlaveInv
  <2>4. PipeInv(n, r)'
    <3>1. Taken(r)' = Taken(r) /\ OnTheWay(r)' = OnTheWay(r) /\ UNCHANGED << slaveIn, logger >>
      BY <2>0, <2>1 DEF Taken, OnTheWay, control
    <3> QED
      BY <1>0, <2>0, <2>1, <3>1 DEF PipeInv
  <2>5. Evenly(n, r)'
    <3>1. UNCHANGED << masterLog, master, slaveLog, mgr >>
      BY <2>0 DEF traffic, control
    <3> QED
      BY <1>0, <2>2, <3>1 DEF Evenly, FromMaster, FromSlave, Promised
  <2>6. MgrInv(n, r)'
    <3>1. mgr.pc \notin {"replay:master", "replay:slave"}
      BY <1>0, <2>0 DEF MgrInv, SlaveCaughtUp
    <3>2. UNCHANGED << mgr, route, masterLog, slaveLog, master >>
      BY <2>0 DEF traffic, control
    <3> QED
      BY <1>0, <2>2, <3>1, <3>2, MgrKeptStill
  <2>7. MasterInv(n)'
    BY <1>0, <2>0, SlaveKeeps
  <2>8. FailoverAt(n, r)'
    BY <2>3, <2>4, <2>5, <2>6, <2>7 DEF FailoverAt
  <2> QED
    BY <2>8 DEF FailoverInv
<1>4. CASE SlaveStoreNext
  <2>0. /\ slave.pc = "storeNext" /\ RecordForSlave(NextVersion(slave.id))
        /\ slave' = [ slave EXCEPT !.pc = "receive", !.pals = FALSE ]
        /\ UNCHANGED << traffic, packets, masterLog, slaveIn, control >>
    BY <1>4 DEF SlaveStoreNext
  <2>1. slave'.pc = "receive" /\ slave.id = << r + 1, 1 >> /\ slave.id \in WireIds
    BY <1>0, <2>0 DEF TypeInv, TypeOK, SlaveInv
  <2>2. r + 1 \in Bases
    BY <1>0, <2>1 DEF WireIds, NoId
  <2>3. NextVersion(slave.id) = << r + 1, 2 >>
    BY <2>1 DEF NextVersion, BaseOf, VersionOf
  <2>4. << r + 1, 2 >> \in StoredIds /\ Pos(<< r + 1, 2 >>) = 2 * r + 2
    <3>1. << r + 1, 2 >> \in StoredIds /\ Pos(<< r + 1, 2 >>) = 2 * (r + 1) + 2 - 2
      BY <2>2, StoredIdIs
    <3> QED
      BY <1>0, <3>1
  <2>5. SlaveAt(r) = 2 * r + 1 /\ SlaveAt(r + 1)' = 2 * (r + 1) /\ r + 1 \in 0..NumPackets
    BY <1>0, <2>0, <2>1, <2>2 DEF SlaveAt, Bases
  <2>6. PICK id \in StoredIds : id = << r + 1, 2 >>
    BY <2>4
  <2>7. PICK p \in Nat, q \in 0..NumPackets : p = 2 * r + 1 /\ q = r + 1
    BY <1>0, <2>5
  <2>8. /\ replayed' = UpTo(p + 1)
        /\ Len(slaveLog') <= p + 1 /\ Run(slaveLog', p + 1 - Len(slaveLog'))
        /\ Evenly(n, q)' /\ MgrInv(n, q)'
    <3>1. RecordForSlave(id) /\ Pos(id) = p + 1 /\ slave.pc # "receive"
      BY <1>0, <2>0, <2>3, <2>4, <2>6, <2>7
    <3>2. SlaveAt(r) = p
      BY <2>5, <2>7
    <3>3. SlaveAt(q)' = p + 1 /\ q \in Nat
      BY <1>0, <2>1, <2>7 DEF SlaveAt
    <3> QED
      BY <1>0, <2>0, <3>1, <3>2, <3>3, SlaveRecords
  <2>9. SlaveInv(q)'
    <3>1. SlaveAt(q)' = p + 1
      BY <1>0, <2>1, <2>7 DEF SlaveAt
    <3> QED
      BY <2>1, <2>8, <3>1 DEF SlaveInv
  <2>10. PipeInv(n, q)'
    <3>1. Taken(q)' = Taken(r) /\ Taken(r) = r + 1
      BY <2>0, <2>1, <2>7 DEF Taken
    <3>2. OnTheWay(q)' = OnTheWay(r) /\ UNCHANGED << slaveIn, logger >>
      BY <2>0, <3>1 DEF OnTheWay, control
    <3>3. 2 * OnTheWay(r) - 1 <= n
      BY <1>0, <2>0 DEF PipeInv
    <3>4. \A i \in DOMAIN logger.requests : logger.requests[i].op # "replay"
      BY <1>0, <2>0 DEF PipeInv
    <3> QED
      BY <1>0, <3>1, <3>2, <3>3, <3>4 DEF PipeInv
  <2>11. MasterInv(n)'
    BY <1>0, <2>0, SlaveKeeps
  <2>12. FailoverAt(n, q)'
    BY <2>8, <2>9, <2>10, <2>11 DEF FailoverAt
  <2> QED
    BY <2>7, <2>12 DEF FailoverInv
<1> QED
  BY <1>1, <1>2, <1>3, <1>4 DEF Slave

\* Of two lists of first versions that begin with the same id, the ids to be
\* replayed are those behind the last one of the slave.
LEMMA UnprocessedAligned ==
  ASSUME NEW m \in Seq(Ids), NEW s \in Seq(Ids), NEW d \in Nat, NEW h \in Nat,
         NEW r \in Nat, FirstsOfRun(m, d, h), FirstsOfRun(s, d, h), r = h + Len(s),
         Len(s) = 0 => d = 2 * h
  PROVE  /\ Unprocessed(m, s) \in Seq(Ids)
         /\ Firsts(Unprocessed(m, s), r)
         /\ Len(m) <= Len(s) => Unprocessed(m, s) = <<>>
         /\ Len(s) < Len(m) => Len(Unprocessed(m, s)) = Len(m) - Len(s)
<1> DEFINE I == { i \in DOMAIN m : i \in DOMAIN s => m[i] # s[i] }
           c == Len(s)
           n == Len(m)
           u == Unprocessed(m, s)
<1>0. c \in Nat /\ n \in Nat
  BY LenProperties
<1>d. DOMAIN m = 1..n /\ DOMAIN s = 1..c
  BY LenProperties
<1>1. I \in SUBSET (1..n) /\ u = Keep(m, I)
  BY <1>0, <1>d DEF Unprocessed
<1>2. ASSUME NEW i \in 1..n PROVE i \in I <=> c < i
  <2>1. CASE c < i
    <3>1. i \notin 1..c
      BY <1>0, <2>1
    <3> QED
      BY <1>0, <1>d, <2>1, <3>1
  <2>2. CASE i <= c
    <3>1. i \in 1..c /\ ~ (c < i)
      BY <1>0, <2>2
    <3>2. m[i] = s[i]
      BY <3>1 DEF FirstsOfRun
    <3> QED
      BY <1>0, <1>d, <3>1, <3>2
  <2> QED
    BY <1>0, <2>1, <2>2
<1>3. u \in Seq(Ids)
  BY UnprocessedType
<1>4. PICK l \in Nat : n <= c + l /\ (l = 0 \/ c + l = n)
  <2>1. CASE c <= n
    <3>1. n - c \in Nat /\ n <= c + (n - c) /\ c + (n - c) = n
      BY <1>0, <2>1
    <3> QED
      BY <3>1
  <2>2. CASE n < c
    <3>1. n <= c + 0
      BY <1>0, <2>2
    <3> QED
      BY <3>1
  <2> QED
    BY <1>0, <2>1, <2>2
<1> HIDE DEF I, u
<1>5. /\ DOMAIN u = 1..l
      /\ \A k \in 1..l : u[k] = m[c + k]
  <2>1. \A k \in 1..l : c + k \in 1..n /\ c < c + k /\ k \in Nat
    BY <1>0, <1>4
  <2>2. \A k \in 1..l : c + k \in I
    BY <1>2, <2>1
  <2>3. \A i \in I : i - c \in 1..l /\ c + (i - c) = i
    BY <1>0, <1>1, <1>2, <1>4
  <2>4. PICK f \in [1..l -> I] : \A k \in 1..l : f[k] = c + k
    <3> DEFINE g == [ k \in 1..l |-> c + k ]
    <3>1. g \in [1..l -> I] /\ \A k \in 1..l : g[k] = c + k
      BY <2>2
    <3> QED
      BY <3>1
  <2>5. \A j, k \in 1..l : j < k => f[j] < f[k]
    BY <1>0, <2>1, <2>4
  <2>6. \A i \in I : \E k \in 1..l : f[k] = i
    BY <2>3, <2>4
  <2>7. I \in SUBSET Nat
    BY <1>1
  <2>8. /\ DOMAIN Keep(m, I) = 1..l
        /\ \A k \in 1..l : Keep(m, I)[k] = m[f[k]]
    <3> HIDE DEF c, n
    <3>1. \A i \in I : i \in Nat
      BY <2>7
    <3> QED
      BY ONLY <2>5, <2>6, <2>7, f \in [1..l -> I], l \in Nat, KeepIs, SMTT(30)
  <2> QED
    BY <1>1, <2>4, <2>8
<1>6. Len(u) = l
  <2>1. DOMAIN u = 1..Len(u) /\ Len(u) \in Nat
    BY <1>3, LenProperties
  <2> QED
    BY <1>4, <1>5, <2>1
<1>7. ASSUME NEW k \in 1..Len(u) PROVE u[k] = << r + k, 1 >>
  <2>1. c + k \in 1..n /\ h + (c + k) = r + k /\ u[k] = m[c + k] /\ (c + k = 1 => c = 0)
    BY <1>0, <1>4, <1>5, <1>6, <1>7
  <2>2. PICK i \in 1..n : i = c + k
    BY <2>1
  <2>3. m[i] = << h + i, IF i = 1 /\ d = 2 * h + 1 THEN 2 ELSE 1 >>
    BY DEF FirstsOfRun
  <2>4. ~ (i = 1 /\ d = 2 * h + 1)
    BY <2>1, <2>2
  <2> QED
    BY <2>1, <2>2, <2>3, <2>4
<1>8. Firsts(u, r)
  BY <1>7 DEF Firsts
<1>9. Len(m) <= Len(s) => u = <<>>
  <2>1. Len(m) <= Len(s) => Len(u) = 0
    BY <1>0, <1>4, <1>6
  <2> QED
    BY <1>3, <2>1, EmptySeq
<1>10. Len(s) < Len(m) => Len(u) = Len(m) - Len(s)
  BY <1>0, <1>4, <1>6
<1> QED
  BY <1>3, <1>8, <1>9, <1>10 DEF u

\* What a step of the manager leaves alone.
LEMMA ManagerKeeps ==
  ASSUME TypeInv, NEW n \in 0..(2 * NumPackets), NEW r \in 0..NumPackets,
         FailoverAt(n, r), UNCHANGED << boxes, data, logger >>,
         mgr.pc # "delete:slave", mgr'.pc # "delete:slave", MgrInv(n, r)'
  PROVE  FailoverInv'
<1>0. n \in Nat /\ r \in Nat
  BY NumPacketsAssumption
<1>1. UNCHANGED << recorded, masterLog, master, sent, replayed, slaveLog, slave, slaveIn, logger >>
  BY DEF boxes, data, traffic
<1>2. MasterInv(n)' /\ SlaveInv(r)' /\ PipeInv(n, r)'
  BY <1>0, <1>1, PartsKept
<1>3. Promised' = Promised
  BY DEF Promised
<1>4. Evenly(n, r)'
  BY <1>1, <1>3 DEF FailoverAt, Evenly, FromMaster, FromSlave, SlaveAt
<1>5. FailoverAt(n, r)'
  BY <1>2, <1>4 DEF FailoverAt
<1> QED
  BY <1>5 DEF FailoverInv

\* A round starts when the slave has caught up, and for stopmaster when the
\* master is down.
LEMMA RoundStarts ==
  ASSUME PacedFailover, TypeInv, NEW n \in 0..(2 * NumPackets), NEW r \in 0..NumPackets,
         FailoverAt(n, r), NEW cmd \in {"replay", "stopmaster"},
         cmd = "stopmaster" => master.pc = "down", StartRound(cmd),
         UNCHANGED << boxes, data, logger, route >>, route = "master",
         mgr.pc # "delete:slave"
  PROVE  FailoverInv'
<1>1. mgr'.pc = "replay:master" /\ mgr'.cmd = cmd
  <2>1. mgr' = [ Idle EXCEPT !.pc = FirstStep(cmd), !.cmd = cmd ]
    BY DEF StartRound
  <2>2. FirstStep(cmd) = "replay:master"
    BY DEF FirstStep
  <2> QED
    BY <2>1, <2>2 DEF Idle
<1>2. SlaveCaughtUp'
  BY DEF StartRound, PacedFailover, SlaveCaughtUp, boxes, data
<1>3. master' = master /\ route' = "master"
  BY DEF boxes, traffic
<1>4. MgrInv(n, r)'
  BY <1>1, <1>2, <1>3 DEF MgrInv, Clearing
<1> QED
  BY <1>1, <1>4, ManagerKeeps

\* The step after a replay: the answer to the command, or the clear.
LEMMA AfterReplaying ==
  ASSUME TypeInv, NEW n \in Nat, NEW r \in Nat, MgrInv(n, r),
         mgr.pc \in {"replay:slave", "replaying"}, mgr' = AfterReplay,
         UNCHANGED << boxes, data, route >>,
         mgr.cmd = "stopmaster" /\ mgr.progress = FALSE => n <= SlaveAt(r)
  PROVE  MgrInv(n, r)' /\ mgr'.pc # "delete:slave"
<1>1. route' = "master" /\ mgr.cmd \in {"replay", "stopmaster"} /\ master' = master
      /\ (mgr.cmd = "stopmaster" => master.pc = "down")
  BY DEF MgrInv, boxes, traffic
<1>2. CASE mgr.cmd = "replay"
  <2>1. mgr'.pc = "idle"
    BY <1>2 DEF AfterReplay, Idle
  <2> QED
    BY <1>1, <2>1 DEF MgrInv, Clearing
<1>3. CASE mgr.cmd = "stopmaster"
  <2>1. /\ mgr'.pc = "clear:master" /\ mgr'.cmd = "stopmaster"
        /\ mgr'.progress = mgr.progress
    BY <1>3 DEF AfterReplay, TypeInv, TypeOK
  <2>2. SlaveAt(r)' = SlaveAt(r)
    BY DEF SlaveAt, boxes
  <2>3. mgr'.progress = FALSE => n <= SlaveAt(r)'
    BY <1>3, <2>1, <2>2
  <2> QED
    BY <1>1, <1>3, <2>1, <2>3 DEF MgrInv, Clearing
<1> QED
  BY <1>1, <1>2, <1>3

\* The steps that change nothing but the manager's own state, and those that
\* begin or end a round.
LEMMA FailoverRounds ==
  ASSUME PacedFailover, TypeInv, NEW n \in 0..(2 * NumPackets), NEW r \in 0..NumPackets,
         FailoverAt(n, r), TsaCommand \/ RoundEnds \/ Reroute \/ ClearFetchMaster
  PROVE  FailoverInv'
<1>0. MgrInv(n, r) /\ n \in Nat /\ r \in Nat
  BY NumPacketsAssumption DEF FailoverAt
<1>a. ASSUME UNCHANGED << boxes, data, logger >> PROVE SlaveAt(r)' = SlaveAt(r) /\ master' = master
  BY <1>a DEF SlaveAt, boxes, traffic
<1>1. CASE TsaCommand
  <2>1. /\ mgr.pc = "idle" /\ route = "master"
        /\ UNCHANGED << boxes, data, logger, route >>
    BY <1>1 DEF TsaCommand
  <2>2. PICK cmd \in Commands : (cmd = "stopmaster" /\ StopOnFailure => master.pc = "down") /\ StartRound(cmd)
    BY <1>1 DEF TsaCommand
  <2>3. cmd \in {"replay", "stopmaster"} /\ (cmd = "stopmaster" => master.pc = "down")
    BY <2>2 DEF PacedFailover
  <2> QED
    BY <2>1, <2>2, <2>3, RoundStarts
<1>2. CASE RoundEnds
  <2>0. mgr.pc = "end" /\ UNCHANGED << boxes, data, logger >>
    BY <1>2 DEF RoundEnds
  <2>1. /\ mgr.cmd = "stopmaster" /\ master.pc = "down" /\ route = "master"
        /\ mgr.progress = FALSE => n <= SlaveAt(r)
    BY <1>0, <2>0 DEF MgrInv, Clearing
  <2>2. CASE mgr.progress
    <3>1. StartRound("stopmaster") /\ UNCHANGED route
      BY <1>2, <2>1, <2>2 DEF RoundEnds
    <3> QED
      BY <2>0, <2>1, <3>1, RoundStarts
  <2>3. CASE ~ mgr.progress
    <3>1. mgr' = Idle /\ route' = "answered"
      BY <1>2, <2>1, <2>3 DEF RoundEnds
    <3>2. mgr.progress = FALSE
      <4>1. mgr.progress \in BOOLEAN
        BY DEF TypeInv, TypeOK
      <4> QED
        BY <2>3, <4>1, Zenon
    <3>3. mgr'.pc = "idle"
      BY <3>1 DEF Idle
    <3>4. n <= SlaveAt(r)' /\ master'.pc = "down"
      BY <1>a, <2>0, <2>1, <3>2
    <3>5. MgrInv(n, r)'
      BY <3>3, <3>4 DEF MgrInv, Clearing
    <3> QED
      BY <2>0, <3>3, <3>5, ManagerKeeps
  <2> QED
    BY <2>2, <2>3
<1>3. CASE Reroute
  <2>1. route = "answered" /\ UNCHANGED << boxes, data, logger, mgr >>
    BY <1>3 DEF Reroute
  <2>2. mgr'.pc = "idle" /\ mgr.pc = "idle" /\ n <= SlaveAt(r)' /\ master'.pc = "down"
    BY <1>0, <1>a, <2>1 DEF MgrInv
  <2>3. MgrInv(n, r)'
    BY <2>2 DEF MgrInv, Clearing
  <2> QED
    BY <2>1, <2>2, <2>3, ManagerKeeps
<1>4. CASE ClearFetchMaster
  <2>1. /\ mgr.pc = "clear:master" /\ UNCHANGED << boxes, data, logger, route >>
        /\ mgr' = [ mgr EXCEPT !.pc = "clear:slave", !.m = masterLog ]
    BY <1>4 DEF ClearFetchMaster
  <2>2. /\ mgr'.pc = "clear:slave" /\ mgr'.m = masterLog /\ mgr'.cmd = mgr.cmd
        /\ mgr'.progress = mgr.progress
    BY <2>1 DEF TypeInv, TypeOK
  <2>3. /\ mgr.cmd = "stopmaster" /\ master.pc = "down" /\ route = "master"
        /\ mgr.progress = FALSE => n <= SlaveAt(r)
    BY <1>0, <2>1 DEF MgrInv, Clearing
  <2>4. mgr'.progress = FALSE => n <= SlaveAt(r)'
    BY <1>a, <2>1, <2>2, <2>3
  <2>5. masterLog' = masterLog /\ master'.pc = "down" /\ route' = "master"
    BY <1>a, <2>1, <2>3 DEF data
  <2>6. MgrInv(n, r)'
    BY <2>2, <2>3, <2>4, <2>5 DEF MgrInv, Clearing
  <2> QED
    BY <2>1, <2>2, <2>6, ManagerKeeps
<1> QED
  BY <1>1, <1>2, <1>3, <1>4

\* The first versions of the master's list.
LEMMA FailoverFetchMaster ==
  ASSUME PacedFailover, TypeInv, NEW n \in 0..(2 * NumPackets), NEW r \in 0..NumPackets,
         FailoverAt(n, r), ReplayFetchMaster
  PROVE  FailoverInv'
<1>0. /\ MgrInv(n, r) /\ n \in Nat /\ r \in Nat
      /\ masterLog \in Seq(Ids) /\ Len(masterLog) \in Nat
  BY NumPacketsAssumption, FailoverTypes DEF FailoverAt
<1>1. /\ mgr.pc = "replay:master" /\ UNCHANGED << boxes, data, logger, route >>
      /\ mgr' = [ mgr EXCEPT !.pc = "replay:slave", !.m = FirstVersions(masterLog) ]
  BY DEF ReplayFetchMaster
<1>2. mgr'.pc = "replay:slave" /\ mgr'.m = FirstVersions(masterLog) /\ mgr'.cmd = mgr.cmd
  BY <1>1 DEF TypeInv, TypeOK
<1>3. PICK d \in Nat : d = FromMaster(n)
  <2>1. Len(masterLog) <= n /\ FromMaster(n) = n - Len(masterLog)
    BY DEF FromMaster, FailoverAt, MasterInv
  <2>2. FromMaster(n) \in Nat
    BY <1>0, <2>1
  <2> QED
    BY <2>2
<1>4. Run(masterLog, d) /\ d + Len(masterLog) = n
  BY <1>0, <1>3 DEF FromMaster, FailoverAt, MasterInv
<1>5. PICK h \in Nat :
           /\ d = 2 * h \/ d = 2 * h + 1
           /\ FirstsOfRun(FirstVersions(masterLog), d, h)
           /\ masterLog = <<>> => Len(FirstVersions(masterLog)) = 0
           /\ masterLog # <<>> =>
                /\ Len(FirstVersions(masterLog)) > 0
                /\ 2 * (h + Len(FirstVersions(masterLog))) - 1 <= d + Len(masterLog)
                /\ d + Len(masterLog) <= 2 * (h + Len(FirstVersions(masterLog)))
  BY <1>0, <1>4, FirstVersionsOfRun
<1>6. FirstVersions(masterLog) \in Seq(Ids)
  BY <1>0, FirstVersionsType
<1>7. FirstVersions(masterLog) = <<>> <=> masterLog = <<>>
  <2>1. CASE masterLog = <<>>
    <3>1. Len(FirstVersions(masterLog)) = 0
      BY <1>5, <2>1
    <3> QED
      BY <1>6, <2>1, <3>1, EmptySeq
  <2>2. CASE masterLog # <<>>
    <3>1. Len(FirstVersions(masterLog)) # 0
      BY <1>5, <2>2
    <3>2. Len(<<>>) = 0
      BY EmptySeq
    <3>3. FirstVersions(masterLog) # <<>>
      BY <3>1, <3>2, Zenon
    <3> QED
      BY <2>2, <3>3
  <2> QED
    BY <2>1, <2>2
<1>8. FromMaster(n)' = d /\ masterLog' = masterLog /\ master' = master
  BY <1>1, <1>3 DEF FromMaster, data, boxes, traffic
<1>9. /\ FromMaster(n)' = 2 * h \/ FromMaster(n)' = 2 * h + 1
      /\ FirstsOfRun(mgr'.m, FromMaster(n)', h)
      /\ mgr'.m # <<>> => masterLog' # <<>> /\ 2 * (h + Len(mgr'.m)) - 1 <= n
      /\ mgr'.cmd = "stopmaster" =>
           IF mgr'.m = <<>> THEN masterLog' = <<>> ELSE n <= 2 * (h + Len(mgr'.m))
  BY <1>2, <1>4, <1>5, <1>7, <1>8
<1>10. SlaveCaughtUp'
  BY <1>0, <1>1 DEF MgrInv, SlaveCaughtUp, boxes, data
<1>11. /\ mgr'.cmd \in {"replay", "stopmaster"} /\ route' = "master"
       /\ mgr'.cmd = "stopmaster" => master'.pc = "down"
  BY <1>0, <1>1, <1>2, <1>8 DEF MgrInv
<1>12. MgrInv(n, r)'
  BY <1>2, <1>9, <1>10, <1>11 DEF MgrInv, Clearing
<1> QED
  BY <1>1, <1>2, <1>12, ManagerKeeps

\* What the slave lacks: the first ids behind those it has recorded, or none.
LEMMA ReplayPlan ==
  ASSUME TypeInv, NEW n \in Nat, NEW r \in Nat, FailoverAt(n, r),
         mgr.pc = "replay:slave", NEW u, u = Unprocessed(mgr.m, FirstVersions(slaveLog))
  PROVE  /\ u \in Seq(Ids) /\ Len(u) \in Nat
         /\ Firsts(u, r)
         /\ u # <<>> => 2 * (r + Len(u)) - 1 <= n
         /\ u = <<>> /\ mgr.cmd = "stopmaster" => n <= SlaveAt(r)
<1> DEFINE fs == FirstVersions(slaveLog)
<1>0. /\ MgrInv(n, r) /\ SlaveCaughtUp /\ SlaveAt(r) = 2 * r /\ 2 * r \in Nat
      /\ slaveLog \in Seq(Ids) /\ Len(slaveLog) \in Nat
      /\ masterLog \in Seq(Ids) /\ Len(masterLog) \in Nat
      /\ fs \in Seq(Ids) /\ Len(fs) \in Nat
      /\ mgr.m \in Seq(Ids) /\ Len(mgr.m) \in Nat
  <2>1. MgrInv(n, r) /\ SlaveCaughtUp
    BY DEF FailoverAt, MgrInv
  <2>2. SlaveAt(r) = 2 * r
    BY <2>1 DEF SlaveCaughtUp, SlaveAt
  <2>3. mgr.m \in Seq(Ids)
    BY DEF TypeInv, TypeOK, Lists
  <2>4. slaveLog \in Seq(Ids) /\ masterLog \in Seq(Ids)
    BY FailoverTypes
  <2>5. fs \in Seq(Ids)
    BY <2>4, FirstVersionsType
  <2> HIDE DEF fs
  <2>6. Len(slaveLog) \in Nat /\ Len(masterLog) \in Nat /\ Len(fs) \in Nat /\ Len(mgr.m) \in Nat
    BY <2>3, <2>4, <2>5, LenProperties
  <2> QED
    BY <2>1, <2>2, <2>3, <2>4, <2>5, <2>6
<1>1. PICK e \in Nat : e = FromSlave(r)
  <2>1. FromSlave(r) = SlaveAt(r) - Len(slaveLog) + 0 /\ Len(slaveLog) <= SlaveAt(r)
    BY DEF FromSlave, Promised, FailoverAt, SlaveInv
  <2>2. FromSlave(r) \in Nat
    BY <1>0, <2>1
  <2> QED
    BY <2>2
<1>2. Run(slaveLog, e) /\ e + Len(slaveLog) = 2 * r
  <2>1. FromSlave(r) = SlaveAt(r) - Len(slaveLog) + 0
    BY DEF FromSlave, Promised
  <2>2. SlaveAt(r) - Len(slaveLog) = e /\ e + Len(slaveLog) = 2 * r
    BY <1>0, <1>1, <2>1
  <2> QED
    BY <2>2 DEF FailoverAt, SlaveInv
<1>3. PICK g \in Nat :
           /\ e = 2 * g \/ e = 2 * g + 1
           /\ FirstsOfRun(fs, e, g)
           /\ slaveLog = <<>> => Len(fs) = 0
           /\ slaveLog # <<>> => /\ Len(fs) > 0
                                 /\ 2 * (g + Len(fs)) - 1 <= e + Len(slaveLog)
                                 /\ e + Len(slaveLog) <= 2 * (g + Len(fs))
  BY <1>0, <1>2, FirstVersionsOfRun
<1> HIDE DEF fs
<1>4. r = g + Len(fs) /\ (Len(fs) = 0 => e = 2 * g)
  <2>1. CASE slaveLog = <<>>
    <3>1. Len(slaveLog) = 0
      <4>1. Len(<<>>) = 0
        BY EmptySeq
      <4> QED
        BY <2>1, <4>1, Zenon
    <3>2. Len(fs) = 0 /\ e = 2 * r
      BY <1>2, <1>3, <2>1, <3>1
    <3> QED
      BY <1>3, <3>2
  <2>2. CASE slaveLog # <<>>
    <3>1. Len(fs) > 0 /\ 2 * (g + Len(fs)) - 1 <= 2 * r /\ 2 * r <= 2 * (g + Len(fs))
      BY <1>2, <1>3, <2>2
    <3>2. r = g + Len(fs)
      <4>1. Len(fs) \in Nat
        BY <1>0
      <4> QED
        BY <3>1, <4>1
    <3> QED
      BY <3>1, <3>2
  <2> QED
    BY <2>1, <2>2
<1>5. PICK h \in Nat :
         /\ FromMaster(n) = 2 * h \/ FromMaster(n) = 2 * h + 1
         /\ FirstsOfRun(mgr.m, FromMaster(n), h)
         /\ mgr.m # <<>> => masterLog # <<>> /\ 2 * (h + Len(mgr.m)) - 1 <= n
         /\ mgr.cmd = "stopmaster" =>
              IF mgr.m = <<>> THEN masterLog = <<>> ELSE n <= 2 * (h + Len(mgr.m))
  BY <1>0 DEF MgrInv
<1>6. IF e <= n THEN FromMaster(n) = e ELSE FromMaster(n) = n
  BY <1>1 DEF FailoverAt, Evenly
<1>7. FromMaster(n) = n - Len(masterLog)
  BY DEF FromMaster
<1>8. mgr.m # <<>> => FromMaster(n) = e /\ h = g
  <2>1. SUFFICES ASSUME mgr.m # <<>> PROVE FromMaster(n) = e /\ h = g
    OBVIOUS
  <2>2. Len(masterLog) # 0
    BY <1>0, <1>5, <2>1, EmptySeq
  <2>3. FromMaster(n) = e
    BY <1>0, <1>6, <1>7, <2>2
  <2>4. h = g
    BY <1>3, <1>5, <2>3
  <2> QED
    BY <2>3, <2>4
<1>9. FirstsOfRun(mgr.m, e, g)
  <2>1. CASE mgr.m = <<>>
    <3>1. Len(mgr.m) = 0
      BY <1>0, <2>1, EmptySeq
    <3> QED
      BY <3>1 DEF FirstsOfRun
  <2>2. CASE mgr.m # <<>>
    BY <1>5, <1>8, <2>2
  <2> QED
    BY <2>1, <2>2
<1>10. /\ u \in Seq(Ids) /\ Firsts(u, r)
       /\ Len(mgr.m) <= Len(fs) => u = <<>>
       /\ Len(fs) < Len(mgr.m) => Len(u) = Len(mgr.m) - Len(fs)
  <2>1. PICK m \in Seq(Ids), s \in Seq(Ids) : m = mgr.m /\ s = fs
    BY <1>0
  <2>2. /\ Unprocessed(m, s) \in Seq(Ids) /\ Firsts(Unprocessed(m, s), r)
        /\ Len(m) <= Len(s) => Unprocessed(m, s) = <<>>
        /\ Len(s) < Len(m) => Len(Unprocessed(m, s)) = Len(m) - Len(s)
    <3>1. /\ r = g + Len(s) /\ (Len(s) = 0 => e = 2 * g)
          /\ FirstsOfRun(m, e, g) /\ FirstsOfRun(s, e, g)
      BY <1>3, <1>4, <1>9, <2>1
    <3> QED
      BY <3>1, UnprocessedAligned
  <2>3. u = Unprocessed(m, s)
    BY <2>1 DEF fs
  <2> QED
    BY <2>1, <2>2, <2>3
<1>11. Len(u) \in Nat
  BY <1>10, LenProperties
<1>12. mgr.m = <<>> => Len(mgr.m) = 0
  BY <1>0, EmptySeq
<1>13. ASSUME u # <<>> PROVE 2 * (r + Len(u)) - 1 <= n
  <2>1. Len(fs) < Len(mgr.m)
    BY <1>0, <1>10, <1>13
  <2>2. mgr.m # <<>>
    BY <1>0, <1>12, <2>1
  <2>3. 2 * (g + Len(mgr.m)) - 1 <= n
    BY <1>5, <1>8, <2>2
  <2>4. r + Len(u) = g + Len(mgr.m)
    <3>1. Len(fs) \in Nat /\ Len(mgr.m) \in Nat /\ Len(u) = Len(mgr.m) - Len(fs)
      BY <1>0, <1>10, <2>1
    <3>2. r = g + Len(fs)
      BY <1>4
    <3>3. \A x, y \in Nat : (g + x) + (y - x) = g + y
      OBVIOUS
    <3>4. (g + Len(fs)) + (Len(mgr.m) - Len(fs)) = g + Len(mgr.m)
      BY <3>1, <3>3
    <3> QED
      BY <3>1, <3>2, <3>4
  <2> QED
    BY <2>3, <2>4
<1>14. ASSUME u = <<>>, mgr.cmd = "stopmaster" PROVE n <= SlaveAt(r)
  <2>1. CASE mgr.m = <<>>
    <3>1. Len(masterLog) = 0
      BY <1>0, <1>5, <1>14, <2>1, EmptySeq
    <3>2. FromMaster(n) = n
      BY <1>7, <3>1
    <3>3. n <= e
      BY <1>6, <3>2
    <3>4. e <= SlaveAt(r)
      BY <1>0, <1>2
    <3> QED
      BY <1>0, <3>3, <3>4
  <2>2. CASE mgr.m # <<>>
    <3>1. n <= 2 * (g + Len(mgr.m))
      BY <1>5, <1>8, <1>14, <2>2
    <3>2. Len(u) = 0
      BY <1>10, <1>14, EmptySeq
    <3>3. Len(mgr.m) <= Len(fs)
      BY <1>0, <1>10, <3>2
    <3> QED
      BY <1>0, <1>4, <3>1, <3>3
  <2> QED
    BY <2>1, <2>2
<1> QED
  BY <1>10, <1>11, <1>13, <1>14

\* The request for what the slave lacks.
LEMMA FailoverFetchSlave ==
  ASSUME PacedFailover, TypeInv, NEW n \in 0..(2 * NumPackets), NEW r \in 0..NumPackets,
         FailoverAt(n, r), ReplayFetchSlave
  PROVE  FailoverInv'
<1>0. MgrInv(n, r) /\ n \in Nat /\ r \in Nat
  BY NumPacketsAssumption DEF FailoverAt
<1>1. mgr.pc = "replay:slave" /\ UNCHANGED << boxes, data, route >>
  BY DEF ReplayFetchSlave
<1>2. PICK u : u = Unprocessed(mgr.m, FirstVersions(slaveLog))
  OBVIOUS
<1>3. \/ /\ u # <<>>
         /\ Request("replay", u)
         /\ mgr' = [ mgr EXCEPT !.pc = "replaying", !.m = <<>>, !.progress = TRUE ]
      \/ u = <<>> /\ mgr' = AfterReplay /\ UNCHANGED logger
  BY <1>2 DEF ReplayFetchSlave
<1>4. /\ u \in Seq(Ids) /\ Len(u) \in Nat
      /\ Firsts(u, r)
      /\ u # <<>> => 2 * (r + Len(u)) - 1 <= n
      /\ u = <<>> /\ mgr.cmd = "stopmaster" => n <= SlaveAt(r)
  BY <1>0, <1>1, <1>2, ReplayPlan
<1>5. CASE u = <<>>
  <2>1. mgr' = AfterReplay /\ UNCHANGED logger
    BY <1>3, <1>5
  <2>2. MgrInv(n, r)' /\ mgr'.pc # "delete:slave"
    BY <1>0, <1>1, <1>4, <1>5, <2>1, AfterReplaying
  <2> QED
    BY <1>1, <2>1, <2>2, ManagerKeeps
<1>6. CASE u # <<>>
  <2>1. /\ Request("replay", u)
        /\ mgr' = [ mgr EXCEPT !.pc = "replaying", !.m = <<>>, !.progress = TRUE ]
    BY <1>3, <1>6
  <2>2. mgr'.pc = "replaying" /\ mgr'.cmd = mgr.cmd /\ mgr'.progress = TRUE
    BY <2>1 DEF TypeInv, TypeOK
  <2>3. UNCHANGED << recorded, masterLog, master, sent, replayed, slaveLog, slave, slaveIn, route >>
    BY <1>1 DEF boxes, data, traffic
  <2>4. MasterInv(n)' /\ SlaveInv(r)'
    BY <1>0, <2>3, PartsKept
  <2>5. Evenly(n, r)'
    <3>1. Promised' = Promised
      BY <1>1, <2>2 DEF Promised
    <3> QED
      BY <2>3, <3>1 DEF FailoverAt, Evenly, FromMaster, FromSlave, SlaveAt
  <2>6. MgrInv(n, r)'
    <3>1. /\ mgr'.cmd \in {"replay", "stopmaster"} /\ route' = "master"
          /\ mgr'.cmd = "stopmaster" => master'.pc = "down"
      BY <1>0, <1>1, <2>2, <2>3 DEF MgrInv
    <3> QED
      BY <2>2, <3>1 DEF MgrInv, Clearing
  <2>7. PipeInv(n, r)'
    <3>1. slaveIn = <<>> /\ slave.pc = "receive" /\ logger.op = "none" /\ logger.requests = <<>>
      BY <1>0, <1>1 DEF MgrInv, SlaveCaughtUp
    <3> DEFINE q == [ op |-> "replay", ids |-> u ]
    <3>2. logger' = [ logger EXCEPT !.requests = Append(<<>>, q) ]
      BY <2>1, <3>1 DEF Request
    <3>3. Append(<<>>, q) = << q >>
      OBVIOUS
    <3>4. logger'.op = "none" /\ logger'.requests = << q >>
      BY <3>1, <3>2, <3>3 DEF TypeInv, TypeOK
    <3>5. ASSUME NEW i \in DOMAIN logger'.requests PROVE i = 1 /\ logger'.requests[i] = q
      BY <3>4
    <3>6. slave'.pc = "receive" /\ slaveIn' = <<>>
      BY <2>3, <3>1
    <3>7. Firsts(slaveIn', Taken(r)')
      <4>1. Len(<<>>) = 0
        BY EmptySeq
      <4>2. Len(slaveIn') = 0
        BY <3>6, <4>1, Zenon
      <4> QED
        BY <4>2 DEF Firsts
    <3>8. q.op = "replay" /\ q.ids = u
      OBVIOUS
    <3> HIDE DEF q
    <3>9. \A i \in DOMAIN logger'.requests : logger'.requests[i].op = "replay" =>
       /\ i = 1 /\ slave'.pc = "receive" /\ slaveIn' = <<>> /\ logger'.op = "none"
       /\ Firsts(logger'.requests[i].ids, r)
       /\ logger'.requests[i].ids # <<>>
       /\ 2 * (r + Len(logger'.requests[i].ids)) - 1 <= n
      <4>1. TAKE i \in DOMAIN logger'.requests
      <4>2. i = 1 /\ logger'.requests[i] = q
        BY <3>5
      <4>3. logger'.requests[i].ids = u
        BY <3>8, <4>2
      <4> QED
        BY <1>4, <1>6, <3>4, <3>6, <4>2, <4>3
    <3> QED
      BY <3>4, <3>6, <3>7, <3>9 DEF PipeInv
  <2>8. FailoverAt(n, r)'
    BY <2>4, <2>5, <2>6, <2>7 DEF FailoverAt
  <2> QED
    BY <2>8 DEF FailoverInv
<1> QED
  BY <1>5, <1>6

\* The manager stops waiting, with or without an answer.
LEMMA FailoverAnswers ==
  ASSUME PacedFailover, TypeInv, NEW n \in 0..(2 * NumPackets), NEW r \in 0..NumPackets,
         FailoverAt(n, r), ReceiveAnswer \/ StopWaiting
  PROVE  FailoverInv'
<1>0. MgrInv(n, r) /\ n \in Nat /\ r \in Nat
  BY NumPacketsAssumption DEF FailoverAt
<1>1. /\ mgr.pc \in {"replaying", "deleting"} /\ GoOn
      /\ UNCHANGED << boxes, data, rounds, route >>
  BY DEF ReceiveAnswer, StopWaiting, AwaitsAnswer
<1>2. logger'.op = logger.op /\ logger'.work = logger.work /\ logger'.requests = logger.requests
  <2>1. CASE ReceiveAnswer
    <3>1. logger' = [ logger EXCEPT !.answers = @ - 1 ]
      BY <2>1 DEF ReceiveAnswer
    <3> QED
      BY <3>1 DEF TypeInv, TypeOK
  <2>2. CASE StopWaiting
    BY <2>2 DEF StopWaiting
  <2> QED
    BY <2>1, <2>2
<1>3. MgrInv(n, r)' /\ mgr'.pc # "delete:slave"
  <2>1. CASE mgr.pc = "replaying"
    <3>1. mgr' = AfterReplay /\ mgr.progress = TRUE
      BY <1>0, <1>1, <2>1 DEF GoOn, MgrInv
    <3> QED
      BY <1>0, <1>1, <2>1, <3>1, AfterReplaying
  <2>2. CASE mgr.pc = "deleting"
    <3>1. mgr' = [ mgr EXCEPT !.pc = "end" ]
      BY <1>1, <2>2 DEF GoOn
    <3>2. mgr'.pc = "end" /\ mgr'.cmd = mgr.cmd /\ mgr'.progress = mgr.progress
      BY <3>1 DEF TypeInv, TypeOK
    <3>3. /\ mgr.cmd = "stopmaster" /\ master.pc = "down" /\ route = "master"
          /\ mgr.progress = FALSE => n <= SlaveAt(r)
      BY <1>0, <2>2 DEF MgrInv, Clearing
    <3>4. SlaveAt(r)' = SlaveAt(r) /\ master' = master /\ route' = route
      BY <1>1 DEF SlaveAt, boxes, traffic
    <3>5. mgr'.progress = FALSE => n <= SlaveAt(r)'
      BY <3>2, <3>3, <3>4
    <3> QED
      BY <3>2, <3>3, <3>4, <3>5 DEF MgrInv, Clearing
  <2> QED
    BY <1>1, <2>1, <2>2
<1>4. UNCHANGED << recorded, masterLog, master, sent, replayed, slaveLog, slave, slaveIn >>
  BY <1>1 DEF boxes, data, traffic
<1>5. MasterInv(n)' /\ SlaveInv(r)'
  BY <1>0, <1>4, PartsKept
<1>6. PipeInv(n, r)'
  BY <1>2, <1>4 DEF FailoverAt, PipeInv, Taken, OnTheWay
<1>7. Evenly(n, r)'
  <2>1. Promised' = Promised
    BY <1>1, <1>3 DEF Promised
  <2> QED
    BY <1>4, <2>1 DEF FailoverAt, Evenly, FromMaster, FromSlave, SlaveAt
<1>8. FailoverAt(n, r)'
  BY <1>3, <1>5, <1>6, <1>7 DEF FailoverAt
<1> QED
  BY <1>8 DEF FailoverInv

\* The two lists begin with the same id, so both loggers delete the same
\* number of ids.
LEMMA FailoverClearPlan ==
  ASSUME PacedFailover, TypeInv, NEW n \in 0..(2 * NumPackets), NEW r \in 0..NumPackets,
         FailoverAt(n, r), ClearFetchSlave
  PROVE  FailoverInv'
<1>0. /\ MgrInv(n, r) /\ n \in Nat /\ r \in Nat
      /\ masterLog \in Seq(Ids) /\ Len(masterLog) \in Nat
      /\ slaveLog \in Seq(Ids) /\ Len(slaveLog) \in Nat
      /\ FromSlave(r) \in Int
  <2>1. n \in Nat /\ r \in Nat
    BY NumPacketsAssumption
  <2> QED
    BY <2>1, FailoverTypes DEF FailoverAt
<1>1. /\ mgr.pc = "clear:slave" /\ UNCHANGED << boxes, data, logger, rounds, route >>
      /\ mgr.m = masterLog
  BY <1>0 DEF ClearFetchSlave, MgrInv
<1> DEFINE plan == ClearPlan(masterLog, slaveLog)
<1>2. mgr' = [ mgr EXCEPT !.pc = "delete:master", !.packets = plan.packets,
                          !.fromMaster = plan.fromMaster, !.fromSlave = plan.fromSlave,
                          !.progress = @ \/ plan.packets # <<>> ]
  BY <1>1 DEF ClearFetchSlave
<1>3. \A i \in 1..Len(masterLog) : i <= Len(slaveLog) => masterLog[i] = slaveLog[i]
  <2>1. SUFFICES ASSUME NEW i \in 1..Len(masterLog), i <= Len(slaveLog)
                 PROVE  masterLog[i] = slaveLog[i]
    OBVIOUS
  <2>2. FromMaster(n) = n - Len(masterLog) /\ FromSlave(r) = SlaveAt(r) - Len(slaveLog) + 0
    BY <1>1 DEF FromMaster, FromSlave, Promised
  <2>3. IF FromSlave(r) <= n THEN FromMaster(n) = FromSlave(r) ELSE FromMaster(n) = n
    BY DEF FailoverAt, Evenly
  <2>4. PICK d \in Int : d = FromMaster(n)
    BY <1>0, <2>2
  <2>5. d = n - Len(masterLog) /\ d = SlaveAt(r) - Len(slaveLog)
    <3>1. Len(masterLog) # 0
      BY <1>0
    <3>2. FromMaster(n) # n
      BY <1>0, <2>2, <3>1
    <3>3. FromMaster(n) = FromSlave(r)
      BY <2>3, <3>2
    <3>4. SlaveAt(r) \in Nat
      BY <1>0, FailoverTypes
    <3> QED
      BY <1>0, <2>2, <2>4, <3>3, <3>4
  <2>6. Run(masterLog, d) /\ Run(slaveLog, d)
    BY <2>5 DEF FailoverAt, MasterInv, SlaveInv
  <2>7. i \in 1..Len(slaveLog)
    BY <1>0, <2>1
  <2>8. /\ masterLog[i] \in StoredIds /\ Pos(masterLog[i]) = d + i
        /\ slaveLog[i] \in StoredIds /\ Pos(slaveLog[i]) = d + i
    BY <2>6, <2>7 DEF Run
  <2> QED
    BY <2>8, PosInjective
<1>4. plan.fromMaster = plan.fromSlave /\ plan.fromSlave <= Len(slaveLog)
  BY <1>0, <1>3, ClearPlanAligned
<1> HIDE DEF plan
<1>5. /\ mgr'.pc = "delete:master" /\ mgr'.cmd = mgr.cmd
      /\ mgr'.fromMaster = plan.fromMaster /\ mgr'.fromSlave = plan.fromSlave
      /\ mgr'.progress = (mgr.progress \/ plan.packets # <<>>)
  BY <1>2 DEF TypeInv, TypeOK
<1>6. mgr'.progress = FALSE => mgr.progress = FALSE
  <2>1. mgr.progress \in BOOLEAN
    BY DEF TypeInv, TypeOK
  <2> QED
    BY <1>5, <2>1, Zenon
<1>7. /\ mgr.cmd = "stopmaster" /\ master.pc = "down" /\ route = "master"
      /\ mgr.progress = FALSE => n <= SlaveAt(r)
  BY <1>0, <1>1 DEF MgrInv, Clearing
<1>8. SlaveAt(r)' = SlaveAt(r) /\ master' = master /\ route' = route /\ slaveLog' = slaveLog
  BY <1>1 DEF SlaveAt, boxes, data, traffic
<1>9. mgr'.progress = FALSE => n <= SlaveAt(r)'
  BY <1>6, <1>7, <1>8
<1>10. mgr'.fromMaster = mgr'.fromSlave /\ mgr'.fromSlave <= Len(slaveLog')
  BY <1>4, <1>5, <1>8
<1>11. MgrInv(n, r)'
  BY <1>5, <1>7, <1>8, <1>9, <1>10 DEF MgrInv, Clearing
<1> QED
  BY <1>1, <1>5, <1>11, ManagerKeeps

\* The master's list loses as many ids as the slave's will, or all it has.
LEMMA FailoverDeleteMaster ==
  ASSUME PacedFailover, TypeInv, NEW n \in 0..(2 * NumPackets), NEW r \in 0..NumPackets,
         FailoverAt(n, r), DeleteFromMaster
  PROVE  FailoverInv'
<1>0. /\ MgrInv(n, r) /\ n \in Nat /\ r \in Nat
      /\ masterLog \in Seq(Ids) /\ Len(masterLog) \in Nat /\ Len(slaveLog) \in Nat
      /\ FromSlave(r) \in Int /\ SlaveAt(r) \in Nat
  <2>1. n \in Nat /\ r \in Nat
    BY NumPacketsAssumption
  <2> QED
    BY <2>1, FailoverTypes DEF FailoverAt
<1>1. /\ mgr.pc = "delete:master" /\ masterLog' = DropFirst(masterLog, mgr.fromMaster)
      /\ mgr' = [ mgr EXCEPT !.pc = "delete:slave" ]
      /\ UNCHANGED << boxes, packets, slaveIn, slaveLog, logger, rounds, route >>
  BY DEF DeleteFromMaster
<1>2. /\ mgr'.pc = "delete:slave" /\ mgr'.cmd = mgr.cmd /\ mgr'.progress = mgr.progress
      /\ mgr'.fromSlave = mgr.fromSlave
  BY <1>1 DEF TypeInv, TypeOK
<1>3. PICK f \in Nat : f = mgr.fromMaster /\ f = mgr.fromSlave /\ f <= Len(slaveLog)
  BY <1>0, <1>1 DEF MgrInv, TypeInv, TypeOK
<1>4. PICK d \in Nat : d = n - Len(masterLog)
  <2>1. Len(masterLog) <= n
    BY DEF FailoverAt, MasterInv
  <2>2. n - Len(masterLog) \in Nat
    BY <1>0, <2>1
  <2> QED
    BY <2>2
<1>5. Run(masterLog, d) /\ d + Len(masterLog) = n /\ FromMaster(n) = d
  BY <1>0, <1>4 DEF FailoverAt, MasterInv, FromMaster
<1>6. PICK a \in Nat : IF f <= Len(masterLog) THEN a = f ELSE a = Len(masterLog)
  BY <1>0
<1>7. /\ Len(masterLog') = Len(masterLog) - a
      /\ Run(masterLog', d + a)
  <2>1. masterLog' = DropFirst(masterLog, f)
    BY <1>1, <1>3
  <2>2. /\ Len(DropFirst(masterLog, f)) = Len(masterLog) - a
        /\ Run(DropFirst(masterLog, f), d + a)
    BY <1>0, <1>5, <1>6, RunDrop
  <2> QED
    BY <2>1, <2>2
<1>8. n - Len(masterLog') = d + a /\ Len(masterLog') <= n
  BY <1>0, <1>5, <1>6, <1>7
<1>9. UNCHANGED << recorded, master, sent, replayed, slave, slaveLog, slaveIn, logger, route >>
  BY <1>1 DEF boxes, traffic
<1>10. MasterInv(n)'
  <2>1. Run(masterLog', n - Len(masterLog'))
    BY <1>7, <1>8
  <2> QED
    BY <1>8, <1>9, <2>1 DEF FailoverAt, MasterInv
<1>11. SlaveInv(r)' /\ PipeInv(n, r)'
  BY <1>0, <1>9, PartsKept
<1>12. /\ mgr.cmd = "stopmaster" /\ master.pc = "down" /\ route = "master"
       /\ mgr.progress = FALSE => n <= SlaveAt(r)
  BY <1>0, <1>1 DEF MgrInv, Clearing
<1>13. SlaveAt(r)' = SlaveAt(r)
  BY <1>9 DEF SlaveAt
<1>14. Evenly(n, r)'
  <2>1. FromSlave(r) = SlaveAt(r) - Len(slaveLog) + 0
    BY <1>1 DEF FromSlave, Promised
  <2>2. FromSlave(r)' = SlaveAt(r) - Len(slaveLog) + f
    BY <1>2, <1>3, <1>9, <1>13 DEF FromSlave, Promised
  <2>3. FromMaster(n)' = d + a
    BY <1>8 DEF FromMaster
  <2>4. IF FromSlave(r) <= n THEN d = FromSlave(r) ELSE d = n
    BY <1>5 DEF FailoverAt, Evenly
  <2>5. FromSlave(r)' <= SlaveAt(r)
    BY <1>0, <1>3, <2>2
  <2>6. PICK e \in Int : e = FromSlave(r)
    BY <1>0
  <2>7. FromSlave(r)' = e + f
    BY <1>0, <1>3, <2>1, <2>2, <2>6
  <2>8. IF e + f <= n THEN d + a = e + f ELSE d + a = n
    BY SMTT(30), <1>0, <1>3, <1>5, <1>6, <2>4, <2>6
  <2>9. FromMaster(n)' = IF FromSlave(r)' <= n THEN FromSlave(r)' ELSE n
    BY <2>3, <2>7, <2>8
  <2> QED
    BY <1>9, <1>12, <1>13, <2>5, <2>9 DEF Evenly
<1>15. MgrInv(n, r)'
  <2>1. mgr'.progress = FALSE => n <= SlaveAt(r)'
    BY <1>2, <1>12, <1>13
  <2> QED
    BY <1>2, <1>9, <1>12, <2>1 DEF MgrInv, Clearing
<1>16. FailoverAt(n, r)'
  BY <1>10, <1>11, <1>14, <1>15 DEF FailoverAt
<1> QED
  BY <1>16 DEF FailoverInv

\* The slave's list loses the ids that were promised.
LEMMA FailoverDeleteSlave ==
  ASSUME PacedFailover, TypeInv, NEW n \in 0..(2 * NumPackets), NEW r \in 0..NumPackets,
         FailoverAt(n, r), DeleteFromSlave
  PROVE  FailoverInv'
<1>0. /\ MgrInv(n, r) /\ n \in Nat /\ r \in Nat
      /\ slaveLog \in Seq(Ids) /\ Len(slaveLog) \in Nat
      /\ FromSlave(r) \in Int /\ SlaveAt(r) \in Nat
  <2>1. n \in Nat /\ r \in Nat
    BY NumPacketsAssumption
  <2> QED
    BY <2>1, FailoverTypes DEF FailoverAt
<1>1. /\ mgr.pc = "delete:slave" /\ slaveLog' = DropFirst(slaveLog, mgr.fromSlave)
      /\ mgr' = [ mgr EXCEPT !.pc = IF mgr.packets # <<>> THEN "deleting" ELSE "end",
                             !.m = <<>>, !.packets = <<>> ]
      /\ UNCHANGED << boxes, packets, masterLog, slaveIn, rounds, route >>
  BY DEF DeleteFromSlave
<1>2. mgr'.pc \in {"deleting", "end"} /\ mgr'.cmd = mgr.cmd /\ mgr'.progress = mgr.progress
  BY <1>1 DEF TypeInv, TypeOK
<1>3. PICK f \in Nat : f = mgr.fromSlave
  BY DEF TypeInv, TypeOK
<1>4. FromSlave(r) = SlaveAt(r) - Len(slaveLog) + f /\ FromSlave(r) <= SlaveAt(r)
  BY <1>1, <1>3 DEF FromSlave, Promised, FailoverAt, Evenly
<1>5. f <= Len(slaveLog)
  BY <1>0, <1>4
<1>6. PICK e \in Nat : e = SlaveAt(r) - Len(slaveLog)
  <2>1. Len(slaveLog) <= SlaveAt(r)
    BY DEF FailoverAt, SlaveInv
  <2>2. SlaveAt(r) - Len(slaveLog) \in Nat
    BY <1>0, <2>1
  <2> QED
    BY <2>2
<1>7. Run(slaveLog, e) /\ e + Len(slaveLog) = SlaveAt(r)
  BY <1>0, <1>6 DEF FailoverAt, SlaveInv
<1>8. /\ Len(slaveLog') = Len(slaveLog) - f
      /\ Run(slaveLog', e + f)
  <2>1. slaveLog' = DropFirst(slaveLog, f)
    BY <1>1, <1>3
  <2>2. IF f <= Len(slaveLog) THEN f = f ELSE f = Len(slaveLog)
    BY <1>5
  <2>3. /\ Len(DropFirst(slaveLog, f)) = Len(slaveLog) - f
        /\ Run(DropFirst(slaveLog, f), e + f)
    BY <1>0, <1>5, <1>7, RunDrop
  <2> QED
    BY <2>1, <2>3
<1>9. UNCHANGED << recorded, masterLog, master, sent, replayed, slave, slaveIn, route >>
  BY <1>1 DEF boxes, traffic
<1>10. SlaveAt(r)' = SlaveAt(r)
  BY <1>9 DEF SlaveAt
<1>11. SlaveAt(r) - Len(slaveLog') = e + f /\ Len(slaveLog') <= SlaveAt(r)
  BY <1>0, <1>5, <1>7, <1>8
<1>12. SlaveInv(r)'
  <2>1. Run(slaveLog', SlaveAt(r) - Len(slaveLog'))
    BY <1>8, <1>11
  <2> QED
    BY <1>9, <1>10, <1>11, <2>1 DEF FailoverAt, SlaveInv
<1>13. MasterInv(n)'
  BY <1>0, <1>9, PartsKept
<1>14. Evenly(n, r)'
  <2>1. FromSlave(r)' = SlaveAt(r) - Len(slaveLog') + 0
    BY <1>2, <1>10 DEF FromSlave, Promised
  <2>2. FromSlave(r)' = FromSlave(r)
    BY <1>0, <1>4, <1>8, <2>1
  <2>3. FromMaster(n)' = FromMaster(n)
    BY <1>9 DEF FromMaster
  <2> QED
    BY <1>9, <1>10, <2>2, <2>3 DEF FailoverAt, Evenly
<1>15. MgrInv(n, r)'
  <2>1. /\ mgr.cmd = "stopmaster" /\ master.pc = "down" /\ route = "master"
        /\ mgr.progress = FALSE => n <= SlaveAt(r)
    BY <1>0, <1>1 DEF MgrInv, Clearing
  <2>2. mgr'.progress = FALSE => n <= SlaveAt(r)'
    BY <1>2, <1>10, <2>1
  <2> QED
    BY <1>2, <1>9, <2>1, <2>2 DEF MgrInv, Clearing
<1>16. PipeInv(n, r)'
  <2>1. CASE UNCHANGED logger
    BY <1>0, <1>9, <2>1, PartsKept
  <2>2. CASE Request("delete", mgr.packets)
    <3> DEFINE q == [ op |-> "delete", ids |-> mgr.packets ]
               Requests == [ op : {"replay", "delete"}, ids : Lists ]
    <3>1. logger' = [ logger EXCEPT !.requests = Append(@, q) ]
      BY <2>2 DEF Request
    <3>2. /\ logger'.op = logger.op /\ logger'.work = logger.work
          /\ logger'.requests = Append(logger.requests, q)
      BY <3>1 DEF TypeInv, TypeOK
    <3>3. q \in Requests /\ q.op = "delete" /\ logger.requests \in Seq(Requests)
      BY DEF TypeInv, TypeOK
    <3> HIDE DEF q, Requests
    <3>4. /\ Len(logger.requests) \in Nat /\ DOMAIN logger.requests = 1..Len(logger.requests)
          /\ DOMAIN logger'.requests = 1..(Len(logger.requests) + 1)
          /\ \A i \in 1..Len(logger.requests) : logger'.requests[i] = logger.requests[i]
          /\ logger'.requests[Len(logger.requests) + 1] = q
      BY <3>2, <3>3, AppendProperties, LenProperties
    <3>5. ASSUME NEW i \in DOMAIN logger'.requests, logger'.requests[i].op = "replay"
          PROVE  i \in DOMAIN logger.requests /\ logger'.requests[i] = logger.requests[i]
      <4>1. logger'.requests[i] # q
        BY <3>3, <3>5
      <4>2. i \in 1..(Len(logger.requests) + 1) /\ i # Len(logger.requests) + 1
        BY <3>4, <4>1
      <4>3. i \in 1..Len(logger.requests)
        BY <3>4, <4>2
      <4> QED
        BY <3>4, <4>3
    <3> QED
      BY <1>9, <3>2, <3>5 DEF FailoverAt, PipeInv, Taken, OnTheWay
  <2> QED
    BY <2>1, <2>2 DEF DeleteFromSlave
<1>17. FailoverAt(n, r)'
  BY <1>12, <1>13, <1>14, <1>15, <1>16 DEF FailoverAt
<1> QED
  BY <1>17 DEF FailoverInv

\* The manager's side of a step.
LEMMA FailoverManager ==
  ASSUME PacedFailover, TypeInv, NEW n \in 0..(2 * NumPackets), NEW r \in 0..NumPackets,
         FailoverAt(n, r), TsaCommand \/ Manager \/ StopWaiting \/ Reroute
  PROVE  FailoverInv'
BY FailoverRounds, FailoverFetchMaster, FailoverFetchSlave, FailoverAnswers,
   FailoverClearPlan, FailoverDeleteMaster, FailoverDeleteSlave DEF Manager

\* What is left of the waiting requests once the first is taken.
LEMMA OtherRequests ==
  ASSUME TypeInv, logger.requests # <<>>
  PROVE  /\ 1 \in DOMAIN logger.requests /\ Head(logger.requests) = logger.requests[1]
         /\ \A i \in DOMAIN Tail(logger.requests) :
              /\ i + 1 \in DOMAIN logger.requests /\ i + 1 # 1
              /\ Tail(logger.requests)[i] = logger.requests[i + 1]
<1> DEFINE Requests == [ op : {"replay", "delete"}, ids : Lists ]
<1>1. logger.requests \in Seq(Requests)
  BY DEF TypeInv, TypeOK
<1> HIDE DEF Requests
<1>2. /\ Len(logger.requests) \in Nat /\ DOMAIN logger.requests = 1..Len(logger.requests)
      /\ Len(logger.requests) # 0
  BY <1>1, LenProperties, EmptySeq
<1>3. /\ Tail(logger.requests) \in Seq(Requests)
      /\ Len(Tail(logger.requests)) = Len(logger.requests) - 1
      /\ \A i \in 1..(Len(logger.requests) - 1) :
           Tail(logger.requests)[i] = logger.requests[i + 1]
      /\ Head(logger.requests) = logger.requests[1]
  BY <1>1, HeadTailProperties
<1>4. DOMAIN Tail(logger.requests) = 1..(Len(logger.requests) - 1)
  BY <1>3, LenProperties
<1>5. 1 \in DOMAIN logger.requests
  BY <1>2
<1>6. ASSUME NEW i \in 1..(Len(logger.requests) - 1)
      PROVE  i + 1 \in DOMAIN logger.requests /\ i + 1 # 1
  BY <1>2
<1> QED
  BY <1>3, <1>4, <1>5, <1>6

\* The packet logger's steps are no steps of anyone else.
LEMMA LoggerKeeps ==
  ASSUME TypeInv, NEW n \in 0..(2 * NumPackets), NEW r \in 0..NumPackets,
         FailoverAt(n, r), UNCHANGED << boxes, masterLog, slaveLog, mgr, rounds, route >>,
         logger.op # "none" \/ logger.requests # <<>>, PipeInv(n, r)'
  PROVE  FailoverInv'
<1>0. n \in Nat /\ r \in Nat /\ MgrInv(n, r)
  BY NumPacketsAssumption DEF FailoverAt
<1>1. UNCHANGED << recorded, masterLog, master, sent, replayed, slaveLog, slave, mgr, route >>
  BY DEF boxes, traffic
<1>2. MasterInv(n)' /\ SlaveInv(r)' /\ Evenly(n, r)'
  BY <1>0, <1>1, PartsKept
<1>3. mgr.pc \notin {"replay:master", "replay:slave"}
  BY <1>0 DEF MgrInv, SlaveCaughtUp
<1>4. SlaveAt(r)' = SlaveAt(r)
  BY <1>1 DEF SlaveAt
<1>5. MgrInv(n, r)'
  BY <1>0, <1>1, <1>3, <1>4, MgrKeptStill
<1>6. FailoverAt(n, r)'
  BY <1>2, <1>5 DEF FailoverAt
<1> QED
  BY <1>6 DEF FailoverInv

\* The packet of an id to be replayed is still stored, with its first version,
\* so this is the version on the wire.
LEMMA SentAsFirst ==
  ASSUME TypeInv, PacketAvailable, NEW n \in Nat, NEW r \in Nat, FailoverAt(n, r),
         NEW b \in Nat, b = OnTheWay(r) + 1, 2 * b - 1 <= n
  PROVE  /\ b \in Bases /\ StoredVersions(b) # {}
         /\ PacketOnWire(<< b, 1 >>) = << b, 1 >>
<1>0. /\ sent \in 0..NumPackets /\ master.base \in 0..NumPackets /\ master.base <= sent
      /\ n = 2 * master.base \/ n = 2 * master.base - 1
      /\ SlaveAt(r) \in Nat /\ Taken(r) \in Nat /\ Len(slaveIn) \in Nat
      /\ OnTheWay(r) = Taken(r) + Len(slaveIn)
  <2>1. master.pc \in {"receive", "version", "storeNext", "down"}
    BY DEF TypeInv, TypeOK
  <2>2. n = 2 * master.base \/ n = 2 * master.base - 1
    BY <2>1 DEF FailoverAt, MasterInv
  <2>3. master.base <= sent
    BY DEF FailoverAt, MasterInv
  <2>4. OnTheWay(r) = Taken(r) + Len(slaveIn)
    BY DEF OnTheWay
  <2> QED
    BY <2>2, <2>3, <2>4, FailoverTypes
<1>t. /\ Taken(r) \in Nat /\ Len(slaveIn) \in Nat /\ b = Taken(r) + Len(slaveIn) + 1
  BY <1>0
<1>1. b \in 1..sent /\ b \in Bases
  <2>1. b >= 1 /\ 2 * b - 1 <= 2 * sent
    <3>1. b >= 1
      BY <1>t
    <3>2. sent \in Int /\ master.base \in Int /\ master.base <= sent
      BY SMTT(30), <1>0
    <3>a. n = 2 * master.base \/ n = 2 * master.base - 1
      BY <1>0
    <3>3. n <= 2 * master.base
      BY <3>a, <3>2
    <3> QED
      BY <3>1, <3>2, <3>3
  <2>2. sent \in Nat /\ sent <= NumPackets
    BY <1>0, NumPacketsAssumption
  <2>3. b \in 1..sent
    BY <2>1, <2>2
  <2> QED
    BY <2>2, <2>3, NumPacketsAssumption DEF Bases
<1>2. SlaveAt(r) < 2 * b - 1
  <2>1. \/ SlaveAt(r) = 2 * r /\ Taken(r) >= r
        \/ SlaveAt(r) = 2 * r + 1 /\ Taken(r) = r + 1
    BY DEF SlaveAt, Taken
  <2>2. b > Taken(r)
    BY <1>t
  <2>3. CASE SlaveAt(r) = 2 * r /\ Taken(r) >= r
    BY <1>t, <2>2, <2>3
  <2>4. CASE SlaveAt(r) = 2 * r + 1 /\ Taken(r) = r + 1
    BY <1>t, <2>2, <2>4
  <2> QED
    BY <2>1, <2>3, <2>4
<1>3. ~ \E id \in replayed : BaseOf(id) = b
  <2>1. SUFFICES ASSUME NEW id \in replayed, BaseOf(id) = b PROVE FALSE
    OBVIOUS
  <2>2. id \in StoredIds /\ Pos(id) <= SlaveAt(r)
    BY DEF FailoverAt, SlaveInv, UpTo
  <2>3. Pos(id) = 2 * b + VersionOf(id) - 2 /\ VersionOf(id) \in {1, 2}
    BY <2>1, <2>2, StoredIdParts
  <2> QED
    BY SMTT(30), <1>0, <1>2, <2>2, <2>3
<1>4. 1 \in packets[b] /\ packets[b] \in SUBSET {1, 2}
  BY <1>1, <1>3 DEF PacketAvailable, TypeInv, TypeOK
<1> DEFINE I == packets[b]
           c == Cardinality(I)
           id == << b, 1 >>
<1>5. StoredVersions(BaseOf(id)) = I /\ BaseOf(id) = b /\ VersionOf(id) = 1 /\ StoredVersions(b) = I
  BY <1>1 DEF StoredVersions, BaseOf, VersionOf
<1>6. I \in SUBSET (1..2) /\ 1 \in I
  BY <1>4
<1> HIDE DEF I
<1>7. c \in Nat /\ c # 0 /\ IsFiniteSet(I)
  BY <1>6, PositionsFinite
<1>8. Nth(I, 1) = 1
  <2>1. {1} \in SUBSET I /\ \A j \in I : j \in {1} <=> j <= 1
    BY <1>6
  <2>2. Cardinality({1}) = 1
    BY FS_Singleton
  <2>3. I \in SUBSET Nat
    BY <1>6
  <2>4. PICK B : B = {1}
    OBVIOUS
  <2>5. B \in SUBSET I /\ (\A j \in I : j \in B <=> j <= 1) /\ Cardinality(B) = 1
    BY <2>1, <2>2, <2>4
  <2> QED
    BY <1>6, <1>7, <2>3, <2>5, NthIs
<1>9. PacketOnWire(id) = << b, Nth(I, IF 1 < c THEN 1 ELSE c) >>
  BY <1>5 DEF PacketOnWire
<1>10. (IF 1 < c THEN 1 ELSE c) = 1
  BY <1>7
<1>11. PacketOnWire(id) = << b, 1 >>
  BY <1>8, <1>9, <1>10
<1>12. StoredVersions(b) # {}
  BY <1>5, <1>6
<1> QED
  BY <1>1, <1>11, <1>12

\* Nobody's replay is waiting while the logger serves a request.
LEMMA NoReplayWaits ==
  ASSUME NEW n, NEW r, FailoverAt(n, r), logger.op # "none"
  PROVE  \A i \in DOMAIN logger.requests : logger.requests[i].op # "replay"
BY DEF FailoverAt, PipeInv

\* The packet logger's steps on the requests.
LEMMA FailoverRequests ==
  ASSUME TypeInv, NEW n \in 0..(2 * NumPackets), NEW r \in 0..NumPackets,
         FailoverAt(n, r), TakeRequest \/ ReplayRefused \/ SendAnswer \/ DeletePacket
  PROVE  FailoverInv'
<1>0. PipeInv(n, r) /\ n \in Nat /\ r \in Nat
  BY NumPacketsAssumption DEF FailoverAt
<1>a. /\ UNCHANGED << boxes, masterLog, slaveLog, slaveIn, mgr, rounds, route >>
      /\ logger.op # "none" \/ logger.requests # <<>>
  BY DEF TakeRequest, ReplayRefused, SendAnswer, DeletePacket, data
<1>b. Taken(r)' = Taken(r) /\ OnTheWay(r)' = OnTheWay(r) /\ slave' = slave /\ slaveIn' = slaveIn
  BY <1>a DEF Taken, OnTheWay, boxes
<1>c. ASSUME logger.requests # <<>>, logger'.requests = Tail(logger.requests)
      PROVE  \A i \in DOMAIN logger'.requests : logger'.requests[i].op # "replay"
  <2>1. SUFFICES ASSUME NEW i \in DOMAIN logger'.requests, logger'.requests[i].op = "replay" PROVE FALSE
    OBVIOUS
  <2>2. /\ i + 1 \in DOMAIN logger.requests /\ i + 1 # 1
        /\ Tail(logger.requests)[i] = logger.requests[i + 1]
    BY <1>c, OtherRequests
  <2>3. PICK j \in DOMAIN logger.requests : j = i + 1
    BY <2>2
  <2>4. logger.requests[j].op = "replay" /\ j # 1
    BY <1>c, <2>1, <2>2, <2>3
  <2> QED
    BY <1>0, <2>4 DEF PipeInv
<1>1. CASE TakeRequest
  <2> DEFINE q == Head(logger.requests)
  <2>1. /\ logger.op = "none" /\ logger.requests # <<>>
        /\ logger' = [ logger EXCEPT !.op = q.op, !.work = q.ids, !.requests = Tail(@) ]
    BY <1>1 DEF TakeRequest
  <2>2. logger'.op = q.op /\ logger'.work = q.ids /\ logger'.requests = Tail(logger.requests)
    BY <2>1 DEF TypeInv, TypeOK
  <2>3. 1 \in DOMAIN logger.requests /\ q = logger.requests[1]
    BY <2>1, OtherRequests
  <2> HIDE DEF q
  <2>4. \A i \in DOMAIN logger'.requests : logger'.requests[i].op # "replay"
    BY <1>c, <2>1, <2>2
  <2>5. ASSUME logger'.op = "replay"
        PROVE  /\ Firsts(logger'.work, OnTheWay(r))
               /\ logger'.work # <<>> => 2 * (OnTheWay(r) + Len(logger'.work)) - 1 <= n
    <3>1. logger.requests[1].op = "replay"
      BY <2>2, <2>3, <2>5
    <3>2. /\ slave.pc = "receive" /\ slaveIn = <<>>
          /\ Firsts(logger.requests[1].ids, r)
          /\ 2 * (r + Len(logger.requests[1].ids)) - 1 <= n
      BY <1>0, <2>3, <3>1 DEF PipeInv
    <3>3. OnTheWay(r) = r
      <4>1. Len(<<>>) = 0
        BY EmptySeq
      <4>2. Len(slaveIn) = 0
        BY <3>2, <4>1, Zenon
      <4> QED
        BY <1>0, <3>2, <4>2 DEF OnTheWay, Taken
    <3>4. logger'.work = logger.requests[1].ids
      BY <2>2, <2>3
    <3> QED
      BY <3>2, <3>3, <3>4
  <2>6. PipeInv(n, r)'
    BY <1>0, <1>b, <2>4, <2>5 DEF PipeInv
  <2> QED
    BY <1>a, <2>6, LoggerKeeps
<1>2. CASE ReplayRefused
  <2>1. /\ logger.op = "none" /\ logger.requests # <<>>
        /\ logger' = [ logger EXCEPT !.requests = Tail(@), !.answers = @ + 1 ]
    BY <1>2 DEF ReplayRefused
  <2>2. logger'.op = "none" /\ logger'.requests = Tail(logger.requests)
    BY <2>1 DEF TypeInv, TypeOK
  <2>3. \A i \in DOMAIN logger'.requests : logger'.requests[i].op # "replay"
    BY <1>c, <2>1, <2>2
  <2>4. PipeInv(n, r)'
    BY <1>0, <1>b, <2>2, <2>3 DEF PipeInv
  <2> QED
    BY <1>a, <2>4, LoggerKeeps
<1>3. CASE SendAnswer
  <2>1. logger.op # "none" /\ logger' = [ logger EXCEPT !.op = "none", !.answers = @ + 1 ]
    BY <1>3 DEF SendAnswer
  <2>2. logger'.op = "none" /\ logger'.requests = logger.requests
    BY <2>1 DEF TypeInv, TypeOK
  <2>3. \A i \in DOMAIN logger.requests : logger.requests[i].op # "replay"
    BY <2>1, NoReplayWaits
  <2>4. PipeInv(n, r)'
    BY <1>0, <1>b, <2>2, <2>3 DEF PipeInv
  <2> QED
    BY <1>a, <2>4, LoggerKeeps
<1>4. CASE DeletePacket
  <2>1. logger.op = "delete" /\ logger' = [ logger EXCEPT !.work = Tail(@) ]
    BY <1>4 DEF DeletePacket
  <2>2. logger'.op = "delete" /\ logger'.requests = logger.requests
    BY <2>1 DEF TypeInv, TypeOK
  <2>3. \A i \in DOMAIN logger.requests : logger.requests[i].op # "replay"
    BY <2>1, NoReplayWaits
  <2>4. PipeInv(n, r)'
    BY <1>0, <1>b, <2>2, <2>3 DEF PipeInv
  <2> QED
    BY <1>a, <2>4, LoggerKeeps
<1> QED
  BY <1>1, <1>2, <1>3, <1>4

\* One packet goes to the slave, the next of those it lacks.
LEMMA FailoverSend ==
  ASSUME TypeInv, PacketAvailable, NEW n \in 0..(2 * NumPackets), NEW r \in 0..NumPackets,
         FailoverAt(n, r), SendPacket
  PROVE  FailoverInv'
<1>0. /\ PipeInv(n, r) /\ n \in Nat /\ r \in Nat
      /\ slaveIn \in Seq(Ids) /\ Len(slaveIn) \in Nat /\ OnTheWay(r) \in Nat /\ Taken(r) \in Nat
  <2>1. n \in Nat /\ r \in Nat
    BY NumPacketsAssumption
  <2> QED
    BY <2>1, FailoverTypes DEF FailoverAt
<1>1. /\ logger.op = "replay" /\ logger.work # <<>>
      /\ logger' = [ logger EXCEPT !.work = Tail(@) ]
      /\ UNCHANGED << boxes, packets, masterLog, slaveLog, mgr, rounds, route >>
  BY DEF SendPacket
<1>2. logger'.op = "replay" /\ logger'.work = Tail(logger.work) /\ logger'.requests = logger.requests
  BY <1>1 DEF TypeInv, TypeOK
<1>3. /\ logger.work \in Seq(Ids) /\ Len(logger.work) \in Nat /\ Len(logger.work) >= 1
      /\ Head(logger.work) = logger.work[1] /\ Tail(logger.work) \in Seq(Ids)
      /\ Len(Tail(logger.work)) = Len(logger.work) - 1
      /\ \A i \in 1..(Len(logger.work) - 1) : Tail(logger.work)[i] = logger.work[i + 1]
  <2>1. logger.work \in Seq(Ids)
    BY DEF TypeInv, TypeOK, Lists
  <2> QED
    BY <1>1, <2>1, HeadTailProperties, LenProperties, EmptySeq
<1>4. /\ Firsts(logger.work, OnTheWay(r))
      /\ 2 * (OnTheWay(r) + Len(logger.work)) - 1 <= n
  BY <1>0, <1>1 DEF PipeInv
<1>5. PICK b \in Nat : b = OnTheWay(r) + 1
  BY <1>0
<1>6. 2 * b - 1 <= n
  BY SMTT(30), <1>0, <1>3, <1>4, <1>5
<1>7. Head(logger.work) = << b, 1 >>
  <2>1. 1 \in 1..Len(logger.work)
    BY <1>3
  <2> QED
    BY <1>3, <1>4, <1>5, <2>1 DEF Firsts
<1>8. b \in Bases /\ StoredVersions(b) # {} /\ PacketOnWire(<< b, 1 >>) = << b, 1 >>
  BY <1>0, <1>5, <1>6, SentAsFirst
<1>9. slaveIn' = Append(slaveIn, << b, 1 >>)
  <2>1. BaseOf(<< b, 1 >>) = b
    BY DEF BaseOf
  <2> QED
    BY <1>7, <1>8, <2>1 DEF SendPacket
<1>10. << b, 1 >> \in Ids
  BY <1>8 DEF Ids
<1>11. /\ Len(slaveIn') = Len(slaveIn) + 1
       /\ \A i \in 1..Len(slaveIn) : slaveIn'[i] = slaveIn[i]
       /\ slaveIn'[Len(slaveIn) + 1] = << b, 1 >>
  BY <1>0, <1>9, <1>10, AppendProperties
<1>12. slave' = slave /\ Taken(r)' = Taken(r)
  BY <1>1 DEF Taken, boxes
<1>13. OnTheWay(r) = Taken(r) + Len(slaveIn)
  BY DEF OnTheWay
<1>14. OnTheWay(r)' = b
  <2>1. OnTheWay(r)' = Taken(r) + Len(slaveIn')
    BY <1>12 DEF OnTheWay
  <2> QED
    BY <1>0, <1>5, <1>11, <1>13, <2>1
<1>15. Firsts(slaveIn', Taken(r))
  <2>1. ASSUME NEW i \in 1..(Len(slaveIn) + 1) PROVE slaveIn'[i] = << Taken(r) + i, 1 >>
    <3>1. CASE i \in 1..Len(slaveIn)
      BY <1>0, <1>11, <3>1 DEF PipeInv, Firsts
    <3>2. CASE i = Len(slaveIn) + 1
      <4>1. Taken(r) + i = b
        BY <1>0, <1>5, <1>13, <3>2
      <4> QED
        BY <1>11, <3>2, <4>1
    <3> QED
      BY <1>0, <3>1, <3>2
  <2> QED
    BY <1>11, <2>1 DEF Firsts
<1>16. Firsts(logger'.work, b)
  <2>1. ASSUME NEW i \in 1..(Len(logger.work) - 1) PROVE logger'.work[i] = << b + i, 1 >>
    <3>1. i + 1 \in 1..Len(logger.work) /\ OnTheWay(r) + (i + 1) = b + i
      BY SMTT(30), <1>0, <1>3, <1>5
    <3>2. logger.work[i + 1] = << OnTheWay(r) + (i + 1), 1 >>
      BY <1>4, <3>1 DEF Firsts
    <3> QED
      BY <1>2, <1>3, <3>1, <3>2
  <2> QED
    BY <1>2, <1>3, <2>1 DEF Firsts
<1>17. 2 * (b + Len(logger'.work)) - 1 <= n
  BY SMTT(30), <1>0, <1>2, <1>3, <1>4, <1>5
<1>18. \A i \in DOMAIN logger.requests : logger.requests[i].op # "replay"
  BY <1>1, NoReplayWaits
<1>19. PipeInv(n, r)'
  BY <1>2, <1>6, <1>12, <1>14, <1>15, <1>16, <1>17, <1>18 DEF PipeInv
<1> QED
  BY <1>1, <1>19, LoggerKeeps

\* The invariant is inductive, given that packets are available.
LEMMA FailoverStep ==
  PacedFailover => (SafeInv /\ FailoverInv /\ [Next]_vars => FailoverInv')
<1> SUFFICES ASSUME PacedFailover, SafeInv, FailoverInv, [Next]_vars PROVE FailoverInv'
  OBVIOUS
<1>1. TypeInv /\ PacketAvailable
  BY DEF SafeInv
<1>2. PICK n \in 0..(2 * NumPackets), r \in 0..NumPackets : FailoverAt(n, r)
  BY DEF FailoverInv
<1>3. CASE Encap \/ Master \/ MasterFails
  BY <1>1, <1>2, <1>3, FailoverMaster
<1>4. CASE Slave
  BY <1>1, <1>2, <1>4, FailoverSlave
<1>5. CASE TsaCommand \/ Manager \/ StopWaiting \/ Reroute
  BY <1>1, <1>2, <1>5, FailoverManager
<1>6. CASE PacketLogger \/ ReplayRefused
  BY <1>1, <1>2, <1>6, FailoverRequests, FailoverSend DEF PacketLogger
<1>7. CASE UNCHANGED vars
  <2>1. n \in Nat /\ r \in Nat
    BY NumPacketsAssumption
  <2>2. UNCHANGED << recorded, masterLog, master, sent, replayed, slaveLog, slave, slaveIn,
                     logger, mgr, route >>
    BY <1>7 DEF vars
  <2>3. MasterInv(n)' /\ SlaveInv(r)' /\ PipeInv(n, r)' /\ Evenly(n, r)'
    BY <1>2, <2>1, <2>2, PartsKept
  <2>4. MgrInv(n, r)'
    <3>1. MgrInv(n, r)
      BY <1>2 DEF FailoverAt
    <3>2. SlaveAt(r)' = SlaveAt(r)
      BY <2>2 DEF SlaveAt
    <3> QED
      BY <1>1, <2>1, <2>2, <3>1, <3>2, MgrKeptStill
  <2>5. FailoverAt(n, r)'
    BY <2>3, <2>4 DEF FailoverAt
  <2> QED
    BY <2>5 DEF FailoverInv
<1> QED
  BY <1>3, <1>4, <1>5, <1>6, <1>7 DEF Next

\* The invariant holds throughout, with the one of the other theorems.
LEMMA AlwaysFailoverInv == PacedFailover => (Spec => [](SafeInv /\ FailoverInv))
<1> SUFFICES ASSUME PacedFailover PROVE Spec => [](SafeInv /\ FailoverInv)
  OBVIOUS
<1>1. SafeInv /\ FailoverInv /\ [Next]_vars => FailoverInv'
  BY FailoverStep
<1>2. SafeInv /\ [Next]_vars => SafeInv'
  BY SafeInvStep
<1>3. Init => SafeInv /\ FailoverInv
  BY SafeInvInit, FailoverInit
<1> QED
  BY <1>1, <1>2, <1>3, PTL DEF Spec

\* What the invariant says of the two histories and of the master's list.
LEMMA FailoverHolds ==
  ASSUME SafeInv, FailoverInv
  PROVE  NothingLost /\ NothingStranded /\ ReplaysWithPals /\ ReplayedOnce
<1>1. PICK n \in 0..(2 * NumPackets), r \in 0..NumPackets : FailoverAt(n, r)
  BY DEF FailoverInv
<1>2. /\ n \in Nat /\ r \in Nat
      /\ masterLog \in Seq(Ids) /\ Len(masterLog) \in Nat
      /\ slaveLog \in Seq(Ids) /\ Len(slaveLog) \in Nat
      /\ FromSlave(r) \in Int /\ SlaveAt(r) \in Nat
  <2>1. n \in Nat /\ r \in Nat
    BY NumPacketsAssumption
  <2> QED
    BY <2>1, FailoverTypes DEF SafeInv
<1>3. /\ recorded = UpTo(n) /\ replayed = UpTo(SlaveAt(r))
      /\ Len(masterLog) <= n /\ Len(slaveLog) <= SlaveAt(r)
      /\ Run(masterLog, n - Len(masterLog)) /\ Run(slaveLog, SlaveAt(r) - Len(slaveLog))
  BY <1>1 DEF FailoverAt, MasterInv, SlaveInv
<1>4. NothingLost
  <2>1. SUFFICES ASSUME NEW id \in recorded \ replayed PROVE id \in Elements(masterLog)
    BY DEF NothingLost
  <2>2. id \in StoredIds /\ Pos(id) \in Nat /\ Pos(id) <= n /\ SlaveAt(r) < Pos(id)
    <3>1. id \in StoredIds /\ Pos(id) <= n /\ ~ (Pos(id) <= SlaveAt(r))
      BY <1>3 DEF UpTo
    <3>2. Pos(id) \in Nat
      BY <3>1, StoredIdParts
    <3> QED
      BY <1>2, <3>1, <3>2
  <2>3. PICK d \in Nat : d = n - Len(masterLog)
    <3>1. n - Len(masterLog) \in Nat
      BY <1>2, <1>3
    <3> QED
      BY <3>1
  <2>4. d <= SlaveAt(r)
    <3>1. FromSlave(r) <= SlaveAt(r) /\ FromMaster(n) = d
      BY <1>1, <2>3 DEF FailoverAt, Evenly, FromMaster
    <3>2. IF FromSlave(r) <= n THEN d = FromSlave(r) ELSE d = n
      BY <1>1, <3>1 DEF FailoverAt, Evenly
    <3> QED
      BY <1>2, <3>1, <3>2
  <2>5. Run(masterLog, d) /\ d < Pos(id) /\ Pos(id) <= d + Len(masterLog)
    BY <1>2, <1>3, <2>2, <2>3, <2>4
  <2> QED
    BY <1>2, <2>2, <2>5, RunHolds
<1>5. NothingStranded
  <2>1. SUFFICES ASSUME route = "slave", NEW id \in recorded PROVE id \in replayed
    BY DEF NothingStranded
  <2>2. n <= SlaveAt(r)
    BY <1>1, <2>1 DEF FailoverAt, MgrInv
  <2>3. id \in StoredIds /\ Pos(id) <= n
    BY <1>3 DEF UpTo
  <2>4. Pos(id) \in Nat
    BY <2>3, StoredIdParts
  <2>5. Pos(id) <= SlaveAt(r)
    BY <1>2, <2>2, <2>3, <2>4
  <2> QED
    BY <1>3, <2>3, <2>5 DEF UpTo
<1>6. ReplaysWithPals
  BY <1>1 DEF ReplaysWithPals, FailoverAt, SlaveInv
<1>7. ReplayedOnce
  <2>1. SUFFICES ASSUME NEW i \in DOMAIN slaveLog, NEW j \in DOMAIN slaveLog,
                        slaveLog[i] = slaveLog[j]
                 PROVE  i = j
    BY DEF ReplayedOnce
  <2>2. i \in 1..Len(slaveLog) /\ j \in 1..Len(slaveLog)
    BY <1>2, LenProperties
  <2>3. PICK d \in Nat : d = SlaveAt(r) - Len(slaveLog)
    <3>1. SlaveAt(r) - Len(slaveLog) \in Nat
      BY <1>2, <1>3
    <3> QED
      BY <3>1
  <2>4. Pos(slaveLog[i]) = d + i /\ Pos(slaveLog[j]) = d + j
    BY <1>3, <2>2, <2>3 DEF Run
  <2>5. d + i = d + j
    BY <2>1, <2>4
  <2> QED
    BY <2>2, <2>5
<1> QED
  BY <1>4, <1>5, <1>6, <1>7

\* What the master recorded and the slave did not stays in the master's list: the
\* DeleteFirst requests of the clears never take it, nor do failures.
THEOREM FailoverLosesNothing == PacedFailover => (Spec => []NothingLost)
<1> SUFFICES ASSUME PacedFailover PROVE Spec => []NothingLost
  OBVIOUS
<1>1. SafeInv /\ FailoverInv => NothingLost
  BY FailoverHolds
<1>2. Spec => [](SafeInv /\ FailoverInv)
  BY AlwaysFailoverInv
<1> QED
  BY <1>1, <1>2, PTL

\* The chains are routed to the slave only when it has recorded all the master
\* has: the last round finds nothing left on the wire, in the logger or with the
\* master.
THEOREM FailoverStrandsNothing == PacedFailover => (Spec => []NothingStranded)
<1> SUFFICES ASSUME PacedFailover PROVE Spec => []NothingStranded
  OBVIOUS
<1>1. SafeInv /\ FailoverInv => NothingStranded
  BY FailoverHolds
<1>2. Spec => [](SafeInv /\ FailoverInv)
  BY AlwaysFailoverInv
<1> QED
  BY <1>1, <1>2, PTL

\* A replayed packet's determinants are still in the master's list when the slave
\* asks for them, however many rounds and clears went before.
THEOREM FailoverFindsPals == PacedFailover => (Spec => []ReplaysWithPals)
<1> SUFFICES ASSUME PacedFailover PROVE Spec => []ReplaysWithPals
  OBVIOUS
<1>1. SafeInv /\ FailoverInv => ReplaysWithPals
  BY FailoverHolds
<1>2. Spec => [](SafeInv /\ FailoverInv)
  BY AlwaysFailoverInv
<1> QED
  BY <1>1, <1>2, PTL

\* No packet is replayed twice: a later round computes what is missing from lists
\* of which both have lost their beginnings, and asks for nothing that was taken.
THEOREM FailoverReplaysOnce == PacedFailover => (Spec => []ReplayedOnce)
<1> SUFFICES ASSUME PacedFailover PROVE Spec => []ReplayedOnce
  OBVIOUS
<1>1. SafeInv /\ FailoverInv => ReplayedOnce
  BY FailoverHolds
<1>2. Spec => [](SafeInv /\ FailoverInv)
  BY AlwaysFailoverInv
<1> QED
  BY <1>1, <1>2, PTL
===============================================================================
