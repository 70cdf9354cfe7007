------------------------------- MODULE Recovery -------------------------------
(***************************************************************************)
(* Record, replay and clear for one master/slave pair of middleboxes.      *)
(*                                                                         *)
(*   encap     packetIdEncap.cc      stamps a packet and stores version 1  *)
(*   master    mb6.click             records determinants and version 2    *)
(*   loggers   det_logger_server.cc, packets_logger_server.cc              *)
(*   manager   cleanupManagerServer.cc, driven by the TSA's commands       *)
(*   slave     mb7.click             replays what the packet logger sends  *)
(*                                                                         *)
(* A request to a determinant logger, or to store a packet, is one step    *)
(* here: the caller blocks until the answer is in (client.cc               *)
(* sendMsgAndWait), and DetLoggerServer.tla shows that the determinant     *)
(* logger's handlers are equivalent to such steps. The manager's requests  *)
(* to the packet logger take as long as the slave takes to read, so they   *)
(* have steps of their own, and the manager may stop waiting for them.     *)
(* Everything between two requests of an element touches its own state     *)
(* only, so it is part of the step of the request.                         *)
(***************************************************************************)
EXTENDS PacketLists

CONSTANTS
  NumPackets,     \* packets the traffic source sends (a bound)
  MaxRounds,      \* replay and clear rounds the manager starts (a bound)
  QueueCapacity,  \* packets the replay connection buffers before a send blocks
  Commands,       \* the TSA commands of this instance
  SlaveKeepsUp,   \* TRUE: a round begins only when the slave has caught up
  MasterIsLast,   \* TRUE: the master is the last middlebox of its policy chain
  LossyReplay,    \* TRUE: the packet logger may fail to connect to the slave
  LateAnswers,    \* TRUE: the packet logger may need longer than the manager waits
  MasterMayFail,  \* TRUE: the master may stop for good at any moment
  StopOnFailure   \* TRUE: "stopmaster" is given only once the master failed

AllCommands == {"replay", "clear", "r&c", "stopmaster"}

ASSUME NumPacketsAssumption == NumPackets \in Nat
ASSUME MaxRoundsAssumption == MaxRounds \in Nat
ASSUME QueueCapacityAssumption == QueueCapacity \in Nat
ASSUME CommandsAssumption == Commands \subseteq AllCommands
ASSUME SwitchesAssumption ==
  {SlaveKeepsUp, MasterIsLast, LossyReplay, LateAnswers, MasterMayFail,
   StopOnFailure} \subseteq BOOLEAN

VARIABLES
  sent,       \* packets 1..sent left the encap element
  packets,    \* packet logger: the stored versions of each base
  logger,     \* packet logger: the manager's connection and the thread that serves it
  master,     \* the master's Click thread: its step and the last base it finished
  masterLog,  \* determinant logger h5: ids recorded for the master, in order
  slaveIn,    \* the replay connection: ids on their way to the slave
  slave,      \* the slave's Click thread: its step, its packet and its determinants
  slaveLog,   \* determinant logger h8: ids recorded for the slave, in order
  mgr,        \* the cleanup manager's thread
  rounds,     \* rounds the manager started so far
  route,      \* "master" until "stopmaster" is answered, "slave" once the TSA
              \* rerouted the policy chains, "answered" in between
  recorded,   \* history: every id the master recorded
  replayed    \* history: every id the slave recorded

vars == << sent, packets, logger, master, masterLog, slaveIn, slave, slaveLog, mgr,
           rounds, route, recorded, replayed >>
traffic == << sent, master, recorded >>
slaveSide == << slave, slaveLog, replayed >>
boxes == << traffic, slave, replayed >>
data == << packets, masterLog, slaveLog, slaveIn >>
control == << mgr, rounds, route, logger >>

Bases == 1..NumPackets
\* The encap element stamps version 1 and an element adds one to what it gets,
\* so no id goes beyond version 3: the slave's second record of a replayed
\* version 2.
\* What has no readable id gets id 0, then 1.
NoId == <<0, 0>>
Ids == Bases \X (1..3) \union {NoId, <<0, 1>>}

Idle == [ pc |-> "idle", cmd |-> "none", m |-> <<>>, fromMaster |-> 0, fromSlave |-> 0,
          packets |-> <<>>, progress |-> FALSE ]
IdleLogger == [ op |-> "none", work |-> <<>>, requests |-> <<>>, answers |-> 0 ]

Init ==
  /\ sent = 0
  /\ packets = [ b \in Bases |-> {} ]
  /\ logger = IdleLogger
  /\ master = [ pc |-> "receive", base |-> 0 ]
  /\ masterLog = <<>>
  /\ slaveIn = <<>>
  /\ slave = [ pc |-> "receive", id |-> NoId, pals |-> FALSE ]
  /\ slaveLog = <<>>
  /\ mgr = Idle
  /\ rounds = 0
  /\ route = "master"
  /\ recorded = {}
  /\ replayed = {}

-----------------------------------------------------------------------------
(* The traffic: the encap element and the master's chain of elements. *)

\* PacketIdEncap::smaction: the new id is stored before the packet goes on to
\* the master. Packets reach the master in this order. Once the policy chains
\* are rerouted no packet reaches the old master (bound: it is not followed).
Encap ==
  /\ sent < NumPackets
  /\ route # "slave"
  /\ sent' = sent + 1
  /\ packets' = [ packets EXCEPT ![sent + 1] = @ \union {1} ]
  /\ UNCHANGED << master, recorded, masterLog, slaveIn, slaveSide, control >>

RecordForMaster(id) ==
  /\ masterLog' = Append(masterLog, id)
  /\ recorded' = recorded \union {id}

\* pp and dpr: the determinants of the packet as it came in are stored.
MasterStore ==
  /\ master.pc = "receive"
  /\ master.base < sent
  /\ RecordForMaster(<<master.base + 1, 1>>)
  /\ master' = [ pc |-> "version", base |-> master.base + 1 ]
  /\ UNCHANGED << sent, packets, slaveIn, slaveSide, control >>

\* pp1 and ivn: the version goes up and the new version is stored.
MasterNewVersion ==
  /\ master.pc = "version"
  /\ packets' = [ packets EXCEPT ![master.base] = @ \union {2} ]
  /\ master' = [ master EXCEPT !.pc = "storeNext" ]
  /\ UNCHANGED << sent, recorded, masterLog, slaveIn, slaveSide, control >>

\* dpr1: the determinants of the new version are stored.
MasterStoreNext ==
  /\ master.pc = "storeNext"
  /\ RecordForMaster(<<master.base, 2>>)
  /\ master' = [ master EXCEPT !.pc = "receive" ]
  /\ UNCHANGED << sent, packets, slaveIn, slaveSide, control >>

MasterFails ==
  /\ MasterMayFail
  /\ master.pc # "down"
  /\ master' = [ master EXCEPT !.pc = "down" ]
  /\ UNCHANGED << sent, recorded, packets, masterLog, slaveIn, slaveSide, control >>

-----------------------------------------------------------------------------
(* The slave's chain: one replayed packet at a time. *)

\* GET_PALS(master, id): the data of an id and its place in the list come and
\* go together.
HasPals(id) == id \in Elements(masterLog)

RecordForSlave(id) ==
  /\ slaveLog' = Append(slaveLog, id)
  /\ replayed' = replayed \union {id}

\* The slave's pp reads the id below the tag of the policy chain
\* (VLAN_LEVEL_OFFSET 1). The encap element stores packets that carry this tag.
\* The last middlebox of a chain gets and stores them without it, and then the
\* slave finds no third tag and takes the id to be 0.
IdRead(id) == IF MasterIsLast /\ VersionOf(id) = 2 THEN NoId ELSE id

\* Socket and pp: a failed GET_PALS is only printed.
SlaveReceive ==
  /\ slave.pc = "receive"
  /\ slaveIn # <<>>
  /\ LET id == IdRead(Head(slaveIn))
     IN slave' = [ pc |-> "store", id |-> id, pals |-> HasPals(id) ]
  /\ slaveIn' = Tail(slaveIn)
  /\ UNCHANGED << traffic, packets, masterLog, slaveLog, replayed, control >>

\* dpr
SlaveStore ==
  /\ slave.pc = "store"
  /\ RecordForSlave(slave.id)
  /\ slave' = [ slave EXCEPT !.pc = "getPals" ]
  /\ UNCHANGED << traffic, packets, masterLog, slaveIn, control >>

\* pp1 reads the tags, which still hold the id that came in.
SlaveGetPals ==
  /\ slave.pc = "getPals"
  /\ slave' = [ slave EXCEPT !.pc = "storeNext", !.pals = HasPals(slave.id) ]
  /\ UNCHANGED << traffic, packets, masterLog, slaveIn, slaveLog, replayed, control >>

\* ivn and dpr1: a slave stores no new version of the packet.
SlaveStoreNext ==
  /\ slave.pc = "storeNext"
  /\ RecordForSlave(NextVersion(slave.id))
  /\ slave' = [ slave EXCEPT !.pc = "receive", !.pals = FALSE ]
  /\ UNCHANGED << traffic, packets, masterLog, slaveIn, control >>

\* Nothing is on its way to the slave, or still to be served for the manager.
SlaveCaughtUp ==
  /\ slaveIn = <<>> /\ slave.pc = "receive"
  /\ logger.op = "none" /\ logger.requests = <<>>

-----------------------------------------------------------------------------
(***************************************************************************)
(* The cleanup manager. A round is a replay, a clear, or one after the     *)
(* other; replayAndClearPackets and the loop of stopmaster repeat rounds   *)
(* while one of them still found something to replay or delete.            *)
(***************************************************************************)

\* What a round starts with.
FirstStep(cmd) == IF cmd = "clear" THEN "clear:master" ELSE "replay:master"

StartRound(cmd) ==
  /\ rounds < MaxRounds
  /\ SlaveKeepsUp => SlaveCaughtUp
  /\ rounds' = rounds + 1
  /\ mgr' = [ Idle EXCEPT !.pc = FirstStep(cmd), !.cmd = cmd ]

\* A command of the TSA's operator; tsaFE.py waits for the answer before it
\* reads the next one.
TsaCommand ==
  /\ mgr.pc = "idle"
  /\ route = "master"
  /\ \E cmd \in Commands :
       /\ (cmd = "stopmaster" /\ StopOnFailure) => master.pc = "down"
       /\ StartRound(cmd)
  /\ UNCHANGED << boxes, data, logger, route >>

\* replay: the first version of every base the master recorded ...
ReplayFetchMaster ==
  /\ mgr.pc = "replay:master"
  /\ mgr' = [ mgr EXCEPT !.pc = "replay:slave", !.m = FirstVersions(masterLog) ]
  /\ UNCHANGED << boxes, data, logger, rounds, route >>

Request(op, ids) ==
  logger' = [ logger EXCEPT !.requests = Append(@, [ op |-> op, ids |-> ids ]) ]

AfterReplay ==
  IF mgr.cmd = "replay" THEN Idle ELSE [ mgr EXCEPT !.pc = "clear:master", !.m = <<>> ]

\* ... compared with the slave's; what the slave lacks is sent to it.
ReplayFetchSlave ==
  /\ mgr.pc = "replay:slave"
  /\ LET unprocessed == Unprocessed(mgr.m, FirstVersions(slaveLog))
     IN \/ /\ unprocessed # <<>>
           /\ Request("replay", unprocessed)
           /\ mgr' = [ mgr EXCEPT !.pc = "replaying", !.m = <<>>, !.progress = TRUE ]
        \/ /\ unprocessed = <<>>
           /\ mgr' = AfterReplay
           /\ UNCHANGED logger
  /\ UNCHANGED << boxes, data, rounds, route >>

AwaitsAnswer == mgr.pc \in {"replaying", "deleting"}
GoOn == mgr' = IF mgr.pc = "replaying" THEN AfterReplay ELSE [ mgr EXCEPT !.pc = "end" ]

\* The manager takes the next answer of the connection for the one to its last
\* request, and only prints whether it tells of success.
ReceiveAnswer ==
  /\ AwaitsAnswer
  /\ logger.answers > 0
  /\ logger' = [ logger EXCEPT !.answers = @ - 1 ]
  /\ GoOn
  /\ UNCHANGED << boxes, data, rounds, route >>

\* Two seconds without an answer: the request is taken to have failed, and is
\* still served.
StopWaiting ==
  /\ LateAnswers
  /\ AwaitsAnswer
  /\ logger.answers = 0
  /\ GoOn
  /\ UNCHANGED << boxes, data, logger, rounds, route >>

ClearFetchMaster ==
  /\ mgr.pc = "clear:master"
  /\ mgr' = [ mgr EXCEPT !.pc = "clear:slave", !.m = masterLog ]
  /\ UNCHANGED << boxes, data, logger, rounds, route >>

\* Mutant: a round that only replayed packets does not count.
ClearFetchSlaveOnlyDeletions ==
  /\ mgr.pc = "clear:slave"
  /\ LET plan == ClearPlan(mgr.m, slaveLog)
     IN mgr' = [ mgr EXCEPT !.pc = "delete:master", !.packets = plan.packets,
                            !.fromMaster = plan.fromMaster, !.fromSlave = plan.fromSlave,
                            !.progress = plan.packets # <<>> ]
  /\ UNCHANGED << boxes, data, logger, rounds, route >>

\* clearReplayedPackets compares every version of both lists and decides what
\* goes. Only the regular case counts as progress.
ClearFetchSlave ==
  /\ mgr.pc = "clear:slave"
  /\ LET plan == ClearPlan(mgr.m, slaveLog)
     IN mgr' = [ mgr EXCEPT !.pc = "delete:master", !.packets = plan.packets,
                            !.fromMaster = plan.fromMaster, !.fromSlave = plan.fromSlave,
                            !.progress = @ \/ plan.packets # <<>> ]
  /\ UNCHANGED << boxes, data, logger, rounds, route >>

\* Mutant: the request to the master's logger is never sent.
DeleteFromMasterForgotten ==
  /\ mgr.pc = "delete:master"
  /\ mgr' = [ mgr EXCEPT !.pc = "delete:slave" ]
  /\ UNCHANGED << boxes, data, logger, rounds, route >>

\* DeleteFirst on the master's list, as it is by now.
DeleteFromMaster ==
  /\ mgr.pc = "delete:master"
  /\ masterLog' = DropFirst(masterLog, mgr.fromMaster)
  /\ mgr' = [ mgr EXCEPT !.pc = "delete:slave" ]
  /\ UNCHANGED << boxes, packets, slaveIn, slaveLog, logger, rounds, route >>

\* DeleteFirst on the slave's list; then the packets are to be deleted.
DeleteFromSlave ==
  /\ mgr.pc = "delete:slave"
  /\ slaveLog' = DropFirst(slaveLog, mgr.fromSlave)
  /\ \/ mgr.packets # <<>> /\ Request("delete", mgr.packets)
     \/ mgr.packets = <<>> /\ UNCHANGED logger
  /\ mgr' = [ mgr EXCEPT !.pc = IF mgr.packets # <<>> THEN "deleting" ELSE "end",
                         !.m = <<>>, !.packets = <<>> ]
  /\ UNCHANGED << boxes, packets, masterLog, slaveIn, rounds, route >>

\* The end of a round: the answer to the command, or the next step of it.
\* stopmaster goes on until a round found nothing to replay or to delete (the
\* round for the new master that follows concerns the new master's lists).
RoundEnds ==
  /\ mgr.pc = "end"
  /\ IF mgr.cmd = "stopmaster" /\ mgr.progress
     THEN StartRound("stopmaster") /\ UNCHANGED route
     ELSE /\ mgr' = Idle
          /\ route' = IF mgr.cmd = "stopmaster" THEN "answered" ELSE route
          /\ UNCHANGED rounds
  /\ UNCHANGED << boxes, data, logger >>

\* tsaBE.py reroutes the policy chains only after the manager's answer.
Reroute ==
  /\ route = "answered"
  /\ route' = "slave"
  /\ UNCHANGED << boxes, data, logger, mgr, rounds >>

-----------------------------------------------------------------------------
(* The packet logger's thread for the manager's connection. *)

TakeRequest ==
  /\ logger.op = "none"
  /\ logger.requests # <<>>
  /\ LET r == Head(logger.requests)
     IN logger' = [ logger EXCEPT !.op = r.op, !.work = r.ids, !.requests = Tail(@) ]
  /\ UNCHANGED << boxes, data, mgr, rounds, route >>

\* The slave cannot be connected to: nothing is replayed, and the manager counts
\* the packets as replayed.
ReplayRefused ==
  /\ LossyReplay
  /\ logger.op = "none"
  /\ logger.requests # <<>>
  /\ Head(logger.requests).op = "replay"
  /\ logger' = [ logger EXCEPT !.requests = Tail(@), !.answers = @ + 1 ]
  /\ UNCHANGED << boxes, data, mgr, rounds, route >>

StoredVersions(b) == IF b \in Bases THEN packets[b] ELSE {}

\* PacketLoggerServer::getPacket: the packet is rebuilt from the first k stored
\* versions, so its tags are those of the k-th.
PacketOnWire(id) ==
  LET stored == StoredVersions(BaseOf(id))
      k == IF VersionOf(id) < Cardinality(stored) THEN VersionOf(id) ELSE Cardinality(stored)
  IN <<BaseOf(id), Nth(stored, k)>>

\* PacketLoggerServer::processReplayRequest, one packet; a base that is no
\* longer stored is skipped.
SendPacket ==
  /\ logger.op = "replay"
  /\ logger.work # <<>>
  /\ LET id == Head(logger.work)
     IN IF StoredVersions(BaseOf(id)) = {}
        THEN UNCHANGED slaveIn
        ELSE /\ Len(slaveIn) < QueueCapacity
             /\ slaveIn' = Append(slaveIn, PacketOnWire(id))
  /\ logger' = [ logger EXCEPT !.work = Tail(@) ]
  /\ UNCHANGED << boxes, packets, masterLog, slaveLog, mgr, rounds, route >>

\* PacketLoggerServer::deletePacket, one id of the request: a base goes with
\* all its versions unless the id is older than the versions stored.
DeletePacket ==
  /\ logger.op = "delete"
  /\ logger.work # <<>>
  /\ LET id == Head(logger.work)
     IN packets' = IF VersionOf(id) < Cardinality(StoredVersions(BaseOf(id)))
                   THEN packets
                   ELSE [ b \in Bases |-> IF b = BaseOf(id) THEN {} ELSE packets[b] ]
  /\ logger' = [ logger EXCEPT !.work = Tail(@) ]
  /\ UNCHANGED << boxes, masterLog, slaveLog, slaveIn, mgr, rounds, route >>

SendAnswer ==
  /\ logger.op # "none"
  /\ logger.work = <<>>
  /\ logger' = [ logger EXCEPT !.op = "none", !.answers = @ + 1 ]
  /\ UNCHANGED << boxes, data, mgr, rounds, route >>

-----------------------------------------------------------------------------
Master == MasterStore \/ MasterNewVersion \/ MasterStoreNext
Slave == SlaveReceive \/ SlaveStore \/ SlaveGetPals \/ SlaveStoreNext
Manager ==
  \/ ReplayFetchMaster \/ ReplayFetchSlave \/ ReceiveAnswer
  \/ ClearFetchMaster \/ ClearFetchSlave \/ DeleteFromMaster \/ DeleteFromSlave
  \/ RoundEnds
PacketLogger == TakeRequest \/ SendPacket \/ DeletePacket \/ SendAnswer

Next ==
  \/ Encap \/ Master \/ MasterFails
  \/ Slave
  \/ TsaCommand \/ Manager \/ StopWaiting \/ Reroute
  \/ PacketLogger \/ ReplayRefused

Spec == Init /\ [][Next]_vars

\* Threads that can go on do: the kernel schedules the middleboxes', the
\* manager's and the logger's threads, and a blocked send returns once the slave
\* has read. Nobody has to send a packet, to give a command, to fail or to give
\* up waiting.
Fairness ==
  /\ WF_vars(Master) /\ WF_vars(Slave)
  /\ WF_vars(Manager) /\ WF_vars(PacketLogger) /\ WF_vars(Reroute)

FairSpec == Spec /\ Fairness

-----------------------------------------------------------------------------
Lists == Seq(Ids)
MgrSteps == { "idle", "replay:master", "replay:slave", "replaying", "clear:master",
              "clear:slave", "delete:master", "delete:slave", "deleting", "end" }

TypeOK ==
  /\ sent \in 0..NumPackets
  /\ packets \in [Bases -> SUBSET {1, 2}]
  /\ logger \in [ op : {"none", "replay", "delete"}, work : Lists,
                  requests : Seq([ op : {"replay", "delete"}, ids : Lists ]), answers : Nat ]
  /\ master \in [ pc : {"receive", "version", "storeNext", "down"}, base : 0..NumPackets ]
  /\ masterLog \in Lists
  /\ slaveIn \in Lists
  /\ slave \in [ pc : {"receive", "store", "getPals", "storeNext"},
                 id : Ids, pals : BOOLEAN ]
  /\ slaveLog \in Lists
  /\ mgr \in [ pc : MgrSteps, cmd : AllCommands \union {"none"}, m : Lists,
               fromMaster : Nat, fromSlave : Nat, packets : Lists, progress : BOOLEAN ]
  /\ rounds \in 0..MaxRounds
  /\ route \in {"master", "answered", "slave"}
  /\ recorded \in SUBSET Ids
  /\ replayed \in SUBSET Ids

(***************************************************************************)
(* Safety. Where a property needs an assumption on the environment, the    *)
(* run that checks it makes the assumption by its constants.               *)
(***************************************************************************)

\* A packet the slave has not started to replay can still be rebuilt as the
\* encap element sent it: deletePacket never drops the first version of a base
\* no id of which the slave has recorded, whatever the order of the rounds, the
\* slave's pace and the failures of connections and of the master.
PacketAvailable ==
  \A b \in 1..sent : 1 \in packets[b] \/ \E id \in replayed : BaseOf(id) = b

\* The regular case of clearReplayedPackets deletes from the master's list, as
\* long as it is by the time of the deletion, only ids the slave had recorded:
\* the count it deletes by was taken from an older copy of the list.
RegularClear == mgr.pc = "delete:master" /\ mgr.m # <<>> /\ mgr.packets # <<>>

ClearKeepsUnreplayed ==
  [][ RegularClear => Elements(masterLog) \ Elements(masterLog') \subseteq replayed ]_vars

\* What the master recorded and the slave did not is still in the master's
\* list, so a later round can replay it.
NothingLost == recorded \ replayed \subseteq Elements(masterLog)

\* When the policy chains are rerouted the slave has recorded all the master
\* has ("*** all master packets were played and cleared!").
NothingStranded == route = "slave" => recorded \subseteq replayed

\* When the slave takes a packet its determinants are found: the id on the wire
\* is still in the master's list.
ReplaysWithPals == slave.pc = "store" => slave.pals

\* The slave records no id twice: a packet is not replayed again.
ReplayedOnce == \A i, j \in DOMAIN slaveLog : slaveLog[i] = slaveLog[j] => i = j

\* Every packet the slave replays carries an id its pp can read: "it should be 1
\* if the packet has vlan tag for tsa, 0 otherwise" is one setting for all.
ReplayedIdsReadable == NoId \notin replayed

(***************************************************************************)
(* Liveness. stopmaster is answered and the chains are rerouted: the       *)
(* rounds its loop repeats come to an end.                                 *)
(***************************************************************************)
StopAnswered == mgr.cmd = "stopmaster" ~> route = "slave"
=============================================================================
