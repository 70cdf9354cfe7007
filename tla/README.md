# Verification of the fault-tolerance pipeline of FT_Thesis

The program (`src/ft_thesis/src`) makes middleboxes of an emulated SDN network fault tolerant. Every packet
gets an id, the packet and the determinants (PALs) a master middlebox produced for it are logged, and a cleanup
manager replays the logged packets to a slave middlebox and clears what both have processed. When the master
fails, the traffic steering application (TSA) asks the manager to bring the slave up to date and reroutes the
policy chains to it. This directory holds TLA+ models of that pipeline, checked with TLC, and theorems about
them, proved with TLAPS.

## 1. Inventory

Paths are relative to `src/ft_thesis/src`. "Talks to" names calls, messages and shared state.

| component | source | state it keeps | operations | talks to |
|---|---|---|---|---|
| packet id element | `packetIdEncap/` | next sequence number | stamp version 1 of a new base into three VLAN tags, store the packet | packet logger (RPC), then the master |
| master's chain | `newEntities/mb6.click`, `preparePacket/`, `distributePacketRecords/`, `increaseVersionNumber/` | the packet in work | pp, dpr, pp1, ivn, dpr1: record the packet, raise its version, store the version, record it | determinant logger h5, packet logger |
| slave's chain | `newEntities/mb7.click` and the same elements in slave mode | the packet in work and its determinants | the same, but pp fetches the determinants and ivn stores nothing | Socket element, loggers h5 and h8 |
| Socket element | `socket/` | the listening socket, the connection it reads | accept, read by length, push, close | packet logger (a connection per replay request), slave's chain |
| determinant logger | `loggers/tcp_servers/det_logger_server.cc` | per middlebox: the list of recorded ids, and the determinants per id | store, list (first or all versions), getPals, delete the first n | a thread per client host |
| packet logger | `loggers/tcp_servers/packets_logger_server.cc` | per base: the packet and the differences of its versions | store, replay, delete | slave |
| cleanup manager | `loggers/tcp_servers/cleanupManagerServer.cc` | the middleboxes' addresses | replay, clear, replay and clear, stop master | both determinant loggers, packet logger |
| TSA back end | `tsa/tsaBE.py` | policy chains, VLAN ids, policy chain ids; the rules on the switches | add and remove a chain, replace or unregister a middlebox | SDN controller (REST), front ends |
| TSA front end | `tsa/tsaFE.py` | its connection to the back end | the operator's menu | back end, cleanup manager |
| RPC client | `loggers/tcp_clients/client.cc` | one connection per peer | send, wait for an answer (1 s twice) | all servers |
| server framework | `loggers/tcp_servers/asyncServer.cc` | connections, a thread and an epoll instance per client host | accept, dispatch, remove connections and threads | all servers |

What makes each of them correct, and what is hard:

* **Packet id element.** Every element reads the id the packet is stored under, and no two packets share a base. Hard:
  the bits are spread over three tags, the middle one must skip two reserved values, the version shares a tag with
  the sequence number, and numbers start again.
* **Determinant logger.** An id that is listed has its determinants; a lookup of a listed id succeeds; a request
  takes effect at one moment. Hard: the list and the determinants are under different locks, a deletion frees the
  determinants in one critical section and erases the ids in another, and a store holds one lock while it takes
  others.
* **Packet logger.** A packet the slave has not replayed is still there and can be rebuilt in its first version.
  Hard: versions are stored one at a time, deletions come by id while versions may still arrive, and a replay takes
  longer than the manager is ready to wait.
* **Socket element.** The slave gets what was sent, in order, none twice. Hard: connections of later replays wait with
  packets that arrived long ago, and the end of a connection is told from "nothing to read" by a stale `errno`.
* **Cleanup manager.** Nothing the slave has not replayed is forgotten; what is replayed is replayed once, with its
  determinants, in order; the stop command is answered only when the slave has everything. Hard: the two lists are
  read at different times, compared position by position, and deleted from by *count*, while both middleboxes go on
  recording; failed requests look like successful ones.
* **Chains of elements.** Versions go up once per middlebox; the slave asks for the determinants of the id it is
  replaying. Hard: the id's tags are found by position, and the position depends on where a packet was stored.
* **TSA.** The rules take each chain's packets through its middleboxes in order, also after chains were moved, removed
  or installed in part; nothing is left behind. Hard: rules are identified by their match, chains share switches, a
  request may be refused in the middle, and a session outlives its one served command.
* **RPC and servers.** An answer belongs to the request that waits; a host's requests are handled by one thread; closed
  connections go, new ones are served. Hard: answers come late or in part, requests arrive in pieces, threads of
  different hosts remove each other's data.

`PROJECT.json` lists each component with what is and is not modelled, and the hazards of the code at their lines.

## 2. Modules

| module | stands for | built on |
|---|---|---|
| `PacketLists` | what the manager and the determinant logger compute from lists of ids | |
| `ListComparison` | the loops that compute it, one iteration a step, with the code's iterators | `PacketLists` |
| `PacketIds` | the making of ids, their tags with the real widths, and what the middleboxes read and count up | |
| `DetLog` | what the determinant logger promises: an atomic log per middlebox | `PacketLists` |
| `DetLoggerServer` | its threads, locks and critical sections; implements `DetLog` | `PacketLists`, `DetLog` |
| `PacketStore` | what the packet logger promises: an atomic store of versions | `PacketLists` |
| `PacketLoggerServer` | its threads, the map under a mutex, spin locks, and the pointers that outlive the mutex; implements `PacketStore` | `PacketLists`, `PacketStore` |
| `Recovery` | record, replay, clear and failover of a master/slave pair | `PacketLists` |
| `AsyncServer` | the threads of a server: accepting, one thread per host, removals | |
| `RpcConnection` | one connection of a client to a server, request by request | |
| `ClickSocket` | the replay connections and the element that reads them | |
| `PolicyChains` | chains, VLAN ids and flow rules of the TSA's back end | |
| `TrafficSteering` | the sessions of front ends with the back end | `PolicyChains` |
| `*Proofs` | lemmas and theorems | the modules they name |
| `MC*` | the instances TLC checks | |

How they fit together: `DetLoggerServer` and `PacketLoggerServer` show that each logger is an atomic object
(`DetLog`, `PacketStore`); `Recovery` uses them as such. `AsyncServer` shows when the one thing these models
take for granted of the server is true (the requests of a host are handled by one thread); `RpcConnection` what a
client makes of late answers, which `Recovery` has for the manager's connection to the packet logger;
`ClickSocket` that the replay connections are the one queue `Recovery` has (`slaveIn`), as long as no packet arrives
in parts and no connection is kept at its end; `PacketIds` that an id is a base and a version; `PolicyChains` what
`Recovery`'s step `Reroute` does.

### How the state corresponds to the code

*Ids.* The code's 64-bit id is `base << 5 | version`. The models use the pair `<<base, version>>`; `id >> 5` is
`BaseOf`, `id & 31` is `VersionOf`. `PacketIds` works on the bits: `packet.tags` is the VLAN stack from the outermost
tag, `packet.anno` the annotation a Click element reads, `packet.stored` the id in the packet logger's last store.
`MAX_SEQ_NUM` is 2^28, one more than its comment says; this does no harm, since the middle tag of that value is a
reserved one and the number is skipped. The last middlebox of a chain, where the policy chain's tag was stripped,
counts up the middle tag instead of the outer one. Nobody reads the tags afterwards.

*`PacketLists`.* `FirstVersions` is `getProcessedPacketsForFirstVersion`, `Unprocessed` is
`getUnprocessedPacketIds`, `Common` and `Orphans` are `getCommonProcessedPacketIds` and
`setSlaveOrphanPacketIds`, `ClearPlan` is the body of `clearReplayedPackets`: how many ids go from the front of the
master's and of the slave's list, and which packets go. They say *which* positions are kept. `ListComparison` walks
the loops with their vectors, erasing iterators and sets, and its invariants compare the result with the operators.

*`DetLoggerServer`.* `detData`, `progressData` and `owner` are the map of packets, the map of lists and the holders
of the mutexes; `thread` is each server thread's step, request and answer. A critical section that takes no further
lock is one action. `deleteFirstPackets` and the loop that prints the lists after a store hold their locks over
several actions. `"freed"` marks determinants whose memory was given back.

*`PacketLoggerServer`.* `packetsVersions` is the map from bases to pointers; `heap` is what the memory at an address
was allocated for, or `Freed`. An insertion, a lookup and an erasure hold the map's mutex and lock nothing else: each
is one step. Taking the packet's spin lock, and the work under it with its release, are two further steps (`lock`
in `heap` holds the owner). `thread` is each server thread's step, the ids it has still to do, and the pointer it
looked up. `deletePacket` frees the versions, frees the packet and erases the entry in three steps, and memory that
was freed may be allocated for another base. `requested` counts what the storing clients sent; `answered` and
`deleted` are histories. A store that finds its packet freed writes to memory that is no longer its own: the model
keeps the memory as it was, and `NoUseOfFreed` reports the state before.

*`Recovery`.* `packets` holds the stored versions of each base. `masterLog` and `slaveLog` are the lists of the
determinant loggers h5 and h8. `slaveIn` is the replay connection. `logger` is the packet logger's thread for the
manager's connection with the requests and answers in flight. It works on `packets` as `PacketStore` works on its
versions. `mgr` is the manager's thread: its step, the master's list it fetched, and the plan of the clear.
`recorded` and `replayed` are histories. A request to a determinant logger is one step, which `DetLoggerServer`
justifies; a request to the packet logger by the manager is several steps (sent, taken, one step per packet,
answered), and the manager may give up waiting at any of them.

*`AsyncServer`.* A `ThreadInfo` is a number; `threadsInfo` is the map from client hosts, `sockfds` and `epoll` are
each one's set of sockets and the descriptors its epoll instance watches, `deleted` those whose memory was freed,
`spin` those whose lock is held. `main` and `worker` are the steps of the main thread and of each host's thread.
Entering a socket into `epoll` (under the lock) and into `sockfds` (after it) are two steps, deleting a `ThreadInfo` and
erasing it from the map as well. On an error a host's thread looks up the descriptor to remove in the *main* thread's
event array, under its own index: the listening socket, or descriptor 0 of an event that array never had. A request is
read and answered in two steps, and a new thread begins to wait in a step of its own. The events one `epoll_wait`
returns are handled as if each had been waited for. `activeThreads` and `threadsToDelete` only keep the threads'
handles until they are freed, and are left out.

A deleted `ThreadInfo` is used again whenever a host closes its last connection: the host's thread deletes it
(`asyncServer.cc:457`), reads its id (460), unlocks it (468), and waits on the epoll instance and for the events it names
(419). A thread that deletes another host's does the first two. The memory may hold the `ThreadInfo` still, or may have
been allocated for something else, by this thread (460 inserts into a map and a set) or by any other. The model has
both: the thread goes on (`EraseInfo`, `EndRemoval`), or what follows is undefined and the model stops
(`UseAfterDelete`, `broken`). When a thread uses what another one deleted, the model stops, too (`UseDeleted`).

*`RpcConnection`.* Requests are numbered in the model, not in the code. `toServer` and `inbox` hold their pieces on the
way and in the server's socket, `toClient` the requests whose answers are on the way. A request that is too long or
cannot be sent is waited for all the same. The server handles what has arrived as the request (`Arrived`) and answers it;
what comes later of it is read as headers of eight bytes and refused, and the last of these reads may take bytes of
the next request's header, which is then lost. An answer the client stopped reading half-way, and one the
server resumed one byte early after a blocked write (`asyncServer.cc:657`), leave the stream shifted: the model stops
there (`cut`). That one of the processes ends is left out, and the content of a request is taken not to look like a
header.

*`ClickSocket`.* Packets are numbered over all replays. `wire` and `received` are the pieces each connection still has
to deliver and has delivered; `accepted` connections were taken from the queue in order, `active` is `_active`. The
packet logger handles the manager's requests one after the other, so it has one connection open at a time, but
does not wait for the element to read it. At the end of a connection `readPacketLen` returns -1, and `selected`
looks at an `errno` that `read` did not set (`socket.cc:533`): the model closes the connection or keeps it,
nondeterministically (`kept`). A packet of which only a part has arrived is pushed as it is; the bytes after that are
arbitrary, and the model stops (`torn`).

*`PolicyChains`.* `policyChainKeyToData` is the dictionary of the same name, with the chain, the VLAN id and the "full
flow" whose switches an uninstallation visits, which the model keeps with the places of their rules in the plan (hop and
switch on its path); `rules` are the switches' tables, which follow OpenFlow: an addition
replaces the rule with the same match, a deletion takes every rule at least as specific. `Plan` is what an
installation sends, hop by hop (`Rule` is one rule, `InPort` the port it expects its packets from); a name that is not known ends it with a `KeyError`, after the data was entered. The
controller may refuse a request, which the code logs and passes over: "Master mb was replaced successfully." is then
answered all the same (so `ReplacedEverywhere` is about runs in which nothing was refused). `removeOneDirectionLinks` is
part of `Neighbors`, although every link is entered at both ends and none is ever removed; and a chain of one middlebox
never pops its tag, because its only hop is treated as the first one. A replacement goes from chain to chain, one a
step (`todo`). A chain keeps its key, with the old master's name, and its VLAN id. `unregmb` always fails, because
the chain is kept as a string, and leaves the chain known but without rules.

*`TrafficSteering`.* `frontEnd` and `given` are each front end's step and command; `backlog` and `accepted` are the
connections that wait and the one the back end serves. The back end reads one command per connection: a
session's second command is never answered, and its front end waits for ever, or dies in `recv` when the next
connection replaces the accepted one. `Recovery`'s `Reroute` takes `stopmaster` for the first command of its session. `exit` from one front end stops the back end for all.

## 3. Runs

| run | instance | what it shows |
|---|---|---|
| `packets` | all pairs of lists over two bases and two versions, up to four ids; four packets of two producers, up to version 30, next to the reserved values and the last sequence number | the loops return what `PacketLists` says, nothing is omitted as "already replayed", a deletion by count deletes the ids that were named; ids are read back as stored, packets do not share a base |
| `connections` | 2 hosts, 2 sockets, 2 connects; 4 requests of up to 2 pieces; 3 replays of 2 packets | one thread per host, and no use of deleted data by another thread than the one that deleted it, but where a removal overlaps with another step; closed connections go and clients are accepted; answers stay in step; replays are pushed in order, and all of them |
| `det_threads` | three threads | listed ids have determinants and a lookup of one succeeds, whatever the interleaving; no circular wait; `DetLoggerServer` implements `DetLog` |
| `packet_threads` | 2 bases of 3 versions, requests of up to 2 ids, 3 addresses; stores in any order, a manager that waits | no pointer outlives its packet, nothing leaks, no lock is left behind, answered versions stay, replays are complete; `PacketLoggerServer` implements `PacketStore` |
| `steering` | two front ends, 4 prompts, 1 refused request, 11 commands on the chains' part of the topology | chains are steered through their middleboxes whatever was done before, no stray rules, ids belong to known chains, a successful replacement leaves no rule to the old master, a first command is answered |
| `any` | 2 packets, 3 rounds, every command, slow slave, refused replays, late answers, failing master | `PacketAvailable` and `ClearKeepsUnreplayed` |
| `failover` | a paced slave, replays before the failure, then `stopmaster`; answers may come late | nothing recorded is lost or stranded, nothing is replayed twice, every replayed packet finds its determinants |
| `answered` | `stopmaster` on a failed master, with fairness | the rounds of `stopmaster` end and the chains are rerouted |
| `upkeep_loses` | replay and clear of a live master | expected violation of `NothingLost` |
| `lagging_stop` | `stopmaster` while the slave is behind | expected violation of `NothingStranded` |
| `partial_packet` | stores in order, a manager that deletes what was answered so far | expected violation of `NeverPartial` |
| `unreadable_id` | replay of a packet the master stored | expected violation of `ReplayedIdsReadable` |

`packets` and `connections` check modules that share no state. `MCPackets` and `MCConnections` let one of them move
in each behaviour, so that no product of their states is built.

The four violations are disagreements between the code and its own comments; `PROJECT.json` "findings" quotes them.

### Assumptions on the environment

`SlaveKeepsUp` is an assumption on the environment and not on the code: a round begins only when nothing is on its
way to the slave. The code does not wait for it. The runs that check `NothingLost`, `NothingStranded` and
`ReplayedOnce` need it, and `lagging_stop` shows what happens without it. `any` assumes nothing.

`InOrder` and `ManagerWaits` are assumptions on the clients of the packet logger. `InOrder`: a version is sent only
when the previous one was answered. The elements wait for the answer two seconds at most, so `packet_threads` does
not assume it. `ManagerWaits`: the manager names an id when the versions up to it were answered, and deletes one only
when the next version was answered as well. Nothing in the code enforces this: it holds as long as a replay, the
slave's record of it and the next clear take longer than the master's store of the next version, and no store is
given up. `partial_packet` drops the assumption and deletes a base between two stores.

`Careful` is an assumption on the operator: no chain is added that shares match fields with a known one, because the
two would match the same packets. The names of middleboxes are taken not to be substrings of one another, and the
topology is a tree, as in `topology.py`. `Steered` is about chains whose rules have distinct matches (`Unambiguous`); a
chain that enters a switch twice by one port cannot be steered by its rules. The match fields of two chains are equal or
disjoint in the run; its proof has this as a hypothesis (`FieldsApart`), because a rule that was left behind, for
fewer fields than a later chain's, would take that chain's packets.

What the properties excuse, they name. `OneThreadPerHost` and `OnlyDeleterUses` except a removal that overlaps with
an addition or another removal, or that takes a connection while its thread starts or handles a request of it
(`overlapped`): these are the code's races (`asyncServer.cc:286`, `456`), for which there is no common lock. The last
takes repeated errors: the first one closes descriptor 0, the next connection is given that number, and a later error
closes it, whosever it is. `OnlyDeleterUses` does not say that freed memory is not used: the thread that deletes a
`ThreadInfo` uses it every time, without any overlap. It says that no other thread does, and that its epoll instance
watches nothing, so a thread whose `ThreadInfo` is still in memory handles no event twice. `ClientsServed` is about the
time until freed memory was overwritten (`broken`), and excepts the accepting of clients after a connection broke
(`wasReset`): the listening socket may have been closed in its place. `ImplementsDetLog` counts an answer made of freed
determinants (`"garbage"`, `det_logger_server.cc:267`) as one that found them: it does not exclude it.
`FirstAnswered` is about front ends whose operators give their first command, and about no second one. `AnswersInStep` counts what the client gave up and the requests that
were lost; `ReplaysAreRead` excepts torn packets and a connection kept at its end (`kept`), after which no replay is read
any more. `Recovery` takes for granted that each replay connection is read.

### Bounds

In `packet_threads` three versions let a deletion meet a store that comes late, two bases let the memory of
one be allocated for the other, and three addresses always leave one to allocate. In `det_threads` three threads are
a store, a list and a deletion at a time, on one packet. `NumPackets` and `MaxRounds` bound the traffic and the
operator: two packets are enough for one to be cleared while the other is in any other phase; three rounds are
enough for a replay, a clear, and a round on what they left; the counts by which ids are deleted reach from 0 to a
whole list of four. `QueueCapacity` bounds the replay connection so that the logger's send blocks. Encapsulation
stops when the chains are rerouted, because no packet then reaches the old master.

In `connections` two hosts have a thread each, which can remove each other's `ThreadInfo`; with two connects a host can
have two connections, or one after the other. One client at most leaves with a request unread or breaks
(`wasReset`). Four requests in two pieces let an answer come late by two requests, and the rest of one request meet the
next. Three replays are what the listening queue holds; a fourth would be refused. In `packets` versions reach 30,
the last valid one, for every combination of bits the starting numbers give. In `steering` four prompts let two front
ends give two commands each: a chain is added, moved to the slave, and moved again or removed; one refused request
is enough to leave a rule out or behind.

`CHECK_DEADLOCK FALSE` appears where these bounds let the system come to rest.

### Fairness

*Recovery*: weak fairness of the master's, slave's, manager's and packet logger's steps and of the rerouting: each is
a thread that the kernel schedules, and its blocking calls return. Nobody has to send packets, give commands, fail,
or give up waiting. `StopAnswered` is checked with the bound on rounds high enough for the loop to end before it
(the guard of `StartRound` would otherwise stop it, which the property would report).

*AsyncServer* (`ServerFairness`): weak fairness of the main thread, and of each thread's start, removals and answers;
strong fairness of each connection's events, because `epoll_wait` reports all descriptors that are ready, so none is
passed over for ever. No memory has to be overwritten (`UseAfterDelete`).
Clients need not do anything. *ClickSocket* (`SocketFairness`): the packet logger comes to the end of a replay, the
network delivers, and Click's driver calls `selected` as long as a descriptor is ready. *TrafficSteering* (`FairSpec`):
the back end accepts and receives, a command is a few requests per chain and comes to an end, and an operator who
started a front end gives a command. Nobody has to start a front end, quit one, or give a second command.

## 4. Proofs

`PacketListsProofs` proves, for lists of any length, what the operators return. The base is `LeastMember` (a
non-empty set of naturals has a least member, from the library's well-foundedness of `<`), which gives `NthSpec` (the
k-th position exists) and `PrefixLenSpec` (there is a longest common prefix). `ClearPlanSpec` sums them up: a clear
names only ids of the slave's list, and in the regular case counts only ids of the master's list the slave has.
`DropFirstIs`, `KeepIs` and `ClearPlanAligned` say what the operators make of lists that begin alike, which is what the
lists of a failover do.

`RecoveryProofs` proves seven properties of `Spec`, three for every value of the constants:

* `TypeCorrect`: `Spec => []TypeOK`. `TypeOK` is not inductive. Ids on the wire must be of version 1 or 2 (`WireIds`),
  because the slave adds one to what it gets, and the master must have a packet in work between its two records.
* `AlwaysAvailable`: `Spec => []PacketAvailable`. The strengthening `DeletesReplayed` follows an id from the slave's
  list through the manager's plan, the request that waits and the request in work: all along it is one the slave
  recorded.
* `RegularClearKeepsUnreplayed`: `Spec => ClearKeepsUnreplayed`. The strengthening `ClearInv` says that the copy of the
  master's list stays a prefix of the growing list between the fetch and the deletion, and that the slave recorded
  as much of it as will be deleted.

and all four that the run `failover` checks under the assumption that run makes (`PacedFailover`: the next replay is
commanded once the slave has worked off the one before, a manager that sees its logger fail stops, and the commands
are `replay` and `stopmaster`; the runs `upkeep_loses` and `lagging_stop` show that it is needed), for any number of packets
and rounds, and whatever is lost, late or fails:

* `FailoverLosesNothing`, `FailoverStrandsNothing`, `FailoverFindsPals` and `FailoverReplaysOnce` share the inductive
  invariant `FailoverInv`. The master records first and second versions in one order, so a history is told by one
  number (`UpTo`) and a list by the place behind which it begins (`Run`). `MasterInv` and `SlaveInv` say that of the two
  loggers, also in the middle of a packet. `Evenly` says that both lists begin at the same place, counting what the
  manager has deleted at the master and is about to delete at the slave: a clear matches first versions only, and it is
  the lists' common beginning that makes the counts agree (`ClearPlanAligned`, `UnprocessedAligned`). `PipeInv` says that
  wire, logger and waiting request hold the packets right behind those the slave took, none twice. `MgrInv` says
  what the manager's copies are still worth after the steps the others took since it fetched them: while it waits
  for the slave's list the master's may grow and lose its beginning to no one.

`PacketLoggerServerProofs` proves seven properties of the packet logger, for any number of bases, versions, clients
and addresses:

* `PacketLoggerTypeCorrect` and `PacketLocksReleased` hold without any hypothesis. `ThreadInv` (a thread between its
  lookup and its answer has an id and an address) makes `TypeOK` inductive.
* `PointersStayValid`, `PacketsNeverLeak` and `AnsweredVersionsStay` have the hypothesis `ManagerWaits`. They share the
  inductive invariant `MemoryInv`. Its core is `DeletesComplete`: when `deletePacket` goes ahead, no client still works
  on the packet. The manager waits for one version more than it names; the deletion is refused if the packet holds
  more versions than it names; so a deletion that goes ahead names the last version, and by a pigeonhole argument
  (`ManyVersions`) every version is already stored.
* `ReplaysComplete`, under the same hypothesis: the versions up to the named one are all stored, and counting the
  smaller ones selects exactly them, in whatever order they were stored.
* `HandlersImplementPacketStore`: `ManagerWaits => (Spec => ImplementsPacketStore)`. A version is stored when it is added
  to its packet, a packet is rebuilt when its versions are copied, and it is deleted when they are freed; there is one
  lemma per action (`Sees...`) on which step of the store it is, or that it is none. `StoreInv` is what these need beyond
  `MemoryInv` and `ReplayInv`: `JobFits` (which operation and which ids each step of a thread has), `StoredOnce` (a version is in a
  packet only once its store is past the adding), `Counted` (no version twice, so the index that `deletePacket`
  compares is the number of versions the store has), and `Emptied` (nothing is stored between the freeing of
  the versions and of the packet, so the store does not see the latter).

`PacketsProofs` proves two properties of the ids with the tags' real widths, for every sequence number and producer:

* `IdsAreReadBack`: `IdsSpec => []ReadsStoredId`. No tag of an id is ever 0, so all three are pushed and read; the
  version stays within its five bits, so counting up the outer tag never carries into the sequence number.
* `BasesStayDistinct`: `IdsSpec => []BasesDistinct`. Sequence numbers go up within a turn, and the three tags
  determine the number and the producer (`BaseInjective`, by division with remainder).

and all five of `ListComparison`, for lists of any length (`MasterLists` and `SlaveLists` may be any sets of lists of
ids; that the master has no id twice is not used):

* `FirstVersionsAreAnswered`, `UnprocessedAreKept`, `CommonIsTaken`: `Spec => []FirstVersionsAgree` and so on. `LoopInv`
  says of each loop what it has put together of the positions its iterators have passed. For the erasing loop: the vector
  is what was kept of the positions compared so far followed by all positions to come, and `masterIter` stands between
  the two, so both iterators stand at the same position of the lists as they came in. `KeepRun` (what `Keep` makes of a
  set of positions with a run of positions behind it) is the lemma all loops rest on.
* `NoneOmitted`: `Spec => []NeverOmitted`. The bases met so far are those of other positions of a list of first versions,
  in which no base stands twice (`FirstVersionsDistinct`).
* `CountsMatchNames`: `Spec => []CountMatchesNames`, a fact about `Common` and `Orphans` (`FrontIsNamed`).

`ConnectionsProofs` is about the three kinds of connections that `MCConnections` runs together. `ConnectionsTypeCorrect`
(`MCSpec => []TypeOK`) puts their types together. It proves two properties of an RPC connection, for any number of
requests and pieces:

* `AnswersStayInStep`: `RpcSpec => []AnswersInStep`. The property is about the last answer taken; it stays true
  because everything on its way is in order. The invariant `RpcInv` says so in three parts: `TakenInv` counts the
  answers owed (requests, minus those given up, minus the one in work); `AnswersInv` says that the answers under
  way ascend and leave out only lost requests; `PipeInv` says that the queue of pieces, those that have arrived and
  those under way, is in order behind the last answer, and holds the first piece of every later request that is
  not lost. There is a lemma for what each operation does to such a queue, and one for each action.
* `RpcTypeCorrect`: `RpcSpec => []RpcTypeOK`, from the same invariant: that a client does not give up more requests
  than it made needs the count of answers owed.

and two of the replay connections, for any number of packets:

* `ReplaysStayInOrder`: `SocketSpec => []ReplayedInOrder`. The property is about what was pushed; it stays true because
  of how the packets are spread over the connections. `Divided` says that there are bounds, one for each connection,
  such that it carries the packets from the bound of the connection before to its own (`Carries`, in whole pieces or
  first and second ones, with the end behind them); that what is left on the connection that is read begins
  behind the packets pushed; and that those that wait still have all of theirs. `OpenInv` says that the connection
  the packet logger sends on is the one that is read or one that waits, and has no end yet.
* `SocketTypeCorrect`: `SocketSpec => []SocketTypeOK`, also after half a packet was read.

`AsyncServerProofs` proves the two safety properties of the server, for any hosts, connections, errors and closes, and the
types of all behaviours (`ServerTypeCorrect`):

* `OneThreadServesHost`: `ServerSpec => []OneThreadPerHost`, and `OverlapNeeded`: `ServerSpec => []OnlyDeleterUses`. Both
  follow from `QuietInv`: as long as there was no overlap, the thread that removes is alone (`OneAtATime`), and the map,
  the epoll instances, the sets of sockets and the threads agree with each other up to the one connection that is being
  added or removed (`EpollInv`, `SockInv`, `ThreadInv`). What makes it inductive is what is half done: the `ThreadInfo` a
  removal has deleted but not yet taken from the map (`GoneInv`), and where the removal stands (`RemovalInv`). `AtWork`
  says of a thread that starts, or has a request in work, that the connection is its own and still there, so its
  `ThreadInfo` is as well. The types alone do not need the hypothesis, also when a thread works on a deleted
  `ThreadInfo` (`OwnInv`, `UnmapInv`).

`DetLoggerServerProofs` proves all that the run `det_threads` checks, for any threads, middleboxes and ids:

* `DetLoggerTypeCorrect`: `Spec => []TypeOK`. `TypeInv` adds to the types what a thread works on at each step
  (`RequestInv`) and that a mutex is held by exactly the thread whose step says so (`LockInv`), from which mutual
  exclusion follows.
* `NeverDeadlocked`: `Spec => []NoCircularWait`, from `LockInv`: a thread waits for the lock of all lists only when it
  holds none, for a list's only when it holds at most that of all lists, and who holds the data's waits for none. So
  in every set of threads one waits for nobody in it (`LockOrder`).
* `ListedIsComplete` and `NothingUnreachable`: `ListedHasPals` and `DataIsListed` are under different locks and only
  inductive together, as `DataInv`: the ids of a list are distinct and were asked for (`ListsInv`), and a store under
  way is the only one of its id and has its determinants complete before it is listed (`StoringInv`).
* `HandlersImplementDetLog`: `Spec => ImplementsDetLog`. What is visible of a list is the abstract log: while a deletion has
  the packets' data removed but not yet the ids, their ids count as gone. `AnswersInv` says which answer a thread
  holds before and after its request takes effect. There is a lemma for each action, which maps it to one of `DetLog`
  or a stutter.

`TrafficSteeringProofs` proves all five invariants of the run `steering`, for any connected network, senders, middleboxes,
front ends and commands, and any number of refused requests. `SteeringTypeCorrect` (`Spec => []TypeOK`) holds without
any hypothesis: `SessionInv` says that the command in progress is that of the one front end whose connection is
accepted. The others have the hypothesis `Careful`, which the run makes as well. What an operator would add is
apart from what is known when the command is given, and must still be when it is handled, commands of others later:
`AddsApart`.

* `PcidsAreKnown`: `Spec => []PcidsKnown`. With `Careful` a key is added when it is not known, so it has no id yet.
* `RulesDoNotStray`: `Spec => []NoStrayRules`. The property is not inductive: that an uninstallation finds all of a
  chain's rules needs the chain's flow to be complete (`FlowsFull`), and that it takes no others needs the VLAN ids of
  the known chains to be distinct (`VlansApart`) and their fields disjoint (`KeysApart`). `ChainsInv` joins them, with what
  is true of the tables after a refusal: one rule for a match (`NoTwins`), and of a chain accepted in full every rule
  (`WholeIn`). There is a lemma for an installation, one for an uninstallation, and one for each command.
* `OldMasterIsLeft`: `Spec => []ReplacedEverywhere`. `ReplacingInv` says which chains are still to do; when none is, no
  known chain has the old master, and by `NoStrayRules` no rule leads to it.
* `PacketsAreSteered`: `Spec => []Steered`, with the further hypothesis `FieldsApart`. `HopTaken`: at each place of its
  way a packet is matched by its chain's rule and no other. `HopStep`: that rule takes it to the next place.
  `HopTravelled` and `Arrives` put the steps together, by induction over the steps of `Journey` (with `AllNaturals`, from
  the well-foundedness of `<`; `StepsExist` shows that the recursive function exists). The walk ends in time, because no
  two hops of an unambiguous chain begin at the same middlebox (`ChainLength`, by the pigeonhole principle) and no path
  is longer than there are switches. `DeliveredInv` says why the packet then stays: rules with header fields are for
  packets from a sender, and those of a chain with one stop, whose tag is never popped, for packets from a switch.

The other assumptions are those on the constants (`NumPacketsAssumption`, `MaxRoundsAssumption`, `CommandsAssumption`,
`NumBasesAssumption`, `NumVersionsAssumption`, `MaxIdsAssumption`, `AddressesAssumption`, `PacketIdsAssumption`,
`RpcAssumption`, `SocketAssumption`, `ServerAssumption`, `ListsAssumption`, `MbsAssumption`, `MaxDeleteAssumption`,
`ThreadsAssumption`, `BoundsAssumption`, `NamesAssumption`, `FiniteAssumption`, `SlavesAssumption`, `ConnectedAssumption`,
`SteeringAssumption`): the bounds and the numbers of the middleboxes are natural numbers, the commands are commands of
the TSA, a null pointer is no address, producers are numbered from 1 to 6 and versions from 1 to 30, the listening queue
holds three connections, no thread is the mark `"free"` of an open mutex; hosts, middleboxes and switches have
different names, there are finitely many, and between any two switches there is a path.

Only model-checked: liveness (`StopAnswered`, `ClientsServed`, `ReplaysAreRead`, `FirstAnswered`), which is outside the
prover. Every other property of the runs that pass is a theorem.

## 5. Not modelled

* A second pair (middlebox 7 with its slave 10), and the last round of `stopmaster`, which concerns the new master.
* Requests of the manager to the determinant loggers that time out, and failed stores of packets. (`RpcConnection`
  has what the caller then reads: an answer that is late by the number of requests it gave up.)
* The packet logger's printouts, which read the map outside its mutex (`packets_logger_server.cc:487`); its get
  request, which only a test client sends; the bytes of a version (`packets_logger_server.cc:393`) and its offset,
  which is always 0.
* A replay connection that breaks in the middle of a send (the packet logger does not survive it).
* What is read after half a packet (`socket.cc:387`), after an answer that was cut (`asyncServer.cc:657`), and after the
  use of freed memory that was overwritten: it is arbitrary, and the models stop there.
* The 4095th VLAN id (`tsaBE.py:500`): ids are never returned, but it takes 4095 added chains to reach it.
* The TSA's reading of its mappings from files and from the controller, with the answer "Please run pingall" before
  they are complete. Its front end has the slaves of the masters 6 and 7 written into the code, which agrees with
  `mastersSlaves.txt`. The ten rounds of `r&cd` are rounds of `r&c`.
* The Socket element's configurations that no click file uses: datagrams, UNIX sockets, a client, writing.
* The serializers (`loggers/common/pal_api`), the older servers (`syncServer.cc`, `epollServer.cc`), which the Makefile
  does not link, the test clients and the topology scripts: no protocol state, or not built.

## 6. Plan

1. `Recovery` with the connection of `RpcConnection` to the determinant loggers, so that a list request that times out
   shifts the manager's later answers; a second pair and the new master's round.
2. The chain for live traffic once the slave is a master, and the switch of its elements' mode.
