------------------------------ MODULE AsyncServer ------------------------------
(***************************************************************************)
(* asyncServer.cc: the server under every logger and under the cleanup     *)
(* manager. The main thread accepts connections (run); each client host    *)
(* has a thread (runThread) that waits on the host's epoll instance and    *)
(* handles the requests of its connections one after the other. A thread   *)
(* that finds a connection closed removes it, and then every host without  *)
(* connections (removeOrphanThreads). threadsInfo and the sets of sockets  *)
(* have no lock in common.                                                 *)
(*                                                                         *)
(* Memory: a ThreadInfo that was deleted is used again, by the thread that *)
(* deleted it and by others. Either its memory still holds it, or it was   *)
(* allocated for something else: then what follows is undefined, and the   *)
(* model stops (broken). activeThreads and threadsToDelete only keep the   *)
(* threads' handles until they are freed, and are left out. The events of  *)
(* one epoll_wait are handled as if each had been waited for.              *)
(***************************************************************************)
EXTENDS Integers, Sequences, FiniteSets, FiniteSetsExt

CONSTANTS
  NumHosts,      \* client hosts; a map's order of their names is the numbers'
  NumSockets,    \* connections at a time (a bound)
  MaxConnects    \* connections the clients open (a bound)

ASSUME ServerAssumption ==
  {NumHosts, NumSockets, MaxConnects} \subseteq Nat \ {0}

Hosts == 1..NumHosts
Infos == 1..MaxConnects
NoInfo == 0
Sockets == 0..NumSockets
listener == NumSockets + 1

VARIABLES
  sequencer,        \* ThreadInfos created so far
  threadsInfo,      \* the ThreadInfo of each host, NoInfo where there is none
  sockfds,          \* the sockets of each ThreadInfo
  epoll,            \* those its epoll instance watches
  deleted,          \* the ThreadInfos whose memory was freed
  spin,             \* those whose spin lock is held
  open,             \* the server's open descriptors
  peer,             \* what the client of each connection did last
  host,             \* the host of each connection
  backlog,          \* the hosts of connections not accepted yet
  main,             \* where the main thread is
  worker,           \* where the thread of each ThreadInfo is
  connects,         \* connections opened so far
  broken,           \* history: a deleted ThreadInfo was used when it was overwritten
  overlapped,       \* history: a removal overlapped with another step (Overlap)
  wasReset          \* history: a client left with a request unread, or broke

infos == << sequencer, threadsInfo, sockfds, epoll, deleted, spin >>
sockets == << open, peer, host, backlog, connects, wasReset >>
threadVars == << infos, sockets, main, worker >>
serverVars == << threadVars, broken, overlapped >>

At(pc) == [ pc |-> pc, fd |-> 0, info |-> NoInfo, new |-> FALSE ]
Doing(pc) == [ pc |-> pc, fd |-> 0, at |-> NoInfo ]

Initially ==
  /\ sequencer = 0
  /\ threadsInfo = [ h \in Hosts |-> NoInfo ]
  /\ sockfds = [ i \in Infos |-> {} ]
  /\ epoll = [ i \in Infos |-> {} ]
  /\ deleted = {}
  /\ spin = {}
  /\ open = {0, listener}
  /\ peer = [ fd \in Sockets |-> "none" ]
  /\ host = [ fd \in Sockets |-> 1 ]
  /\ backlog = <<>>
  /\ main = At("wait")
  /\ worker = [ i \in Infos |-> Doing("none") ]
  /\ connects = 0
  /\ broken = FALSE
  /\ overlapped = FALSE
  /\ wasReset = FALSE

-----------------------------------------------------------------------------
(* The clients. *)

Connect ==
  /\ connects < MaxConnects
  /\ Len(backlog) + Cardinality(open \ {0, listener}) < NumSockets
  /\ connects' = connects + 1
  /\ \E h \in Hosts : backlog' = Append(backlog, h)
  /\ UNCHANGED << infos, open, peer, host, wasReset, main, worker, broken >>

\* A client sends a request, closes its connection, leaves with a request unread,
\* or breaks, one client at most (a bound).
Acts == { <<"up", "sent">>, <<"up", "closed">>, <<"sent", "left">>, <<"up", "reset">> }
ClientActs(fd) ==
  /\ \E a \in Acts :
       /\ peer[fd] = a[1]
       /\ peer' = [ peer EXCEPT ![fd] = a[2] ]
       /\ a[2] \in {"left", "reset"} => ~wasReset
       /\ wasReset' = (wasReset \/ a[2] \in {"left", "reset"})
  /\ UNCHANGED << infos, open, host, backlog, connects, main, worker, broken >>

-----------------------------------------------------------------------------
(* The main thread. *)

Mapped == { threadsInfo[h] : h \in Hosts } \ {NoInfo}

\* epoll_wait returns.
Wake ==
  /\ main.pc = "wait" /\ listener \in open /\ backlog # <<>>
  /\ main' = At("accept")
  /\ UNCHANGED << sequencer, threadsInfo, sockfds, epoll, deleted, spin,
                  sockets, worker, broken >>

\* Mutant: each connection gets a ThreadInfo of its own.
CreateThreadInfo(h) ==
  /\ sequencer < MaxConnects
  /\ sequencer' = sequencer + 1
  /\ threadsInfo' = [ threadsInfo EXCEPT ![h] = sequencer' ]
  /\ main' = [ pc |-> "register", fd |-> Min(Sockets \ open), info |-> sequencer', new |-> TRUE ]

GetOrCreateThreadInfo(h) ==
  \/ /\ threadsInfo[h] # NoInfo
     /\ main' = [ pc |-> "register", fd |-> Min(Sockets \ open), info |-> threadsInfo[h],
                  new |-> FALSE ]
     /\ UNCHANGED << sequencer, threadsInfo >>
  \/ /\ threadsInfo[h] = NoInfo
     /\ sequencer < MaxConnects
     /\ sequencer' = sequencer + 1
     /\ threadsInfo' = [ threadsInfo EXCEPT ![h] = sequencer' ]
     /\ main' = [ pc |-> "register", fd |-> Min(Sockets \ open), info |-> sequencer',
                  new |-> TRUE ]

\* accept returns the lowest free descriptor; all ThreadInfos are printed.
AddNewClient ==
  /\ main.pc = "accept" /\ listener \in open /\ backlog # <<>>
  /\ Sockets \ open # {}
  /\ Mapped \intersect deleted = {}
  /\ LET fd == Min(Sockets \ open)
         h == Head(backlog)
     IN /\ GetOrCreateThreadInfo(h)
        /\ open' = open \union {fd}
        /\ peer' = [ peer EXCEPT ![fd] = "up" ]
        /\ host' = [ host EXCEPT ![fd] = h ]
  /\ backlog' = Tail(backlog)
  /\ UNCHANGED << sockfds, epoll, deleted, spin, connects,
                  wasReset, worker, broken >>

\* accept fails: nobody is waiting, or the listening socket was closed.
NothingToAccept ==
  /\ main.pc = "accept"
  /\ backlog = <<>> \/ listener \notin open
  /\ main' = At("wait")
  /\ UNCHANGED << infos, sockets, worker, broken >>

\* addSockfdToThreadInfo: under the ThreadInfo's lock the connection is watched ...
AddSockfd ==
  /\ main.pc = "register" /\ main.info \notin deleted
  /\ main.info \notin spin
  /\ epoll' = [ epoll EXCEPT ![main.info] = @ \union {main.fd} ]
  /\ main' = [ main EXCEPT !.pc = "insert" ]
  /\ UNCHANGED << sequencer, threadsInfo, sockfds, deleted, spin, sockets, worker, broken >>

\* ... and after it was released the socket is entered.
InsertSockfd ==
  /\ main.pc = "insert" /\ main.info \notin deleted
  /\ sockfds' = [ sockfds EXCEPT ![main.info] = @ \union {main.fd} ]
  /\ main' = IF main.new THEN [ main EXCEPT !.pc = "create" ] ELSE At("accept")
  /\ UNCHANGED << sequencer, threadsInfo, epoll, deleted, spin, sockets, worker, broken >>

CreateThread ==
  /\ main.pc = "create" /\ main.info \notin deleted
  /\ worker' = [ worker EXCEPT ![main.info] = [ pc |-> "start", fd |-> main.fd, at |-> NoInfo ] ]
  /\ main' = At("accept")
  /\ UNCHANGED << sequencer, threadsInfo, sockfds, epoll, deleted, spin,
                  sockets, broken >>

-----------------------------------------------------------------------------
(* A host's thread: an event of one of its connections (runThread). *)

\* The new thread takes the epoll instance to wait on from its ThreadInfo.
BeginToWait(i) ==
  /\ worker[i].pc = "start" /\ i \notin deleted
  /\ worker' = [ worker EXCEPT ![i] = Doing("wait") ]
  /\ UNCHANGED << infos, sockets, main, broken >>

HasEvent(i, fd, p) ==
  worker[i].pc = "wait" /\ i \notin deleted /\ fd \in epoll[i] /\ peer[fd] \in p

\* A request is read and handled, ...
HandleClientRequest(i, fd) ==
  /\ HasEvent(i, fd, {"sent", "left"})
  /\ worker' = [ worker EXCEPT ![i] = [ pc |-> "request", fd |-> fd, at |-> NoInfo ] ]
  /\ UNCHANGED << infos, sockets, main, broken >>

Answered == [ p \in {"sent", "left"} |-> IF p = "left" THEN "reset" ELSE "up" ]

\* ... and answered, and the thread waits again. An answer to a client that left
\* makes the connection break.
WriteResponseToClient(i) ==
  /\ worker[i].pc = "request" /\ i \notin deleted
  /\ peer' = [ fd \in Sockets |-> IF fd = worker[i].fd /\ peer[fd] \in DOMAIN Answered
                                  THEN Answered[peer[fd]] ELSE peer[fd] ]
  /\ worker' = [ worker EXCEPT ![i] = Doing("wait") ]
  /\ UNCHANGED << infos, open, host, backlog, connects, wasReset, main, broken >>

\* Mutant: at the end of file, too, the main thread's event says what to remove.
RemoveListed(i, fd) ==
  /\ HasEvent(i, fd, {"closed"})
  /\ worker' = [ worker EXCEPT ![i] = [ pc |-> "find", fd |-> listener, at |-> NoInfo ] ]
  /\ UNCHANGED << infos, sockets, main, broken >>

\* End of file.
RemoveClient(i, fd) ==
  /\ HasEvent(i, fd, {"closed"})
  /\ worker' = [ worker EXCEPT ![i] = [ pc |-> "find", fd |-> fd, at |-> NoInfo ] ]
  /\ UNCHANGED << infos, sockets, main, broken >>

\* An error: the descriptor that is removed is that of the main thread's event
\* with the same number, the listening socket or, of an event it never had, 0.
RemoveOnError(i, fd) ==
  /\ HasEvent(i, fd, {"reset"})
  /\ \E d \in {0, listener} :
       worker' = [ worker EXCEPT ![i] = [ pc |-> "find", fd |-> d, at |-> NoInfo ] ]
  /\ UNCHANGED << infos, sockets, main, broken >>

-----------------------------------------------------------------------------
(* doRemoveClient and removeOrphanThreads *)

HostOf(info) == CHOOSE h \in Hosts : threadsInfo[h] = info

\* The ThreadInfos of the map from host h on; NoInfo at its end.
InfoFrom(map, h) ==
  LET later == { k \in h..NumHosts : map[k] # NoInfo }
  IN IF later = {} THEN NoInfo ELSE map[Min(later)]

\* The last one, if none has the socket. Without any, the thread waits again.
GetThreadInfoBySockfd(i) ==
  /\ worker[i].pc = "find"
  /\ Mapped \intersect deleted = {}
  /\ LET having == { h \in Hosts : threadsInfo[h] # NoInfo
                                    /\ worker[i].fd \in sockfds[threadsInfo[h]] }
     IN worker' = [ worker EXCEPT ![i] =
          IF Mapped = {}
          THEN Doing("wait")
          ELSE [ pc |-> "erase", fd |-> worker[i].fd,
                 at |-> IF having # {}
                        THEN threadsInfo[Min(having)]
                        ELSE threadsInfo[Max({ h \in Hosts : threadsInfo[h] # NoInfo })] ] ]
  /\ UNCHANGED << infos, sockets, main, broken >>

EraseSockfd(i) ==
  /\ worker[i].pc = "erase" /\ worker[i].at \notin deleted
  /\ worker[i].at \notin spin
  /\ sockfds' = [ sockfds EXCEPT ![worker[i].at] = @ \ {worker[i].fd} ]
  /\ worker' = [ worker EXCEPT ![i].pc = "close" ]
  /\ UNCHANGED << sequencer, threadsInfo, epoll, deleted, spin, sockets, main, broken >>

\* Whatever is closed is no longer watched.
CloseSocket(i) ==
  /\ worker[i].pc = "close"
  /\ LET fd == worker[i].fd
     IN /\ open' = open \ {fd}
        /\ epoll' = [ j \in Infos |-> epoll[j] \ {fd} ]
        /\ peer' = [ d \in Sockets |-> IF d = fd THEN "none" ELSE peer[d] ]
        /\ host' = [ d \in Sockets |-> IF d = fd THEN 1 ELSE host[d] ]
  /\ worker' = [ worker EXCEPT ![i].pc = "orphans", ![i].fd = 0, ![i].at = InfoFrom(threadsInfo, 1) ]
  /\ UNCHANGED << sequencer, threadsInfo, sockfds, deleted, spin, backlog, connects, wasReset, main, broken >>

HasOrphan(i) ==
  /\ worker[i].pc = "orphans" /\ worker[i].at \notin deleted \union {NoInfo}
  /\ worker[i].at \notin spin

KeepInfo(i) ==
  /\ HasOrphan(i)
  /\ sockfds[worker[i].at] # {}
  /\ worker' = [ worker EXCEPT ![i].at = InfoFrom(threadsInfo, HostOf(@) + 1) ]
  /\ UNCHANGED << infos, sockets, main, broken >>

DeleteInfo(i) ==
  /\ HasOrphan(i)
  /\ sockfds[worker[i].at] = {}
  /\ spin' = spin \union {worker[i].at}
  /\ deleted' = deleted \union {worker[i].at}
  /\ worker' = [ worker EXCEPT ![i].pc = "unmap" ]
  /\ UNCHANGED << sequencer, threadsInfo, sockfds, epoll,
                  sockets, main, broken >>

\* Mutant: the deleted ThreadInfo stays in the map.
KeepMapped(i) ==
  /\ worker[i].pc = "unmap"
  /\ spin' = spin \ {worker[i].at}
  /\ worker' = [ worker EXCEPT ![i].pc = "orphans",
                               ![i].at = InfoFrom(threadsInfo, HostOf(worker[i].at) + 1) ]
  /\ UNCHANGED << sequencer, threadsInfo, sockfds, epoll, deleted, sockets, main, broken >>

\* Mutant: it stays locked.
EraseLocked(i) ==
  /\ worker[i].pc = "unmap"
  /\ LET h == HostOf(worker[i].at)
     IN /\ threadsInfo' = [ threadsInfo EXCEPT ![h] = NoInfo ]
        /\ worker' = [ worker EXCEPT ![i].pc = "orphans", ![i].at = InfoFrom(threadsInfo', h + 1) ]
  /\ UNCHANGED << sequencer, sockfds, epoll, deleted, spin, sockets, main, broken >>

\* The deleted ThreadInfo's id is read, for activeThreads, and it is unlocked.
EraseInfo(i) ==
  /\ worker[i].pc = "unmap"
  /\ LET info == worker[i].at
         h == HostOf(info)
     IN /\ threadsInfo' = [ threadsInfo EXCEPT ![h] = NoInfo ]
        /\ spin' = spin \ {info}
        /\ worker' = [ worker EXCEPT ![i].pc = "orphans", ![i].at = InfoFrom(threadsInfo', h + 1) ]
  /\ UNCHANGED << sequencer, sockfds, epoll, deleted, sockets, main, broken >>

\* The thread waits on the epoll instance its ThreadInfo names, also when this was
\* deleted and its memory still holds it.
EndRemoval(i) ==
  /\ worker[i].pc = "orphans" /\ worker[i].at = NoInfo
  /\ worker' = [ worker EXCEPT ![i] = Doing("wait") ]
  /\ UNCHANGED << infos, sockets, main, broken >>

-----------------------------------------------------------------------------
\* Some thread uses a ThreadInfo that another one deleted, in its own step, in the
\* lists it walks, or because it takes its epoll instance or its events from it.
UsesOthers ==
  \/ main.pc \in {"register", "insert", "create"} /\ main.info \in deleted
  \/ main.pc = "accept" /\ Mapped \intersect deleted # {}
  \/ \E i \in Infos :
       \/ worker[i].pc = "find" /\ (Mapped \intersect deleted # {} \/ i \in deleted)
       \/ worker[i].pc \in {"erase", "orphans"} /\ worker[i].at \in deleted
       \/ worker[i].pc \in {"start", "request"} /\ i \in deleted
       \/ worker[i].pc = "wait" /\ i \in deleted /\ \E fd \in epoll[i] : peer[fd] # "up"

UseDeleted ==
  /\ UsesOthers
  /\ broken' = TRUE
  /\ UNCHANGED << infos, sockets, main, worker >>

\* A thread goes on with the ThreadInfo it deleted itself, and its memory was allocated
\* again, by itself (addThreadToDeleteSet) or by another thread: it takes from it the
\* id and the lock, or, when it was its own, the epoll instance and the events.
UseAfterDelete(i) ==
  /\ \/ worker[i].pc = "unmap"
     \/ worker[i].pc = "orphans" /\ worker[i].at = NoInfo /\ i \in deleted
  /\ broken' = TRUE
  /\ UNCHANGED << infos, sockets, main, worker >>

MainThread == Wake \/ AddNewClient \/ NothingToAccept \/ AddSockfd \/ InsertSockfd \/ CreateThread

RemovalStep(i) ==
  \/ GetThreadInfoBySockfd(i) \/ EraseSockfd(i) \/ CloseSocket(i)
  \/ KeepInfo(i) \/ DeleteInfo(i) \/ EraseInfo(i) \/ EndRemoval(i)

ThreadStep(i) == BeginToWait(i) \/ WriteResponseToClient(i)

Event(i, fd) == HandleClientRequest(i, fd) \/ RemoveClient(i, fd) \/ RemoveOnError(i, fd)

\* Removals that overlap with each other or with an addition, or that take the
\* connection another thread starts with or is handling a request of.
Removing == { i \in Infos : worker[i].pc \notin {"none", "start", "wait", "request"} }
TakesConnection(i, k) ==
  worker[i].pc \in {"start", "request"} /\ worker[k].pc \in {"find", "erase", "close"} /\ worker[k].fd = worker[i].fd
Overlap ==
  \/ Cardinality(Removing) > 1
  \/ Removing # {} /\ main.pc # "wait"
  \/ \E i, k \in Infos : TakesConnection(i, k)

ServerNext ==
  /\ ~broken
  /\ \/ Connect
     \/ \E fd \in Sockets : ClientActs(fd)
     \/ MainThread
     \/ \E i \in Infos :
          RemovalStep(i) \/ ThreadStep(i) \/ \E fd \in Sockets : Event(i, fd)
     \/ UseDeleted
     \/ \E i \in Infos : UseAfterDelete(i)
  /\ overlapped' = (overlapped \/ Overlap')

ServerSpec == Initially /\ [][ServerNext]_serverVars

\* The threads run. epoll_wait reports all descriptors that are ready, so no
\* connection's events are passed over for ever.
ServerFairness ==
  /\ WF_threadVars(MainThread) /\ WF_broken(UseDeleted)
  /\ \A i \in Infos :
       /\ WF_threadVars(RemovalStep(i) \/ ThreadStep(i))
       /\ \A fd \in Sockets : SF_threadVars(Event(i, fd))

FairServerSpec == ServerSpec /\ ServerFairness

-----------------------------------------------------------------------------
ServerTypeOK ==
  /\ sequencer \in 0..MaxConnects
  /\ threadsInfo \in [Hosts -> 0..sequencer]
  /\ {sockfds, epoll} \subseteq [Infos -> SUBSET Sockets]
  /\ deleted \subseteq 1..sequencer
  /\ spin \subseteq deleted \intersect Mapped
  /\ open \subseteq Sockets \union {listener}
  /\ peer \in [Sockets -> {"none", "up", "sent", "left", "closed", "reset"}]
  /\ host \in [Sockets -> Hosts]
  /\ backlog \in Seq(Hosts)
  /\ main \in [ pc : {"wait", "accept", "register", "insert", "create"}, fd : Sockets,
                info : 0..sequencer, new : BOOLEAN ]
  /\ worker \in [Infos -> [ pc : {"none", "start", "wait", "request", "find", "erase", "close",
                                   "orphans", "unmap"},
                            fd : Sockets \union {listener}, at : 0..sequencer ]]
  /\ connects \in 0..MaxConnects

\* A connection that is not just being added or removed.
Settled(fd) ==
  /\ peer[fd] # "none"
  /\ ~(main.pc \in {"register", "insert", "create"} /\ main.fd = fd)
  /\ \A i \in Infos : worker[i].pc \in {"find", "erase", "close"} => worker[i].fd # fd

\* The requests of a host are handled by one thread, as DetLoggerServer assumes:
\* all its connections are watched by the thread of the host's ThreadInfo and by
\* no other, unless a thread removed a connection while another was removing one, the
\* main thread was adding one, or a thread started with this connection or was
\* handling a request of it.
OneThreadPerHost ==
  ~overlapped =>
    \A fd \in Sockets : Settled(fd) =>
      LET i == threadsInfo[host[fd]]
      IN /\ i \notin deleted \union {NoInfo}
         /\ worker[i].pc # "none"
         /\ fd \in sockfds[i]
         /\ { j \in Infos : fd \in epoll[j] } = {i}

\* A ThreadInfo is used after it was deleted by the thread that deleted it, which needs
\* no overlap (UseAfterDelete): when the last connection of a host is closed, the host's
\* thread does so. Only an overlap lets another thread use it, although the threads have
\* no lock in common. Without one, its epoll instance watches nothing: where memory still
\* holds the deleted ThreadInfo, its thread waits for ever and handles nothing twice.
OnlyDeleterUses ==
  ~overlapped => ~UsesOthers /\ \A i \in deleted : epoll[i] = {}

\* While deleted ThreadInfos are not overwritten, a connection its client closed is
\* removed, whatever other connections do, errors and the wrong removals after them
\* included; and every client is accepted, unless a connection broke with an error: then
\* the listening socket may have been closed in its place.
ClientsServed ==
  /\ \A fd \in Sockets : peer[fd] = "closed" ~> (peer[fd] # "closed" \/ broken)
  /\ backlog # <<>> ~> (backlog = <<>> \/ wasReset \/ broken)
================================================================================
