--------------------------- MODULE AsyncServerProofs ---------------------------
(***************************************************************************)
(* Theorems about AsyncServer, for any number of hosts and connections.    *)
(*                                                                         *)
(* The types are kept by all behaviours. That a host's connections are     *)
(* with one thread, and that a deleted ThreadInfo is used only by the      *)
(* thread that deleted it, is kept while nothing overlaps (QuietInv): then *)
(* the thread that removes is alone, and the map, the epoll instances and  *)
(* the sets of sockets agree with each other up to the one connection that *)
(* is being added or removed.                                              *)
(***************************************************************************)
EXTENDS AsyncServer, FiniteSetTheorems, WellFoundedInduction, TLAPS

\* The constants, and what follows from their definitions.
LEMMA ServerNumbers ==
  /\ NumHosts \in Nat \ {0} /\ NumSockets \in Nat \ {0} /\ MaxConnects \in Nat \ {0}
  /\ Hosts \subseteq Nat /\ Infos \subseteq Nat /\ Sockets \subseteq Nat
  /\ 0 \in Sockets /\ listener \in Nat /\ listener \notin Sockets
  /\ \A i \in Infos : i # NoInfo
BY ServerAssumption DEF Hosts, Infos, Sockets, listener, NoInfo

\* A set of numbers has a least one ...
LEMMA MinIs ==
  ASSUME NEW T \in SUBSET Nat, T # {}
  PROVE  Min(T) \in T
<1>1. \E x \in T : \A y \in T : ~ (<<y, x>> \in OpToRel(<, Nat))
  BY NatLessThanWellFounded, WFMin
<1>2. PICK x \in T : \A y \in T : ~ (<<y, x>> \in OpToRel(<, Nat))
  BY <1>1
<1>3. ASSUME NEW y \in T PROVE x <= y
  <2>1. x \in Nat /\ y \in Nat
    OBVIOUS
  <2>2. ~ (y < x)
    BY <1>2, <2>1 DEF OpToRel
  <2> QED
    BY <2>1, <2>2
<1> QED
  BY <1>3 DEF Min

\* ... and, if it is of hosts, a greatest one.
LEMMA MaxIs ==
  ASSUME NEW T \in SUBSET Hosts, T # {}
  PROVE  Max(T) \in T
<1> DEFINE D == { NumHosts - h : h \in T }
<1>0. NumHosts \in Nat /\ \A h \in T : h \in Nat /\ h <= NumHosts
  BY ServerNumbers DEF Hosts
<1>1. D \in SUBSET Nat /\ D # {}
  BY <1>0
<1>2. \E x \in D : \A y \in D : ~ (<<y, x>> \in OpToRel(<, Nat))
  <2> HIDE DEF D
  <2> QED
    BY <1>1, NatLessThanWellFounded, WFMin
<1>3. PICK t \in T : \A y \in D : ~ (<<y, NumHosts - t>> \in OpToRel(<, Nat))
  BY <1>2
<1>4. ASSUME NEW y \in T PROVE t >= y
  <2>1. NumHosts - y \in D /\ NumHosts - y \in Nat /\ NumHosts - t \in Nat /\ t \in Nat /\ y \in Nat
    BY <1>0
  <2>2. ~ (NumHosts - y < NumHosts - t)
    BY <1>3, <2>1 DEF OpToRel
  <2> QED
    BY <1>0, <2>1, <2>2
<1> QED
  BY <1>4 DEF Max

\* What the iterator of removeOrphanThreads finds is in the map.
LEMMA InfoFromIs ==
  ASSUME NEW map, NEW h \in Nat \ {0}, InfoFrom(map, h) # NoInfo
  PROVE  \E k \in Hosts : map[k] = InfoFrom(map, h) /\ map[k] # NoInfo
<1> DEFINE later == { k \in h..NumHosts : map[k] # NoInfo }
<1>1. later # {} /\ InfoFrom(map, h) = map[Min(later)]
  BY DEF InfoFrom
<1>2. later \in SUBSET Nat
  BY ServerNumbers
<1>3. Min(later) \in later
  <2> HIDE DEF later
  <2> QED
    BY <1>1, <1>2, MinIs
<1>4. Min(later) \in h..NumHosts /\ map[Min(later)] # NoInfo
  BY <1>3
<1>5. Min(later) \in Hosts
  <2> HIDE DEF later
  <2> QED
    BY <1>4, ServerNumbers DEF Hosts
<1> QED
  BY <1>1, <1>4, <1>5

\* The host of a ThreadInfo in the map.
LEMMA HostOfIs ==
  ASSUME NEW i \in Mapped
  PROVE  /\ HostOf(i) \in Hosts /\ threadsInfo[HostOf(i)] = i
         /\ i # NoInfo
         /\ HostOf(i) + 1 \in Nat \ {0}
<1>1. i # NoInfo /\ \E h \in Hosts : threadsInfo[h] = i
  BY DEF Mapped
<1>2. HostOf(i) \in Hosts /\ threadsInfo[HostOf(i)] = i
  BY <1>1 DEF HostOf
<1>3. HostOf(i) \in Nat
  BY <1>2, ServerNumbers
<1> QED
  BY <1>1, <1>2, <1>3

\* The parts of the types.
InfosOK ==
  /\ sequencer \in 0..MaxConnects
  /\ threadsInfo \in [Hosts -> 0..sequencer]
  /\ sockfds \in [Infos -> SUBSET Sockets]
  /\ epoll \in [Infos -> SUBSET Sockets]
  /\ deleted \subseteq 1..sequencer

\* The lock of a ThreadInfo is only left held while it goes.
SpinOK == spin \subseteq deleted \intersect Mapped

SocketsOK ==
  /\ open \subseteq Sockets \union {listener}
  /\ peer \in [Sockets -> {"none", "up", "sent", "left", "closed", "reset"}]
  /\ host \in [Sockets -> Hosts]
  /\ backlog \in Seq(Hosts)
  /\ connects \in 0..MaxConnects
MainOK ==
  main \in [ pc : {"wait", "accept", "register", "insert", "create"}, fd : Sockets,
             info : 0..sequencer, new : BOOLEAN ]
WorkerOK ==
  worker \in [Infos -> [ pc : {"none", "start", "wait", "request", "find", "erase", "close",
                                "orphans", "unmap"},
                         fd : Sockets \union {listener}, at : 0..sequencer ]]

\* They are all of the types.
LEMMA PartsOfTypes == ServerTypeOK <=> InfosOK /\ SpinOK /\ SocketsOK /\ MainOK /\ WorkerOK
BY DEF ServerTypeOK, InfosOK, SpinOK, SocketsOK, MainOK, WorkerOK

\* The main thread has accepted a connection and is not done with it.
Adding == {"register", "insert", "create"}

\* Each ThreadInfo of the map is of one host.
OwnInv ==
  \A g, h \in Hosts : threadsInfo[g] = threadsInfo[h] /\ threadsInfo[g] # NoInfo => g = h

\* Where a removal works.
WorkInv ==
  \A i \in Infos :
    /\ worker[i].pc = "erase" => worker[i].at \in Mapped \union deleted
    /\ worker[i].pc = "orphans" => worker[i].at \in Mapped \union deleted \union {NoInfo}
    /\ worker[i].pc = "unmap" => worker[i].at \in Mapped /\ worker[i].at \in deleted

\* No two threads erase the same ThreadInfo.
UnmapInv ==
  \A i, k \in Infos : worker[i].pc = "unmap" /\ worker[k].pc = "unmap"
                        /\ worker[i].at = worker[k].at => i = k

\* The main thread adds to a ThreadInfo, and a connection holds its descriptor.
MiscInv ==
  /\ main.pc \in Adding => main.info # NoInfo
  /\ \A fd \in Sockets : fd \notin open => peer[fd] = "none"

\* The invariant of all behaviours, overlapped or not.
TypeInv ==
  /\ InfosOK /\ SpinOK /\ SocketsOK /\ MainOK /\ WorkerOK
  /\ OwnInv /\ WorkInv /\ UnmapInv /\ MiscInv

\* A thread's step.
Moved(i, pc, fd, at) ==
  /\ \A k \in Infos : k # i => worker'[k] = worker[k]
  /\ worker'[i] = [ pc |-> pc, fd |-> fd, at |-> at ]
  /\ worker' = [ k \in Infos |-> worker'[k] ]

\* The parts of a thread.
LEMMA WorkerIs ==
  ASSUME WorkerOK, NEW i \in Infos
  PROVE  /\ worker[i] = [ pc |-> worker[i].pc, fd |-> worker[i].fd, at |-> worker[i].at ]
         /\ worker[i].pc \in {"none", "start", "wait", "request", "find", "erase", "close", "orphans", "unmap"}
         /\ worker[i].fd \in Sockets \union {listener}
         /\ worker[i].at \in 0..sequencer
BY DEF WorkerOK

\* A step of one thread leaves the others where they are.
LEMMA WorkerMoves ==
  ASSUME WorkerOK, NEW i \in Infos, NEW r, worker' = [ worker EXCEPT ![i] = r ]
  PROVE  /\ \A k \in Infos : k # i => worker'[k] = worker[k]
         /\ worker'[i] = r
         /\ worker' = [ k \in Infos |-> worker'[k] ]
BY DEF WorkerOK

\* Where each step takes its thread.
LEMMA Moves ==
  ASSUME WorkerOK, NEW i \in Infos
  PROVE  /\ \A fd : RemoveClient(i, fd) => Moved(i, "find", fd, NoInfo)
         /\ \A fd : HandleClientRequest(i, fd) => Moved(i, "request", fd, NoInfo)
         /\ ThreadStep(i) => Moved(i, "wait", 0, NoInfo)
         /\ EraseSockfd(i) => Moved(i, "close", worker[i].fd, worker[i].at)
         /\ CloseSocket(i) => Moved(i, "orphans", 0, InfoFrom(threadsInfo, 1))
         /\ KeepInfo(i) => Moved(i, "orphans", worker[i].fd,
                                 InfoFrom(threadsInfo, HostOf(worker[i].at) + 1))
         /\ DeleteInfo(i) => Moved(i, "unmap", worker[i].fd, worker[i].at)
         /\ EraseInfo(i) => Moved(i, "orphans", worker[i].fd,
                                  InfoFrom(threadsInfo', HostOf(worker[i].at) + 1))
         /\ EndRemoval(i) => Moved(i, "wait", 0, NoInfo)
<1>0. worker \in [Infos -> [ pc : {"none", "start", "wait", "request", "find", "erase", "close",
                                "orphans", "unmap"},
                         fd : Sockets \union {listener}, at : 0..sequencer ]]
  BY DEF WorkerOK
<1>1. ASSUME NEW fd, RemoveClient(i, fd) PROVE Moved(i, "find", fd, NoInfo)
  BY <1>1, WorkerMoves DEF RemoveClient, Moved
<1>2. ASSUME EraseSockfd(i) PROVE Moved(i, "close", worker[i].fd, worker[i].at)
  BY <1>0, <1>2 DEF EraseSockfd, Moved
<1>3. ASSUME CloseSocket(i) PROVE Moved(i, "orphans", 0, InfoFrom(threadsInfo, 1))
  BY <1>0, <1>3 DEF CloseSocket, Moved
<1>4. ASSUME KeepInfo(i)
      PROVE  Moved(i, "orphans", worker[i].fd, InfoFrom(threadsInfo, HostOf(worker[i].at) + 1))
  BY <1>0, <1>4 DEF KeepInfo, HasOrphan, Moved
<1>5. ASSUME DeleteInfo(i) PROVE Moved(i, "unmap", worker[i].fd, worker[i].at)
  BY <1>0, <1>5 DEF DeleteInfo, Moved
<1>6. ASSUME EraseInfo(i)
      PROVE  Moved(i, "orphans", worker[i].fd, InfoFrom(threadsInfo', HostOf(worker[i].at) + 1))
  BY <1>0, <1>6 DEF EraseInfo, Moved
<1>7. ASSUME EndRemoval(i) PROVE Moved(i, "wait", 0, NoInfo)
  BY <1>7, WorkerMoves DEF EndRemoval, Moved, Doing
<1>8. ASSUME NEW fd, HandleClientRequest(i, fd) PROVE Moved(i, "request", fd, NoInfo)
  BY <1>8, WorkerMoves DEF HandleClientRequest, Moved
<1>9. ASSUME ThreadStep(i) PROVE Moved(i, "wait", 0, NoInfo)
  BY <1>9, WorkerMoves DEF ThreadStep, BeginToWait, WriteResponseToClient, Moved, Doing
<1> QED
  BY <1>1, <1>2, <1>3, <1>4, <1>5, <1>6, <1>7, <1>8, <1>9

\* After an error the thread is to remove some other descriptor.
LEMMA ErrorMoves ==
  ASSUME WorkerOK, NEW i \in Infos, NEW fd, RemoveOnError(i, fd)
  PROVE  \E d \in Sockets \union {listener} : Moved(i, "find", d, NoInfo)
<1>1. PICK d \in {0, listener} : worker' = [ worker EXCEPT ![i] = [ pc |-> "find", fd |-> d, at |-> NoInfo ] ]
  BY DEF RemoveOnError
<1>2. Moved(i, "find", d, NoInfo)
  BY <1>1, WorkerMoves DEF Moved
<1> QED
  BY <1>2, ServerNumbers

\* The thread of the map that is found has the socket, if one has.
LEMMA FindMoves ==
  ASSUME WorkerOK, NEW i \in Infos, GetThreadInfoBySockfd(i)
  PROVE  \/ Mapped = {} /\ Moved(i, "wait", 0, NoInfo)
         \/ \E a \in Mapped :
              /\ Moved(i, "erase", worker[i].fd, a)
              /\ \A b \in Mapped : worker[i].fd \in sockfds[b] => worker[i].fd \in sockfds[a]
<1> DEFINE inMap == { h \in Hosts : threadsInfo[h] # NoInfo }
           having == { h \in Hosts : threadsInfo[h] # NoInfo
                                       /\ worker[i].fd \in sockfds[threadsInfo[h]] }
           found == IF having # {} THEN threadsInfo[Min(having)] ELSE threadsInfo[Max(inMap)]
           next == IF Mapped = {} THEN Doing("wait")
                   ELSE [ pc |-> "erase", fd |-> worker[i].fd, at |-> found ]
<1>1. worker' = [ worker EXCEPT ![i] = next ]
  BY DEF GetThreadInfoBySockfd
<1>2. CASE Mapped = {}
  BY <1>1, <1>2, WorkerMoves DEF Moved, Doing
<1>3. CASE Mapped # {}
  <2>1. \A b \in Mapped : \E h \in inMap : threadsInfo[h] = b
    BY DEF Mapped
  <2>2. inMap # {}
    BY <1>3, <2>1
  <2>3. Max(inMap) \in inMap
    <3> HIDE DEF inMap
    <3>1. inMap \in SUBSET Hosts
      BY DEF inMap
    <3> QED
      BY <2>2, <3>1, MaxIs
  <2>4. having # {} => Min(having) \in having
    <3>1. having \in SUBSET Nat
      BY ServerNumbers
    <3> HIDE DEF having
    <3> QED
      BY <3>1, MinIs
  <2>5. found \in Mapped
    BY <2>3, <2>4 DEF Mapped
  <2>6. \A b \in Mapped : worker[i].fd \in sockfds[b] => worker[i].fd \in sockfds[found]
    <3>1. ASSUME NEW b \in Mapped, worker[i].fd \in sockfds[b] PROVE having # {}
      BY <2>1, <3>1
    <3>2. having # {} => worker[i].fd \in sockfds[found]
      BY <2>4
    <3> QED
      BY <3>1, <3>2
  <2> HIDE DEF found
  <2>7. worker' = [ worker EXCEPT ![i] = [ pc |-> "erase", fd |-> worker[i].fd, at |-> found ] ]
    BY <1>1, <1>3
  <2>8. Moved(i, "erase", worker[i].fd, found)
    BY <2>7, WorkerMoves DEF Moved
  <2> QED
    BY <2>5, <2>6, <2>8
<1> QED
  BY <1>2, <1>3

\* Whose steps keep the types of the threads.
LEMMA MovedTypes ==
  ASSUME WorkerOK, NEW i \in Infos, NEW pc, NEW fd, NEW at, Moved(i, pc, fd, at),
         pc \in {"none", "start", "wait", "request", "find", "erase", "close", "orphans", "unmap"},
         fd \in Sockets \union {listener}, at \in 0..sequencer, sequencer' = sequencer
  PROVE  WorkerOK'
BY DEF WorkerOK, Moved

-----------------------------------------------------------------------------
(* Types. *)

\* The invariant holds at the start.
LEMMA TypeInvInit == Initially => TypeInv
<1> SUFFICES ASSUME Initially PROVE TypeInv
  OBVIOUS
<1>2. InfosOK /\ SpinOK
  BY ServerNumbers DEF Initially, InfosOK, SpinOK, NoInfo
<1>3. SocketsOK
  BY ServerNumbers DEF Initially, SocketsOK, Hosts
<1>4. MainOK
  BY ServerNumbers DEF Initially, MainOK, At, NoInfo
<1>5. WorkerOK
  BY ServerNumbers DEF Initially, WorkerOK, Doing, NoInfo
<1>6. OwnInv
  BY DEF Initially, OwnInv, NoInfo
<1>7. WorkInv /\ UnmapInv
  BY DEF Initially, WorkInv, UnmapInv, Doing
<1>8. MiscInv
  BY DEF Initially, MiscInv, Adding, At
<1> QED
  BY <1>2, <1>3, <1>4, <1>5, <1>6, <1>7, <1>8 DEF TypeInv

\* The parts of the invariant that depend on fewer variables.
LEMMA InfosKept ==
  ASSUME TypeInv, UNCHANGED infos
  PROVE  /\ InfosOK' /\ SpinOK' /\ OwnInv' /\ Mapped' = Mapped /\ sequencer' = sequencer
         /\ deleted' = deleted
         /\ worker' = worker => WorkerOK' /\ WorkInv' /\ UnmapInv'
         /\ main' = main => MainOK'
BY DEF TypeInv, infos, InfosOK, SpinOK, OwnInv, Mapped, WorkerOK, WorkInv, UnmapInv, MainOK

\* The connections are left alone.
LEMMA SocketsKept ==
  ASSUME TypeInv, UNCHANGED sockets
  PROVE  /\ SocketsOK' /\ open' = open /\ peer' = peer
         /\ (main.pc \in Adding => main.info # NoInfo)' => MiscInv'
BY DEF TypeInv, sockets, SocketsOK, MiscInv

\* A connection arrives.
LEMMA ArrivalTypes ==
  ASSUME TypeInv, Connect PROVE TypeInv'
<1>1. UNCHANGED << infos, open, peer, host, main, worker >>
  BY DEF Connect
<1>2. SocketsOK'
  <2>1. connects' \in 0..MaxConnects
    BY ServerNumbers DEF Connect, TypeInv, SocketsOK
  <2>2. backlog' \in Seq(Hosts)
    BY DEF Connect, TypeInv, SocketsOK
  <2> QED
    BY <1>1, <2>1, <2>2 DEF TypeInv, SocketsOK
<1>3. MiscInv'
  BY <1>1 DEF TypeInv, MiscInv
<1> QED
  BY <1>1, <1>2, <1>3, InfosKept DEF TypeInv

\* A client acts.
LEMMA ClientTypes ==
  ASSUME TypeInv, NEW fd \in Sockets, ClientActs(fd) PROVE TypeInv'
<1>1. UNCHANGED << infos, open, host, backlog, connects, main, worker >>
  BY DEF ClientActs
<1>2. PICK a \in Acts : peer[fd] = a[1] /\ peer' = [ peer EXCEPT ![fd] = a[2] ]
  BY DEF ClientActs
<1>3. a[1] # "none" /\ a[2] \in {"up", "sent", "left", "closed", "reset"}
  BY <1>2 DEF Acts
<1>4. SocketsOK'
  BY <1>1, <1>2, <1>3 DEF TypeInv, SocketsOK
<1>5. MiscInv'
  BY <1>1, <1>2, <1>3 DEF TypeInv, MiscInv, SocketsOK
<1> QED
  BY <1>1, <1>4, <1>5, InfosKept DEF TypeInv

\* The main thread goes from one place to the next.
LEMMA MainTypes ==
  ASSUME TypeInv, Wake \/ NothingToAccept PROVE TypeInv'
<1>1. UNCHANGED << infos, sockets, worker >> /\ (main' = At("accept") \/ main' = At("wait"))
  BY DEF Wake, NothingToAccept, infos
<1>2. main'.pc \notin Adding
  BY <1>1 DEF At, Adding
<1>3. MainOK'
  <2>1. sequencer' \in Nat
    BY <1>1, ServerNumbers DEF TypeInv, InfosOK, infos
  <2>2. 0 \in Sockets /\ NoInfo \in 0..sequencer'
    BY <2>1, ServerNumbers DEF NoInfo
  <2>3. CASE main' = At("accept")
    BY <2>2, <2>3 DEF At, MainOK
  <2>4. CASE main' = At("wait")
    BY <2>2, <2>4 DEF At, MainOK
  <2> QED
    BY <1>1, <2>3, <2>4
<1> QED
  BY <1>1, <1>2, <1>3, InfosKept, SocketsKept DEF TypeInv

\* What accept does.
LEMMA AcceptIs ==
  ASSUME TypeInv, AddNewClient
  PROVE  \E fd \in Sockets, h \in Hosts :
           /\ fd \notin open /\ main.pc = "accept"
           /\ main'.pc = "register" /\ main'.fd = fd /\ main'.info = threadsInfo'[h]
           /\ main' = [ pc |-> "register", fd |-> fd, info |-> threadsInfo'[h], new |-> main'.new ]
           /\ \/ /\ threadsInfo[h] # NoInfo /\ main'.new = FALSE
                 /\ threadsInfo' = threadsInfo /\ sequencer' = sequencer
              \/ /\ threadsInfo[h] = NoInfo /\ main'.new = TRUE
                 /\ sequencer < MaxConnects /\ sequencer' = sequencer + 1
                 /\ threadsInfo' = [ threadsInfo EXCEPT ![h] = sequencer' ]
           /\ open' = open \union {fd}
           /\ peer' = [ peer EXCEPT ![fd] = "up" ]
           /\ host' = [ host EXCEPT ![fd] = h ]
           /\ backlog' \in Seq(Hosts)
<1> DEFINE fd == Min(Sockets \ open)
           h == Head(backlog)
<1>1. fd \in Sockets /\ fd \notin open
  <2>1. Sockets \ open \in SUBSET Nat /\ Sockets \ open # {}
    BY ServerNumbers DEF AddNewClient
  <2>2. fd \in Sockets \ open
    BY <2>1, MinIs
  <2> QED
    BY <2>2
<1>2. h \in Hosts /\ backlog' \in Seq(Hosts)
  BY DEF AddNewClient, TypeInv, SocketsOK
<1>3. GetOrCreateThreadInfo(h) /\ main.pc = "accept"
      /\ open' = open \union {fd} /\ peer' = [ peer EXCEPT ![fd] = "up" ]
      /\ host' = [ host EXCEPT ![fd] = h ]
  BY DEF AddNewClient
<1> HIDE DEF h
<1>4. CASE threadsInfo[h] # NoInfo
  <2>1. /\ main' = [ pc |-> "register", fd |-> fd, info |-> threadsInfo[h], new |-> FALSE ]
        /\ threadsInfo' = threadsInfo /\ sequencer' = sequencer
    BY <1>3, <1>4 DEF GetOrCreateThreadInfo
  <2> HIDE DEF fd
  <2> QED
    BY <1>1, <1>2, <1>3, <1>4, <2>1
<1>5. CASE threadsInfo[h] = NoInfo
  <2>1. /\ main' = [ pc |-> "register", fd |-> fd, info |-> sequencer', new |-> TRUE ]
        /\ threadsInfo' = [ threadsInfo EXCEPT ![h] = sequencer' ]
        /\ sequencer < MaxConnects /\ sequencer' = sequencer + 1
    BY <1>3, <1>5 DEF GetOrCreateThreadInfo
  <2> HIDE DEF fd
  <2>2. threadsInfo'[h] = sequencer'
    BY <1>2, <2>1 DEF TypeInv, InfosOK
  <2> QED
    BY <1>1, <1>2, <1>3, <1>5, <2>1, <2>2
<1> QED
  BY <1>4, <1>5

\* A new ThreadInfo is unlike all others.
LEMMA AcceptTypes ==
  ASSUME TypeInv, AddNewClient PROVE TypeInv'
<1>1. PICK fd \in Sockets, h \in Hosts :
           /\ fd \notin open /\ main.pc = "accept"
           /\ main'.pc = "register" /\ main'.fd = fd /\ main'.info = threadsInfo'[h]
           /\ main' = [ pc |-> "register", fd |-> fd, info |-> threadsInfo'[h], new |-> main'.new ]
           /\ \/ /\ threadsInfo[h] # NoInfo /\ main'.new = FALSE
                 /\ threadsInfo' = threadsInfo /\ sequencer' = sequencer
              \/ /\ threadsInfo[h] = NoInfo /\ main'.new = TRUE
                 /\ sequencer < MaxConnects /\ sequencer' = sequencer + 1
                 /\ threadsInfo' = [ threadsInfo EXCEPT ![h] = sequencer' ]
           /\ open' = open \union {fd}
           /\ peer' = [ peer EXCEPT ![fd] = "up" ]
           /\ host' = [ host EXCEPT ![fd] = h ]
           /\ backlog' \in Seq(Hosts)
  BY AcceptIs
<1>2. UNCHANGED << sockfds, epoll, deleted, spin, connects, worker >>
  BY DEF AddNewClient
<1>0. /\ sequencer \in Nat /\ MaxConnects \in Nat /\ sequencer <= MaxConnects
      /\ threadsInfo \in [Hosts -> 0..sequencer]
  BY ServerNumbers DEF TypeInv, InfosOK
<1>3. /\ sequencer' \in Nat /\ sequencer <= sequencer' /\ sequencer' <= MaxConnects
      /\ threadsInfo' \in [Hosts -> 0..sequencer']
      /\ threadsInfo'[h] # NoInfo
      /\ \A g \in Hosts : g # h => threadsInfo'[g] = threadsInfo[g]
      /\ threadsInfo'[h] = threadsInfo[h] \/ (threadsInfo[h] = NoInfo /\ threadsInfo'[h] = sequencer + 1)
  <2>1. CASE threadsInfo[h] # NoInfo
    BY <1>0, <1>1, <2>1
  <2>2. CASE threadsInfo[h] = NoInfo
    <3>1. threadsInfo' = [ threadsInfo EXCEPT ![h] = sequencer' ] /\ sequencer' = sequencer + 1
          /\ sequencer < MaxConnects
      BY <1>1, <2>2
    <3>2. sequencer' # NoInfo /\ sequencer' \in Nat /\ sequencer' <= MaxConnects /\ sequencer <= sequencer'
      BY <1>0, <3>1 DEF NoInfo
    <3>3. threadsInfo' \in [Hosts -> 0..sequencer']
      BY <1>0, <3>1, <3>2
    <3> QED
      BY <1>0, <2>2, <3>1, <3>2, <3>3
  <2> QED
    BY <2>1, <2>2
<1>4. InfosOK'
  <2>1. deleted' \subseteq 1..sequencer'
    BY <1>0, <1>2, <1>3 DEF TypeInv, InfosOK
  <2> QED
    BY <1>0, <1>2, <1>3, <2>1 DEF TypeInv, InfosOK
<1>5. Mapped \subseteq Mapped'
  BY <1>1, <1>3 DEF Mapped
<1>6. SpinOK'
  BY <1>2, <1>5 DEF TypeInv, SpinOK
<1>7. SocketsOK'
  BY <1>1, <1>2 DEF TypeInv, SocketsOK
<1>8. MainOK'
  BY <1>1, <1>3 DEF MainOK
<1>9. WorkerOK'
  <2>1. 0..sequencer \subseteq 0..sequencer'
    BY <1>0, <1>3
  <2>2. worker' = worker
    BY <1>2
  <2> QED
    BY <2>1, <2>2 DEF TypeInv, WorkerOK
<1>10. OwnInv'
  <2>1. ASSUME NEW f \in Hosts, NEW g \in Hosts, threadsInfo'[f] = threadsInfo'[g],
               threadsInfo'[f] # NoInfo, f # g
        PROVE  FALSE
    <3>1. \A k \in Hosts : threadsInfo[k] # sequencer + 1
      BY <1>0
    <3>2. OwnInv
      BY DEF TypeInv
    <3> QED
      BY <1>3, <2>1, <3>1, <3>2 DEF OwnInv
  <2> QED
    BY <2>1 DEF OwnInv
<1>11. WorkInv' /\ UnmapInv'
  BY <1>2, <1>5 DEF TypeInv, WorkInv, UnmapInv
<1>12. MiscInv'
  <2>1. main'.info # NoInfo
    BY <1>1, <1>3
  <2>2. \A d \in Sockets : d \notin open' => peer'[d] = "none"
    BY <1>1 DEF TypeInv, MiscInv, SocketsOK
  <2> QED
    BY <2>1, <2>2 DEF MiscInv
<1> QED
  BY <1>4, <1>6, <1>7, <1>8, <1>9, <1>10, <1>11, <1>12 DEF TypeInv

\* The connection is watched, then entered.
LEMMA RegisterTypes ==
  ASSUME TypeInv, AddSockfd \/ InsertSockfd PROVE TypeInv'
<1>1. /\ UNCHANGED << sequencer, threadsInfo, deleted, spin, sockets, worker >>
      /\ main.pc \in Adding
  BY DEF AddSockfd, InsertSockfd, Adding
<1>2. /\ main.fd \in Sockets
      /\ main.info \in 0..sequencer /\ main.info # NoInfo
      /\ main.pc = main.pc /\ main.new \in BOOLEAN
  BY <1>1 DEF TypeInv, MainOK, MiscInv
<1>3. InfosOK'
  <2>1. CASE AddSockfd
    BY <1>1, <1>2, <2>1 DEF AddSockfd, TypeInv, InfosOK
  <2>2. CASE InsertSockfd
    BY <1>1, <1>2, <2>2 DEF InsertSockfd, TypeInv, InfosOK
  <2> QED
    BY <2>1, <2>2
<1>4. MainOK' /\ (main'.pc \in Adding => main'.info # NoInfo)
  <2>1. CASE AddSockfd
    BY <1>1, <1>2, <2>1 DEF AddSockfd, TypeInv, MainOK
  <2>2. CASE InsertSockfd
    <3>1. main' = [ main EXCEPT !.pc = "create" ] \/ main' = At("accept")
      BY <2>2 DEF InsertSockfd
    <3>2. CASE main' = [ main EXCEPT !.pc = "create" ]
      BY <1>1, <1>2, <3>2 DEF TypeInv, MainOK
    <3>3. CASE main' = At("accept")
      <4>1. 0 \in Sockets /\ NoInfo \in 0..sequencer'
        BY <1>1, ServerNumbers DEF NoInfo, TypeInv, InfosOK
      <4> QED
        BY <1>1, <4>1, <3>3 DEF At, MainOK, Adding
    <3> QED
      BY <3>1, <3>2, <3>3
  <2> QED
    BY <2>1, <2>2
<1>5. SpinOK' /\ OwnInv' /\ WorkInv' /\ UnmapInv' /\ WorkerOK'
  BY <1>1 DEF TypeInv, SpinOK, OwnInv, WorkInv, UnmapInv, WorkerOK, Mapped
<1> QED
  BY <1>1, <1>3, <1>4, <1>5, SocketsKept DEF TypeInv

\* The thread of a new ThreadInfo starts.
LEMMA CreateTypes ==
  ASSUME TypeInv, CreateThread PROVE TypeInv'
<1>1. /\ UNCHANGED << infos, sockets >> /\ main' = At("accept") /\ main.info \notin deleted
      /\ worker' = [ worker EXCEPT ![main.info] = [ pc |-> "start", fd |-> main.fd, at |-> NoInfo ] ] /\ main.pc = "create"
  BY DEF CreateThread, infos
<1>2. main.info \in Infos
  BY <1>1, ServerNumbers DEF TypeInv, InfosOK, MainOK, MiscInv, Adding, NoInfo, Infos
<1>3. /\ 0 \in Sockets /\ main.fd \in Sockets
      /\ NoInfo \in 0..sequencer /\ sequencer' = sequencer
  BY <1>1, ServerNumbers DEF NoInfo, TypeInv, InfosOK, MainOK, infos
<1>4. MainOK' /\ main'.pc \notin Adding
  <2>1. main'.pc \notin Adding
    BY <1>1 DEF At, Adding
  <2> QED
    BY <1>1, <1>3, <2>1 DEF At, MainOK
<1>5. WorkerOK /\ Moved(main.info, "start", main.fd, NoInfo)
  BY <1>1, <1>2, WorkerMoves DEF TypeInv, Moved
<1>6. WorkerOK'
  BY <1>2, <1>3, <1>5, MovedTypes
<1>7. WorkInv' /\ UnmapInv'
  <2>1. \A i \in Infos : worker'[i] = worker[i] \/ worker'[i].pc = "start"
    BY <1>5 DEF Moved
  <2>2. Mapped' = Mapped /\ deleted' = deleted
    BY <1>1, InfosKept
  <2>3. WorkInv'
    BY <2>1, <2>2 DEF TypeInv, WorkInv
  <2>4. UnmapInv'
    BY <2>1, <2>2 DEF TypeInv, UnmapInv
  <2> QED
    BY <2>3, <2>4
<1> QED
  BY <1>1, <1>4, <1>6, <1>7, InfosKept, SocketsKept DEF TypeInv

\* A thread goes to a step that works on no ThreadInfo, or on one of the map.
LEMMA MovedWork ==
  ASSUME TypeInv, UNCHANGED infos, NEW i \in Infos, NEW pc, NEW fd, NEW at,
         Moved(i, pc, fd, at), fd \in Sockets \union {listener},
         \/ pc \in {"wait", "request", "find"} /\ at = NoInfo
         \/ pc = "erase" /\ at \in Mapped
         \/ pc = "orphans" /\ at \in Mapped \union {NoInfo}
  PROVE  WorkerOK' /\ WorkInv' /\ UnmapInv'
<1>1. Mapped' = Mapped /\ deleted' = deleted /\ sequencer' = sequencer
  BY InfosKept
<1>2. at \in 0..sequencer
  <2>1. NoInfo \in 0..sequencer
    BY ServerNumbers DEF TypeInv, InfosOK, NoInfo
  <2>2. ASSUME NEW j \in Mapped PROVE j \in 0..sequencer
    BY DEF Mapped, TypeInv, InfosOK
  <2> QED
    BY <2>1, <2>2
<1>3. WorkerOK'
  <2>1. pc \in {"none", "start", "wait", "request", "find", "erase", "close", "orphans", "unmap"}
    OBVIOUS
  <2> QED
    BY <1>1, <1>2, <2>1, MovedTypes DEF TypeInv
<1>4. WorkInv'
  <2>1. ASSUME NEW k \in Infos
        PROVE  /\ worker'[k].pc = "erase" => worker'[k].at \in Mapped \union deleted
               /\ worker'[k].pc = "orphans" => worker'[k].at \in Mapped \union deleted \union {NoInfo}
               /\ worker'[k].pc = "unmap" => worker'[k].at \in Mapped /\ worker'[k].at \in deleted
    <3>1. CASE k = i
      BY <3>1 DEF Moved
    <3>2. CASE k # i
      BY <3>2 DEF Moved, TypeInv, WorkInv
    <3> QED
      BY <3>1, <3>2
  <2> QED
    BY <1>1, <2>1 DEF WorkInv
<1>5. UnmapInv'
  <2>1. worker'[i].pc # "unmap"
    BY DEF Moved
  <2> QED
    BY <2>1 DEF Moved, TypeInv, UnmapInv
<1> QED
  BY <1>3, <1>4, <1>5

\* A request is read, ...
LEMMA RequestTypes ==
  ASSUME TypeInv, NEW i \in Infos, NEW fd \in Sockets, HandleClientRequest(i, fd) PROVE TypeInv'
<1>1. UNCHANGED << infos, sockets, main >>
  BY DEF HandleClientRequest
<1>2. Moved(i, "request", fd, NoInfo)
  BY Moves DEF TypeInv
<1>3. WorkerOK' /\ WorkInv' /\ UnmapInv'
  BY <1>1, <1>2, MovedWork
<1> QED
  BY <1>1, <1>3, InfosKept, SocketsKept DEF TypeInv, MiscInv

\* ... and answered, or a thread begins to wait: connections stay connections.
LEMMA AnswerIs ==
  ASSUME TypeInv, NEW i \in Infos, ThreadStep(i)
  PROVE  /\ \A fd \in Sockets : peer'[fd] = "none" <=> peer[fd] = "none"
         /\ peer' \in [Sockets -> {"none", "up", "sent", "left", "closed", "reset"}]
<1>1. \A p \in DOMAIN Answered : p # "none" /\ Answered[p] \in {"reset", "up"}
  BY DEF Answered
<1>2. \/ peer' = peer
      \/ peer' = [ fd \in Sockets |-> IF fd = worker[i].fd /\ peer[fd] \in DOMAIN Answered
                                     THEN Answered[peer[fd]] ELSE peer[fd] ]
  BY DEF ThreadStep, BeginToWait, WriteResponseToClient, sockets
<1>3. peer \in [Sockets -> {"none", "up", "sent", "left", "closed", "reset"}]
  BY DEF TypeInv, SocketsOK
<1> QED
  BY <1>1, <1>2, <1>3

LEMMA AnswerTypes ==
  ASSUME TypeInv, NEW i \in Infos, ThreadStep(i) PROVE TypeInv'
<1>1. UNCHANGED << infos, open, host, backlog, connects, main >> /\ 0 \in Sockets
  BY ServerNumbers DEF ThreadStep, BeginToWait, WriteResponseToClient, sockets
<1>2. Moved(i, "wait", 0, NoInfo)
  BY Moves DEF TypeInv
<1>3. WorkerOK' /\ WorkInv' /\ UnmapInv'
  BY <1>1, <1>2, MovedWork
<1>4. SocketsOK' /\ MiscInv'
  BY <1>1, AnswerIs DEF TypeInv, SocketsOK, MiscInv
<1> QED
  BY <1>1, <1>3, <1>4, InfosKept DEF TypeInv

\* A removal begins.
LEMMA BeginTypes ==
  ASSUME TypeInv, NEW i \in Infos, NEW fd \in Sockets,
         RemoveClient(i, fd) \/ RemoveOnError(i, fd)
  PROVE  TypeInv'
<1>1. UNCHANGED << infos, sockets, main >>
  BY DEF RemoveClient, RemoveOnError
<1>2. \E d \in Sockets \union {listener} : Moved(i, "find", d, NoInfo)
  BY Moves, ErrorMoves DEF TypeInv
<1>3. WorkerOK' /\ WorkInv' /\ UnmapInv'
  BY <1>1, <1>2, MovedWork
<1> QED
  BY <1>1, <1>3, InfosKept, SocketsKept DEF TypeInv, MiscInv

\* The ThreadInfo of the socket is looked up.
LEMMA FindTypes ==
  ASSUME TypeInv, NEW i \in Infos, GetThreadInfoBySockfd(i) PROVE TypeInv'
<1>1. UNCHANGED << infos, sockets, main >>
  BY DEF GetThreadInfoBySockfd
<1>2. worker[i].fd \in Sockets \union {listener} /\ 0 \in Sockets
  BY WorkerIs, ServerNumbers DEF TypeInv
<1>3. WorkerOK' /\ WorkInv' /\ UnmapInv'
  <2>1. CASE Moved(i, "wait", 0, NoInfo)
    BY <1>1, <1>2, <2>1, MovedWork
  <2>2. CASE \E a \in Mapped : Moved(i, "erase", worker[i].fd, a)
    BY <1>1, <1>2, <2>2, MovedWork
  <2> QED
    BY <2>1, <2>2, FindMoves DEF TypeInv
<1> QED
  BY <1>1, <1>3, InfosKept, SocketsKept DEF TypeInv, MiscInv

\* The socket is taken from its set.
LEMMA EraseTypes ==
  ASSUME TypeInv, NEW i \in Infos, EraseSockfd(i) PROVE TypeInv'
<1>1. /\ UNCHANGED << sequencer, threadsInfo, epoll, deleted, spin, sockets, main >>
      /\ sockfds' = [ sockfds EXCEPT ![worker[i].at] = @ \ {worker[i].fd} ]
      /\ worker[i].pc = "erase" /\ worker[i].at \notin deleted
  BY DEF EraseSockfd
<1>2. Moved(i, "close", worker[i].fd, worker[i].at) /\ WorkerOK
  BY Moves DEF TypeInv
<1>3. worker[i].fd \in Sockets \union {listener} /\ worker[i].at \in 0..sequencer
  BY <1>2, WorkerIs
<1>4. InfosOK' /\ SpinOK' /\ OwnInv'
  <2>1. sockfds' \in [Infos -> SUBSET Sockets]
    BY <1>1 DEF TypeInv, InfosOK
  <2>2. InfosOK'
    BY <1>1, <2>1 DEF TypeInv, InfosOK
  <2>3. SpinOK' /\ OwnInv'
    BY <1>1 DEF TypeInv, SpinOK, OwnInv, Mapped
  <2> QED
    BY <2>2, <2>3
<1>5. WorkerOK'
  BY <1>1, <1>2, <1>3, MovedTypes
<1>6. MainOK' /\ (main.pc \in Adding => main.info # NoInfo)'
  BY <1>1 DEF TypeInv, MainOK, MiscInv
<1>7. WorkInv'
  BY <1>1, <1>2 DEF Moved, TypeInv, WorkInv, Mapped
<1>8. UnmapInv'
  <2>1. worker'[i].pc # "unmap"
    BY <1>2 DEF Moved
  <2> QED
    BY <1>2, <2>1 DEF Moved, TypeInv, UnmapInv
<1> QED
  BY <1>1, <1>4, <1>5, <1>6, <1>7, <1>8, SocketsKept DEF TypeInv

\* It is closed.
LEMMA CloseSocketTypes ==
  ASSUME TypeInv, NEW i \in Infos, CloseSocket(i) PROVE TypeInv'
<1> DEFINE fd == worker[i].fd
           at == InfoFrom(threadsInfo, 1)
<1>1. /\ UNCHANGED << sequencer, threadsInfo, sockfds, deleted, spin, backlog, connects, main >>
      /\ open' = open \ {fd}
      /\ epoll' = [ j \in Infos |-> epoll[j] \ {fd} ]
      /\ peer' = [ d \in Sockets |-> IF d = fd THEN "none" ELSE peer[d] ]
      /\ host' = [ d \in Sockets |-> IF d = fd THEN 1 ELSE host[d] ]
  BY DEF CloseSocket
<1>2. Moved(i, "orphans", 0, at) /\ WorkerOK
  BY Moves DEF TypeInv
<1>3. at \in Mapped \union {NoInfo}
  BY InfoFromIs DEF Mapped
<1> HIDE DEF at
<1>4. 0 \in Sockets /\ 1 \in Hosts /\ at \in 0..sequencer
  BY <1>3, ServerNumbers DEF Mapped, Hosts, TypeInv, InfosOK, NoInfo
<1>5. InfosOK' /\ SpinOK' /\ OwnInv'
  BY <1>1 DEF TypeInv, InfosOK, SpinOK, OwnInv, Mapped
<1>6. SocketsOK'
  BY <1>1, <1>4 DEF TypeInv, SocketsOK
<1>7. WorkerOK'
  BY <1>1, <1>2, <1>4, MovedTypes
<1>8. MainOK' /\ MiscInv'
  BY <1>1 DEF TypeInv, MainOK, MiscInv
<1>9. WorkInv'
  BY <1>1, <1>2, <1>3 DEF Moved, TypeInv, WorkInv, Mapped
<1>10. UnmapInv'
  <2>1. worker'[i].pc # "unmap"
    BY <1>2 DEF Moved
  <2> QED
    BY <1>2, <2>1 DEF Moved, TypeInv, UnmapInv
<1> QED
  BY <1>5, <1>6, <1>7, <1>8, <1>9, <1>10 DEF TypeInv

\* A ThreadInfo with sockets is passed over.
LEMMA KeepTypes ==
  ASSUME TypeInv, NEW i \in Infos, KeepInfo(i) PROVE TypeInv'
<1> DEFINE at == InfoFrom(threadsInfo, HostOf(worker[i].at) + 1)
<1>1. /\ UNCHANGED << infos, sockets, main >>
      /\ worker[i].pc = "orphans" /\ worker[i].at \notin deleted /\ worker[i].at # NoInfo
  BY DEF KeepInfo, HasOrphan
<1>2. Moved(i, "orphans", worker[i].fd, at) /\ worker[i].fd \in Sockets \union {listener}
  BY Moves, WorkerIs DEF TypeInv
<1>3. worker[i].at \in Mapped
  BY <1>1 DEF TypeInv, WorkInv
<1>4. at \in Mapped \union {NoInfo}
  <2>1. HostOf(worker[i].at) + 1 \in Nat \ {0}
    BY <1>3, HostOfIs
  <2> QED
    BY <2>1, InfoFromIs DEF Mapped
<1> HIDE DEF at
<1>5. WorkerOK' /\ WorkInv' /\ UnmapInv'
  BY <1>1, <1>2, <1>4, MovedWork
<1> QED
  BY <1>1, <1>5, InfosKept, SocketsKept DEF TypeInv, MiscInv

\* The removal is over.
LEMMA EndTypes ==
  ASSUME TypeInv, NEW i \in Infos, EndRemoval(i) PROVE TypeInv'
<1>1. UNCHANGED << infos, sockets, main >> /\ 0 \in Sockets
  BY ServerNumbers DEF EndRemoval
<1>2. Moved(i, "wait", 0, NoInfo)
  BY Moves DEF TypeInv
<1>3. WorkerOK' /\ WorkInv' /\ UnmapInv'
  BY <1>1, <1>2, MovedWork
<1> QED
  BY <1>1, <1>3, InfosKept, SocketsKept DEF TypeInv, MiscInv

\* The first thread that finds an orphan locks it for good.
LEMMA DeleteTypes ==
  ASSUME TypeInv, NEW i \in Infos, DeleteInfo(i) PROVE TypeInv'
<1> DEFINE at == worker[i].at
<1>1. /\ UNCHANGED << sequencer, threadsInfo, sockfds, epoll, sockets, main >>
      /\ spin' = spin \union {at} /\ deleted' = deleted \union {at}
      /\ worker[i].pc = "orphans" /\ at \notin deleted /\ at # NoInfo
  BY DEF DeleteInfo, HasOrphan
<1>2. Moved(i, "unmap", worker[i].fd, at) /\ WorkerOK
  BY Moves DEF TypeInv
<1>3. at \in Mapped /\ at \in 1..sequencer
  <2>1. at \in Mapped
    BY <1>1 DEF TypeInv, WorkInv
  <2> QED
    BY <2>1, ServerNumbers DEF Mapped, TypeInv, InfosOK, NoInfo
<1>4. InfosOK' /\ SpinOK' /\ OwnInv'
  <2>1. deleted' \subseteq 1..sequencer
    BY <1>1, <1>3 DEF TypeInv, InfosOK
  <2>2. InfosOK'
    BY <1>1, <2>1 DEF TypeInv, InfosOK
  <2>3. SpinOK'
    BY <1>1, <1>3 DEF TypeInv, SpinOK, Mapped
  <2>4. OwnInv'
    BY <1>1 DEF TypeInv, OwnInv
  <2> QED
    BY <2>2, <2>3, <2>4
<1>5. WorkerOK'
  <2>1. worker[i].fd \in Sockets \union {listener} /\ at \in 0..sequencer
    BY <1>2, WorkerIs
  <2> QED
    BY <1>1, <1>2, <2>1, MovedTypes
<1>6. MainOK' /\ (main.pc \in Adding => main.info # NoInfo)'
  BY <1>1 DEF TypeInv, MainOK, MiscInv
<1>7. Mapped' = Mapped
  BY <1>1 DEF Mapped
<1>8. WorkInv'
  <2>1. ASSUME NEW k \in Infos
        PROVE  /\ worker'[k].pc = "erase" => worker'[k].at \in Mapped' \union deleted'
               /\ worker'[k].pc = "orphans" => worker'[k].at \in Mapped' \union deleted' \union {NoInfo}
               /\ worker'[k].pc = "unmap" => worker'[k].at \in Mapped' /\ worker'[k].at \in deleted'
    <3>1. CASE k = i
      BY <1>1, <1>2, <1>3, <1>7, <3>1 DEF Moved
    <3>2. CASE k # i
      BY <1>1, <1>2, <1>7, <3>2 DEF Moved, TypeInv, WorkInv
    <3> QED
      BY <3>1, <3>2
  <2> QED
    BY <2>1 DEF WorkInv
<1>9. UnmapInv'
  <2>1. ASSUME NEW k \in Infos, worker'[k].pc = "unmap", k # i
        PROVE  worker[k].pc = "unmap" /\ worker'[k].at = worker[k].at /\ worker'[k].at # worker'[i].at
    BY <1>1, <1>2, <2>1 DEF Moved, TypeInv, WorkInv
  <2> QED
    BY <2>1 DEF TypeInv, UnmapInv
<1> QED
  BY <1>1, <1>4, <1>5, <1>6, <1>8, <1>9, SocketsKept DEF TypeInv

\* What is left in the map once a ThreadInfo is erased.
LEMMA EraseIs ==
  ASSUME TypeInv, NEW i \in Infos, EraseInfo(i)
  PROVE  /\ worker[i].at \in Mapped /\ worker[i].at \in deleted
         /\ \E h \in Hosts :
              /\ threadsInfo[h] = worker[i].at /\ threadsInfo' = [ threadsInfo EXCEPT ![h] = NoInfo ]
              /\ \A g \in Hosts : threadsInfo[g] = worker[i].at => g = h
         /\ Mapped' = Mapped \ {worker[i].at}
         /\ HostOf(worker[i].at) + 1 \in Nat \ {0}
<1> DEFINE info == worker[i].at
           h == HostOf(info)
<1>1. /\ worker[i].pc = "unmap" /\ threadsInfo' = [ threadsInfo EXCEPT ![h] = NoInfo ]
  BY DEF EraseInfo
<1>2. info \in Mapped /\ info \in deleted
  BY <1>1 DEF TypeInv, WorkInv
<1>3. h \in Hosts /\ threadsInfo[h] = info /\ info # NoInfo /\ h + 1 \in Nat \ {0}
  BY <1>2, HostOfIs
<1>4. \A g \in Hosts : threadsInfo[g] = info => g = h
  BY <1>3 DEF TypeInv, OwnInv
<1> HIDE DEF h
<1>5. \A g \in Hosts : threadsInfo'[g] = IF g = h THEN NoInfo ELSE threadsInfo[g]
  BY <1>1, <1>3 DEF TypeInv, InfosOK
<1>6. Mapped' = Mapped \ {info}
  BY <1>3, <1>4, <1>5 DEF Mapped
<1> QED
  BY <1>1, <1>2, <1>3, <1>4, <1>6 DEF h

\* The orphan leaves the map.
LEMMA UnmapTypes ==
  ASSUME TypeInv, NEW i \in Infos, EraseInfo(i) PROVE TypeInv'
<1> DEFINE info == worker[i].at
           at == InfoFrom(threadsInfo', HostOf(info) + 1)
<1>1. /\ UNCHANGED << sequencer, sockfds, epoll, deleted, sockets, main >>
      /\ spin' = spin \ {info} /\ worker[i].pc = "unmap"
  BY DEF EraseInfo
<1>2. Moved(i, "orphans", worker[i].fd, at) /\ WorkerOK
  BY Moves DEF TypeInv
<1>3. Mapped' = Mapped \ {info} /\ HostOf(info) + 1 \in Nat \ {0}
      /\ info \in deleted
  BY EraseIs
<1>4. at \in Mapped' \union {NoInfo}
  BY <1>3, InfoFromIs DEF Mapped
<1>5. PICK h \in Hosts : threadsInfo' = [ threadsInfo EXCEPT ![h] = NoInfo ]
  BY EraseIs
<1> HIDE DEF at
<1>6. InfosOK'
  <2>1. NoInfo \in 0..sequencer
    BY ServerNumbers DEF NoInfo, TypeInv, InfosOK
  <2> QED
    BY <1>1, <1>5, <2>1 DEF TypeInv, InfosOK
<1>7. SpinOK'
  BY <1>1, <1>3 DEF TypeInv, SpinOK
<1>8. OwnInv'
  BY <1>5 DEF TypeInv, OwnInv, InfosOK
<1>9. WorkerOK'
  <2>1. worker[i].fd \in Sockets \union {listener}
    BY <1>2, WorkerIs
  <2>2. at \in 0..sequencer
    BY <1>1, <1>4, <1>6 DEF Mapped, InfosOK, NoInfo
  <2> QED
    BY <1>1, <1>2, <2>1, <2>2, MovedTypes
<1>10. MainOK' /\ (main.pc \in Adding => main.info # NoInfo)'
  BY <1>1 DEF TypeInv, MainOK, MiscInv
<1>11. WorkInv'
  <2>1. ASSUME NEW k \in Infos
        PROVE  /\ worker'[k].pc = "erase" => worker'[k].at \in Mapped' \union deleted'
               /\ worker'[k].pc = "orphans" => worker'[k].at \in Mapped' \union deleted' \union {NoInfo}
               /\ worker'[k].pc = "unmap" => worker'[k].at \in Mapped' /\ worker'[k].at \in deleted'
    <3>1. CASE k = i
      BY <1>2, <1>4, <3>1 DEF Moved
    <3>2. CASE k # i
      <4>1. worker'[k] = worker[k]
        BY <1>2, <3>2 DEF Moved
      <4>2. worker[k].pc = "unmap" => worker[k].at # info
        BY <1>1, <3>2 DEF TypeInv, UnmapInv
      <4> QED
        BY <1>1, <1>3, <4>1, <4>2 DEF TypeInv, WorkInv
    <3> QED
      BY <3>1, <3>2
  <2> QED
    BY <2>1 DEF WorkInv
<1>12. UnmapInv'
  <2>1. worker'[i].pc # "unmap"
    BY <1>2 DEF Moved
  <2> QED
    BY <1>2, <2>1 DEF Moved, TypeInv, UnmapInv
<1> QED
  BY <1>1, <1>6, <1>7, <1>8, <1>9, <1>10, <1>11, <1>12, SocketsKept DEF TypeInv

\* Every step keeps the types.
LEMMA TypeInvStep == TypeInv /\ [ServerNext]_serverVars => TypeInv'
<1> SUFFICES ASSUME TypeInv, [ServerNext]_serverVars PROVE TypeInv'
  OBVIOUS
<1>1. CASE UNCHANGED << infos, sockets, main, worker >>
  BY <1>1, InfosKept, SocketsKept DEF TypeInv, MiscInv
<1>2. CASE UseDeleted \/ \E i \in Infos : UseAfterDelete(i)
  BY <1>1, <1>2 DEF UseDeleted, UseAfterDelete
<1>3. CASE UNCHANGED serverVars
  BY <1>1, <1>3 DEF serverVars, threadVars
<1>4. CASE MainThread
  BY <1>4, MainTypes, AcceptTypes, RegisterTypes, CreateTypes DEF MainThread
<1>5. ASSUME NEW i \in Infos, RemovalStep(i) PROVE TypeInv'
  BY <1>5, FindTypes, EraseTypes, CloseSocketTypes, KeepTypes, DeleteTypes, UnmapTypes, EndTypes
     DEF RemovalStep
<1>6. ASSUME NEW i \in Infos, NEW fd \in Sockets, Event(i, fd) PROVE TypeInv'
  BY <1>6, RequestTypes, BeginTypes DEF Event
<1> QED
  BY <1>2, <1>3, <1>4, <1>5, <1>6, ArrivalTypes, ClientTypes, AnswerTypes DEF ServerNext

-----------------------------------------------------------------------------
(* While nothing overlaps. *)

\* A connection that was accepted and not yet removed, and its host's ThreadInfo.
Live(fd) == peer[fd] # "none"
InfoOf(fd) == threadsInfo[host[fd]]
AddingNow(fd, pcs) == main.pc \in pcs /\ main.fd = fd

\* Removals are one at a time, not while the main thread adds a connection, and not
\* of a connection whose thread starts with it or handles a request of it.
OneAtATime ==
  /\ \A i, k \in Removing : i = k
  /\ \A i \in Removing : main.pc = "wait"
  /\ \A i, k \in Infos : ~TakesConnection(i, k)

\* The ThreadInfo of a connection is there, ...
LiveInv ==
  \A fd \in Sockets : Live(fd) => InfoOf(fd) # NoInfo /\ InfoOf(fd) \notin deleted

\* ... it is the one that watches the connection, ...
EpollInv ==
  \A fd \in Sockets, j \in Infos :
    fd \in epoll[j] <=> Live(fd) /\ InfoOf(fd) = j /\ ~AddingNow(fd, {"register"})

\* ... and the one that has its socket.
SockInv ==
  \A fd \in Sockets, j \in Infos :
    fd \in sockfds[j] <=>
      /\ Live(fd) /\ InfoOf(fd) = j /\ ~AddingNow(fd, {"register", "insert"})
      /\ \A i \in Infos : worker[i].pc = "close" => worker[i].fd # fd

\* Each ThreadInfo of the map has a thread, or gets one with its first connection.
AddInv ==
  /\ main.pc \in Adding =>
       /\ Live(main.fd) /\ main.info = InfoOf(main.fd)
       /\ main.new = FALSE => worker[main.info].pc # "none"
       /\ main.new = TRUE =>
            \A fd \in Sockets : Live(fd) /\ InfoOf(fd) = main.info => fd = main.fd
  /\ main.pc = "create" => main.new = TRUE

ThreadInv ==
  \A i \in Mapped :
    worker[i].pc # "none" \/ (main.pc \in Adding /\ main.new = TRUE /\ main.info = i)

\* A removal works on a ThreadInfo of the map, which no other thread deleted.
GoneInv ==
  \A i \in deleted : i \in Mapped =>
    \E k \in Infos : worker[k].pc = "unmap" /\ worker[k].at = i

RemovalInv ==
  \A i \in Infos :
    /\ worker[i].pc = "erase" => worker[i].at \in Mapped
    /\ worker[i].pc = "erase" /\ worker[i].fd \in Sockets /\ Live(worker[i].fd)
         => worker[i].at = InfoOf(worker[i].fd)
    /\ worker[i].pc = "orphans" => worker[i].at \in Mapped \union {NoInfo}

\* What is promised of the connections while nothing overlaps.
Served ==
  /\ LiveInv /\ EpollInv /\ SockInv /\ AddInv /\ ThreadInv /\ GoneInv /\ RemovalInv

\* A thread starts with one of its own connections and handles their requests, and is
\* not gone when it does, or when it begins to remove one.
AtWork ==
  \A i \in Infos :
    /\ worker[i].pc \in {"start", "request"} =>
         worker[i].fd \in Sockets /\ Live(worker[i].fd) /\ InfoOf(worker[i].fd) = i
    /\ worker[i].pc = "find" => i \notin deleted

Quiet == OneAtATime /\ Served /\ AtWork

\* The invariant.
QuietInv == ~overlapped => Quiet

\* Counting the removals tells that they are one at a time.
LEMMA NoOverlap == ~Overlap => OneAtATime
<1> SUFFICES ASSUME ~Overlap PROVE OneAtATime
  OBVIOUS
<1>1. IsFiniteSet(Removing) /\ Cardinality(Removing) \in Nat
  <2>1. IsFiniteSet(Infos)
    BY ServerNumbers, FS_Interval DEF Infos
  <2>2. Removing \in SUBSET Infos
    BY DEF Removing
  <2> QED
    BY <2>1, <2>2, FS_Subset, FS_CardinalityType
<1>2. ASSUME NEW i \in Removing, NEW k \in Removing PROVE i = k
  <2>1. Cardinality(Removing) = 0 \/ Cardinality(Removing) = 1
    BY <1>1 DEF Overlap
  <2>2. Cardinality(Removing) = 1
    BY <1>1, <1>2, <2>1, FS_EmptySet
  <2> QED
    BY <1>1, <2>2, FS_Singleton
<1>3. ASSUME NEW i \in Removing PROVE main.pc = "wait"
  BY <1>3 DEF Overlap
<1>4. \A i, k \in Infos : ~TakesConnection(i, k)
  BY DEF Overlap
<1> QED
  BY <1>2, <1>3, <1>4 DEF OneAtATime

\* The thread that removes is alone.
LEMMA Alone ==
  ASSUME OneAtATime, WorkerOK, NEW i \in Removing
  PROVE  /\ main.pc = "wait" /\ i \in Infos
         /\ \A k \in Infos : k # i => worker[k].pc \in {"none", "start", "wait", "request"}
BY DEF OneAtATime, Removing

\* While the main thread works nobody removes.
LEMMA NobodyRemoves ==
  ASSUME OneAtATime, main.pc # "wait"
  PROVE  \A k \in Infos : worker[k].pc \in {"none", "start", "wait", "request"}
BY DEF OneAtATime, Removing

\* Steps that change no more than what a client did last.
LEMMA ServedKept ==
  ASSUME TypeInv, Served, UNCHANGED << infos, host, main, worker >>,
         \A fd \in Sockets : peer'[fd] = "none" <=> peer[fd] = "none"
  PROVE  Served'
<1>1. /\ UNCHANGED << threadsInfo, sockfds, epoll, deleted, host, main, worker >>
      /\ Mapped' = Mapped
  BY DEF infos, Mapped
<1>2. LiveInv' /\ EpollInv' /\ SockInv'
  BY <1>1 DEF Served, LiveInv, EpollInv, SockInv, Live, InfoOf, AddingNow
<1>3. AddInv'
  BY <1>1 DEF Served, AddInv, Live, InfoOf, TypeInv, MainOK
<1>4. ThreadInv' /\ GoneInv' /\ RemovalInv'
  BY <1>1 DEF Served, ThreadInv, GoneInv, RemovalInv, Live, InfoOf
<1> QED
  BY <1>2, <1>3, <1>4 DEF Served

\* The steps of the clients.
LEMMA ServedClients ==
  ASSUME TypeInv, Served, NEW fd \in Sockets,
         Connect \/ ClientActs(fd)
  PROVE  /\ Served'
         /\ \A d \in Sockets : peer'[d] = "none" <=> peer[d] = "none"
<1>1. CASE Connect
  BY <1>1, ServedKept DEF Connect
<1>2. CASE ClientActs(fd)
  <2>1. PICK a \in Acts : peer[fd] = a[1] /\ peer' = [ peer EXCEPT ![fd] = a[2] ]
    BY <1>2 DEF ClientActs
  <2>2. a[1] # "none" /\ a[2] # "none"
    BY <2>1 DEF Acts
  <2>3. \A d \in Sockets : peer'[d] = "none" <=> peer[d] = "none"
    BY <2>1, <2>2 DEF TypeInv, SocketsOK
  <2> QED
    BY <1>2, <2>3, ServedKept DEF ClientActs
<1> QED
  BY <1>1, <1>2

\* The main thread turns to accept and back.
LEMMA ServedMain ==
  ASSUME TypeInv, Served, Wake \/ NothingToAccept
  PROVE  Served'
<1>1. /\ UNCHANGED << threadsInfo, sockfds, epoll, deleted, host, peer, worker >>
      /\ main.pc \notin Adding /\ (main' = At("accept") \/ main' = At("wait"))
  BY DEF Wake, NothingToAccept, infos, sockets, Adding
<1>2. main'.pc = "accept" \/ main'.pc = "wait"
  BY <1>1 DEF At
<1>3. Mapped' = Mapped
  BY <1>1 DEF Mapped
<1>4. LiveInv' /\ EpollInv' /\ SockInv'
  BY <1>1, <1>2 DEF Served, LiveInv, EpollInv, SockInv, Live, InfoOf, AddingNow, Adding
<1>5. AddInv' /\ ThreadInv'
  BY <1>1, <1>2, <1>3 DEF Served, AddInv, ThreadInv, Adding
<1>6. GoneInv' /\ RemovalInv'
  BY <1>1, <1>3 DEF Served, GoneInv, RemovalInv, Live, InfoOf
<1> QED
  BY <1>4, <1>5, <1>6 DEF Served

\* A connection that is accepted leaves the others with their ThreadInfos.
LEMMA AcceptKeeps ==
  ASSUME TypeInv, LiveInv, AddNewClient
  PROVE  \A d \in Sockets : Live(d) => Live(d)' /\ InfoOf(d)' = InfoOf(d)
<1>1. PICK fd \in Sockets, h \in Hosts :
           /\ fd \notin open
           /\ \/ threadsInfo' = threadsInfo
              \/ /\ threadsInfo[h] = NoInfo
                 /\ threadsInfo' = [ threadsInfo EXCEPT ![h] = sequencer' ]
           /\ peer' = [ peer EXCEPT ![fd] = "up" ]
           /\ host' = [ host EXCEPT ![fd] = h ]
  BY AcceptIs
<1>2. threadsInfo \in [Hosts -> 0..sequencer] /\ host \in [Sockets -> Hosts] /\ DOMAIN peer = Sockets
  BY DEF TypeInv, InfosOK, SocketsOK
<1>3. ~Live(fd)
  BY <1>1 DEF Live, TypeInv, MiscInv
<1>4. ASSUME NEW d \in Sockets, Live(d) PROVE Live(d)' /\ InfoOf(d)' = InfoOf(d)
  <2>1. d # fd /\ host[d] \in Hosts /\ threadsInfo[host[d]] # NoInfo
    BY <1>2, <1>3, <1>4 DEF LiveInv, InfoOf
  <2>2. threadsInfo'[host[d]] = threadsInfo[host[d]]
    BY <1>1, <1>2, <2>1
  <2>3. host'[d] = host[d] /\ peer'[d] = peer[d]
    BY <1>1, <1>2, <2>1
  <2> QED
    BY <1>4, <2>2, <2>3 DEF Live, InfoOf
<1> QED
  BY <1>4

\* A new connection takes a free descriptor; a new ThreadInfo has no other.
LEMMA ServedAccept ==
  ASSUME TypeInv, Quiet, AddNewClient
  PROVE  Served'
<1>1. PICK fd \in Sockets, h \in Hosts :
           /\ fd \notin open /\ main.pc = "accept"
           /\ main'.pc = "register" /\ main'.fd = fd /\ main'.info = threadsInfo'[h]
           /\ main' = [ pc |-> "register", fd |-> fd, info |-> threadsInfo'[h], new |-> main'.new ]
           /\ \/ /\ threadsInfo[h] # NoInfo /\ main'.new = FALSE
                 /\ threadsInfo' = threadsInfo /\ sequencer' = sequencer
              \/ /\ threadsInfo[h] = NoInfo /\ main'.new = TRUE
                 /\ sequencer < MaxConnects /\ sequencer' = sequencer + 1
                 /\ threadsInfo' = [ threadsInfo EXCEPT ![h] = sequencer' ]
           /\ open' = open \union {fd}
           /\ peer' = [ peer EXCEPT ![fd] = "up" ]
           /\ host' = [ host EXCEPT ![fd] = h ]
           /\ backlog' \in Seq(Hosts)
  BY AcceptIs
<1>2. UNCHANGED << sockfds, epoll, deleted, worker >>
  BY DEF AddNewClient
<1>3. \A k \in Infos : worker[k].pc \in {"none", "start", "wait", "request"}
  BY <1>1, NobodyRemoves DEF Quiet
<1>4. /\ sequencer \in Nat /\ threadsInfo \in [Hosts -> 0..sequencer]
      /\ deleted \subseteq 1..sequencer /\ host \in [Sockets -> Hosts]
      /\ DOMAIN peer = Sockets
  BY ServerNumbers DEF TypeInv, InfosOK, SocketsOK
<1>5. /\ ~Live(fd) /\ Live(fd)' /\ InfoOf(fd)' = main'.info
      /\ \A d \in Sockets : d # fd => (Live(d)' <=> Live(d)) /\ host'[d] = host[d]
  BY <1>1, <1>4 DEF Live, InfoOf, TypeInv, MiscInv
<1>6. \A d \in Sockets : Live(d) => InfoOf(d)' = InfoOf(d) /\ d # fd
  BY <1>5, AcceptKeeps DEF Quiet, Served
<1>7. \A j \in deleted : j \notin Mapped
  BY <1>3 DEF Quiet, Served, GoneInv
<1>8. /\ main'.info # NoInfo /\ main'.info \notin deleted
      /\ Mapped' = Mapped \union {main'.info}
      /\ main'.new = FALSE => main'.info \in Mapped
      /\ main'.new = TRUE => main'.info = sequencer + 1
  <2>1. CASE threadsInfo[h] # NoInfo
    BY <1>1, <1>7, <2>1 DEF Mapped
  <2>2. CASE threadsInfo[h] = NoInfo
    <3>1. /\ main'.info = sequencer + 1 /\ main'.new = TRUE
          /\ threadsInfo' = [ threadsInfo EXCEPT ![h] = sequencer + 1 ]
      BY <1>1, <1>4, <2>2
    <3>2. sequencer + 1 # NoInfo /\ sequencer + 1 \notin deleted
      BY <1>4 DEF NoInfo
    <3>3. \A g \in Hosts : threadsInfo'[g] = IF g = h THEN sequencer + 1 ELSE threadsInfo[g]
      BY <1>4, <3>1
    <3>4. Mapped' = Mapped \union {sequencer + 1}
      BY <2>2, <3>2, <3>3 DEF Mapped
    <3> QED
      BY <3>1, <3>2, <3>4
  <2> QED
    BY <2>1, <2>2
<1>9. LiveInv'
  <2>1. ASSUME NEW d \in Sockets, Live(d)' PROVE InfoOf(d)' # NoInfo /\ InfoOf(d)' \notin deleted'
    <3>1. CASE d = fd
      BY <1>2, <1>5, <1>8, <3>1
    <3>2. CASE d # fd
      BY <1>2, <1>5, <1>6, <2>1, <3>2 DEF Quiet, Served, LiveInv
    <3> QED
      BY <3>1, <3>2
  <2> QED
    BY <2>1 DEF LiveInv
<1>10. EpollInv'
  <2>1. ASSUME NEW d \in Sockets, NEW j \in Infos
        PROVE  d \in epoll'[j] <=> Live(d)' /\ InfoOf(d)' = j /\ ~(main'.pc \in {"register"} /\ main'.fd = d)
    <3>1. d \in epoll[j] <=> Live(d) /\ InfoOf(d) = j
      BY <1>1 DEF Quiet, Served, EpollInv, AddingNow
    <3>2. CASE d = fd
      BY <1>1, <1>2, <1>5, <3>1, <3>2
    <3>3. CASE d # fd
      BY <1>1, <1>2, <1>5, <1>6, <3>1, <3>3
    <3> QED
      BY <3>2, <3>3
  <2> QED
    BY <2>1 DEF EpollInv, AddingNow
<1>11. SockInv'
  <2>1. ASSUME NEW d \in Sockets, NEW j \in Infos
        PROVE  d \in sockfds'[j] <=>
                 /\ Live(d)' /\ InfoOf(d)' = j
                 /\ ~(main'.pc \in {"register", "insert"} /\ main'.fd = d)
                 /\ \A i \in Infos : worker'[i].pc = "close" => worker'[i].fd # d
    <3>0. \A i \in Infos : worker[i].pc # "close"
      BY <1>3
    <3>1. d \in sockfds[j] <=> Live(d) /\ InfoOf(d) = j
      BY <1>1, <3>0 DEF Quiet, Served, SockInv, AddingNow
    <3>2. CASE d = fd
      BY <1>1, <1>2, <1>5, <3>1, <3>2
    <3>3. CASE d # fd
      BY <1>1, <1>2, <1>5, <1>6, <3>0, <3>1, <3>3
    <3> QED
      BY <3>2, <3>3
  <2> QED
    BY <2>1 DEF SockInv, AddingNow
<1>12. AddInv'
  <2>1. main'.new = FALSE => worker'[main'.info].pc # "none"
    <3>1. \A i \in Mapped : worker[i].pc # "none"
      BY <1>1 DEF Quiet, Served, ThreadInv, Adding
    <3> QED
      BY <1>2, <1>8, <3>1
  <2>2. ASSUME main'.new = TRUE, NEW d \in Sockets, Live(d)', InfoOf(d)' = main'.info PROVE d = main'.fd
    <3>1. CASE d # fd
      <4>1. Live(d) /\ InfoOf(d) = sequencer + 1
        BY <1>5, <1>6, <1>8, <2>2, <3>1
      <4>2. InfoOf(d) \in 0..sequencer
        BY <1>4 DEF InfoOf
      <4> QED
        BY <1>4, <4>1, <4>2
    <3> QED
      BY <1>1, <3>1
  <2>3. Live(main.fd)' /\ main'.info = InfoOf(main.fd)'
    BY <1>1, <1>5 DEF Live, InfoOf
  <2>4. main'.pc # "create"
    BY <1>1
  <2> QED
    BY <2>1, <2>2, <2>3, <2>4 DEF AddInv
<1>13. ThreadInv'
  <2>1. \A i \in Mapped : worker[i].pc # "none"
    BY <1>1 DEF Quiet, Served, ThreadInv, Adding
  <2>2. main'.new = TRUE \/ main'.new = FALSE
    BY <1>1
  <2>3. main'.pc \in Adding
    BY <1>1 DEF Adding
  <2> QED
    BY <1>2, <1>8, <2>1, <2>2, <2>3 DEF ThreadInv
<1>14. GoneInv'
  BY <1>2, <1>7, <1>8 DEF GoneInv
<1>15. RemovalInv'
  BY <1>2, <1>3 DEF RemovalInv
<1> QED
  BY <1>9, <1>10, <1>11, <1>12, <1>13, <1>14, <1>15 DEF Served

\* The connection is watched by its host's thread, ...
LEMMA ServedAdd ==
  ASSUME TypeInv, Quiet, AddSockfd
  PROVE  Served'
<1>1. /\ UNCHANGED << threadsInfo, sockfds, deleted, host, peer, worker >>
      /\ main.pc = "register"
      /\ epoll' = [ epoll EXCEPT ![main.info] = @ \union {main.fd} ]
      /\ main' = [ main EXCEPT !.pc = "insert" ]
  BY DEF AddSockfd, sockets
<1>2. main.pc \in Adding
  BY <1>1 DEF Adding
<1>3. /\ main'.pc = "insert" /\ main'.fd = main.fd /\ main'.info = main.info /\ main'.new = main.new
      /\ main.fd \in Sockets
  BY <1>1 DEF TypeInv, MainOK
<1>4. Live(main.fd) /\ main.info = InfoOf(main.fd)
  BY <1>2 DEF Quiet, Served, AddInv
<1>5. Mapped' = Mapped
  BY <1>1 DEF Mapped
<1>6. LiveInv'
  BY <1>1 DEF Quiet, Served, LiveInv, Live, InfoOf
<1>7. EpollInv'
  <2>1. ASSUME NEW d \in Sockets, NEW j \in Infos
        PROVE  d \in epoll'[j] <=> Live(d) /\ InfoOf(d) = j
    <3>1. d \in epoll[j] <=> Live(d) /\ InfoOf(d) = j /\ main.fd # d
      BY <1>1 DEF Quiet, Served, EpollInv, AddingNow
    <3>2. epoll'[j] = IF j = main.info THEN epoll[j] \union {main.fd} ELSE epoll[j]
      BY <1>1 DEF TypeInv, InfosOK
    <3> QED
      BY <1>4, <3>1, <3>2
  <2>2. \A d : Live(d)' = Live(d) /\ InfoOf(d)' = InfoOf(d)
    BY <1>1 DEF Live, InfoOf
  <2> QED
    BY <1>3, <2>1, <2>2 DEF EpollInv, AddingNow
<1>8. SockInv'
  BY <1>1, <1>3 DEF Quiet, Served, SockInv, Live, InfoOf, AddingNow
<1>9. AddInv' /\ ThreadInv'
  <2>1. AddInv /\ ThreadInv
    BY DEF Quiet, Served
  <2>2. AddInv'
    BY <1>1, <1>2, <1>3, <2>1 DEF AddInv, Live, InfoOf
  <2>3. ThreadInv'
    BY <1>1, <1>2, <1>3, <1>5, <2>1 DEF ThreadInv, Adding
  <2> QED
    BY <2>2, <2>3
<1>10. GoneInv' /\ RemovalInv'
  BY <1>1, <1>5 DEF Quiet, Served, GoneInv, RemovalInv, Live, InfoOf
<1> QED
  BY <1>6, <1>7, <1>8, <1>9, <1>10 DEF Served

\* ... entered among its sockets, ...
LEMMA ServedInsert ==
  ASSUME TypeInv, Quiet, InsertSockfd
  PROVE  Served'
<1>1. /\ UNCHANGED << threadsInfo, epoll, deleted, host, peer, worker >>
      /\ main.pc = "insert"
      /\ sockfds' = [ sockfds EXCEPT ![main.info] = @ \union {main.fd} ]
  BY DEF InsertSockfd, sockets
<1>2. main.pc \in Adding /\ main.new \in BOOLEAN /\ main.fd \in Sockets
  BY <1>1 DEF Adding, TypeInv, MainOK
<1>3. \/ /\ main.new = TRUE /\ main'.pc = "create" /\ main'.fd = main.fd /\ main'.info = main.info
         /\ main'.new = main.new
      \/ main.new = FALSE /\ main'.pc = "accept"
  <2>1. CASE main.new = TRUE
    <3>1. main' = [ main EXCEPT !.pc = "create" ]
      BY <2>1, Zenon DEF InsertSockfd
    <3> QED
      BY <2>1, <3>1 DEF TypeInv, MainOK
  <2>2. CASE main.new = FALSE
    <3>1. main' = At("accept")
      BY <2>2, Zenon DEF InsertSockfd
    <3> QED
      BY <2>2, <3>1 DEF At
  <2> QED
    BY <1>2, <2>1, <2>2
<1>4. Live(main.fd) /\ main.info = InfoOf(main.fd)
  BY <1>2 DEF Quiet, Served, AddInv
<1>5. Mapped' = Mapped
  BY <1>1 DEF Mapped
<1>6. LiveInv'
  BY <1>1 DEF Quiet, Served, LiveInv, Live, InfoOf
<1>7. EpollInv'
  <2>1. main'.pc # "register" /\ main.pc # "register"
    BY <1>1, <1>3
  <2> QED
    BY <1>1, <2>1 DEF Quiet, Served, EpollInv, Live, InfoOf, AddingNow
<1>8. SockInv'
  <2>0. \A k \in Infos : worker[k].pc # "close"
    BY <1>1, NobodyRemoves DEF Quiet
  <2>1. ASSUME NEW d \in Sockets, NEW j \in Infos
        PROVE  d \in sockfds'[j] <=> Live(d) /\ InfoOf(d) = j
    <3>1. d \in sockfds[j] <=> Live(d) /\ InfoOf(d) = j /\ main.fd # d
      BY <1>1, <2>0 DEF Quiet, Served, SockInv, AddingNow
    <3>2. sockfds'[j] = IF j = main.info THEN sockfds[j] \union {main.fd} ELSE sockfds[j]
      BY <1>1 DEF TypeInv, InfosOK
    <3> QED
      BY <1>4, <3>1, <3>2
  <2>2. \A d : Live(d)' = Live(d) /\ InfoOf(d)' = InfoOf(d)
    BY <1>1 DEF Live, InfoOf
  <2>3. main'.pc \notin {"register", "insert"}
    BY <1>3
  <2> QED
    BY <1>1, <2>0, <2>1, <2>2, <2>3 DEF SockInv, AddingNow
<1>9. AddInv' /\ ThreadInv'
  <2>1. AddInv /\ ThreadInv
    BY DEF Quiet, Served
  <2>2. CASE main.new = TRUE
    <3>1. main'.pc = "create" /\ main'.fd = main.fd /\ main'.info = main.info /\ main'.new = TRUE
      BY <1>3, <2>2
    <3>2. AddInv'
      BY <1>1, <1>2, <2>1, <2>2, <3>1 DEF AddInv, Live, InfoOf
    <3>3. ThreadInv'
      BY <1>1, <1>5, <2>1, <3>1 DEF ThreadInv, Adding
    <3> QED
      BY <3>2, <3>3
  <2>3. CASE main.new = FALSE
    <3>1. main'.pc = "accept"
      BY <1>3, <2>3
    <3>2. AddInv'
      BY <3>1 DEF AddInv, Adding
    <3>3. ThreadInv'
      BY <1>1, <1>2, <1>5, <2>1, <2>3 DEF ThreadInv, AddInv
    <3> QED
      BY <3>2, <3>3
  <2> QED
    BY <1>2, <2>2, <2>3
<1>10. GoneInv' /\ RemovalInv'
  BY <1>1, <1>5 DEF Quiet, Served, GoneInv, RemovalInv, Live, InfoOf
<1> QED
  BY <1>6, <1>7, <1>8, <1>9, <1>10 DEF Served

\* ... and its thread is started, if it has none.
LEMMA ServedCreate ==
  ASSUME TypeInv, Quiet, CreateThread
  PROVE  Served'
<1>1. /\ UNCHANGED << threadsInfo, sockfds, epoll, deleted, host, peer >>
      /\ main.pc = "create" /\ main' = At("accept")
      /\ worker' = [ worker EXCEPT ![main.info] = [ pc |-> "start", fd |-> main.fd, at |-> NoInfo ] ]
  BY DEF CreateThread, sockets
<1>2. main.info \in Infos
  BY <1>1, ServerNumbers DEF TypeInv, InfosOK, MainOK, MiscInv, Adding, NoInfo, Infos
<1>3. /\ main'.pc = "accept" /\ worker'[main.info].pc = "start"
      /\ \A k \in Infos : k # main.info => worker'[k] = worker[k]
  BY <1>1, <1>2, WorkerMoves DEF TypeInv, At
<1>4. \A k \in Infos : worker[k].pc \in {"none", "start", "wait", "request"}
  BY <1>1, NobodyRemoves DEF Quiet
<1>5. Mapped' = Mapped
  BY <1>1 DEF Mapped
<1>6. LiveInv' /\ EpollInv'
  BY <1>1, <1>3 DEF Quiet, Served, LiveInv, EpollInv, Live, InfoOf, AddingNow
<1>7. \A k \in Infos : worker[k].pc # "close" /\ worker'[k].pc # "close"
                        /\ worker'[k].pc # "erase" /\ worker'[k].pc # "orphans"
  BY <1>3, <1>4
<1>8. SockInv'
  BY <1>1, <1>3, <1>7 DEF Quiet, Served, SockInv, Live, InfoOf, AddingNow
<1>9. AddInv' /\ RemovalInv'
  BY <1>3, <1>7 DEF AddInv, RemovalInv, Adding
<1>10. ThreadInv'
  <2>1. \A i \in Mapped : i \in Infos
    BY ServerNumbers DEF TypeInv, InfosOK, Mapped, Infos, NoInfo
  <2> QED
    BY <1>3, <1>5, <2>1 DEF Quiet, Served, ThreadInv
<1>11. GoneInv'
  BY <1>1, <1>4, <1>5 DEF Quiet, Served, GoneInv
<1> QED
  BY <1>6, <1>8, <1>9, <1>10, <1>11 DEF Served

\* A thread's step that leaves the map and the sockets alone, and connects nobody.
LEMMA ServedGoes ==
  ASSUME TypeInv, Served, NEW i \in Infos, NEW pc, NEW fd, NEW at, Moved(i, pc, fd, at),
         UNCHANGED << infos, host, main >>,
         \A d \in Sockets : peer'[d] = "none" <=> peer[d] = "none",
         pc \in {"find", "wait", "request", "orphans", "erase"},
         worker[i].pc # "close", worker[i].pc # "unmap",
         pc = "orphans" => at \in Mapped \union {NoInfo},
         pc = "erase" => at \in Mapped /\ (fd \in Sockets /\ Live(fd) => at = InfoOf(fd))
  PROVE  Served'
<1>1. /\ UNCHANGED << threadsInfo, sockfds, epoll, deleted, host, main >>
      /\ Mapped' = Mapped
      /\ \A d \in Sockets : (Live(d)' <=> Live(d)) /\ InfoOf(d)' = InfoOf(d)
  BY DEF infos, Mapped, Live, InfoOf
<1>2. /\ worker'[i].pc = pc /\ worker'[i].fd = fd /\ worker'[i].at = at
      /\ \A k \in Infos : k # i => worker'[k] = worker[k]
  BY DEF Moved
<1>3. LiveInv' /\ EpollInv'
  BY <1>1 DEF Served, LiveInv, EpollInv, AddingNow
<1>4. SockInv'
  <2>1. \A d : (\A k \in Infos : worker'[k].pc = "close" => worker'[k].fd # d)
                 <=> (\A k \in Infos : worker[k].pc = "close" => worker[k].fd # d)
    BY <1>2
  <2> QED
    BY <1>1, <2>1 DEF Served, SockInv, AddingNow
<1>5. AddInv'
  <2>1. ASSUME worker[main.info].pc # "none", main.info \in Infos PROVE worker'[main.info].pc # "none"
    BY <1>2, <2>1
  <2>2. main.pc \in Adding => main.info \in Infos
    BY ServerNumbers DEF TypeInv, InfosOK, MainOK, MiscInv, NoInfo, Infos
  <2> QED
    <3>1. main.fd \in Sockets
      BY DEF TypeInv, MainOK
    <3> QED
      BY <1>1, <2>1, <2>2, <3>1 DEF Served, AddInv, Live, InfoOf
<1>6. ThreadInv'
  <2>1. \A k \in Mapped : k \in Infos
    BY ServerNumbers DEF TypeInv, InfosOK, Mapped, Infos, NoInfo
  <2> QED
    BY <1>1, <1>2, <2>1 DEF Served, ThreadInv
<1>7. GoneInv'
  <2>1. ASSUME NEW j \in deleted, j \in Mapped
        PROVE  \E k \in Infos : worker'[k].pc = "unmap" /\ worker'[k].at = j
    <3>1. PICK k \in Infos : worker[k].pc = "unmap" /\ worker[k].at = j
      BY <2>1 DEF Served, GoneInv
    <3>2. worker'[k] = worker[k]
      BY <1>2, <3>1
    <3> QED
      BY <3>1, <3>2
  <2> QED
    BY <1>1, <2>1 DEF GoneInv
<1>8. RemovalInv'
  <2>1. ASSUME NEW k \in Infos
        PROVE  /\ worker'[k].pc = "erase" => worker'[k].at \in Mapped
               /\ worker'[k].pc = "erase" /\ worker'[k].fd \in Sockets /\ Live(worker'[k].fd)
                    => worker'[k].at = InfoOf(worker'[k].fd)
               /\ worker'[k].pc = "orphans" => worker'[k].at \in Mapped \union {NoInfo}
    <3>1. CASE k = i
      BY <1>2, <3>1
    <3>2. CASE k # i
      BY <1>2, <3>2 DEF Served, RemovalInv
    <3> QED
      BY <3>1, <3>2
  <2> QED
    BY <1>1, <2>1 DEF RemovalInv, Live, InfoOf
<1> QED
  BY <1>3, <1>4, <1>5, <1>6, <1>7, <1>8 DEF Served

\* A thread's step that leaves the connections alone, too.
LEMMA ServedMoved ==
  ASSUME TypeInv, Served, NEW i \in Infos, NEW pc, NEW fd, NEW at, Moved(i, pc, fd, at),
         UNCHANGED << infos, sockets, main >>,
         pc \in {"find", "wait", "request", "orphans", "erase"},
         worker[i].pc # "close", worker[i].pc # "unmap",
         pc = "orphans" => at \in Mapped \union {NoInfo},
         pc = "erase" => at \in Mapped /\ (fd \in Sockets /\ Live(fd) => at = InfoOf(fd))
  PROVE  Served'
<1>1. host' = host /\ peer' = peer
  BY DEF sockets
<1> QED
  BY <1>1, ServedGoes

\* A thread begins to wait; a request is read and answered.
LEMMA ServedRequest ==
  ASSUME TypeInv, Quiet, NEW i \in Infos,
         ThreadStep(i) \/ \E fd \in Sockets : HandleClientRequest(i, fd)
  PROVE  Served'
<1>1. CASE ThreadStep(i)
  <2>1. UNCHANGED << infos, host, main >> /\ worker[i].pc \in {"start", "request"}
    BY <1>1 DEF ThreadStep, BeginToWait, WriteResponseToClient, sockets
  <2>2. Moved(i, "wait", 0, NoInfo)
    BY <1>1, Moves DEF TypeInv
  <2> QED
    BY <1>1, <2>1, <2>2, AnswerIs, ServedGoes DEF Quiet
<1>2. ASSUME NEW fd \in Sockets, HandleClientRequest(i, fd) PROVE Served'
  <2>1. UNCHANGED << infos, sockets, main >> /\ worker[i].pc = "wait"
    BY <1>2 DEF HandleClientRequest, HasEvent
  <2>2. Moved(i, "request", fd, NoInfo)
    BY <1>2, Moves DEF TypeInv
  <2> QED
    BY <2>1, <2>2, ServedMoved DEF Quiet
<1> QED
  BY <1>1, <1>2

\* A removal begins.
LEMMA ServedBegin ==
  ASSUME TypeInv, Quiet, NEW i \in Infos, NEW fd \in Sockets,
         RemoveClient(i, fd) \/ RemoveOnError(i, fd)
  PROVE  Served'
<1>1. UNCHANGED << infos, sockets, main >> /\ worker[i].pc = "wait"
  BY DEF RemoveClient, RemoveOnError, HasEvent
<1>2. \E d \in Sockets \union {listener} : Moved(i, "find", d, NoInfo)
  BY Moves, ErrorMoves DEF TypeInv
<1> QED
  BY <1>1, <1>2, ServedMoved DEF Quiet

\* The ThreadInfo that is found is that of the connection.
LEMMA ServedFind ==
  ASSUME TypeInv, Quiet, NEW i \in Infos, GetThreadInfoBySockfd(i)
  PROVE  Served'
<1>1. UNCHANGED << infos, sockets, main >> /\ worker[i].pc = "find"
  BY DEF GetThreadInfoBySockfd
<1>2. i \in Removing
  BY <1>1 DEF Removing
<1>3. main.pc = "wait" /\ \A k \in Infos : worker[k].pc # "close"
  BY <1>1, <1>2, Alone DEF Quiet, TypeInv
<1>4. CASE Moved(i, "wait", 0, NoInfo)
  BY <1>1, <1>4, ServedMoved DEF Quiet
<1>5. ASSUME NEW a \in Mapped, Moved(i, "erase", worker[i].fd, a),
             \A b \in Mapped : worker[i].fd \in sockfds[b] => worker[i].fd \in sockfds[a]
      PROVE  Served'
  <2>1. ASSUME worker[i].fd \in Sockets, Live(worker[i].fd) PROVE a = InfoOf(worker[i].fd)
    <3>1. \A b \in Mapped : b \in Infos
      BY ServerNumbers DEF TypeInv, InfosOK, Mapped, Infos, NoInfo
    <3>2. \A b \in Infos : worker[i].fd \in sockfds[b] <=> InfoOf(worker[i].fd) = b
      BY <1>3, <2>1 DEF Quiet, Served, SockInv, AddingNow
    <3>3. InfoOf(worker[i].fd) \in Mapped
      BY <2>1 DEF Quiet, Served, LiveInv, InfoOf, Mapped, TypeInv, SocketsOK
    <3> QED
      BY <1>5, <3>1, <3>2, <3>3
  <2> QED
    BY <1>1, <1>5, <2>1, ServedMoved DEF Quiet
<1> QED
  BY <1>4, <1>5, FindMoves DEF TypeInv

\* A ThreadInfo with sockets is passed over.
LEMMA ServedKeep ==
  ASSUME TypeInv, Quiet, NEW i \in Infos, KeepInfo(i)
  PROVE  Served'
<1> DEFINE at == InfoFrom(threadsInfo, HostOf(worker[i].at) + 1)
<1>1. /\ UNCHANGED << infos, sockets, main >>
      /\ worker[i].pc = "orphans" /\ worker[i].at # NoInfo
  BY DEF KeepInfo, HasOrphan
<1>2. Moved(i, "orphans", worker[i].fd, at)
  BY Moves DEF TypeInv
<1>3. worker[i].at \in Mapped
  BY <1>1 DEF Quiet, Served, RemovalInv
<1>4. at \in Mapped \union {NoInfo}
  <2>1. HostOf(worker[i].at) + 1 \in Nat \ {0}
    BY <1>3, HostOfIs
  <2> QED
    BY <2>1, InfoFromIs DEF Mapped
<1> HIDE DEF at
<1> QED
  BY <1>1, <1>2, <1>4, ServedMoved DEF Quiet

\* The removal is over.
LEMMA ServedEnd ==
  ASSUME TypeInv, Quiet, NEW i \in Infos, EndRemoval(i)
  PROVE  Served'
<1>1. UNCHANGED << infos, sockets, main >> /\ worker[i].pc = "orphans"
  BY DEF EndRemoval
<1> QED
  BY <1>1, Moves, ServedMoved DEF TypeInv, Quiet

\* What one thread's step in a removal leaves alone, while it is alone.
LEMMA ServedAlone ==
  ASSUME TypeInv, Quiet, NEW i \in Infos, worker[i].pc \notin {"none", "start", "wait", "request"},
         NEW pc, NEW fd, NEW at, Moved(i, pc, fd, at), pc # "none", UNCHANGED main
  PROVE  /\ main.pc = "wait" /\ AddInv'
         /\ worker'[i].pc = pc /\ worker'[i].fd = fd /\ worker'[i].at = at
         /\ \A k \in Infos : k # i => worker[k].pc \in {"none", "start", "wait", "request"}
                                      /\ worker'[k].pc \in {"none", "start", "wait", "request"}
         /\ Mapped' \subseteq Mapped => ThreadInv'
<1>1. main.pc = "wait" /\ \A k \in Infos : k # i => worker[k].pc \in {"none", "start", "wait", "request"}
  <2>1. i \in Removing
    BY DEF Removing
  <2> QED
    BY <2>1, Alone DEF Quiet, TypeInv
<1>2. /\ worker'[i].pc = pc /\ worker'[i].fd = fd /\ worker'[i].at = at
      /\ \A k \in Infos : k # i => worker'[k] = worker[k]
  BY DEF Moved
<1>3. AddInv'
  BY <1>1 DEF AddInv, Adding
<1>4. ASSUME Mapped' \subseteq Mapped PROVE ThreadInv'
  <2>1. \A k \in Mapped : k \in Infos
    BY ServerNumbers DEF TypeInv, InfosOK, Mapped, Infos, NoInfo
  <2>2. \A k \in Mapped : worker[k].pc # "none"
    BY <1>1 DEF Quiet, Served, ThreadInv, Adding
  <2> QED
    BY <1>2, <1>4, <2>1, <2>2 DEF ThreadInv
<1> QED
  BY <1>1, <1>2, <1>3, <1>4

\* The socket is erased from the set it is in.
LEMMA ServedErase ==
  ASSUME TypeInv, Quiet, NEW i \in Infos, EraseSockfd(i)
  PROVE  Served'
<1> DEFINE at == worker[i].at
           fd == worker[i].fd
<1>1. /\ UNCHANGED << threadsInfo, epoll, deleted, host, peer, main >>
      /\ worker[i].pc = "erase"
      /\ sockfds' = [ sockfds EXCEPT ![at] = @ \ {fd} ]
  BY DEF EraseSockfd, sockets
<1>2. Moved(i, "close", fd, at)
  BY Moves DEF TypeInv
<1>3. /\ main.pc = "wait" /\ AddInv' /\ Mapped' = Mapped /\ ThreadInv'
      /\ worker'[i].pc = "close" /\ worker'[i].fd = fd
      /\ \A k \in Infos : k # i => worker[k].pc \in {"none", "start", "wait", "request"}
                                   /\ worker'[k].pc \in {"none", "start", "wait", "request"}
  <2>1. Mapped' = Mapped
    BY <1>1 DEF Mapped
  <2> QED
    BY <1>1, <1>2, <2>1, ServedAlone
<1>4. LiveInv' /\ EpollInv'
  BY <1>1 DEF Quiet, Served, LiveInv, EpollInv, Live, InfoOf, AddingNow
<1>5. SockInv'
  <2>1. ASSUME NEW d \in Sockets, NEW j \in Infos
        PROVE  d \in sockfds'[j] <=> Live(d) /\ InfoOf(d) = j /\ d # fd
    <3>1. d \in sockfds[j] <=> Live(d) /\ InfoOf(d) = j
      BY <1>1, <1>3 DEF Quiet, Served, SockInv, AddingNow
    <3>2. sockfds'[j] = IF j = at THEN sockfds[j] \ {fd} ELSE sockfds[j]
      BY <1>1 DEF TypeInv, InfosOK
    <3>3. fd \in Sockets /\ Live(fd) => at = InfoOf(fd)
      BY <1>1 DEF Quiet, Served, RemovalInv
    <3> QED
      BY <3>1, <3>2, <3>3
  <2>2. \A d : Live(d)' = Live(d) /\ InfoOf(d)' = InfoOf(d)
    BY <1>1 DEF Live, InfoOf
  <2>3. main'.pc = "wait" /\ \A d : (\A k \in Infos : worker'[k].pc = "close" => worker'[k].fd # d) <=> d # fd
    BY <1>1, <1>3
  <2> QED
    BY <2>1, <2>2, <2>3 DEF SockInv, AddingNow
<1>6. GoneInv'
  BY <1>1, <1>3 DEF Quiet, Served, GoneInv
<1>7. RemovalInv'
  BY <1>3 DEF RemovalInv
<1> QED
  BY <1>3, <1>4, <1>5, <1>6, <1>7 DEF Served

\* Once closed it is watched by nobody.
LEMMA ServedClose ==
  ASSUME TypeInv, Quiet, NEW i \in Infos, CloseSocket(i)
  PROVE  Served'
<1> DEFINE at == InfoFrom(threadsInfo, 1)
           fd == worker[i].fd
<1>1. /\ UNCHANGED << threadsInfo, sockfds, deleted, main >>
      /\ worker[i].pc = "close"
      /\ epoll' = [ j \in Infos |-> epoll[j] \ {fd} ]
      /\ peer' = [ d \in Sockets |-> IF d = fd THEN "none" ELSE peer[d] ]
      /\ host' = [ d \in Sockets |-> IF d = fd THEN 1 ELSE host[d] ]
  BY DEF CloseSocket
<1>2. Moved(i, "orphans", 0, at) /\ at \in Mapped \union {NoInfo}
  BY Moves, InfoFromIs DEF TypeInv, Mapped
<1> HIDE DEF at
<1>3. /\ main.pc = "wait" /\ AddInv' /\ Mapped' = Mapped /\ ThreadInv'
      /\ worker'[i].pc = "orphans" /\ worker'[i].at = at
      /\ \A k \in Infos : k # i => worker[k].pc \in {"none", "start", "wait", "request"}
                                   /\ worker'[k].pc \in {"none", "start", "wait", "request"}
  <2>1. Mapped' = Mapped
    BY <1>1 DEF Mapped
  <2> QED
    BY <1>1, <1>2, <2>1, ServedAlone
<1>4. \A d \in Sockets : (Live(d)' <=> Live(d) /\ d # fd) /\ (d # fd => InfoOf(d)' = InfoOf(d))
  BY <1>1 DEF Live, InfoOf
<1>5. LiveInv'
  BY <1>1, <1>4 DEF Quiet, Served, LiveInv
<1>6. EpollInv'
  <2>1. ASSUME NEW d \in Sockets, NEW j \in Infos
        PROVE  d \in epoll'[j] <=> Live(d)' /\ InfoOf(d)' = j
    <3>1. d \in epoll[j] <=> Live(d) /\ InfoOf(d) = j
      BY <1>3 DEF Quiet, Served, EpollInv, AddingNow
    <3> QED
      BY <1>1, <1>4, <3>1
  <2> QED
    BY <1>1, <1>3, <2>1 DEF EpollInv, AddingNow
<1>7. SockInv'
  <2>1. ASSUME NEW d \in Sockets, NEW j \in Infos
        PROVE  d \in sockfds'[j] <=> Live(d)' /\ InfoOf(d)' = j
    <3>1. d \in sockfds[j] <=> Live(d) /\ InfoOf(d) = j /\ d # fd
      <4>1. (\A k \in Infos : worker[k].pc = "close" => worker[k].fd # d) <=> d # fd
        BY <1>1, <1>3
      <4> QED
        BY <1>3, <4>1 DEF Quiet, Served, SockInv, AddingNow
    <3> QED
      BY <1>1, <1>4, <3>1
  <2>2. \A k \in Infos : worker'[k].pc # "close"
    BY <1>3
  <2> QED
    BY <1>1, <1>3, <2>1, <2>2 DEF SockInv, AddingNow
<1>8. GoneInv'
  BY <1>1, <1>3 DEF Quiet, Served, GoneInv
<1>9. RemovalInv'
  BY <1>2, <1>3 DEF RemovalInv
<1> QED
  BY <1>3, <1>5, <1>6, <1>7, <1>8, <1>9 DEF Served

\* A ThreadInfo without sockets has no connection: no other thread is adding or
\* removing one.
LEMMA ServedDelete ==
  ASSUME TypeInv, Quiet, NEW i \in Infos, DeleteInfo(i)
  PROVE  Served'
<1> DEFINE at == worker[i].at
<1>1. /\ UNCHANGED << threadsInfo, sockfds, epoll, peer, host, main >>
      /\ worker[i].pc = "orphans" /\ at # NoInfo /\ sockfds[at] = {}
      /\ deleted' = deleted \union {at}
  BY DEF DeleteInfo, HasOrphan, sockets
<1>2. Moved(i, "unmap", worker[i].fd, at)
  BY Moves DEF TypeInv
<1>3. /\ main.pc = "wait" /\ AddInv' /\ Mapped' = Mapped /\ ThreadInv'
      /\ worker'[i].pc = "unmap" /\ worker'[i].at = at
      /\ \A k \in Infos : k # i => worker[k].pc \in {"none", "start", "wait", "request"}
                                   /\ worker'[k].pc \in {"none", "start", "wait", "request"}
  <2>1. Mapped' = Mapped
    BY <1>1 DEF Mapped
  <2> QED
    BY <1>1, <1>2, <2>1, ServedAlone
<1>4. at \in Infos
  <2>1. at \in Mapped
    BY <1>1 DEF Quiet, Served, RemovalInv
  <2> QED
    BY <2>1, ServerNumbers DEF TypeInv, InfosOK, Mapped, Infos, NoInfo
<1>5. \A k \in Infos : worker[k].pc # "close" /\ worker'[k].pc # "close"
  BY <1>1, <1>3
<1>6. \A d \in Sockets : Live(d) => InfoOf(d) # at
  BY <1>1, <1>3, <1>4, <1>5 DEF Quiet, Served, SockInv, AddingNow
<1>7. LiveInv'
  BY <1>1, <1>6 DEF Quiet, Served, LiveInv, Live, InfoOf
<1>8. EpollInv' /\ SockInv'
  BY <1>1, <1>5 DEF Quiet, Served, EpollInv, SockInv, Live, InfoOf, AddingNow
<1>9. GoneInv'
  BY <1>1, <1>3 DEF Quiet, Served, GoneInv
<1>10. RemovalInv'
  BY <1>3 DEF RemovalInv
<1> QED
  BY <1>3, <1>7, <1>8, <1>9, <1>10 DEF Served

\* The ThreadInfos of connections stay in the map.
LEMMA UnmapKeeps ==
  ASSUME TypeInv, LiveInv, NEW i \in Infos, EraseInfo(i)
  PROVE  \A d \in Sockets : (Live(d)' <=> Live(d)) /\ (Live(d) => InfoOf(d)' = InfoOf(d))
<1>1. UNCHANGED << peer, host >>
  BY DEF EraseInfo, sockets
<1>2. PICK h \in Hosts : /\ threadsInfo[h] = worker[i].at /\ worker[i].at \in deleted
                         /\ threadsInfo' = [ threadsInfo EXCEPT ![h] = NoInfo ]
  BY EraseIs
<1>3. ASSUME NEW d \in Sockets, Live(d) PROVE InfoOf(d)' = InfoOf(d)
  <2>1. host[d] \in Hosts /\ threadsInfo[host[d]] # worker[i].at
    BY <1>2, <1>3 DEF LiveInv, InfoOf, TypeInv, SocketsOK
  <2>2. threadsInfo'[host[d]] = threadsInfo[host[d]]
    BY <1>2, <2>1 DEF TypeInv, InfosOK
  <2> QED
    BY <1>1, <2>2 DEF InfoOf
<1> QED
  BY <1>1, <1>3 DEF Live

\* The orphan leaves the map; no connection was on it.
LEMMA ServedUnmap ==
  ASSUME TypeInv, Quiet, NEW i \in Infos, EraseInfo(i)
  PROVE  Served'
<1> DEFINE info == worker[i].at
           at == InfoFrom(threadsInfo', HostOf(info) + 1)
<1>1. /\ UNCHANGED << sockfds, epoll, deleted, peer, host, main >>
      /\ worker[i].pc = "unmap"
  BY DEF EraseInfo, sockets
<1>2. /\ Moved(i, "orphans", worker[i].fd, at)
      /\ Mapped' = Mapped \ {info} /\ HostOf(info) + 1 \in Nat \ {0} /\ info \in deleted
  BY Moves, EraseIs DEF TypeInv
<1>3. at \in Mapped' \union {NoInfo}
  BY <1>2, InfoFromIs DEF Mapped
<1> HIDE DEF at
<1>4. PICK h \in Hosts : /\ threadsInfo[h] = info
                         /\ threadsInfo' = [ threadsInfo EXCEPT ![h] = NoInfo ]
  BY EraseIs
<1>5. /\ main.pc = "wait" /\ AddInv' /\ ThreadInv'
      /\ worker'[i].pc = "orphans" /\ worker'[i].at = at
      /\ \A k \in Infos : k # i => worker[k].pc \in {"none", "start", "wait", "request"}
                                   /\ worker'[k].pc \in {"none", "start", "wait", "request"}
  BY <1>1, <1>2, ServedAlone
<1>6. \A d \in Sockets : (Live(d)' <=> Live(d)) /\ (Live(d) => InfoOf(d)' = InfoOf(d))
  BY UnmapKeeps DEF Quiet, Served
<1>7. LiveInv'
  BY <1>1, <1>6 DEF Quiet, Served, LiveInv
<1>8. EpollInv'
  BY <1>1, <1>5, <1>6 DEF Quiet, Served, EpollInv, AddingNow
<1>9. SockInv'
  <2>1. \A k \in Infos : worker[k].pc # "close" /\ worker'[k].pc # "close"
    BY <1>1, <1>5
  <2> QED
    BY <1>1, <1>5, <1>6, <2>1 DEF Quiet, Served, SockInv, AddingNow
<1>10. GoneInv'
  BY <1>1, <1>2, <1>5 DEF Quiet, Served, GoneInv
<1>11. RemovalInv'
  BY <1>3, <1>5 DEF RemovalInv
<1> QED
  BY <1>5, <1>7, <1>8, <1>9, <1>10, <1>11 DEF Served

\* Steps after which threads are at work on what they were at work on before.
LEMMA AtWorkKept ==
  ASSUME AtWork, WorkerOK,
         \A i \in Infos : worker'[i].pc \in {"start", "request", "find"} => worker'[i] = worker[i],
         \A i \in Infos, d \in Sockets :
           worker[i].pc \in {"start", "request"} /\ worker[i].fd = d /\ Live(d)
             => Live(d)' /\ InfoOf(d)' = InfoOf(d),
         \A i \in Infos : worker[i].pc = "find" => i \notin deleted'
  PROVE  AtWork'
<1>1. ASSUME NEW i \in Infos, worker'[i].pc \in {"start", "request"}
      PROVE  worker'[i].fd \in Sockets /\ Live(worker[i].fd)' /\ InfoOf(worker[i].fd)' = i
  <2>1. worker'[i] = worker[i]
    BY <1>1
  <2>2. PICK d \in Sockets : d = worker[i].fd /\ Live(d) /\ InfoOf(d) = i
    BY <1>1, <2>1 DEF AtWork
  <2>3. Live(d)' /\ InfoOf(d)' = i
    BY <1>1, <2>1, <2>2
  <2> QED
    BY <2>1, <2>2, <2>3 DEF Live, InfoOf
<1>2. \A i \in Infos : worker'[i].pc = "find" => i \notin deleted'
  OBVIOUS
<1> QED
  BY <1>1, <1>2 DEF AtWork

\* Steps of the clients and of the main thread.
LEMMA AtWorkBeside ==
  ASSUME TypeInv, Quiet,
         \/ Connect \/ MainThread \/ \E fd \in Sockets : ClientActs(fd)
  PROVE  AtWork'
<1>0. AtWork /\ WorkerOK
  BY DEF Quiet, TypeInv
<1>1. CASE Connect \/ (\E fd \in Sockets : ClientActs(fd)) \/ Wake \/ NothingToAccept
           \/ AddSockfd \/ InsertSockfd
  <2>1. UNCHANGED << threadsInfo, deleted, host, worker >>
    BY <1>1 DEF Connect, ClientActs, Wake, NothingToAccept, AddSockfd, InsertSockfd, infos, sockets
  <2>2. \A d \in Sockets : peer'[d] = "none" <=> peer[d] = "none"
    <3>1. Connect \/ Wake \/ NothingToAccept \/ AddSockfd \/ InsertSockfd => peer' = peer
      BY DEF Connect, Wake, NothingToAccept, AddSockfd, InsertSockfd, sockets
    <3> QED
      BY <1>1, <3>1, ServedClients DEF Quiet
  <2>3. \A d \in Sockets : (Live(d) => Live(d)') /\ InfoOf(d)' = InfoOf(d)
    BY <2>1, <2>2 DEF Live, InfoOf
  <2> QED
    BY <1>0, <2>1, <2>3, AtWorkKept DEF AtWork
<1>2. CASE AddNewClient
  <2>1. UNCHANGED << deleted, worker >>
    BY <1>2 DEF AddNewClient
  <2> QED
    BY <1>0, <1>2, <2>1, AcceptKeeps, AtWorkKept DEF AtWork, Quiet, Served
<1>3. CASE CreateThread
  <2>1. /\ UNCHANGED << threadsInfo, deleted, host, peer >>
        /\ worker' = [ worker EXCEPT ![main.info] = [ pc |-> "start", fd |-> main.fd, at |-> NoInfo ] ]
    BY <1>3 DEF CreateThread, sockets
  <2>2. \A i \in Infos : i # main.info => worker'[i] = worker[i]
    BY <1>0, <2>1 DEF WorkerOK
  <2>3. main.info \in Infos
         => worker'[main.info].pc = "start" /\ worker'[main.info].fd = main.fd
    BY <1>0, <2>1 DEF WorkerOK
  <2>4. main.fd \in Sockets /\ Live(main.fd) /\ InfoOf(main.fd) = main.info
    BY <1>3 DEF CreateThread, Quiet, Served, AddInv, Adding, TypeInv, MainOK
  <2>5. ASSUME NEW i \in Infos
        PROVE  /\ worker'[i].pc \in {"start", "request"} =>
                    worker'[i].fd \in Sockets /\ Live(worker'[i].fd) /\ InfoOf(worker'[i].fd) = i
               /\ worker'[i].pc = "find" => i \notin deleted'
    <3>1. CASE i = main.info
      <4>1. worker'[i].pc = "start" /\ worker'[i].fd = main.fd
        BY <2>3, <3>1
      <4> QED
        BY <2>4, <3>1, <4>1
    <3>2. CASE i # main.info
      <4>1. worker'[i] = worker[i]
        BY <2>2, <3>2
      <4> QED
        BY <1>0, <2>1, <4>1 DEF AtWork
    <3> QED
      BY <3>1, <3>2
  <2> QED
    BY <2>1, <2>5 DEF AtWork, Live, InfoOf
<1> QED
  BY <1>1, <1>2, <1>3 DEF MainThread

\* Steps of a removal.
LEMMA AtWorkRemoval ==
  ASSUME TypeInv, Quiet, NEW i \in Infos, RemovalStep(i)
  PROVE  AtWork'
<1>0. AtWork /\ WorkerOK
  BY DEF Quiet, TypeInv
<1>1. /\ i \in Removing
      /\ \E pc \in {"wait", "erase", "close", "orphans", "unmap"} :
           \E fd, at : Moved(i, pc, fd, at)
  <2>1. i \in Removing
    BY DEF RemovalStep, GetThreadInfoBySockfd, EraseSockfd, CloseSocket, KeepInfo, DeleteInfo,
           EraseInfo, EndRemoval, HasOrphan, Removing
  <2>2. GetThreadInfoBySockfd(i) => \E pc \in {"wait", "erase"} : \E fd, at : Moved(i, pc, fd, at)
    BY <1>0, FindMoves
  <2>3. ~GetThreadInfoBySockfd(i) => \E pc \in {"wait", "close", "orphans", "unmap"} :
           \E fd, at : Moved(i, pc, fd, at)
    BY <1>0, Moves DEF RemovalStep
  <2> QED
    BY <2>1, <2>2, <2>3
<1>2. \A k \in Infos : k # i => worker'[k] = worker[k]
  BY <1>1 DEF Moved
<1>3. worker'[i].pc \notin {"start", "request", "find"}
  BY <1>1 DEF Moved
<1>4. \A k \in Infos : k # i => worker[k].pc # "find"
  BY <1>0, <1>1, Alone DEF Quiet
<1>5. worker[i].pc = "find" => i \notin deleted'
  <2>1. worker[i].pc = "find" => deleted' = deleted
    BY DEF RemovalStep, GetThreadInfoBySockfd, EraseSockfd, CloseSocket, KeepInfo, DeleteInfo,
           EraseInfo, EndRemoval, HasOrphan, infos
  <2> QED
    BY <1>0, <2>1 DEF AtWork
<1>6. ASSUME NEW k \in Infos, NEW d \in Sockets,
             worker[k].pc \in {"start", "request"}, worker[k].fd = d, Live(d)
      PROVE  Live(d)' /\ InfoOf(d)' = InfoOf(d)
  <2>1. CASE EraseInfo(i)
    BY <1>6, <2>1, UnmapKeeps DEF Quiet, Served
  <2>2. CASE CloseSocket(i)
    <3>1. worker[i].fd # d
      BY <1>6, <2>2 DEF CloseSocket, Quiet, OneAtATime, TakesConnection
    <3> QED
      BY <1>6, <2>2, <3>1 DEF CloseSocket, Live, InfoOf
  <2>3. CASE ~EraseInfo(i) /\ ~CloseSocket(i)
    <3>1. UNCHANGED << threadsInfo, host, peer >>
      BY <2>3 DEF RemovalStep, GetThreadInfoBySockfd, EraseSockfd, KeepInfo, DeleteInfo, EndRemoval,
                  infos, sockets
    <3> QED
      BY <1>6, <3>1 DEF Live, InfoOf
  <2> QED
    BY <2>1, <2>2, <2>3
<1> QED
  BY <1>0, <1>2, <1>3, <1>4, <1>5, <1>6, AtWorkKept

\* A thread that begins to wait, begins or ends a request, or begins a removal.
LEMMA AtWorkEvent ==
  ASSUME TypeInv, Quiet, NEW i \in Infos,
         ThreadStep(i) \/ \E fd \in Sockets : Event(i, fd)
  PROVE  AtWork'
<1>0. AtWork /\ WorkerOK
  BY DEF Quiet, TypeInv
<1>1. UNCHANGED << threadsInfo, deleted, host >>
  BY DEF ThreadStep, BeginToWait, WriteResponseToClient, Event, HandleClientRequest, RemoveClient,
         RemoveOnError, infos, sockets
<1>2. \A d \in Sockets : (Live(d)' <=> Live(d)) /\ InfoOf(d)' = InfoOf(d)
  <2>1. ~ThreadStep(i) => peer' = peer
    BY DEF Event, HandleClientRequest, RemoveClient, RemoveOnError, sockets
  <2>2. \A d \in Sockets : peer'[d] = "none" <=> peer[d] = "none"
    BY <2>1, AnswerIs
  <2> QED
    BY <1>1, <2>2 DEF Live, InfoOf
<1>3. CASE ThreadStep(i)
  <2>1. Moved(i, "wait", 0, NoInfo)
    BY <1>0, <1>3, Moves
  <2>2. \A k \in Infos : worker'[k].pc \in {"start", "request", "find"} => worker'[k] = worker[k]
    BY <2>1 DEF Moved
  <2> QED
    BY <1>0, <1>1, <1>2, <2>2, AtWorkKept DEF AtWork
<1>4. ASSUME NEW fd \in Sockets, HandleClientRequest(i, fd) PROVE AtWork'
  <2>1. Moved(i, "request", fd, NoInfo)
    BY <1>0, <1>4, Moves
  <2>2. fd \in epoll[i]
    BY <1>4 DEF HandleClientRequest, HasEvent
  <2>3. Live(fd) /\ InfoOf(fd) = i
    BY <2>2 DEF Quiet, Served, EpollInv
  <2> QED
    BY <1>0, <1>1, <1>2, <2>1, <2>3 DEF AtWork, Moved, Live, InfoOf
<1>5. ASSUME NEW fd \in Sockets, RemoveClient(i, fd) \/ RemoveOnError(i, fd) PROVE AtWork'
  <2>1. \E d \in Sockets \union {listener} : Moved(i, "find", d, NoInfo)
    BY <1>0, <1>5, Moves, ErrorMoves
  <2>2. i \notin deleted
    BY <1>5 DEF RemoveClient, RemoveOnError, HasEvent
  <2> QED
    BY <1>0, <1>1, <1>2, <2>1, <2>2 DEF AtWork, Moved, Live, InfoOf
<1> QED
  BY <1>3, <1>4, <1>5 DEF Event

\* The epoll instance of a deleted ThreadInfo watches nothing.
LEMMA DeletedWatchNothing ==
  ASSUME TypeInv, Quiet, NEW i \in deleted
  PROVE  epoll[i] = {}
<1>1. i \in Infos
  BY ServerNumbers DEF TypeInv, InfosOK, Infos
<1>2. ASSUME NEW fd \in epoll[i] PROVE FALSE
  <2>1. fd \in Sockets
    BY <1>1, <1>2 DEF TypeInv, InfosOK
  <2>2. Live(fd) /\ InfoOf(fd) = i
    BY <1>1, <1>2, <2>1 DEF Quiet, Served, EpollInv
  <2> QED
    BY <2>1, <2>2 DEF Quiet, Served, LiveInv
<1> QED
  BY <1>2

\* A thread that is alone uses no ThreadInfo another one deleted.
LEMMA NothingDeletedUsed ==
  ASSUME TypeInv, Quiet
  PROVE  ~UsesOthers
<1>0. \A j \in deleted : j \in Mapped => \E k \in Removing : worker[k].pc = "unmap"
  BY DEF Quiet, Served, GoneInv, Removing
<1>1. ~(main.pc \in Adding /\ main.info \in deleted)
  BY DEF Quiet, Served, AddInv, LiveInv, TypeInv, MainOK
<1>2. ~(main.pc = "accept" /\ Mapped \intersect deleted # {})
  BY <1>0 DEF Quiet, OneAtATime
<1>3. ASSUME NEW i \in Infos, worker[i].pc \in {"find", "erase", "orphans"}
      PROVE  \A j \in deleted : j \notin Mapped
  <2>1. i \in Removing
    BY <1>3 DEF Removing
  <2> QED
    BY <1>0, <1>3, <2>1 DEF Quiet, OneAtATime
<1>4. ASSUME NEW i \in Infos, worker[i].pc = "find"
      PROVE  Mapped \intersect deleted = {} /\ i \notin deleted
  BY <1>3, <1>4 DEF Quiet, AtWork
<1>5. ASSUME NEW i \in Infos, worker[i].pc \in {"erase", "orphans"}, worker[i].at \in deleted PROVE FALSE
  <2>1. worker[i].at \notin Mapped
    BY <1>3, <1>5
  <2>2. worker[i].at = NoInfo
    BY <1>5, <2>1 DEF Quiet, Served, RemovalInv
  <2> QED
    BY <1>5, <2>2, ServerNumbers DEF TypeInv, InfosOK, NoInfo
<1>6. ASSUME NEW i \in Infos, i \in deleted, NEW fd \in epoll[i] PROVE FALSE
  BY <1>6, DeletedWatchNothing
<1>7. ASSUME NEW i \in Infos, worker[i].pc \in {"start", "request"} PROVE i \notin deleted
  BY <1>7 DEF Quiet, AtWork, Served, LiveInv
<1> QED
  BY <1>1, <1>2, <1>4, <1>5, <1>6, <1>7 DEF UsesOthers, Adding

\* It holds while nobody is connected.
LEMMA QuietInit == Initially => QuietInv
<1> SUFFICES ASSUME Initially PROVE QuietInv
  OBVIOUS
<1>1. /\ \A h \in Hosts : threadsInfo[h] = NoInfo
      /\ \A i \in Infos : sockfds[i] = {} /\ epoll[i] = {} /\ worker[i].pc = "none"
      /\ \A fd \in Sockets : peer[fd] = "none"
      /\ deleted = {} /\ main.pc = "wait"
  BY DEF Initially, At, Doing
<1>2. Mapped = {} /\ Removing = {}
  BY <1>1 DEF Mapped, Removing
<1>3. OneAtATime
  BY <1>1, <1>2 DEF OneAtATime, TakesConnection
<1>4. LiveInv /\ EpollInv /\ SockInv
  BY <1>1 DEF LiveInv, EpollInv, SockInv, Live
<1>5. AddInv /\ ThreadInv /\ GoneInv /\ RemovalInv
  BY <1>1, <1>2 DEF AddInv, ThreadInv, GoneInv, RemovalInv, Adding
<1>6. AtWork
  BY <1>1 DEF AtWork
<1> QED
  BY <1>3, <1>4, <1>5, <1>6 DEF QuietInv, Quiet, Served

\* It is kept: as long as the history knows of no overlap there was none.
LEMMA QuietStep == TypeInv /\ QuietInv /\ [ServerNext]_serverVars => QuietInv'
<1> SUFFICES ASSUME TypeInv, QuietInv, [ServerNext]_serverVars, ~overlapped' PROVE Quiet'
  BY DEF QuietInv
<1>0. ASSUME UNCHANGED << infos, sockets, main, worker >>, Quiet PROVE Served' /\ AtWork'
  <2>1. UNCHANGED << threadsInfo, deleted, host, peer >>
    BY <1>0 DEF infos, sockets
  <2>2. Served'
    BY <1>0, <2>1, ServedKept DEF Quiet
  <2>3. AtWork'
    BY <1>0, <2>1 DEF Quiet, AtWork, Live, InfoOf
  <2> QED
    BY <2>2, <2>3
<1>1. CASE UNCHANGED serverVars
  <2>1. overlapped' = overlapped /\ UNCHANGED << infos, sockets, main, worker >>
    BY <1>1 DEF serverVars, threadVars
  <2>2. Quiet
    BY <2>1 DEF QuietInv
  <2>3. OneAtATime'
    BY <2>1, <2>2 DEF Quiet, OneAtATime, Removing, TakesConnection
  <2> QED
    BY <1>0, <2>1, <2>2, <2>3 DEF Quiet
<1>2. CASE ServerNext
  <2>1. ~overlapped /\ ~Overlap'
    BY <1>2 DEF ServerNext
  <2>2. Quiet
    BY <2>1 DEF QuietInv
  <2>3. OneAtATime'
    <3>1. ~Overlap' => OneAtATime'
      BY NoOverlap, PTL
    <3> QED
      BY <2>1, <3>1
  <2>4. ASSUME Connect \/ MainThread \/ \E fd \in Sockets : ClientActs(fd) PROVE Served' /\ AtWork'
    <3>1. Served'
      BY <2>2, <2>4, ServedClients, ServerNumbers, ServedMain, ServedAccept, ServedAdd, ServedInsert,
         ServedCreate DEF MainThread, Quiet
    <3> QED
      BY <2>2, <2>4, <3>1, AtWorkBeside
  <2>5. ASSUME NEW i \in Infos, RemovalStep(i) PROVE Served' /\ AtWork'
    <3>1. Served'
      BY <2>2, <2>5, ServedFind, ServedErase, ServedClose, ServedKeep, ServedDelete, ServedUnmap,
         ServedEnd DEF RemovalStep
    <3> QED
      BY <2>2, <2>5, <3>1, AtWorkRemoval
  <2>6. ASSUME NEW i \in Infos, ThreadStep(i) \/ \E fd \in Sockets : Event(i, fd)
        PROVE  Served' /\ AtWork'
    <3>1. Served'
      BY <2>2, <2>6, ServedRequest, ServedBegin DEF Event
    <3> QED
      BY <2>2, <2>6, <3>1, AtWorkEvent
  <2>7. ASSUME UseDeleted \/ \E i \in Infos : UseAfterDelete(i) PROVE Served' /\ AtWork'
    BY <1>0, <2>2, <2>7 DEF UseDeleted, UseAfterDelete
  <2>8. Served' /\ AtWork'
    BY <1>2, <2>4, <2>5, <2>6, <2>7 DEF ServerNext
  <2> QED
    BY <2>3, <2>8 DEF Quiet
<1> QED
  BY <1>1, <1>2

\* What the invariant says of a connection that is not just added or removed.
LEMMA ServedAsPromised == TypeInv /\ QuietInv => OneThreadPerHost
<1> SUFFICES ASSUME TypeInv, Quiet, NEW fd \in Sockets, Settled(fd)
             PROVE  LET i == threadsInfo[host[fd]]
                    IN /\ i \notin deleted \union {NoInfo}
                       /\ worker[i].pc # "none"
                       /\ fd \in sockfds[i]
                       /\ { j \in Infos : fd \in epoll[j] } = {i}
  BY DEF OneThreadPerHost, QuietInv
<1> DEFINE i == threadsInfo[host[fd]]
<1>1. Live(fd) /\ ~(main.pc \in Adding /\ main.fd = fd)
      /\ \A k \in Infos : worker[k].pc = "close" => worker[k].fd # fd
  BY DEF Settled, Live, Adding
<1>2. InfoOf(fd) = i /\ i # NoInfo /\ i \notin deleted
  BY <1>1 DEF Quiet, Served, LiveInv, InfoOf
<1>3. i \in Mapped
  BY <1>2 DEF Mapped, TypeInv, SocketsOK
<1>4. i \in Infos
  BY <1>3, ServerNumbers DEF TypeInv, InfosOK, Mapped, Infos, NoInfo
<1>5. worker[i].pc # "none"
  BY <1>1, <1>2, <1>3 DEF Quiet, Served, ThreadInv, AddInv
<1>6. fd \in sockfds[i]
  BY <1>1, <1>2, <1>4 DEF Quiet, Served, SockInv, AddingNow, Adding
<1>7. \A j \in Infos : fd \in epoll[j] <=> j = i
  BY <1>1, <1>2 DEF Quiet, Served, EpollInv, AddingNow, Adding
<1> QED
  BY <1>2, <1>4, <1>5, <1>6, <1>7

\* Both invariants hold throughout.
LEMMA AlwaysServed == ServerSpec => [](TypeInv /\ QuietInv)
BY TypeInvInit, QuietInit, TypeInvStep, QuietStep, PTL DEF ServerSpec

\* For any number of hosts and connections, accepted, closed and broken in any
\* order: while no removal overlaps with another or with an addition, or takes a
\* connection in work, all of a host's connections are with the thread of the host's
\* ThreadInfo, and with no other.
THEOREM OneThreadServesHost == ServerSpec => []OneThreadPerHost
BY AlwaysServed, ServedAsPromised, PTL

\* Without such an overlap a ThreadInfo that was deleted is used by nobody but the thread
\* that deleted it, although the map, the sets of sockets and the memory have no lock in
\* common, and although errors close the wrong connections; and its epoll instance
\* watches no connection.
THEOREM OverlapNeeded == ServerSpec => []OnlyDeleterUses
<1>1. TypeInv /\ QuietInv => OnlyDeleterUses
  BY NothingDeletedUsed, DeletedWatchNothing DEF QuietInv, OnlyDeleterUses
<1> QED
  BY <1>1, AlwaysServed, PTL

\* The types, of all behaviours, also those in which a deleted ThreadInfo is used.
THEOREM ServerTypeCorrect == ServerSpec => []ServerTypeOK
<1>1. TypeInv => ServerTypeOK
  BY PartsOfTypes DEF TypeInv
<1> QED
  BY <1>1, AlwaysServed, PTL
===============================================================================
