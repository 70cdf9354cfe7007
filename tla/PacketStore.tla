----------------------------- MODULE PacketStore ------------------------------
(***************************************************************************)
(* What the packet logger promises: a store, and each packet of a replay   *)
(* or a deletion, takes effect at one moment. Recovery uses the logger     *)
(* this way; PacketLoggerServer.tla implements it with threads, locks and  *)
(* pointers, as long as the manager deletes no packet too early.           *)
(***************************************************************************)
EXTENDS PacketLists

CONSTANTS
  Threads,   \* server threads, one per client host (asyncServer.cc)
  Requests   \* what the client of each thread may ask for: an operation on a list of ids

VARIABLES
  stored,    \* the ids whose content is stored
  job        \* each thread: its operation, the ids still to do, and the rebuilt
             \* packet that waits to be sent, as the versions it is made of

vars == << stored, job >>

Idle == [ op |-> "none", ids |-> <<>>, packet |-> {} ]

Init ==
  /\ stored = {}
  /\ job = [ t \in Threads |-> Idle ]

VersionsOf(b) == { id \in stored : BaseOf(id) = b }

\* getPacket: the first versions, as many as the id's version says, or all.
Rebuilt(id) ==
  { w \in VersionsOf(BaseOf(id)) :
      Cardinality({ u \in VersionsOf(BaseOf(id)) : VersionOf(u) <= VersionOf(w) })
        <= VersionOf(id) }

Doing(t, op) == job[t].op = op /\ job[t].ids # <<>>
Current(t) == Head(job[t].ids)
Done(t) == job' = [ job EXCEPT ![t].ids = Tail(@), ![t].packet = {} ]

Arrive(t) ==
  /\ job[t] = Idle
  /\ UNCHANGED stored
  /\ \E r \in Requests[t] : job' = [ job EXCEPT ![t].op = r.op, ![t].ids = r.ids ]

Store(t) ==
  /\ Doing(t, "store")
  /\ stored' = stored \union {Current(t)}
  /\ Done(t)

Rebuild(t) ==
  /\ Doing(t, "replay")
  /\ job[t].packet = {}
  /\ Rebuilt(Current(t)) # {}
  /\ job' = [ job EXCEPT ![t].packet = Rebuilt(Current(t)) ]
  /\ UNCHANGED stored

Send(t) ==
  /\ Doing(t, "replay")
  /\ job[t].packet # {}
  /\ Done(t)
  /\ UNCHANGED stored

\* A packet nothing is stored of is not sent.
Skip(t) ==
  /\ Doing(t, "replay")
  /\ Rebuilt(Current(t)) = {}
  /\ Done(t)
  /\ UNCHANGED stored

\* The slave cannot be connected to.
Refuse(t) ==
  /\ Doing(t, "replay")
  /\ job[t].packet = {}
  /\ job' = [ job EXCEPT ![t].ids = <<>> ]
  /\ UNCHANGED stored

\* All versions of the packet go, or none when the id is older than the last.
Delete(t) ==
  /\ Doing(t, "delete")
  /\ LET all == VersionsOf(BaseOf(Current(t)))
     IN stored' = IF VersionOf(Current(t)) < Cardinality(all) THEN stored ELSE stored \ all
  /\ Done(t)

Return(t) ==
  /\ job[t].op # "none"
  /\ job[t].ids = <<>>
  /\ job' = [ job EXCEPT ![t] = Idle ]
  /\ UNCHANGED stored

Next ==
  \E t \in Threads :
    \/ Arrive(t) \/ Store(t) \/ Delete(t) \/ Return(t)
    \/ Rebuild(t) \/ Send(t) \/ Skip(t) \/ Refuse(t)

Spec == Init /\ [][Next]_vars
===============================================================================
