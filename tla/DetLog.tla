-------------------------------- MODULE DetLog --------------------------------
(***************************************************************************)
(* What the determinant logger promises its clients: every request takes   *)
(* effect at one moment between its arrival and its answer. Recovery uses  *)
(* the logger this way; DetLoggerServer.tla implements it with threads and *)
(* locks.                                                                  *)
(***************************************************************************)
EXTENDS PacketLists

CONSTANTS
  Threads,  \* server threads, one per client host (asyncServer.cc)
  Mbs,      \* middlebox ids
  PacketIds,
  MaxDelete \* the largest count a client deletes (a bound)

VARIABLES
  log,     \* the listed ids of every middlebox
  request  \* what each thread works on, and the answer once it took effect

vars == << log, request >>

None == [ op |-> "none" ]
StoreRequests == [ op : {"store"}, mb : Mbs, id : PacketIds ]
Requests ==
  StoreRequests
    \union [ op : {"getPals"}, mb : Mbs, id : PacketIds ]
    \union [ op : {"list"}, mb : Mbs, allVersions : BOOLEAN ]
    \union [ op : {"delete"}, mb : Mbs, count : 0..MaxDelete ]

Pending(r) == [ todo |-> r, done |-> FALSE, answer |-> <<>> ]
Idle == Pending(None)

Init ==
  /\ log = [ mb \in Mbs |-> <<>> ]
  /\ request = [ t \in Threads |-> Idle ]

Arrive(t, r) ==
  /\ request[t] = Idle
  /\ request' = [ request EXCEPT ![t] = Pending(r) ]
  /\ UNCHANGED log

Waiting(t, op) == request[t].todo.op = op /\ ~request[t].done
Answered(t, a) == request' = [ request EXCEPT ![t].done = TRUE, ![t].answer = a ]

Store(t) ==
  /\ Waiting(t, "store")
  /\ LET r == request[t].todo IN log' = [ log EXCEPT ![r.mb] = Append(@, r.id) ]
  /\ Answered(t, <<>>)

\* A store under way may be seen by its key before it is listed.
BeingStored(mb, id) ==
  \E t \in Threads : Waiting(t, "store") /\ request[t].todo.mb = mb /\ request[t].todo.id = id

GetPals(t) ==
  /\ Waiting(t, "getPals")
  /\ LET r == request[t].todo
     IN \/ r.id \in Elements(log[r.mb]) \union { id \in {r.id} : BeingStored(r.mb, id) }
             /\ Answered(t, <<"found">>)
        \/ r.id \notin Elements(log[r.mb]) /\ Answered(t, <<>>)
  /\ UNCHANGED log

List(t) ==
  /\ Waiting(t, "list")
  /\ LET r == request[t].todo
     IN Answered(t, IF r.allVersions THEN log[r.mb] ELSE FirstVersions(log[r.mb]))
  /\ UNCHANGED log

Delete(t) ==
  /\ Waiting(t, "delete")
  /\ LET r == request[t].todo IN log' = [ log EXCEPT ![r.mb] = DropFirst(@, r.count) ]
  /\ Answered(t, <<>>)

Return(t) ==
  /\ request[t].done
  /\ request' = [ request EXCEPT ![t] = Idle ]
  /\ UNCHANGED log

Next ==
  \E t \in Threads :
    \/ \E r \in Requests : Arrive(t, r)
    \/ Store(t) \/ GetPals(t) \/ List(t) \/ Delete(t) \/ Return(t)

Spec == Init /\ [][Next]_vars
===============================================================================
