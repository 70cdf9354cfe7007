----------------------------- MODULE RpcConnection -----------------------------
(***************************************************************************)
(* One connection of a Client (client.cc) to a Server (asyncServer.cc): a  *)
(* request is sent and its answer awaited, two seconds at most. Requests   *)
(* and answers carry a length, and no number: what is read next is taken   *)
(* for the answer to the last request.                                     *)
(*                                                                         *)
(* TCP delivers a request in pieces, the first with the header. The server *)
(* reads what has arrived, and does not wait for what is missing. A thread *)
(* handles one request of a connection after the other. That one of the    *)
(* two processes ends, and what answers say, is left out; the content of a *)
(* request is taken not to look like a header.                             *)
(***************************************************************************)
EXTENDS Integers, Sequences, FiniteSets

CONSTANTS
  MaxRequests,   \* requests the client sends (a bound)
  MaxPieces      \* pieces a request is delivered in (a bound)

ASSUME RpcAssumption == MaxRequests \in Nat /\ MaxPieces \in Nat \ {0}

VARIABLES
  client,     \* "idle", "waiting" for a header or "reading" what follows it
  requested,  \* requests made so far: they are numbered
  toServer,   \* pieces << request, number of the piece, whether it is the last >> sent
  inbox,      \* those the server's socket has received
  toClient,   \* the requests whose answers were sent
  cut,        \* an answer was read, or sent, in part: what follows is read wrongly
  gaveUp,     \* history: requests the client stopped waiting for
  lost,       \* history: requests that were not sent, or read for something else
  taken       \* history: the last answer, the request it was taken for, gaveUp then

rpcVars == << client, requested, toServer, inbox, toClient, cut, gaveUp, lost, taken >>

InitRpc ==
  /\ client = "idle"
  /\ requested = 0
  /\ toServer = <<>> /\ inbox = <<>> /\ toClient = <<>>
  /\ cut = FALSE
  /\ gaveUp = 0
  /\ lost = {}
  /\ taken = [ answer |-> 0, for |-> 0, gaveUp |-> 0 ]

-----------------------------------------------------------------------------
(* Client::sendMsgAndWait *)

RequestPieces(r, n) == [ k \in 1..n |-> << r, k, k = n >> ]

\* A request that is too long, or cannot be sent, is waited for all the same.
SendMsg ==
  /\ client = "idle" /\ requested < MaxRequests
  /\ requested' = requested + 1
  /\ client' = "waiting"
  /\ \/ /\ \E n \in 1..MaxPieces : toServer' = toServer \o RequestPieces(requested', n)
        /\ UNCHANGED lost
     \/ lost' = lost \union {requested'} /\ UNCHANGED toServer
  /\ UNCHANGED << inbox, toClient, cut, gaveUp, taken >>

\* readCommonServerResponse: length and status ...
ReadHeader ==
  /\ client = "waiting" /\ toClient # <<>>
  /\ client' = "reading"
  /\ UNCHANGED << requested, toServer, inbox, toClient, cut, gaveUp, lost, taken >>

\* ... and what is returned.
ReadContent ==
  /\ client = "reading"
  /\ client' = "idle"
  /\ toClient' = Tail(toClient)
  /\ taken' = [ answer |-> Head(toClient), for |-> requested, gaveUp |-> gaveUp ]
  /\ UNCHANGED << requested, toServer, inbox, cut, gaveUp, lost >>

\* recv returned nothing for a second, twice. The answer may be on its way.
GiveUp ==
  /\ client # "idle"
  /\ client' = "idle"
  /\ gaveUp' = gaveUp + 1
  /\ cut' = (cut \/ client = "reading")
  /\ UNCHANGED << requested, toServer, inbox, toClient, lost, taken >>

-----------------------------------------------------------------------------
(* The network, and Server::handleClientRequest *)

Arrive ==
  /\ \E k \in 1..Len(toServer) :
       /\ inbox' = inbox \o SubSeq(toServer, 1, k)
       /\ toServer' = SubSeq(toServer, k + 1, Len(toServer))
  /\ UNCHANGED << client, requested, toClient, cut, gaveUp, lost, taken >>

\* The first n pieces are what has arrived of the first request.
Arrived(n) ==
  /\ \A k \in 1..n : inbox[k][1] = inbox[1][1]
  /\ n < Len(inbox) => inbox[n + 1][1] # inbox[1][1]

\* What has arrived of the request is handled as if it were all, and answered.
HandleRequest ==
  /\ inbox # <<>> /\ inbox[1][2] = 1
  /\ \E n \in 1..Len(inbox) : Arrived(n) /\ inbox' = SubSeq(inbox, n + 1, Len(inbox))
  /\ toClient' = Append(toClient, inbox[1][1])
  \* A client that does not read blocks the answer. When writing failed for a
  \* second the server goes on one byte before what it had written.
  /\ cut' \in (IF client = "idle" /\ toClient # <<>> THEN {cut, TRUE} ELSE {cut})
  /\ UNCHANGED << client, requested, toServer, gaveUp, lost, taken >>

\* Mutant: the refusal is answered.
RefuseRest ==
  /\ inbox # <<>> /\ inbox[1][2] # 1
  /\ inbox' = Tail(inbox)
  /\ toClient' = Append(toClient, inbox[1][1])
  /\ UNCHANGED << client, requested, toServer, cut, gaveUp, lost, taken >>

\* The rest of a request is read as headers, eight bytes each, and refused. The
\* last of them may take bytes from the header of the next request.
DiscardRest ==
  /\ inbox # <<>> /\ inbox[1][2] # 1
  /\ \/ inbox' = Tail(inbox) /\ UNCHANGED lost
     \/ /\ inbox[1][3] /\ Len(inbox) > 1
        /\ lost' = lost \union {inbox[2][1]}
        \* What is left of that header is more to discard.
        /\ inbox' = [ Tail(inbox) EXCEPT ![1][2] = MaxPieces + 1 ]
  /\ UNCHANGED << client, requested, toServer, toClient, cut, gaveUp, taken >>

NextRpc ==
  /\ ~cut
  /\ \/ SendMsg \/ ReadHeader \/ ReadContent \/ GiveUp
     \/ Arrive \/ HandleRequest \/ DiscardRest

RpcSpec == InitRpc /\ [][NextRpc]_rpcVars

-----------------------------------------------------------------------------
RpcTypeOK ==
  /\ client \in {"idle", "waiting", "reading"}
  /\ requested \in 0..MaxRequests
  /\ toServer \in Seq((1..requested) \X (1..MaxPieces) \X BOOLEAN)
  /\ inbox \in Seq((1..requested) \X (1..MaxPieces + 1) \X BOOLEAN)
  /\ toClient \in Seq(1..requested)
  /\ cut \in BOOLEAN
  /\ gaveUp \in 0..requested
  /\ lost \subseteq 1..requested
  /\ taken \in [ answer : 0..requested, for : 0..requested, gaveUp : 0..requested ]

\* Late answers are taken for those of later requests, but the client never falls
\* behind by itself: an answer is as many requests late as the client gave up on,
\* not counting those that get no answer. A request that is handled in part, or
\* whose rest is discarded, is answered once.
AnswersInStep ==
  taken.for > 0 =>
    /\ taken.answer \notin lost
    /\ Cardinality((1..taken.answer) \ lost) = taken.for - taken.gaveUp
================================================================================
