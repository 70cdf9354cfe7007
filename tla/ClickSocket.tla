------------------------------ MODULE ClickSocket ------------------------------
(***************************************************************************)
(* The connections over which the packet logger replays packets to a slave *)
(* (packets_logger_server.cc), and the Socket element that reads them      *)
(* (socket.cc). Each replay request has a connection of its own, over      *)
(* which every packet is sent behind its length; the end of the packets is *)
(* the end of the connection. The manager's thread handles one request     *)
(* after the other. The element reads one connection at a time; the others *)
(* wait in the listening socket's queue.                                   *)
(*                                                                         *)
(* TCP delivers a packet in one piece or two, of which the first has the   *)
(* length. The element takes what has arrived for the packet; what it      *)
(* reads after half a packet is arbitrary, and the model stops (torn).     *)
(***************************************************************************)
EXTENDS Integers, Sequences

CONSTANTS
  MaxReplays,   \* replay requests (a bound); the queue holds three connections
  MaxReplayed   \* packets of all of them (a bound)

ASSUME SocketAssumption == MaxReplays \in 0..3 /\ MaxReplayed \in Nat

Replays == 1..MaxReplays

\* A piece of a packet: its number and which part it is.
Parts == {"whole", "first", "second"}
End == << 0, "end" >>

VARIABLES
  connected,   \* connections made; they are numbered
  replaying,   \* whether the packet logger still sends on the last one
  sent,        \* packets sent so far, on all connections; they are numbered
  wire,        \* the pieces each connection has still to deliver
  received,    \* those each has delivered, and the element has not read
  accepted,    \* connections the element accepted, in the order they were made
  active,      \* _active: the connection that is read, 0 if there is none
  pushed,      \* the packets the element pushed
  torn,        \* history: half a packet was taken for a packet
  kept         \* history: a connection was kept at its end

socketVars == << connected, replaying, sent, wire, received,
                 accepted, active, pushed, torn, kept >>

\* initialize: the element listens.
InitSocket ==
  /\ connected = 0
  /\ replaying = FALSE
  /\ sent = 0
  /\ wire = [ c \in Replays |-> <<>> ]
  /\ received = [ c \in Replays |-> <<>> ]
  /\ accepted = 0
  /\ active = 0
  /\ pushed = <<>>
  /\ torn = FALSE
  /\ kept = FALSE

-----------------------------------------------------------------------------
(* The packet logger: processReplayRequest *)

ConnectTodestMb ==
  /\ ~replaying
  /\ connected < MaxReplays
  /\ connected' = connected + 1
  /\ replaying' = TRUE
  /\ UNCHANGED << sent, wire, received, accepted, active, pushed, torn, kept >>

\* The length and the packet, delivered whole or in two pieces.
Deliveries(p) == { << << p, "whole" >> >>, << << p, "first" >>, << p, "second" >> >> }

SendMsgToDstMb ==
  /\ replaying
  /\ sent < MaxReplayed
  /\ sent' = sent + 1
  /\ \E pieces \in Deliveries(sent') :
       wire' = [ wire EXCEPT ![connected] = @ \o pieces ]
  /\ UNCHANGED << connected, replaying, received, accepted, active, pushed, torn, kept >>

CloseDestMb ==
  /\ replaying
  /\ replaying' = FALSE
  /\ wire' = [ wire EXCEPT ![connected] = Append(@, End) ]
  /\ UNCHANGED << connected, sent, received, accepted, active, pushed, torn, kept >>

Deliver(c) ==
  /\ wire[c] # <<>>
  /\ \E k \in 1..Len(wire[c]) :
       /\ received' = [ received EXCEPT ![c] = @ \o SubSeq(wire[c], 1, k) ]
       /\ wire' = [ wire EXCEPT ![c] = SubSeq(@, k + 1, Len(@)) ]
  /\ UNCHANGED << connected, replaying, sent, accepted, active, pushed, torn, kept >>

-----------------------------------------------------------------------------
(* Socket::selected *)

\* Mutant: a waiting connection is accepted although one is read.
AcceptAnother(c) ==
  /\ accepted < connected
  /\ c = accepted + 1
  /\ accepted' = c

\* A connection is accepted when none is read, in the order of the queue.
Accept(c) ==
  /\ active = 0
  /\ accepted < connected
  /\ c = accepted + 1
  /\ accepted' = c

\* Nothing has arrived yet (EAGAIN).
ReadNothing(c) ==
  /\ received[c] = <<>>
  /\ active' = c
  /\ UNCHANGED << received, pushed, torn, kept >>

\* A length and the packet behind it, which is pushed through the chain.
ReadPacket(c) ==
  /\ received[c] # <<>>
  /\ \E pieces \in Deliveries(received[c][1][1]) :
       /\ Len(pieces) <= Len(received[c])
       /\ pieces = SubSeq(received[c], 1, Len(pieces))
       /\ received' = [ received EXCEPT ![c] = SubSeq(@, Len(pieces) + 1, Len(@)) ]
  /\ pushed' = Append(pushed, received[c][1][1])
  /\ active' = c
  /\ UNCHANGED << torn, kept >>

\* A length and a part of the packet, which is pushed, or only the length: then
\* the connection is closed.
ReadHalf(c) ==
  /\ Len(received[c]) = 1 /\ received[c][1][2] = "first"
  /\ received' = [ received EXCEPT ![c] = <<>> ]
  /\ torn' = TRUE
  /\ \/ pushed' = Append(pushed, received[c][1][1]) /\ active' = c
     \/ active' = 0 /\ UNCHANGED pushed
  /\ UNCHANGED kept

AtEnd(c) == received[c] # <<>> /\ received[c][1] = End

\* Mutant: a connection at its end is read again and again.
ReadOn(c) ==
  /\ AtEnd(c)
  /\ active' = c
  /\ UNCHANGED << received, pushed, torn, kept >>

\* The end: readPacketLen's -1. Whether the connection is closed depends on errno,
\* which read does not set at the end of a connection: it is that of a call before.
\* A connection that is kept is selected again, and again.
ReadEnd(c) ==
  /\ AtEnd(c)
  /\ \/ active' = 0 /\ UNCHANGED kept
     \/ active' = c /\ kept' = TRUE
  /\ UNCHANGED << received, pushed, torn >>

Selected ==
  /\ \E c \in Replays :
       /\ Accept(c) \/ (c = active /\ UNCHANGED accepted)
       /\ ReadNothing(c) \/ ReadPacket(c) \/ ReadHalf(c) \/ ReadEnd(c)
  /\ UNCHANGED << connected, replaying, sent, wire >>

NextSocket ==
  /\ ~torn
  /\ \/ ConnectTodestMb \/ SendMsgToDstMb \/ CloseDestMb
     \/ \E c \in Replays : Deliver(c)
     \/ Selected

\* The packet logger comes to the end of a request, the network delivers what was
\* sent, and Click's driver calls selected as long as a connection is open or waits.
SocketFairness ==
  /\ WF_socketVars(CloseDestMb)
  /\ \A c \in Replays : WF_socketVars(Deliver(c))
  /\ WF_socketVars(Selected)

SocketSpec == InitSocket /\ [][NextSocket]_socketVars
FairSocketSpec == SocketSpec /\ SocketFairness

-----------------------------------------------------------------------------
Pieces == ((1..sent) \X Parts) \union {End}

SocketTypeOK ==
  /\ connected \in 0..MaxReplays
  /\ replaying \in BOOLEAN
  /\ sent \in 0..MaxReplayed
  /\ wire \in [Replays -> Seq(Pieces)]
  /\ received \in [Replays -> Seq(Pieces)]
  /\ accepted \in 0..connected /\ active \in {0, accepted}
  /\ pushed \in Seq(1..sent)
  /\ torn \in BOOLEAN /\ kept \in BOOLEAN

\* The slave gets the packets of all replays in the order they were sent, without
\* a gap and none twice, although each replay has a connection of its own and the
\* later ones wait with packets that arrived before those of the one that is read.
ReplayedInOrder == ~torn => \A k \in DOMAIN pushed : pushed[k] = k

\* What was sent is pushed, unless half a packet was read, or the element took the
\* end of a connection for a connection that has nothing to read: then no later
\* one is accepted.
ReplaysAreRead ==
  \A p \in 1..MaxReplayed : sent >= p ~> (torn \/ kept \/ Len(pushed) >= p)
================================================================================
