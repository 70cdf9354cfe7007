----------------------------- MODULE MCConnections -----------------------------
(***************************************************************************)
(* The TCP connections between the processes. Three modules that share     *)
(* nothing take turns at a run: once one of them took a step, the others   *)
(* stay as they are.                                                       *)
(*                                                                         *)
(*   AsyncServer    the threads of a server and the connections they serve *)
(*   RpcConnection  one of these connections, request by request           *)
(*   ClickSocket    the connections over which a slave gets its packets    *)
(***************************************************************************)
EXTENDS AsyncServer, RpcConnection, ClickSocket

MCInit == Initially /\ InitRpc /\ InitSocket

MCNext ==
  \/ requested = 0 /\ connected = 0 /\ ServerNext /\ UNCHANGED << rpcVars, socketVars >>
  \/ connects = 0 /\ connected = 0 /\ NextRpc /\ UNCHANGED << serverVars, socketVars >>
  \/ connects = 0 /\ requested = 0 /\ NextSocket /\ UNCHANGED << serverVars, rpcVars >>

MCSpec ==
  /\ MCInit /\ [][MCNext]_<< serverVars, rpcVars, socketVars >>
  /\ ServerFairness /\ SocketFairness

TypeOK == ServerTypeOK /\ RpcTypeOK /\ SocketTypeOK
================================================================================
