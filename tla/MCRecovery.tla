------------------------------ MODULE MCRecovery ------------------------------
(***************************************************************************)
(* The environments in which Recovery is checked. The .cfg files choose    *)
(* the pace of the slave and the failures; the sets of commands are here.  *)
(***************************************************************************)
EXTENDS Recovery

\* Whatever an operator may type.
AnyCommand == AllCommands
\* Recovery from a failed master: replays beforehand, no clearing.
Failover == {"replay", "stopmaster"}
\* Only the command that replaces the master.
StopOnly == {"stopmaster"}
\* The upkeep of a running pair.
Upkeep == {"replay", "clear", "r&c"}
===============================================================================
