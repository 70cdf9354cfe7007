---------------------------- MODULE TrafficSteering ----------------------------
(***************************************************************************)
(* The traffic steering application: tsaFE.py, which an operator runs, and *)
(* tsaBE.py, which serves one connection at a time (runServer). A front    *)
(* end connects once, when it starts, and keeps its connection; the back   *)
(* end takes one command from each connection it accepts. The object of    *)
(* the accepted connection goes, and the connection with it, when the next *)
(* one is accepted.                                                        *)
(***************************************************************************)
EXTENDS PolicyChains

CONSTANTS
  FrontEnds,       \* the operators' front ends
  Requests,        \* the commands they may give
  MaxPrompts,      \* how often a front end prompts its operator (a bound)
  Careful          \* TRUE: no chain is added whose match fields a known one has

\* What a command may say. A name is any word; a chain has one at least.
Chains == Seq(STRING) \ {<<>>}
ChainKeys == [ sender : STRING, chain : Chains, fields : SUBSET STRING ]
Commands ==
  [ op : {"addpolicychain", "removepolicychain"}, key : ChainKeys ]
    \union [ op : {"stopmaster", "unregmb"}, mb : STRING ]
    \union [ op : {"replacemaster"}, mb : STRING, new : STRING ]
    \union [ op : {"exit"} ]

ASSUME SteeringAssumption ==
  MaxPrompts \in Nat /\ Careful \in BOOLEAN /\ Requests \subseteq Commands

VARIABLES
  frontEnd,  \* what each front end does
  given,     \* the command it gave last, and waits for
  backlog,   \* connections not accepted yet
  accepted,  \* the front end whose connection the back end holds, {} or one
  server,    \* what the back end does
  prompts    \* how many prompts there were

sessionVars == << frontEnd, given, backlog, accepted, server, prompts >>
vars == << chainVars, sessionVars >>

Init ==
  /\ InitChains
  /\ frontEnd = [ f \in FrontEnds |-> "off" ]
  /\ given = [ f \in FrontEnds |-> NoCommand ]
  /\ backlog = <<>>
  /\ accepted = {}
  /\ server = "accept"
  /\ prompts = 0

-----------------------------------------------------------------------------
(* The front end. *)

\* An operator starts a front end; connecting needs no accept.
Start(f) ==
  /\ frontEnd[f] = "off"
  /\ server # "stopped"
  /\ prompts < MaxPrompts
  /\ prompts' = prompts + 1
  /\ frontEnd' = [ frontEnd EXCEPT ![f] = "prompt" ]
  /\ backlog' = Append(backlog, f)
  /\ UNCHANGED << chainVars, given, accepted, server >>

\* Commands whose chain an operator would not add: the match fields would steer
\* packets of a chain that is known, or about to be.
Clashes(c) ==
  LET other == Keys \union { given[f].key : f \in { f \in FrontEnds :
                                                     given[f].op = "addpolicychain" } }
  IN c.op = "addpolicychain" /\ \E k \in other : k.fields \intersect c.key.fields # {}

\* The front end sends a command and waits in recv. For stopmaster it asked the
\* cleanup manager first, and goes on whatever the answer.
GiveCommand(f) ==
  /\ frontEnd[f] \in {"prompt", "prompt again"}
  /\ \E c \in Requests :
       /\ Careful => ~Clashes(c)
       /\ given' = [ given EXCEPT ![f] = c ]
  /\ frontEnd' = [ frontEnd EXCEPT ![f] = IF @ = "prompt" THEN "wait" ELSE "wait again" ]
  /\ UNCHANGED << chainVars, backlog, accepted, server, prompts >>

Waits(f) == frontEnd[f] \in {"wait", "wait again"}
HasConnection(f) ==
  f \in accepted \/ \E i \in DOMAIN backlog : backlog[i] = f

\* Without a connection recv returns nothing, which is no JSON: the front end dies.
Die(f) ==
  /\ Waits(f) /\ ~HasConnection(f)
  /\ frontEnd' = [ frontEnd EXCEPT ![f] = "off" ]
  /\ given' = [ given EXCEPT ![f] = NoCommand ]
  /\ UNCHANGED << chainVars, backlog, accepted, server, prompts >>

\* After an answer the front end prompts again, or the operator stops it.
Prompt(f) ==
  /\ frontEnd[f] = "answered"
  /\ prompts < MaxPrompts
  /\ prompts' = prompts + 1
  /\ frontEnd' = [ frontEnd EXCEPT ![f] = "prompt again" ]
  /\ UNCHANGED << chainVars, given, backlog, accepted, server >>

Quit(f) ==
  /\ frontEnd[f] = "answered"
  /\ frontEnd' = [ frontEnd EXCEPT ![f] = "off" ]
  /\ accepted' = accepted \ {f}
  /\ UNCHANGED << chainVars, given, backlog, server, prompts >>

-----------------------------------------------------------------------------
(* runServer *)

Accept ==
  /\ server = "accept"
  /\ backlog # <<>>
  /\ accepted' = {Head(backlog)}
  /\ backlog' = Tail(backlog)
  /\ server' = "recv"
  /\ UNCHANGED << chainVars, frontEnd, given, prompts >>

\* The one recv for this connection.
Receive ==
  /\ server = "recv"
  /\ \E f \in accepted :
       /\ Waits(f)
       /\ command' = given[f]
  /\ reply' = "none"
  /\ server' = "handle"
  /\ UNCHANGED << policyChainKeyToData, pcidToPolicyChainKey, nextPcid, nextVlanId, rules,
                  todo, refused, whole, frontEnd, given, backlog, accepted, prompts >>

HandleCommand ==
  /\ server = "handle"
  /\ Handle
  /\ UNCHANGED sessionVars

\* Mutant: the same connection is read again, before the next one is accepted.
AnswerAndRead ==
  /\ server = "handle" /\ Handled
  /\ \E f \in accepted :
       /\ frontEnd' = [ frontEnd EXCEPT ![f] = "answered" ]
       /\ given' = [ given EXCEPT ![f] = NoCommand ]
  /\ command' = NoCommand
  /\ server' = "recv"
  /\ UNCHANGED << policyChainKeyToData, pcidToPolicyChainKey, nextPcid, nextVlanId, rules,
                  todo, reply, refused, whole, backlog, accepted, prompts >>

Answer ==
  /\ server = "handle" /\ Handled
  /\ \E f \in accepted :
       /\ frontEnd' = [ frontEnd EXCEPT ![f] = "answered" ]
       /\ given' = [ given EXCEPT ![f] = NoCommand ]
  /\ command' = NoCommand
  /\ server' = "accept"
  /\ UNCHANGED << policyChainKeyToData, pcidToPolicyChainKey, nextPcid, nextVlanId, rules,
                  todo, reply, refused, whole, backlog, accepted, prompts >>

\* exit ends the server, for every front end; the rules stay on the switches.
Exit ==
  /\ server = "handle" /\ command.op = "exit"
  /\ \E f \in accepted :
       /\ frontEnd' = [ frontEnd EXCEPT ![f] = "off" ]
       /\ given' = [ given EXCEPT ![f] = NoCommand ]
  /\ command' = NoCommand
  /\ server' = "stopped"
  /\ accepted' = {}
  /\ backlog' = <<>>
  /\ UNCHANGED << policyChainKeyToData, pcidToPolicyChainKey, nextPcid, nextVlanId, rules,
                  todo, reply, refused, whole, prompts >>

Server == Accept \/ Receive \/ HandleCommand \/ Answer \/ Exit

Next ==
  \/ \E f \in FrontEnds : Start(f) \/ GiveCommand(f) \/ Die(f) \/ Quit(f) \/ Prompt(f)
  \/ Server

Spec == Init /\ [][Next]_vars

\* The back end runs: it accepts and receives, and what it does for a command, a
\* few requests per chain, comes to an end. An operator who started a front end
\* gives a command.
FairSpec ==
  /\ Spec
  /\ WF_vars(Accept) /\ WF_vars(Receive)
  /\ []<>(server # "handle")
  /\ \A f \in FrontEnds : WF_vars(GiveCommand(f))

-----------------------------------------------------------------------------
FlowEntries == Switches \union Hosts \union Middleboxes

TypeOK ==
  /\ Keys \subseteq ChainKeys
  /\ \A k \in Keys :
       LET data == policyChainKeyToData[k]
       IN /\ data.chain \in Chains
          /\ data.vlanId \in 1..(nextVlanId - 1)
          /\ \A p \in DOMAIN data.flow : data.flow[p] \in Switches
  /\ nextPcid \in Nat
  /\ \A p \in pcidToPolicyChainKey : p \in (0..(nextPcid - 1)) \X ChainKeys
  /\ nextVlanId \in Nat \ {0}
  /\ \A r \in rules : /\ r.switch \in Switches
                      /\ r.vlan \in 0..(nextVlanId - 1) /\ r.tag \in 0..(nextVlanId - 1)
                      /\ r.inPort \in FlowEntries /\ r.out \in FlowEntries
  /\ command \in Requests \union {NoCommand}
  /\ todo \subseteq Keys
  /\ reply \in {"none", "success", "failed"}
  /\ refused \in 0..MaxRefused
  /\ whole \subseteq Keys
  /\ frontEnd \in [FrontEnds -> {"off", "prompt", "wait", "answered", "prompt again",
                               "wait again"}]
  /\ given \in [FrontEnds -> Requests \union {NoCommand}]
  /\ backlog \in Seq(FrontEnds)
  /\ accepted \subseteq FrontEnds
  /\ Cardinality(accepted) <= 1
  /\ server \in {"accept", "recv", "handle", "stopped"}
  /\ prompts \in 0..MaxPrompts

\* Packets of a chain whose last installation the controller accepted go through
\* exactly the chain's middleboxes, in order, whatever was installed, replaced,
\* removed or refused before: no other chain's rules or leftovers take them away.
Steered ==
  \A k \in whole :
    LET data == policyChainKeyToData[k]
    IN Unambiguous(Plan(k, data.chain, data.vlanId)) => Journey(k).seen = data.chain

\* As long as the controller accepts everything, each rule on a switch belongs to
\* a known chain, and stands for one of its hops: uninstalling by VLAN id and
\* switch leaves nothing behind, although a chain uses a switch several times.
NoStrayRules ==
  refused = 0 =>
    \A r \in rules :
      \E k \in Keys :
        LET plan == Plan(k, policyChainKeyToData[k].chain, policyChainKeyToData[k].vlanId)
        IN \E p \in Places(plan) : r = plan[p[1]][p[2]]

\* Each policy chain id is that of a known chain, and no chain has two.
PcidsKnown ==
  \A p \in pcidToPolicyChainKey :
    /\ p[2] \in Keys
    /\ \A q \in pcidToPolicyChainKey : p[2] = q[2] => p = q

\* "Master mb was replaced successfully.": then no rule leads to the old master, if
\* there is one, another takes its place, and the controller accepted everything.
ReplacedSucceeded ==
  /\ Handled /\ reply = "success"
  /\ command.op \in {"stopmaster", "replacemaster"}
  /\ command.mb \in Middleboxes /\ command.mb # NewMb
ReplacedEverywhere ==
  ReplacedSucceeded /\ refused = 0 => \A r \in rules : r.out # command.mb

\* A front end's first command is answered, once the operators before it gave
\* theirs; unless one of them told the back end to exit.
FirstAnswered ==
  \A f \in FrontEnds : frontEnd[f] = "wait" ~> (frontEnd[f] = "answered" \/ server = "stopped")
===============================================================================
