----------------------------- MODULE PolicyChains -----------------------------
(***************************************************************************)
(* tsaBE.py: the policy chains, the VLAN ids they get, and the flow rules  *)
(* that steer a sender's packets through the middleboxes of a chain. One   *)
(* command at a time; a replacement goes from chain to chain.              *)
(*                                                                         *)
(* A switch port is named after what is at its other end. A rule whose     *)
(* vlan is 0 matches header fields and pushes the tag; one whose tag is 0  *)
(* pops it. The SDN controller may refuse a request; the switches' tables  *)
(* are external and follow OpenFlow: a rule replaces the one with the same *)
(* match, and a deletion takes every rule at least as specific.            *)
(***************************************************************************)
EXTENDS Integers, Sequences, FiniteSets, Functions

CONSTANTS
  ReportedLinks,   \* pairs of switches, as the controller reports the links
  hostsThatSendPackets,      \* the switch of each sender
  middleboxToSwitchMapping,  \* the switch of each middlebox
  masterToSlave,   \* the slave of each master
  MaxRefused       \* requests the controller refuses at most (a bound)

Hosts == DOMAIN hostsThatSendPackets
Middleboxes == DOMAIN middleboxToSwitchMapping
Switches == { l[1] : l \in ReportedLinks } \union { l[2] : l \in ReportedLinks }
SwitchOf(x) == IF x \in Hosts THEN hostsThatSendPackets[x] ELSE middleboxToSwitchMapping[x]

ASSUME BoundsAssumption == MaxRefused \in Nat
ASSUME NamesAssumption ==
  /\ Switches \intersect (Hosts \union Middleboxes) = {}
  /\ Hosts \intersect Middleboxes = {}
  /\ \A x \in Hosts \union Middleboxes : SwitchOf(x) \in Switches
ASSUME FiniteAssumption == IsFiniteSet(Switches) /\ IsFiniteSet(Middleboxes)
ASSUME SlavesAssumption == \A m \in DOMAIN masterToSlave : masterToSlave[m] \in STRING

VARIABLES
  policyChainKeyToData, \* per chain: its middleboxes, VLAN id and full flow
  pcidToPolicyChainKey, \* pairs of a policy chain id and a key
  nextPcid,
  nextVlanId,
  rules,                \* the switches' tables
  command,              \* the command in progress
  todo,                 \* the chains it has still to replace
  reply,                \* its answer so far
  refused,              \* history: what the controller refused
  whole                 \* history: the chains installed with nothing refused

chainVars == << policyChainKeyToData, pcidToPolicyChainKey, nextPcid, nextVlanId, rules,
                command, todo, reply, refused, whole >>

NoCommand == [ op |-> "none" ]
Keys == DOMAIN policyChainKeyToData

-----------------------------------------------------------------------------
(* The network. *)

\* A link is entered at both of its ends, whichever direction was reported; then
\* removeOneDirectionLinks removes those entered at one end only.
Entered(s) == { t \in Switches : <<s, t>> \in ReportedLinks \/ <<t, s>> \in ReportedLinks }
Neighbors(s) == { t \in Entered(s) : s \in Entered(t) }

SimplePaths ==
  { p \in UNION { [1..n -> Switches] : n \in 1..Cardinality(Switches) } :
      /\ IsInjective(p)
      /\ \A i \in 1..(Len(p) - 1) : p[i + 1] \in Neighbors(p[i]) }

\* The depth-first search returns one path; on a tree there is only one.
PathsByEnds == { [ from |-> p[1], to |-> p[Len(p)], path |-> p ] : p \in SimplePaths }
findPathBetweenNodes(a, b) == (CHOOSE p \in PathsByEnds : p.from = a /\ p.to = b).path

\* Only connected networks are considered: without a path the search returns None.
ASSUME ConnectedAssumption ==
  \A a, b \in Switches : \E p \in PathsByEnds : p.from = a /\ p.to = b

-----------------------------------------------------------------------------
(* The rules of a chain, hop by hop. *)

\* A chain's stops, its sender before the first.
StopAt(key, chain, i) == IF i = 0 THEN key.sender ELSE chain[i]

\* Mutant: every switch expects the packet from the stop.
AlwaysFromStop(stop, path, j) == stop

\* Along a path from a stop, each switch expects the packet from the previous one.
InPort(stop, path, j) == IF j = 1 THEN stop ELSE path[j - 1]

\* The j-th rule of the hop to the i-th stop. The first of the first hop matches the
\* header fields and pushes the tag; the last of the last hop, unless that is the
\* first hop, pops it.
Rule(key, chain, vlanId, path, i, j) ==
  LET push == i = 1 /\ j = 1
      last == j = Len(path)
      pop == i > 1 /\ i = Len(chain) /\ last
  IN [ switch |-> path[j],
       vlan |-> IF push THEN 0 ELSE vlanId,
       fields |-> IF push THEN key.fields ELSE {},
       inPort |-> InPort(StopAt(key, chain, i - 1), path, j),
       tag |-> IF pop THEN 0 ELSE vlanId,
       out |-> IF last THEN chain[i] ELSE path[j + 1] ]

\* The hops before the first name that is not known, where a KeyError ends the
\* installation.
KnownHops(sender, chain) ==
  IF sender \in Hosts
  THEN { n \in DOMAIN chain : \A i \in 1..n : chain[i] \in Middleboxes }
  ELSE {}

HopPath(key, chain, i) ==
  findPathBetweenNodes(SwitchOf(StopAt(key, chain, i - 1)), SwitchOf(chain[i]))

Plan(key, chain, vlanId) ==
  [ i \in KnownHops(key.sender, chain) |->
      LET path == HopPath(key, chain, i)
      IN [ j \in DOMAIN path |-> Rule(key, chain, vlanId, path, i, j) ] ]

Places(plan) == UNION { { <<i, j>> : j \in DOMAIN plan[i] } : i \in DOMAIN plan }
SameMatch(r, s) ==
  r.switch = s.switch /\ r.vlan = s.vlan /\ r.fields = s.fields /\ r.inPort = s.inPort
Before(p, q) == p[1] < q[1] \/ (p[1] = q[1] /\ p[2] < q[2])

\* The tables once the rules at the accepted places are added one after the other.
Added(table, plan, accepted) ==
  LET rule(p) == plan[p[1]][p[2]]
  IN { r \in table : \A p \in accepted : ~SameMatch(r, rule(p)) }
       \union { rule(p) : p \in { p \in accepted :
                  \A q \in accepted : SameMatch(rule(p), rule(q)) => ~Before(p, q) } }

\* The full flow, as far as it is used: the switches that accepted a rule, in the
\* order of their places. (The stops in between, marked with $, are passed over.)
FullFlow(plan, accepted) == [ p \in accepted |-> plan[p[1]][p[2]].switch ]

-----------------------------------------------------------------------------
(* uninstallPolicyChainRules *)

Requested(flow) == DOMAIN flow

\* Mutant: the rule with the header fields is taken for one more VLAN rule.
DeletedByVlan(r, p, key, data) == r.switch = data.flow[p] /\ r.vlan = data.vlanId

\* The sender is followed by the first switch that accepted a rule of the first hop.
FollowsSender(p, flow) ==
  p[1] = 1 /\ \A q \in DOMAIN flow : q[1] = 1 => p[2] <= q[2]

\* If a switch follows the sender in the flow, the rule with the header fields is
\* deleted at the sender's switch (whichever switch it is that follows); for every
\* other switch, all rules with the VLAN id.
Deleted(r, p, key, data) ==
  IF FollowsSender(p, data.flow)
  THEN r.switch = SwitchOf(key.sender) /\ key.fields \subseteq r.fields
  ELSE r.switch = data.flow[p] /\ r.vlan = data.vlanId

Uninstalled(table, key, data, accepted) ==
  { r \in table : \A p \in accepted : ~Deleted(r, p, key, data) }

-----------------------------------------------------------------------------
InitChains ==
  /\ policyChainKeyToData = [ k \in {} |-> 0 ]
  /\ pcidToPolicyChainKey = {}
  /\ nextPcid = 0
  /\ nextVlanId = 1
  /\ rules = {}
  /\ command = NoCommand
  /\ todo = {}
  /\ reply = "none"
  /\ refused = 0
  /\ whole = {}

\* What the controller refuses of a series of requests: one at most (a bound).
MayRefuse(requests, before) ==
  {{}} \union (IF before < MaxRefused THEN { {p} : p \in requests } ELSE {})

\* installPolicyChainRules, on the tables an uninstallation left: the data is
\* entered first; a rule the controller refuses is logged and passed over.
Install(table, key, chain, vlanId, before) ==
  LET plan == Plan(key, chain, vlanId)
  IN \E no \in MayRefuse(Places(plan), before) :
       LET accepted == Places(plan) \ no
           data == [ chain |-> chain, vlanId |-> vlanId, flow |-> FullFlow(plan, accepted) ]
       IN /\ rules' = Added(table, plan, accepted)
          /\ policyChainKeyToData' =
               [ k \in Keys \union {key} |-> IF k = key THEN data ELSE policyChainKeyToData[k] ]
          /\ refused' = before + Cardinality(no)
          /\ whole' = IF accepted = Places(plan) /\ DOMAIN plan = DOMAIN chain
                      THEN whole \union {key}
                      ELSE whole \ {key}

AllKnown(key, chain) == KnownHops(key.sender, chain) = DOMAIN chain

\* Mutant: the id is not counted.
KeepVlanId == UNCHANGED nextVlanId

UseVlanId == nextVlanId' = nextVlanId + 1

\* handleAddPolicyCommand: a KeyError leaves the data and the rules entered so
\* far; without match fields there is no key, but the VLAN id is used up.
AddPolicyChain ==
  /\ command.op = "addpolicychain" /\ reply = "none"
  /\ UseVlanId
  /\ LET key == command.key
     IN IF key.fields = {}
        THEN UNCHANGED << policyChainKeyToData, rules, refused, whole >>
        ELSE Install(rules, key, key.chain, nextVlanId, refused)
  /\ IF command.key.fields # {} /\ AllKnown(command.key, command.key.chain)
     THEN /\ reply' = "success"
          /\ pcidToPolicyChainKey' = pcidToPolicyChainKey \union {<<nextPcid, command.key>>}
          /\ nextPcid' = nextPcid + 1
     ELSE /\ reply' = "failed"
          /\ UNCHANGED << pcidToPolicyChainKey, nextPcid >>
  /\ UNCHANGED << command, todo >>

\* Mutant: the id is kept.
KeepPcid(key) == UNCHANGED pcidToPolicyChainKey

\* One of the key's ids goes, if there is one.
PopPcid(key) ==
  LET ids == { p \in pcidToPolicyChainKey : p[2] = key }
  IN IF ids = {}
     THEN UNCHANGED pcidToPolicyChainKey
     ELSE \E p \in ids : pcidToPolicyChainKey' = pcidToPolicyChainKey \ {p}

RemovePolicyChain ==
  /\ command.op = "removepolicychain" /\ reply = "none"
  /\ command.key \in Keys
  /\ LET key == command.key
         data == policyChainKeyToData[key]
     IN \E no \in MayRefuse(Requested(data.flow), refused) :
          /\ rules' = Uninstalled(rules, key, data, Requested(data.flow) \ no)
          /\ refused' = refused + Cardinality(no)
          /\ policyChainKeyToData' = [ k \in Keys \ {key} |-> policyChainKeyToData[k] ]
          /\ whole' = whole \ {key}
          /\ PopPcid(key)
  /\ reply' = "success"
  /\ UNCHANGED << nextPcid, nextVlanId, command, todo >>

RemoveUnknown ==
  /\ command.op = "removepolicychain" /\ reply = "none"
  /\ command.key \notin Keys
  /\ reply' = "failed"
  /\ UNCHANGED << policyChainKeyToData, pcidToPolicyChainKey, nextPcid, nextVlanId, rules,
                  command, todo, refused, whole >>

-----------------------------------------------------------------------------
(* Commands about a middlebox go through the chains it is in, in the order   *)
(* of a dictionary.                                                          *)

\* Mutant: the name is compared with the whole chain, before it is split.
ChainsEqual(mb) == { k \in Keys : policyChainKeyToData[k].chain = <<mb>> }

ChainsWith(mb) ==
  { k \in Keys : \E i \in DOMAIN policyChainKeyToData[k].chain :
                   policyChainKeyToData[k].chain[i] = mb }

\* handleStopMasterMBCommand, handleReplacingMasterMBCommand, unregisterMiddlebox:
\* a master without a slave is refused; otherwise the answer so far is success.
BeginWithMiddlebox ==
  /\ command.op \in {"stopmaster", "replacemaster", "unregmb"} /\ reply = "none"
  /\ IF command.op = "stopmaster" /\ command.mb \notin DOMAIN masterToSlave
     THEN reply' = "failed" /\ UNCHANGED todo
     ELSE reply' = "success" /\ todo' = ChainsWith(command.mb)
  /\ UNCHANGED << policyChainKeyToData, pcidToPolicyChainKey, nextPcid, nextVlanId, rules,
                  command, refused, whole >>

NewMb == IF command.op = "stopmaster" THEN masterToSlave[command.mb] ELSE command.new
Replaced(chain, old, new) == [ i \in DOMAIN chain |-> IF chain[i] = old THEN new ELSE chain[i] ]

\* replaceMasterMB: the chain keeps its key and its VLAN id.
ReplaceMasterMB(key) ==
  /\ key \in todo /\ command.op \in {"stopmaster", "replacemaster"}
  /\ LET data == policyChainKeyToData[key]
         chain == Replaced(data.chain, command.mb, NewMb)
     IN /\ \E no \in MayRefuse(Requested(data.flow), refused) :
             Install(Uninstalled(rules, key, data, Requested(data.flow) \ no),
                     key, chain, data.vlanId, refused + Cardinality(no))
        /\ reply' = IF AllKnown(key, chain) THEN reply ELSE "failed"
  /\ todo' = todo \ {key}
  /\ UNCHANGED << pcidToPolicyChainKey, nextPcid, nextVlanId, command >>

\* unregisterMiddlebox: the chain is kept as a string, which has no remove. The
\* exception leaves it known, and without its rules.
UnregisterFrom(key) ==
  /\ key \in todo /\ command.op = "unregmb"
  /\ LET data == policyChainKeyToData[key]
     IN \E no \in MayRefuse(Requested(data.flow), refused) :
          /\ rules' = Uninstalled(rules, key, data, Requested(data.flow) \ no)
          /\ refused' = refused + Cardinality(no)
  /\ whole' = whole \ {key}
  /\ reply' = "failed"
  /\ todo' = todo \ {key}
  /\ UNCHANGED << policyChainKeyToData, pcidToPolicyChainKey, nextPcid, nextVlanId, command >>

Handle ==
  \/ AddPolicyChain \/ RemovePolicyChain \/ RemoveUnknown \/ BeginWithMiddlebox
  \/ \E key \in todo : ReplaceMasterMB(key) \/ UnregisterFrom(key)

Handled == command # NoCommand /\ reply # "none" /\ todo = {}

-----------------------------------------------------------------------------
(* Where the tables take a packet. *)

Matching(p) ==
  { r \in rules : /\ r.switch = p.switch /\ r.inPort = p.inPort
                  /\ IF p.tag = 0 THEN r.vlan = 0 /\ r.fields \subseteq p.fields
                                  ELSE r.vlan = p.tag }

\* A middlebox sends a packet back where it came from.
Forwarded(p, r) ==
  IF r.out \in Switches
  THEN [ switch |-> r.out, inPort |-> r.switch, tag |-> r.tag,
         fields |-> p.fields, seen |-> p.seen ]
  ELSE [ switch |-> SwitchOf(r.out), inPort |-> r.out, tag |-> r.tag,
         fields |-> p.fields, seen |-> Append(p.seen, r.out) ]

Sent(key) ==
  [ switch |-> SwitchOf(key.sender), inPort |-> key.sender, tag |-> 0,
    fields |-> key.fields, seen |-> <<>> ]

\* A packet for which no single rule is meant is steered no further.
Taken(p) ==
  IF Cardinality(Matching(p)) = 1
  THEN Forwarded(p, CHOOSE r \in Matching(p) : TRUE)
  ELSE p

MaxSteps == Cardinality(Switches) * (Cardinality(Middleboxes) + 1)
Journey(key) ==
  LET at[n \in 0..MaxSteps] == IF n = 0 THEN Sent(key) ELSE Taken(at[n - 1])
  IN at[MaxSteps]

\* No two of a chain's rules have the same match: it enters no switch twice by the
\* same port.
Unambiguous(plan) ==
  \A p, q \in Places(plan) : SameMatch(plan[p[1]][p[2]], plan[q[1]][q[2]]) => p = q
===============================================================================
