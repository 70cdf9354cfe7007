------------------------- MODULE TrafficSteeringProofs -------------------------
(***************************************************************************)
(* Proofs about the traffic steering application: whatever is added,       *)
(* removed, replaced or refused, the tables of the switches, the chains    *)
(* and the policy chain ids stay in step.                                  *)
(***************************************************************************)
EXTENDS TrafficSteering, TLAPS, FiniteSetTheorems, SequenceTheorems

-----------------------------------------------------------------------------
(* The network. *)

LEMMA PathFacts ==
  ASSUME NEW a \in Switches, NEW b \in Switches
  PROVE  \E n \in Nat \ {0} : /\ n <= Cardinality(Switches)
                              /\ findPathBetweenNodes(a, b) \in [1..n -> Switches]
                              /\ findPathBetweenNodes(a, b)[1] = a
                              /\ findPathBetweenNodes(a, b)[n] = b
<1> DEFINE e == CHOOSE p \in PathsByEnds : p.from = a /\ p.to = b
<1>1. e \in PathsByEnds /\ e.from = a /\ e.to = b
  BY ConnectedAssumption
<1>2. PICK q \in SimplePaths : e = [ from |-> q[1], to |-> q[Len(q)], path |-> q ]
  BY <1>1 DEF PathsByEnds
<1>a. findPathBetweenNodes(a, b) = e.path
  BY DEF findPathBetweenNodes
<1> HIDE DEF e
<1>3. q[1] = a /\ q[Len(q)] = b /\ findPathBetweenNodes(a, b) = q
  BY <1>1, <1>2, <1>a
<1>4. PICK n \in 1..Cardinality(Switches) : q \in [1..n -> Switches]
  BY DEF SimplePaths
<1>5. n \in Nat \ {0} /\ n <= Cardinality(Switches)
  BY FiniteAssumption, FS_CardinalityType
<1>6. Len(q) = n
  BY <1>4, <1>5
<1> QED
  BY <1>3, <1>4, <1>5, <1>6

\* A place is that of a rule.
RuleAt(plan, p) == plan[p[1]][p[2]]

LEMMA PlacesAre ==
  ASSUME NEW plan, NEW p
  PROVE  p \in Places(plan) <=> \E i \in DOMAIN plan : \E j \in DOMAIN plan[i] : p = << i, j >>
BY DEF Places

\* A hop that is installed ends at a middlebox that is known.
LEMMA HopFacts ==
  ASSUME NEW key \in ChainKeys, NEW chain \in Chains, NEW v \in Nat \ {0},
         NEW i \in DOMAIN Plan(key, chain, v)
  PROVE  /\ i \in Nat \ {0} /\ i \in DOMAIN chain
         /\ chain[i] \in Middleboxes
         /\ StopAt(key, chain, i - 1) \in Hosts \union Middleboxes
         /\ i = 1 => StopAt(key, chain, i - 1) = key.sender
         /\ key.sender \in Hosts
         /\ \E n \in Nat \ {0} :
              /\ n <= Cardinality(Switches)
              /\ HopPath(key, chain, i) \in [1..n -> Switches]
              /\ HopPath(key, chain, i)[1] = SwitchOf(StopAt(key, chain, i - 1))
              /\ HopPath(key, chain, i)[n] = SwitchOf(chain[i])
         /\ Plan(key, chain, v)[i] =
              [ j \in DOMAIN HopPath(key, chain, i) |->
                  Rule(key, chain, v, HopPath(key, chain, i), i, j) ]
<1>1. i \in KnownHops(key.sender, chain) /\ key.sender \in Hosts
  BY DEF Plan, KnownHops
<1>2. DOMAIN chain = 1..Len(chain) /\ Len(chain) \in Nat
  BY DEF Chains
<1>3. i \in DOMAIN chain /\ \A h \in 1..i : chain[h] \in Middleboxes
  BY <1>1 DEF KnownHops
<1>4. i \in Nat \ {0}
  BY <1>2, <1>3
<1>5. chain[i] \in Middleboxes
  BY <1>3, <1>4
<1>6. StopAt(key, chain, i - 1) \in Hosts \union Middleboxes
  <2>1. CASE i = 1
    BY <1>1, <2>1 DEF StopAt
  <2>2. CASE i # 1
    <3>1. i - 1 \in 1..i /\ i - 1 # 0
      BY <1>4, <2>2
    <3> QED
      BY <1>3, <3>1 DEF StopAt
  <2> QED
    BY <2>1, <2>2
<1>7. i = 1 => StopAt(key, chain, i - 1) = key.sender
  BY DEF StopAt
<1>8. /\ SwitchOf(StopAt(key, chain, i - 1)) \in Switches
      /\ SwitchOf(chain[i]) \in Switches
  BY <1>5, <1>6, NamesAssumption
<1>9. \E n \in Nat \ {0} :
        /\ n <= Cardinality(Switches)
        /\ HopPath(key, chain, i) \in [1..n -> Switches]
        /\ HopPath(key, chain, i)[1] = SwitchOf(StopAt(key, chain, i - 1))
        /\ HopPath(key, chain, i)[n] = SwitchOf(chain[i])
  BY <1>8, PathFacts DEF HopPath
<1>10. Plan(key, chain, v)[i] =
         [ j \in DOMAIN HopPath(key, chain, i) |->
             Rule(key, chain, v, HopPath(key, chain, i), i, j) ]
  BY <1>1 DEF Plan
<1> QED
  BY <1>1, <1>3, <1>4, <1>5, <1>6, <1>7, <1>9, <1>10

\* What the rules of a chain look like.
RuleFacts(key, chain, v, p, r) ==
  /\ p \in (Nat \ {0}) \X (Nat \ {0})
  /\ r.switch \in Switches
  /\ r.vlan = (IF p = << 1, 1 >> THEN 0 ELSE v)
  /\ r.fields = (IF p = << 1, 1 >> THEN key.fields ELSE {})
  /\ r.tag \in {0, v}
  /\ r.inPort \in FlowEntries
  /\ r.out \in FlowEntries
  /\ r.out \in Switches \/ \E i \in DOMAIN chain : r.out = chain[i]
  /\ p = << 1, 1 >> => r.switch = SwitchOf(key.sender) /\ r.inPort \in Hosts
  /\ p # << 1, 1 >> /\ Len(chain) = 1 => r.inPort \in Switches

LEMMA PlanFacts ==
  ASSUME NEW key \in ChainKeys, NEW chain \in Chains, NEW v \in Nat \ {0},
         NEW p \in Places(Plan(key, chain, v))
  PROVE  /\ RuleFacts(key, chain, v, p, RuleAt(Plan(key, chain, v), p))
         /\ << p[1], 1 >> \in Places(Plan(key, chain, v))
<1> DEFINE plan == Plan(key, chain, v)
<1>a. PICK i \in DOMAIN plan : \E j \in DOMAIN plan[i] : p = << i, j >>
  BY PlacesAre
<1>1. PICK j \in DOMAIN plan[i] : p = << i, j >>
  BY <1>a
<1> DEFINE path == HopPath(key, chain, i)
           stop == StopAt(key, chain, i - 1)
<1>2. /\ i \in Nat \ {0} /\ i \in DOMAIN chain /\ chain[i] \in Middleboxes
      /\ stop \in Hosts \union Middleboxes
      /\ i = 1 => stop = key.sender
      /\ key.sender \in Hosts
      /\ plan[i] = [ h \in DOMAIN path |-> Rule(key, chain, v, path, i, h) ]
  BY HopFacts
<1>3. PICK n \in Nat \ {0} : path \in [1..n -> Switches] /\ path[1] = SwitchOf(stop)
  BY HopFacts
<1> DEFINE r == Rule(key, chain, v, path, i, j)
<1>4. j \in 1..n /\ RuleAt(plan, p) = r
  BY <1>1, <1>2, <1>3 DEF RuleAt
<1>5. DOMAIN plan[i] = 1..n
  BY <1>2, <1>3
<1>6. << p[1], 1 >> \in Places(plan)
  <2>1. 1 \in DOMAIN plan[i]
    BY <1>5
  <2> QED
    BY <1>1, <2>1, PlacesAre
<1>7. p = << 1, 1 >> <=> i = 1 /\ j = 1
  BY <1>1
<1> HIDE DEF plan, path, stop
<1>8. r = [ switch |-> path[j],
            vlan |-> IF i = 1 /\ j = 1 THEN 0 ELSE v,
            fields |-> IF i = 1 /\ j = 1 THEN key.fields ELSE {},
            inPort |-> InPort(stop, path, j),
            tag |-> IF i > 1 /\ i = Len(chain) /\ j = Len(path) THEN 0 ELSE v,
            out |-> IF j = Len(path) THEN chain[i] ELSE path[j + 1] ]
  BY DEF Rule, stop
<1> HIDE DEF r
<1>9. Len(path) = n
  BY <1>3
<1>10. /\ r.switch = path[j] /\ r.vlan = IF p = << 1, 1 >> THEN 0 ELSE v
       /\ r.fields = IF p = << 1, 1 >> THEN key.fields ELSE {}
       /\ r.inPort = InPort(stop, path, j)
       /\ r.tag \in {0, v}
       /\ r.out = IF j = n THEN chain[i] ELSE path[j + 1]
  BY <1>7, <1>8, <1>9
<1>11. r.switch \in Switches
  BY <1>3, <1>4, <1>10
<1>12. /\ r.inPort \in FlowEntries
       /\ p = << 1, 1 >> => r.inPort \in Hosts
       /\ p # << 1, 1 >> /\ Len(chain) = 1 => r.inPort \in Switches
  <2>1. CASE j = 1
    <3>1. r.inPort = stop
      BY <1>10, <2>1 DEF InPort
    <3>2. p = << 1, 1 >> => r.inPort \in Hosts
      BY <1>2, <1>7, <3>1
    <3>3. Len(chain) = 1 => p = << 1, 1 >>
      BY <1>2, <1>7, <2>1 DEF Chains
    <3> QED
      BY <1>2, <3>1, <3>2, <3>3 DEF FlowEntries
  <2>2. CASE j # 1
    <3>1. j - 1 \in 1..n
      BY <1>4, <2>2
    <3> QED
      BY <1>3, <1>7, <1>10, <2>2, <3>1 DEF InPort, FlowEntries
  <2> QED
    BY <2>1, <2>2
<1>13. /\ r.out \in FlowEntries
       /\ r.out \in Switches \/ \E h \in DOMAIN chain : r.out = chain[h]
  <2>1. CASE j = n
    BY <1>2, <1>10, <2>1 DEF FlowEntries
  <2>2. CASE j # n
    <3>1. j + 1 \in 1..n
      BY <1>4, <2>2
    <3> QED
      BY <1>3, <1>10, <2>2, <3>1 DEF FlowEntries
  <2> QED
    BY <2>1, <2>2
<1>14. p = << 1, 1 >> => r.switch = SwitchOf(key.sender)
  BY <1>2, <1>3, <1>7, <1>10
<1>15. p \in (Nat \ {0}) \X (Nat \ {0})
  BY <1>1, <1>2, <1>4
<1> QED
  BY <1>4, <1>6, <1>10, <1>11, <1>12, <1>13, <1>14, <1>15 DEF RuleFacts, plan

-----------------------------------------------------------------------------
(* Adding rules to the tables, and deleting them. *)

\* A rule in the tables after an installation was there before, and is not replaced,
\* or is one of those that were added.
LEMMA AddedIs ==
  ASSUME NEW table, NEW plan, NEW acc, NEW r \in Added(table, plan, acc)
  PROVE  \/ r \in table /\ \A p \in acc : ~SameMatch(r, RuleAt(plan, p))
         \/ \E p \in acc : r = RuleAt(plan, p)
BY DEF Added, RuleAt

\* A rule that none of the added ones replaces stays.
LEMMA KeptByAdding ==
  ASSUME NEW table, NEW plan, NEW acc, NEW r \in table,
         \A p \in acc : ~SameMatch(r, RuleAt(plan, p))
  PROVE  r \in Added(table, plan, acc)
BY DEF Added, RuleAt

\* If no two of them have the same match, all the added rules are in the tables.
LEMMA AllAdded ==
  ASSUME NEW table, NEW plan, NEW p \in Places(plan), Unambiguous(plan),
         \A q \in Places(plan) : q \in (Nat \ {0}) \X (Nat \ {0})
  PROVE  RuleAt(plan, p) \in Added(table, plan, Places(plan))
<1>1. ASSUME NEW q \in Places(plan), SameMatch(RuleAt(plan, p), RuleAt(plan, q))
      PROVE  ~Before(p, q)
  <2>1. p = q
    BY <1>1 DEF Unambiguous, RuleAt
  <2>2. p[1] \in Nat /\ p[2] \in Nat
    OBVIOUS
  <2> QED
    BY <2>1, <2>2 DEF Before
<1> QED
  BY <1>1 DEF Added, RuleAt

\* A table has one rule for a match.
NoTwins(table) == \A r, s \in table : SameMatch(r, s) => r = s

LEMMA SameMatchIsEquivalence ==
  ASSUME NEW r, NEW s, SameMatch(r, s)
  PROVE  /\ SameMatch(s, r)
         /\ \A t : SameMatch(s, t) => SameMatch(r, t)
BY DEF SameMatch

LEMMA AddedWithoutTwins ==
  ASSUME NEW table, NoTwins(table), NEW plan, NEW acc \in SUBSET Places(plan),
         \A q \in Places(plan) : q \in (Nat \ {0}) \X (Nat \ {0})
  PROVE  NoTwins(Added(table, plan, acc))
<1> DEFINE Last(p) == \A q \in acc : SameMatch(RuleAt(plan, p), RuleAt(plan, q)) => ~Before(p, q)
<1> SUFFICES ASSUME NEW r \in Added(table, plan, acc), NEW s \in Added(table, plan, acc),
                    SameMatch(r, s)
             PROVE  r = s
  BY DEF NoTwins
<1>1. SameMatch(s, r)
  BY SameMatchIsEquivalence
<1>2. ASSUME NEW t \in Added(table, plan, acc)
      PROVE  \/ t \in table /\ \A p \in acc : ~SameMatch(t, RuleAt(plan, p))
             \/ \E p \in acc : t = RuleAt(plan, p) /\ Last(p)
  BY DEF Added, RuleAt
<1>3. CASE r \in table /\ \A p \in acc : ~SameMatch(r, RuleAt(plan, p))
  BY <1>2, <1>3 DEF NoTwins
<1>4. CASE s \in table /\ \A p \in acc : ~SameMatch(s, RuleAt(plan, p))
  BY <1>1, <1>2, <1>4 DEF NoTwins
<1>5. CASE /\ \E p \in acc : r = RuleAt(plan, p) /\ Last(p)
           /\ \E p \in acc : s = RuleAt(plan, p) /\ Last(p)
  <2>1. PICK p \in acc : r = RuleAt(plan, p) /\ Last(p)
    BY <1>5
  <2>2. PICK q \in acc : s = RuleAt(plan, q) /\ Last(q)
    BY <1>5
  <2>3. ~Before(p, q) /\ ~Before(q, p)
    BY <1>1, <2>1, <2>2
  <2>4. /\ p \in Places(plan) /\ q \in Places(plan)
        /\ p = << p[1], p[2] >> /\ q = << q[1], q[2] >>
        /\ p[1] \in Nat /\ p[2] \in Nat /\ q[1] \in Nat /\ q[2] \in Nat
    OBVIOUS
  <2>5. p[1] = q[1] /\ p[2] = q[2]
    BY <2>3, <2>4 DEF Before
  <2> QED
    BY <2>1, <2>2, <2>4, <2>5
<1> QED
  BY <1>2, <1>3, <1>4, <1>5

-----------------------------------------------------------------------------
\* The plan a known chain was installed by.
P(k) == Plan(k, policyChainKeyToData[k].chain, policyChainKeyToData[k].vlanId)

DataTyped(data) == data.chain \in Chains /\ data.vlanId \in Nat \ {0}

\* With the flow complete, only the rule with the header fields is deleted as such.
LEMMA FirstFollowsSender ==
  ASSUME NEW key \in ChainKeys, NEW chain \in Chains, NEW v \in Nat \ {0}, NEW flow,
         DOMAIN flow = Places(Plan(key, chain, v)), NEW p \in DOMAIN flow
  PROVE  FollowsSender(p, flow) <=> p = << 1, 1 >>
<1>1. \A q \in DOMAIN flow : /\ q \in (Nat \ {0}) \X (Nat \ {0})
                             /\ << q[1], 1 >> \in DOMAIN flow
  BY PlanFacts DEF RuleFacts
<1>a. p \in (Nat \ {0}) \X (Nat \ {0})
  BY <1>1
<1>2. p = << p[1], p[2] >> /\ p[1] \in Nat \ {0} /\ p[2] \in Nat \ {0}
  BY <1>a
<1>3. ASSUME p = << 1, 1 >> PROVE FollowsSender(p, flow)
  <2>1. \A q \in DOMAIN flow : q[2] \in Nat \ {0}
    BY <1>1
  <2>2. p[1] = 1 /\ p[2] = 1
    BY <1>3
  <2>3. \A q \in DOMAIN flow : p[2] <= q[2]
    BY <2>1, <2>2
  <2> QED
    BY <2>2, <2>3 DEF FollowsSender
<1>4. ASSUME FollowsSender(p, flow) PROVE p = << 1, 1 >>
  <2>1. p[1] = 1
    BY <1>4 DEF FollowsSender
  <2>2. << 1, 1 >> \in DOMAIN flow
    BY <1>1, <2>1
  <2>3. p[2] <= << 1, 1 >>[2]
    BY <1>4, <2>2 DEF FollowsSender
  <2> QED
    BY <1>2, <2>1, <2>3
<1> QED
  BY <1>3, <1>4

\* Uninstalling deletes every rule of the chain.
LEMMA OwnRulesDeleted ==
  ASSUME NEW key \in ChainKeys, NEW data, DataTyped(data),
         NEW p \in Places(Plan(key, data.chain, data.vlanId)),
         data.flow = FullFlow(Plan(key, data.chain, data.vlanId),
                              Places(Plan(key, data.chain, data.vlanId)))
  PROVE  /\ p \in Requested(data.flow)
         /\ Deleted(RuleAt(Plan(key, data.chain, data.vlanId), p), p, key, data)
<1> DEFINE plan == Plan(key, data.chain, data.vlanId)
           r == RuleAt(plan, p)
<1>1. DOMAIN data.flow = Places(plan) /\ data.flow[p] = r.switch
  BY DEF FullFlow, RuleAt
<1>2. RuleFacts(key, data.chain, data.vlanId, p, r)
  BY PlanFacts DEF DataTyped
<1>3. FollowsSender(p, data.flow) <=> p = << 1, 1 >>
  BY <1>1, FirstFollowsSender DEF DataTyped
<1> HIDE DEF r
<1>4. Deleted(r, p, key, data)
  BY <1>1, <1>2, <1>3 DEF RuleFacts, Deleted
<1> QED
  BY <1>1, <1>4 DEF Requested, r

\* It deletes no VLAN rule with another id, and no rule with other header fields.
LEMMA OtherRulesKept ==
  ASSUME NEW table, NEW key, NEW data, NEW acc, NEW r \in table,
         r.vlan # data.vlanId,
         ~(key.fields \subseteq r.fields)
  PROVE  r \in Uninstalled(table, key, data, acc)
BY DEF Uninstalled, Deleted

LEMMA UninstalledIs ==
  ASSUME NEW table, NEW key, NEW data, NEW acc
  PROVE  Uninstalled(table, key, data, acc) \in SUBSET table
BY DEF Uninstalled

\* What an installation does, whatever the controller refuses.
Installed(table, key, chain, v, before, acc) ==
  LET plan == Plan(key, chain, v)
  IN /\ rules' = Added(table, plan, acc)
     /\ policyChainKeyToData' =
          [ k \in Keys \union {key} |->
              IF k = key THEN [ chain |-> chain, vlanId |-> v, flow |-> FullFlow(plan, acc) ]
                         ELSE policyChainKeyToData[k] ]
     /\ refused' \in Nat /\ before <= refused' /\ refused' <= MaxRefused
     /\ refused' = before => acc = Places(plan)
     /\ whole' \subseteq whole \union {key}
     /\ key \in whole' => acc = Places(plan) /\ DOMAIN plan = DOMAIN chain

LEMMA RefusedCount ==
  ASSUME NEW requests, NEW before \in 0..MaxRefused,
         NEW no \in MayRefuse(requests, before)
  PROVE  /\ no \subseteq requests
         /\ before + Cardinality(no) \in before..MaxRefused
         /\ before + Cardinality(no) = before => no = {}
<1>1. before \in Nat /\ MaxRefused \in Nat /\ before <= MaxRefused
  BY BoundsAssumption
<1>2. CASE no = {}
  <2>1. Cardinality(no) = 0
    BY <1>2, FS_EmptySet
  <2> QED
    BY <1>1, <1>2, <2>1
<1>3. CASE no # {}
  <2>1. before < MaxRefused /\ \E p \in requests : no = {p}
    BY <1>3 DEF MayRefuse
  <2>2. Cardinality(no) = 1 /\ no \subseteq requests
    BY <2>1, FS_Singleton
  <2> QED
    BY <1>1, <2>1, <2>2
<1> QED
  BY <1>2, <1>3

LEMMA InstallIs ==
  ASSUME NEW table, NEW key, NEW chain, NEW v, NEW before \in 0..MaxRefused,
         Install(table, key, chain, v, before)
  PROVE  \E acc \in SUBSET Places(Plan(key, chain, v)) :
           Installed(table, key, chain, v, before, acc)
<1> DEFINE plan == Plan(key, chain, v)
<1>1. PICK no \in MayRefuse(Places(plan), before) :
        /\ rules' = Added(table, plan, Places(plan) \ no)
        /\ policyChainKeyToData' =
             [ k \in Keys \union {key} |->
                 IF k = key THEN [ chain |-> chain, vlanId |-> v,
                                   flow |-> FullFlow(plan, Places(plan) \ no) ]
                            ELSE policyChainKeyToData[k] ]
        /\ refused' = before + Cardinality(no)
        /\ whole' = IF Places(plan) \ no = Places(plan) /\ DOMAIN plan = DOMAIN chain
                    THEN whole \union {key}
                    ELSE whole \ {key}
  BY DEF Install
<1> DEFINE acc == Places(plan) \ no
<1>2. before \in Nat /\ MaxRefused \in Nat
  BY BoundsAssumption
<1>3. refused' \in Nat /\ before <= refused' /\ refused' <= MaxRefused
  BY <1>1, <1>2, RefusedCount
<1>4. refused' = before => acc = Places(plan)
  BY <1>1, RefusedCount
<1>5. /\ whole' \subseteq whole \union {key}
      /\ key \in whole' => acc = Places(plan) /\ DOMAIN plan = DOMAIN chain
  BY <1>1
<1> QED
  BY <1>1, <1>3, <1>4, <1>5 DEF Installed

-----------------------------------------------------------------------------
(* The chains and the tables, while the operators add no chain whose match   *)
(* fields a known one has.                                                   *)

VlanOf(k) == policyChainKeyToData[k].vlanId

\* A key is that of a command that added it.
Asked(key) == \E c \in Requests : c.op = "addpolicychain" /\ c.key = key

KeysApart ==
  /\ \A k \in Keys : k.fields # {} /\ Asked(k)
  /\ \A k, l \in Keys : k # l => k.fields \intersect l.fields = {}

VlansApart == \A k, l \in Keys : VlanOf(k) = VlanOf(l) => k = l

\* As long as the controller accepts everything, a chain's flow is that of its plan.
FlowsFull ==
  refused = 0 => \A k \in Keys : policyChainKeyToData[k].flow = FullFlow(P(k), Places(P(k)))

OfChain(r, k) == \E p \in Places(P(k)) : r = RuleAt(P(k), p)

\* A rule matches a VLAN id, or the header fields of a chain somebody added.
FieldsKnown(table) ==
  \A r \in table : /\ r.vlan = 0 => r.fields # {} /\ \E key : Asked(key) /\ key.fields = r.fields
                   /\ r.vlan # 0 => r.fields = {}

WholeIn(table, S) ==
  \A k \in S : Unambiguous(P(k)) => \A p \in Places(P(k)) : RuleAt(P(k), p) \in table

ChainsInv ==
  /\ KeysApart /\ VlansApart /\ FlowsFull /\ NoStrayRules
  /\ NoTwins(rules) /\ FieldsKnown(rules) /\ WholeIn(rules, whole)

KnownTyped ==
  /\ Keys \subseteq ChainKeys
  /\ \A k \in Keys : DataTyped(policyChainKeyToData[k])
  /\ whole \subseteq Keys
  /\ refused \in Nat

LEMMA NoStrayRulesIs ==
  NoStrayRules <=> (refused = 0 => \A r \in rules : \E k \in Keys : OfChain(r, k))
BY DEF NoStrayRules, OfChain, P, RuleAt

LEMMA NoStrayRulesNextIs ==
  NoStrayRules' <=> (refused' = 0 => \A r \in rules' : \E k \in Keys' : OfChain(r, k)')
BY DEF NoStrayRules, OfChain, P, RuleAt

LEMMA KnownRules ==
  ASSUME KnownTyped, NEW k \in Keys, NEW p \in Places(P(k))
  PROVE  RuleFacts(k, policyChainKeyToData[k].chain, VlanOf(k), p, RuleAt(P(k), p))
BY PlanFacts DEF KnownTyped, DataTyped, VlanOf, P

\* A chain's rules are not those of a chain with other fields and another VLAN id.
LEMMA OtherChainsRule ==
  ASSUME NEW k, NEW c, NEW v \in Nat \ {0}, NEW p, NEW r, RuleFacts(k, c, v, p, r),
         NEW l, NEW d, NEW w \in Nat \ {0}, NEW q, NEW s, RuleFacts(l, d, w, q, s),
         v # w, k.fields # {}, k.fields \intersect l.fields = {}
  PROVE  ~SameMatch(r, s)
BY DEF RuleFacts, SameMatch

LEMMA InstallKeeps ==
  ASSUME KnownTyped, ChainsInv,
         NEW key \in ChainKeys, NEW chain \in Chains, NEW v \in Nat \ {0},
         NEW table \in SUBSET rules, NEW before \in Nat,
         NEW acc \in SUBSET Places(Plan(key, chain, v)),
         Installed(table, key, chain, v, before, acc),
         key.fields # {}, Asked(key),
         \A k \in Keys : k # key => k.fields \intersect key.fields = {} /\ VlanOf(k) # v,
         refused <= before,
         before = 0 => \A r \in table : \E k \in Keys : k # key /\ OfChain(r, k),
         WholeIn(table, whole \ {key})
  PROVE  ChainsInv'
<1> DEFINE plan == Plan(key, chain, v)
<1>1. /\ rules' = Added(table, plan, acc)
      /\ refused' \in Nat /\ before <= refused'
      /\ refused' = before => acc = Places(plan)
      /\ whole' \subseteq whole \union {key}
      /\ key \in whole' => acc = Places(plan)
      /\ Keys' = Keys \union {key}
  <2>1. Keys' = Keys \union {key}
    BY DEF Installed, Keys
  <2> QED
    BY <2>1 DEF Installed
<1>2. /\ policyChainKeyToData'[key].chain = chain
      /\ policyChainKeyToData'[key].vlanId = v
      /\ policyChainKeyToData'[key].flow = FullFlow(plan, acc)
      /\ VlanOf(key)' = v /\ P(key)' = plan
  BY DEF Installed, VlanOf, P
<1>3. ASSUME NEW k \in Keys, k # key
      PROVE  /\ policyChainKeyToData'[k] = policyChainKeyToData[k]
             /\ VlanOf(k)' = VlanOf(k) /\ P(k)' = P(k)
             /\ \A r : OfChain(r, k)' <=> OfChain(r, k)
  <2>1. policyChainKeyToData'[k] = policyChainKeyToData[k]
    BY <1>3 DEF Installed
  <2>2. VlanOf(k)' = VlanOf(k) /\ P(k)' = P(k)
    BY <2>1 DEF VlanOf, P
  <2>3. \A r : OfChain(r, k)' <=> OfChain(r, k)
    BY <2>2 DEF OfChain
  <2> QED
    BY <2>1, <2>2, <2>3
<1>4. \A p \in Places(plan) : RuleFacts(key, chain, v, p, RuleAt(plan, p))
  BY PlanFacts
<1>5. \A p \in Places(plan) : p \in (Nat \ {0}) \X (Nat \ {0})
  BY <1>4 DEF RuleFacts
<1> HIDE DEF plan
<1>6. KeysApart'
  <2>1. ASSUME NEW k \in Keys', NEW l \in Keys', k # l
        PROVE  k.fields \intersect l.fields = {}
    BY <1>1, <2>1 DEF ChainsInv, KeysApart
  <2>2. \A k \in Keys' : k.fields # {} /\ Asked(k)
    BY <1>1 DEF ChainsInv, KeysApart
  <2> QED
    BY <2>1, <2>2 DEF KeysApart, Asked
<1>7. VlansApart'
  <2>1. ASSUME NEW k \in Keys', NEW l \in Keys', VlanOf(k)' = VlanOf(l)'
        PROVE  k = l
    <3>1. CASE k = key
      BY <1>1, <1>2, <1>3, <2>1, <3>1
    <3>2. CASE l = key
      BY <1>1, <1>2, <1>3, <2>1, <3>2
    <3>3. CASE k # key /\ l # key
      BY <1>1, <1>3, <2>1, <3>3 DEF ChainsInv, VlansApart
    <3> QED
      BY <3>1, <3>2, <3>3
  <2> QED
    BY <2>1 DEF VlansApart
<1>8. refused' = 0 => before = 0 /\ refused = 0 /\ acc = Places(plan)
  BY <1>1 DEF KnownTyped
<1>9. FlowsFull'
  <2>1. ASSUME refused' = 0, NEW k \in Keys'
        PROVE  policyChainKeyToData'[k].flow = FullFlow(P(k)', Places(P(k)'))
    <3>1. CASE k = key
      BY <1>2, <1>8, <2>1, <3>1
    <3>2. CASE k # key
      BY <1>1, <1>3, <1>8, <2>1, <3>2 DEF ChainsInv, FlowsFull
    <3> QED
      BY <3>1, <3>2
  <2> QED
    BY <2>1 DEF FlowsFull
<1>10. NoStrayRules'
  <2>1. ASSUME refused' = 0, NEW r \in rules' PROVE \E k \in Keys' : OfChain(r, k)'
    <3>1. CASE r \in table
      <4>1. PICK k \in Keys : k # key /\ OfChain(r, k)
        BY <1>8, <2>1, <3>1
      <4> QED
        BY <1>1, <1>3, <4>1
    <3>2. CASE \E p \in acc : r = RuleAt(plan, p)
      <4>1. OfChain(r, key)'
        BY <1>2, <3>2 DEF OfChain, plan
      <4> QED
        BY <1>1, <4>1
    <3> QED
      BY <1>1, <2>1, <3>1, <3>2, AddedIs
  <2> QED
    BY <2>1, NoStrayRulesNextIs
<1>11. NoTwins(rules')
  <2>1. NoTwins(table)
    BY DEF ChainsInv, NoTwins
  <2> QED
    BY <1>1, <1>5, <2>1, AddedWithoutTwins DEF plan
<1>12. FieldsKnown(rules')
  <2>1. ASSUME NEW r \in rules'
        PROVE  /\ r.vlan = 0 => r.fields # {} /\ \E k : Asked(k) /\ k.fields = r.fields
               /\ r.vlan # 0 => r.fields = {}
    <3>1. CASE r \in table
      BY <3>1 DEF ChainsInv, FieldsKnown
    <3>2. CASE \E p \in acc : r = RuleAt(plan, p)
      <4>1. PICK p \in acc : r = RuleAt(plan, p)
        BY <3>2
      <4>2. RuleFacts(key, chain, v, p, r)
        BY <1>4, <4>1 DEF plan
      <4>3. /\ r.vlan = 0 => r.fields = key.fields
            /\ r.vlan # 0 => r.fields = {}
        BY <4>2 DEF RuleFacts
      <4> QED
        BY <4>3
    <3> QED
      BY <1>1, <3>1, <3>2, AddedIs
  <2> QED
    BY <2>1 DEF FieldsKnown
<1>13. WholeIn(rules, whole)' 
  <2>1. ASSUME NEW k \in whole', Unambiguous(P(k)'), NEW p \in Places(P(k)')
        PROVE  RuleAt(P(k)', p) \in rules'
    <3>1. CASE k = key
      <4>1. acc = Places(plan) /\ P(k)' = plan
        BY <1>1, <1>2, <3>1, <2>1
      <4> QED
        BY <1>1, <1>5, <2>1, <4>1, AllAdded
    <3>2. CASE k # key
      <4>1. k \in Keys /\ k \in whole \ {key} /\ P(k)' = P(k)
        BY <1>1, <1>3, <2>1, <3>2 DEF KnownTyped
      <4>2. RuleAt(P(k), p) \in table
        BY <2>1, <4>1 DEF WholeIn
      <4>3. RuleFacts(k, policyChainKeyToData[k].chain, VlanOf(k), p, RuleAt(P(k), p))
        BY <2>1, <4>1, KnownRules
      <4>4. k.fields # {} /\ k.fields \intersect key.fields = {} /\ VlanOf(k) # v
        BY <3>2, <4>1 DEF ChainsInv, KeysApart
      <4>5. VlanOf(k) \in Nat \ {0}
        BY <4>1 DEF KnownTyped, DataTyped, VlanOf
      <4>6. ASSUME NEW q \in acc PROVE ~SameMatch(RuleAt(P(k), p), RuleAt(plan, q))
        <5>1. RuleFacts(key, chain, v, q, RuleAt(plan, q))
          BY <1>4 DEF plan
        <5> QED
          BY <4>3, <4>4, <4>5, <5>1, OtherChainsRule
      <4> QED
        BY SMTT(30), <1>1, <4>1, <4>2, <4>6, KeptByAdding
    <3> QED
      BY <3>1, <3>2
  <2> QED
    BY <2>1 DEF WholeIn
<1> QED
  BY <1>6, <1>7, <1>9, <1>10, <1>11, <1>12, <1>13 DEF ChainsInv, NoTwins, FieldsKnown, Asked

\* What uninstalling a chain leaves: the rules of the others, and if the controller
\* refuses nothing, only those.
WellUninstalled(key, acc, table) ==
  /\ table \in SUBSET rules
  /\ WholeIn(table, whole \ {key})
  /\ refused = 0 /\ acc = Requested(policyChainKeyToData[key].flow) =>
       \A r \in table : \E k \in Keys : k # key /\ OfChain(r, k)

LEMMA UninstallFacts ==
  ASSUME KnownTyped, ChainsInv, NEW key \in Keys,
         NEW acc \in SUBSET Requested(policyChainKeyToData[key].flow)
  PROVE  WellUninstalled(key, acc, Uninstalled(rules, key, policyChainKeyToData[key], acc))
<1> DEFINE table == Uninstalled(rules, key, policyChainKeyToData[key], acc)
<1>0. table = Uninstalled(rules, key, policyChainKeyToData[key], acc)
  OBVIOUS
<1> HIDE DEF table
<1> DEFINE data == policyChainKeyToData[key]
<1>1. table \in SUBSET rules
  BY <1>0, UninstalledIs
<1>2. ASSUME NEW k \in whole \ {key}, Unambiguous(P(k)), NEW p \in Places(P(k))
      PROVE  RuleAt(P(k), p) \in table
  <2>1. k \in Keys /\ k # key /\ RuleAt(P(k), p) \in rules
    BY <1>2 DEF KnownTyped, ChainsInv, WholeIn
  <2>2. RuleFacts(k, policyChainKeyToData[k].chain, VlanOf(k), p, RuleAt(P(k), p))
    BY <1>2, <2>1, KnownRules
  <2>3. k.fields \intersect key.fields = {} /\ key.fields # {}
    BY <2>1 DEF ChainsInv, KeysApart
  <2>4. VlanOf(k) # VlanOf(key)
    BY <2>1 DEF ChainsInv, VlansApart
  <2>5. VlanOf(key) \in Nat \ {0}
    BY DEF KnownTyped, DataTyped, VlanOf
  <2>6. RuleAt(P(k), p).vlan # data.vlanId
    BY <2>2, <2>4, <2>5 DEF RuleFacts, VlanOf
  <2>7. ~(key.fields \subseteq RuleAt(P(k), p).fields)
    BY <2>2, <2>3 DEF RuleFacts
  <2> QED
    BY <1>0, <2>1, <2>6, <2>7, OtherRulesKept
<1>3. ASSUME refused = 0, acc = Requested(data.flow), NEW r \in table
      PROVE  \E k \in Keys : k # key /\ OfChain(r, k)
  <2>1. PICK k \in Keys : OfChain(r, k)
    BY <1>1, <1>3, NoStrayRulesIs DEF ChainsInv
  <2>2. CASE k = key
    <3>1. PICK p \in Places(P(key)) : r = RuleAt(P(key), p)
      BY <2>1, <2>2 DEF OfChain
    <3>2. key \in ChainKeys /\ DataTyped(data)
      BY DEF KnownTyped
    <3>3. data.flow = FullFlow(P(key), Places(P(key)))
      BY <1>3 DEF ChainsInv, FlowsFull
    <3>4. p \in Requested(data.flow) /\ Deleted(r, p, key, data)
      BY <3>1, <3>2, <3>3, OwnRulesDeleted DEF P
    <3> QED
      BY <1>0, <1>3, <3>4 DEF Uninstalled
  <2> QED
    BY <2>1, <2>2
<1> QED
  BY <1>1, <1>2, <1>3 DEF WholeIn, WellUninstalled, table

LEMMA SameChain ==
  ASSUME NEW k, policyChainKeyToData'[k] = policyChainKeyToData[k]
  PROVE  /\ VlanOf(k)' = VlanOf(k) /\ P(k)' = P(k)
         /\ \A r : OfChain(r, k)' <=> OfChain(r, k)
<1>1. VlanOf(k)' = VlanOf(k) /\ P(k)' = P(k)
  BY DEF VlanOf, P
<1> QED
  BY <1>1 DEF OfChain

\* If some chains go, and rules with them, those that stay keep what they have.
LEMMA RestKeeps ==
  ASSUME KnownTyped, ChainsInv,
         Keys' \subseteq Keys,
         \A k \in Keys' : policyChainKeyToData'[k] = policyChainKeyToData[k],
         rules' \subseteq rules,
         whole' \subseteq whole, whole' \subseteq Keys',
         refused' \in Nat, refused <= refused',
         WholeIn(rules', whole'),
         refused' = 0 => \A r \in rules' : \E k \in Keys' : OfChain(r, k)
  PROVE  ChainsInv'
<1>1. \A k \in Keys' : /\ VlanOf(k)' = VlanOf(k) /\ P(k)' = P(k)
                       /\ \A r : OfChain(r, k)' <=> OfChain(r, k)
  BY SameChain
<1>2. KeysApart'
  BY DEF ChainsInv, KeysApart, Asked
<1>3. VlansApart'
  BY <1>1 DEF ChainsInv, VlansApart
<1>4. refused' = 0 => refused = 0
  BY DEF KnownTyped
<1>5. FlowsFull'
  BY <1>1, <1>4 DEF ChainsInv, FlowsFull
<1>6. NoStrayRules'
  BY <1>1, NoStrayRulesNextIs
<1>7. NoTwins(rules')
  BY DEF ChainsInv, NoTwins
<1>8. FieldsKnown(rules')
  BY DEF ChainsInv, FieldsKnown
<1>9. WholeIn(rules, whole)'
  BY <1>1 DEF WholeIn
<1> QED
  BY <1>2, <1>3, <1>5, <1>6, <1>7, <1>8, <1>9 DEF ChainsInv, NoTwins, FieldsKnown, Asked

LEMMA QuietKeeps ==
  ASSUME KnownTyped, ChainsInv, UNCHANGED << policyChainKeyToData, rules, refused, whole >>
  PROVE  ChainsInv'
<1>1. Keys' = Keys /\ \A k \in Keys' : policyChainKeyToData'[k] = policyChainKeyToData[k]
  BY DEF Keys
<1>2. WholeIn(rules', whole')
  BY DEF ChainsInv, WholeIn
<1>3. refused' = 0 => \A r \in rules' : \E k \in Keys' : OfChain(r, k)
  BY <1>1, NoStrayRulesIs DEF ChainsInv
<1>4. refused' \in Nat /\ refused <= refused' /\ whole' \subseteq Keys'
  BY <1>1 DEF KnownTyped
<1> QED
  BY <1>1, <1>2, <1>3, <1>4, RestKeeps

-----------------------------------------------------------------------------
(* The commands. *)

MayAdd(key) ==
  /\ key \in ChainKeys /\ Asked(key)
  /\ \A k \in Keys : k.fields \intersect key.fields = {}

LEMMA AddKeeps ==
  ASSUME KnownTyped, ChainsInv, refused \in 0..MaxRefused, AddPolicyChain,
         nextVlanId \in Nat \ {0}, \A k \in Keys : VlanOf(k) < nextVlanId,
         command.key.fields # {} => MayAdd(command.key)
  PROVE  ChainsInv'
<1> DEFINE key == command.key
<1>1. CASE key.fields = {}
  <2>1. UNCHANGED << policyChainKeyToData, rules, refused, whole >>
    BY <1>1 DEF AddPolicyChain
  <2> QED
    BY <2>1, QuietKeeps
<1>2. CASE key.fields # {}
  <2>1. Install(rules, key, key.chain, nextVlanId, refused) /\ MayAdd(key)
    BY <1>2 DEF AddPolicyChain
  <2>2. key \in ChainKeys /\ key.chain \in Chains /\ Asked(key)
    BY <2>1 DEF MayAdd, ChainKeys
  <2> HIDE DEF key
  <2>3. PICK acc \in SUBSET Places(Plan(key, key.chain, nextVlanId)) :
          Installed(rules, key, key.chain, nextVlanId, refused, acc)
    BY <2>1, InstallIs
  <2>4. \A k \in Keys : /\ k # key
                        /\ k.fields \intersect key.fields = {} /\ VlanOf(k) # nextVlanId
    <3>1. key.fields # {}
      BY <1>2 DEF key
    <3>2. \A k \in Keys : k.fields \intersect key.fields = {}
      BY <2>1 DEF MayAdd
    <3>3. \A k \in Keys : k # key
      BY <3>1, <3>2
    <3>4. \A k \in Keys : VlanOf(k) \in Nat /\ VlanOf(k) < nextVlanId
      BY DEF KnownTyped, DataTyped, VlanOf
    <3> QED
      BY <3>2, <3>3, <3>4
  <2>5. refused = 0 => \A r \in rules : \E k \in Keys : k # key /\ OfChain(r, k)
    BY <2>4, NoStrayRulesIs DEF ChainsInv
  <2>6. WholeIn(rules, whole \ {key})
    BY DEF ChainsInv, WholeIn
  <2>7. refused \in Nat /\ refused <= refused /\ key.fields # {}
    BY <1>2 DEF KnownTyped, key
  <2> QED
    BY <2>2, <2>3, <2>4, <2>5, <2>6, <2>7, InstallKeeps
<1> QED
  BY <1>1, <1>2

LEMMA RemoveKeeps ==
  ASSUME KnownTyped, ChainsInv, refused \in 0..MaxRefused, RemovePolicyChain
  PROVE  ChainsInv'
<1> DEFINE key == command.key
           flow == policyChainKeyToData[key].flow
<1>1. key \in Keys
  BY DEF RemovePolicyChain
<1>2. PICK no \in MayRefuse(Requested(flow), refused) :
        /\ rules' = Uninstalled(rules, key, policyChainKeyToData[key], Requested(flow) \ no)
        /\ refused' = refused + Cardinality(no)
        /\ policyChainKeyToData' = [ k \in Keys \ {key} |-> policyChainKeyToData[k] ]
        /\ whole' = whole \ {key}
  BY DEF RemovePolicyChain
<1>3. /\ refused' \in Nat /\ refused <= refused'
      /\ refused' = 0 => refused = 0 /\ no = {}
  <2>1. /\ refused + Cardinality(no) \in refused..MaxRefused
        /\ refused + Cardinality(no) = refused => no = {}
    BY RefusedCount
  <2> QED
    BY <1>2, <2>1, BoundsAssumption
<1>4. /\ Keys' = Keys \ {key}
      /\ \A k \in Keys' : policyChainKeyToData'[k] = policyChainKeyToData[k]
  BY <1>2 DEF Keys
<1> HIDE DEF key
<1>5. /\ rules' \in SUBSET rules
      /\ WholeIn(rules', whole')
      /\ refused' = 0 => \A r \in rules' : \E k \in Keys : k # key /\ OfChain(r, k)
  <2>1. PICK acc \in SUBSET Requested(flow) : acc = Requested(flow) \ no
    OBVIOUS
  <2>2. rules' = Uninstalled(rules, key, policyChainKeyToData[key], acc)
    BY <1>2, <2>1
  <2>3. /\ rules' \in SUBSET rules
        /\ WholeIn(rules', whole \ {key})
        /\ refused = 0 /\ acc = Requested(flow) =>
             \A r \in rules' : \E k \in Keys : k # key /\ OfChain(r, k)
    BY <1>1, <2>2, UninstallFacts DEF WellUninstalled
  <2> QED
    BY <1>2, <1>3, <2>1, <2>3
<1>6. whole' \subseteq whole /\ whole' \subseteq Keys'
  BY <1>2, <1>4 DEF KnownTyped
<1> QED
  BY <1>3, <1>4, <1>5, <1>6, RestKeeps

LEMMA UnregisterKeeps ==
  ASSUME KnownTyped, ChainsInv, refused \in 0..MaxRefused, todo \subseteq Keys,
         NEW key, UnregisterFrom(key)
  PROVE  ChainsInv'
<1> DEFINE flow == policyChainKeyToData[key].flow
<1>1. key \in Keys
  BY DEF UnregisterFrom
<1>2. PICK no \in MayRefuse(Requested(flow), refused) :
        /\ rules' = Uninstalled(rules, key, policyChainKeyToData[key], Requested(flow) \ no)
        /\ refused' = refused + Cardinality(no)
  BY DEF UnregisterFrom
<1>3. /\ refused' \in Nat /\ refused <= refused'
      /\ refused' = 0 => refused = 0 /\ no = {}
  <2>1. /\ refused + Cardinality(no) \in refused..MaxRefused
        /\ refused + Cardinality(no) = refused => no = {}
    BY RefusedCount
  <2> QED
    BY <1>2, <2>1, BoundsAssumption
<1>4. /\ Keys' = Keys /\ whole' = whole \ {key}
      /\ \A k \in Keys' : policyChainKeyToData'[k] = policyChainKeyToData[k]
  BY DEF UnregisterFrom, Keys
<1>5. /\ rules' \in SUBSET rules
      /\ WholeIn(rules', whole')
      /\ refused' = 0 => \A r \in rules' : \E k \in Keys : k # key /\ OfChain(r, k)
  <2>1. PICK acc \in SUBSET Requested(flow) : acc = Requested(flow) \ no
    OBVIOUS
  <2>2. rules' = Uninstalled(rules, key, policyChainKeyToData[key], acc)
    BY <1>2, <2>1
  <2>3. /\ rules' \in SUBSET rules
        /\ WholeIn(rules', whole \ {key})
        /\ refused = 0 /\ acc = Requested(flow) =>
             \A r \in rules' : \E k \in Keys : k # key /\ OfChain(r, k)
    BY <1>1, <2>2, UninstallFacts DEF WellUninstalled
  <2> QED
    BY <1>2, <1>3, <1>4, <2>1, <2>3
<1>6. whole' \subseteq whole /\ whole' \subseteq Keys'
  BY <1>4 DEF KnownTyped
<1> QED
  BY <1>3, <1>4, <1>5, <1>6, RestKeeps

LEMMA ReplaceKeeps ==
  ASSUME KnownTyped, ChainsInv, refused \in 0..MaxRefused, todo \subseteq Keys,
         NEW key, ReplaceMasterMB(key),
         Replaced(policyChainKeyToData[key].chain, command.mb, NewMb) \in Chains
  PROVE  ChainsInv'
<1> DEFINE data == policyChainKeyToData[key]
           chain == Replaced(data.chain, command.mb, NewMb)
           v == VlanOf(key)
<1>1. key \in Keys /\ key \in ChainKeys /\ chain \in Chains /\ v \in Nat \ {0}
  BY DEF ReplaceMasterMB, KnownTyped, DataTyped, VlanOf
<1>2. PICK no \in MayRefuse(Requested(data.flow), refused) :
        Install(Uninstalled(rules, key, data, Requested(data.flow) \ no),
                key, chain, v, refused + Cardinality(no))
  BY DEF ReplaceMasterMB, VlanOf
<1>3. PICK acc \in SUBSET Requested(data.flow) : acc = Requested(data.flow) \ no
  OBVIOUS
<1>4. PICK before \in 0..MaxRefused :
        /\ before = refused + Cardinality(no) /\ refused <= before
        /\ before = 0 => refused = 0 /\ no = {}
  <2>1. /\ refused + Cardinality(no) \in refused..MaxRefused
        /\ refused + Cardinality(no) = refused => no = {}
    BY RefusedCount
  <2> QED
    BY <2>1, BoundsAssumption
<1> HIDE DEF chain, v
<1>5. PICK table \in SUBSET rules :
        table = Uninstalled(rules, key, data, acc) /\ WellUninstalled(key, acc, table)
  BY <1>1, UninstallFacts, UninstalledIs
<1>6. Install(table, key, chain, v, before)
  BY <1>2, <1>3, <1>4, <1>5
<1>7. PICK new \in SUBSET Places(Plan(key, chain, v)) :
        Installed(table, key, chain, v, before, new)
  BY <1>6, InstallIs
<1>8. key.fields # {} /\ Asked(key)
  BY <1>1 DEF ChainsInv, KeysApart
<1>9. \A k \in Keys : k # key => k.fields \intersect key.fields = {} /\ VlanOf(k) # v
  BY <1>1 DEF ChainsInv, KeysApart, VlansApart, v
<1>10. before = 0 => \A r \in table : \E k \in Keys : k # key /\ OfChain(r, k)
  BY <1>3, <1>4, <1>5 DEF WellUninstalled
<1>11. WholeIn(table, whole \ {key})
  BY <1>5 DEF WellUninstalled
<1>12. before \in Nat
  BY BoundsAssumption
<1> QED
  BY <1>1, <1>4, <1>7, <1>8, <1>9, <1>10, <1>11, <1>12, InstallKeeps

-----------------------------------------------------------------------------
(* Types. *)

DataIn(data, n) ==
  /\ data.chain \in Chains
  /\ data.vlanId \in 1..(n - 1)
  /\ \A p \in DOMAIN data.flow : data.flow[p] \in Switches

RuleIn(r, n) ==
  /\ r.switch \in Switches
  /\ r.vlan \in 0..(n - 1) /\ r.tag \in 0..(n - 1)
  /\ r.inPort \in FlowEntries /\ r.out \in FlowEntries

TablesTyped ==
  /\ Keys \subseteq ChainKeys
  /\ \A k \in Keys : DataIn(policyChainKeyToData[k], nextVlanId)
  /\ nextVlanId \in Nat \ {0}
  /\ \A r \in rules : RuleIn(r, nextVlanId)
  /\ refused \in 0..MaxRefused
  /\ whole \subseteq Keys

IdsTyped ==
  /\ nextPcid \in Nat
  /\ \A p \in pcidToPolicyChainKey : p \in (0..(nextPcid - 1)) \X ChainKeys

CommandTyped ==
  /\ command \in Requests \union {NoCommand}
  /\ todo \subseteq Keys
  /\ reply \in {"none", "success", "failed"}

SessionTyped ==
  /\ frontEnd \in [FrontEnds -> {"off", "prompt", "wait", "answered", "prompt again",
                               "wait again"}]
  /\ given \in [FrontEnds -> Requests \union {NoCommand}]
  /\ backlog \in Seq(FrontEnds)
  /\ accepted \subseteq FrontEnds
  /\ Cardinality(accepted) <= 1
  /\ server \in {"accept", "recv", "handle", "stopped"}
  /\ prompts \in 0..MaxPrompts

LEMMA TypeParts == TypeOK <=> TablesTyped /\ IdsTyped /\ CommandTyped /\ SessionTyped
<1>1. (\A k \in Keys : DataIn(policyChainKeyToData[k], nextVlanId)) <=>
      \A k \in Keys :
        LET data == policyChainKeyToData[k]
        IN /\ data.chain \in Chains
           /\ data.vlanId \in 1..(nextVlanId - 1)
           /\ \A p \in DOMAIN data.flow : data.flow[p] \in Switches
  BY DEF DataIn
<1>2. (\A r \in rules : RuleIn(r, nextVlanId)) <=>
      \A r \in rules : /\ r.switch \in Switches
                       /\ r.vlan \in 0..(nextVlanId - 1) /\ r.tag \in 0..(nextVlanId - 1)
                       /\ r.inPort \in FlowEntries /\ r.out \in FlowEntries
  BY DEF RuleIn
<1> QED
  BY <1>1, <1>2, Zenon DEF TypeOK, TablesTyped, IdsTyped, CommandTyped, SessionTyped

LEMMA TypesKnown ==
  ASSUME TablesTyped
  PROVE  KnownTyped /\ \A k \in Keys : VlanOf(k) \in Nat \ {0} /\ VlanOf(k) < nextVlanId
<1>1. \A k \in Keys : /\ DataTyped(policyChainKeyToData[k])
                      /\ VlanOf(k) \in Nat \ {0} /\ VlanOf(k) < nextVlanId
  BY DEF TablesTyped, DataIn, DataTyped, VlanOf
<1>2. refused \in Nat
  BY BoundsAssumption DEF TablesTyped
<1> QED
  BY <1>1, <1>2 DEF TablesTyped, KnownTyped

LEMMA LargerBound ==
  ASSUME NEW n \in Nat \ {0}, NEW m \in Nat \ {0}, n <= m
  PROVE  /\ \A data : DataIn(data, n) => DataIn(data, m)
         /\ \A r : RuleIn(r, n) => RuleIn(r, m)
<1>1. \A x : x \in 1..(n - 1) => x \in 1..(m - 1)
  OBVIOUS
<1>2. \A x : x \in 0..(n - 1) => x \in 0..(m - 1)
  OBVIOUS
<1> QED
  BY <1>1, <1>2 DEF DataIn, RuleIn

LEMMA InstallTyped ==
  ASSUME TablesTyped, nextVlanId' \in Nat \ {0}, nextVlanId <= nextVlanId',
         NEW key \in ChainKeys, NEW chain \in Chains, NEW v \in 1..(nextVlanId' - 1),
         NEW table \in SUBSET rules, NEW before \in 0..MaxRefused,
         NEW acc \in SUBSET Places(Plan(key, chain, v)),
         Installed(table, key, chain, v, before, acc)
  PROVE  TablesTyped' /\ Keys' = Keys \union {key}
<1> DEFINE plan == Plan(key, chain, v)
           n == nextVlanId'
<1>1. Keys' = Keys \union {key}
  BY DEF Installed, Keys
<1>2. v \in Nat \ {0} /\ v \in 0..(n - 1) /\ 0 \in 0..(n - 1)
  <2>1. PICK m \in Nat \ {0} : m = n
    OBVIOUS
  <2>2. v \in 1..(m - 1)
    BY <2>1
  <2>3. v \in Nat \ {0} /\ v \in 0..(m - 1) /\ 0 \in 0..(m - 1)
    BY <2>2
  <2> QED
    BY <2>1, <2>3
<1>3. \A p \in Places(plan) : RuleFacts(key, chain, v, p, RuleAt(plan, p))
  BY <1>2, PlanFacts
<1>4. \A r \in rules' : RuleIn(r, n)
  <2>1. SUFFICES ASSUME NEW r \in rules' PROVE RuleIn(r, n)
    OBVIOUS
  <2>2. CASE r \in table
    BY <2>2, LargerBound DEF TablesTyped
  <2>3. CASE \E p \in acc : r = RuleAt(plan, p)
    <3>1. PICK p \in acc : r = RuleAt(plan, p)
      BY <2>3
    <3>2. RuleFacts(key, chain, v, p, r)
      BY <1>3, <3>1
    <3> QED
      BY <1>2, <3>2 DEF RuleFacts, RuleIn
  <2>4. rules' = Added(table, plan, acc)
    BY DEF Installed
  <2> QED
    BY <2>2, <2>3, <2>4, AddedIs
<1>5. \A k \in Keys' : DataIn(policyChainKeyToData'[k], n)
  <2>1. SUFFICES ASSUME NEW k \in Keys' PROVE DataIn(policyChainKeyToData'[k], n)
    OBVIOUS
  <2>2. CASE k = key
    <3>1. policyChainKeyToData'[k] = [ chain |-> chain, vlanId |-> v,
                                       flow |-> FullFlow(plan, acc) ]
      BY <2>2 DEF Installed
    <3>2. \A p \in DOMAIN FullFlow(plan, acc) : FullFlow(plan, acc)[p] \in Switches
      BY <1>3 DEF FullFlow, RuleFacts, RuleAt
    <3>3. PICK flow : /\ policyChainKeyToData'[k] = [ chain |-> chain, vlanId |-> v, flow |-> flow ]
                      /\ \A p \in DOMAIN flow : flow[p] \in Switches
      BY <3>1, <3>2
    <3>4. /\ policyChainKeyToData'[k].chain = chain /\ policyChainKeyToData'[k].vlanId = v
          /\ policyChainKeyToData'[k].flow = flow
      BY ONLY <3>3
    <3> QED
      BY <3>3, <3>4 DEF DataIn
  <2>3. CASE k # key
    <3>1. k \in Keys /\ policyChainKeyToData'[k] = policyChainKeyToData[k]
      BY <1>1, <2>3 DEF Installed
    <3> QED
      BY <3>1, LargerBound DEF TablesTyped
  <2> QED
    BY <2>2, <2>3
<1>6. refused' \in 0..MaxRefused
  BY DEF Installed
<1>7. whole' \subseteq Keys' /\ Keys' \subseteq ChainKeys
  BY <1>1 DEF Installed, TablesTyped
<1> QED
  BY <1>1, <1>4, <1>5, <1>6, <1>7 DEF TablesTyped

\* Of the tables and the chains, nothing comes that was not there.
LEMMA RestTyped ==
  ASSUME TablesTyped, nextVlanId' = nextVlanId,
         Keys' \subseteq Keys,
         \A k \in Keys' : policyChainKeyToData'[k] = policyChainKeyToData[k],
         rules' \subseteq rules, whole' \subseteq Keys', refused' \in 0..MaxRefused
  PROVE  TablesTyped'
BY DEF TablesTyped

\* What is known of the command in progress, and of the session it came from.
SessionInv ==
  /\ accepted = {} \/ \E f \in FrontEnds : accepted = {f}
  /\ server = "handle" =>
       \E f \in FrontEnds : accepted = {f} /\ Waits(f) /\ command = given[f]
  /\ todo # {} =>
       /\ server = "handle" /\ reply # "none"
       /\ command.op \in {"stopmaster", "replacemaster", "unregmb"}
       /\ command.op = "stopmaster" => command.mb \in DOMAIN masterToSlave

LEMMA CommandParts ==
  ASSUME NEW c \in Requests \union {NoCommand}
  PROVE  /\ c.op \in {"addpolicychain", "removepolicychain"} => c.key \in ChainKeys
         /\ c.op \in {"stopmaster", "unregmb", "replacemaster"} => c.mb \in STRING
         /\ c.op = "replacemaster" => c.new \in STRING
BY SteeringAssumption DEF Commands, NoCommand

LEMMA ReplacedTyped ==
  ASSUME NEW chain \in Chains, NEW old, NEW new \in STRING
  PROVE  Replaced(chain, old, new) \in Chains
<1>1. chain \in Seq(STRING) /\ Len(chain) \in Nat /\ DOMAIN chain = 1..Len(chain) /\ Len(chain) # 0
  BY DEF Chains
<1>a. \A i \in 1..Len(chain) : chain[i] \in STRING
  BY <1>1, ElementOfSeq
<1>2. PICK n \in Nat :
        n = Len(chain) /\ DOMAIN chain = 1..n /\ \A i \in 1..n : chain[i] \in STRING
  BY <1>1, <1>a
<1> DEFINE f == [ i \in 1..n |-> IF chain[i] = old THEN new ELSE chain[i] ]
<1>3. Replaced(chain, old, new) = f
  BY <1>2 DEF Replaced
<1>4. f \in [1..n -> STRING]
  BY <1>2
<1> HIDE DEF f
<1>5. f \in Seq(STRING) /\ Len(f) = n
  BY <1>4, SeqDef, LenProperties
<1> QED
  BY <1>1, <1>2, <1>3, <1>5, EmptySeq DEF Chains

LEMMA NewMbTyped ==
  ASSUME CommandTyped, SessionInv, todo # {}, command.op \in {"stopmaster", "replacemaster"}
  PROVE  NewMb \in STRING
BY CommandParts, SlavesAssumption DEF CommandTyped, SessionInv, NewMb

LEMMA AddTyped ==
  ASSUME TablesTyped, IdsTyped, CommandTyped, AddPolicyChain
  PROVE  TablesTyped' /\ IdsTyped' /\ CommandTyped'
<1> DEFINE key == command.key
<1>1. key \in ChainKeys
  BY CommandParts DEF AddPolicyChain, CommandTyped
<1>2. /\ nextVlanId \in Nat \ {0} /\ nextVlanId' \in Nat \ {0}
      /\ nextVlanId <= nextVlanId' /\ nextVlanId \in 1..(nextVlanId' - 1)
  <2>1. PICK n \in Nat \ {0} : n = nextVlanId
    BY DEF TablesTyped
  <2>2. nextVlanId' = n + 1
    BY <2>1 DEF AddPolicyChain, UseVlanId
  <2>3. n + 1 \in Nat \ {0} /\ n <= n + 1 /\ n \in 1..(n + 1 - 1)
    OBVIOUS
  <2> QED
    BY <2>1, <2>2, <2>3
<1>3. TablesTyped' /\ Keys \subseteq Keys'
  <2>1. CASE key.fields = {}
    <3>1. UNCHANGED << policyChainKeyToData, rules, refused, whole >>
      BY <2>1 DEF AddPolicyChain
    <3>2. \A k \in Keys : DataIn(policyChainKeyToData[k], nextVlanId')
      BY <1>2, LargerBound DEF TablesTyped
    <3>3. \A r \in rules : RuleIn(r, nextVlanId')
      BY <1>2, LargerBound DEF TablesTyped
    <3> QED
      BY <1>2, <3>1, <3>2, <3>3 DEF TablesTyped, Keys
  <2>2. CASE key.fields # {}
    <3>1. Install(rules, key, key.chain, nextVlanId, refused)
      BY <2>2 DEF AddPolicyChain
    <3>2. key.chain \in Chains /\ refused \in 0..MaxRefused
      BY <1>1 DEF ChainKeys, TablesTyped
    <3>3. PICK acc \in SUBSET Places(Plan(key, key.chain, nextVlanId)) :
            Installed(rules, key, key.chain, nextVlanId, refused, acc)
      BY <3>1, <3>2, InstallIs
    <3> QED
      BY <1>1, <1>2, <3>2, <3>3, InstallTyped
  <2> QED
    BY <2>1, <2>2
<1>4. IdsTyped'
  <2>1. PICK n \in Nat : n = nextPcid
    BY DEF IdsTyped
  <2>2. \A p \in pcidToPolicyChainKey : p \in (0..n) \X ChainKeys
    <3>1. \A x \in 0..(n - 1) : x \in 0..n
      OBVIOUS
    <3> QED
      BY <2>1, <3>1 DEF IdsTyped
  <2>3. << n, key >> \in (0..n) \X ChainKeys
    BY <1>1
  <2>4. CASE /\ pcidToPolicyChainKey' = pcidToPolicyChainKey \union {<< nextPcid, key >>}
             /\ nextPcid' = nextPcid + 1
    <3>1. nextPcid' = n + 1 /\ n + 1 - 1 = n /\ n + 1 \in Nat
      BY <2>1, <2>4
    <3>2. \A p \in pcidToPolicyChainKey' : p \in (0..n) \X ChainKeys
      BY <2>1, <2>2, <2>3, <2>4
    <3> QED
      BY <3>1, <3>2 DEF IdsTyped
  <2>5. CASE UNCHANGED << pcidToPolicyChainKey, nextPcid >>
    BY <2>5 DEF IdsTyped
  <2> QED
    BY <2>4, <2>5 DEF AddPolicyChain
<1>5. CommandTyped'
  BY <1>3 DEF AddPolicyChain, CommandTyped
<1> QED
  BY <1>3, <1>4, <1>5

LEMMA RemoveTyped ==
  ASSUME TablesTyped, IdsTyped, CommandTyped, SessionInv, RemovePolicyChain
  PROVE  TablesTyped' /\ IdsTyped' /\ CommandTyped'
<1> DEFINE key == command.key
           flow == policyChainKeyToData[key].flow
<1>1. PICK no \in MayRefuse(Requested(flow), refused) :
        /\ rules' = Uninstalled(rules, key, policyChainKeyToData[key], Requested(flow) \ no)
        /\ refused' = refused + Cardinality(no)
        /\ policyChainKeyToData' = [ k \in Keys \ {key} |-> policyChainKeyToData[k] ]
        /\ whole' = whole \ {key}
        /\ PopPcid(key)
  BY DEF RemovePolicyChain
<1>2. refused' \in 0..MaxRefused
  BY <1>1, RefusedCount, BoundsAssumption DEF TablesTyped
<1>3. /\ Keys' = Keys \ {key}
      /\ \A k \in Keys' : policyChainKeyToData'[k] = policyChainKeyToData[k]
  BY <1>1 DEF Keys
<1>4. rules' \subseteq rules
  BY <1>1, UninstalledIs
<1>5. whole' \subseteq Keys' /\ nextVlanId' = nextVlanId
  BY <1>1, <1>3 DEF TablesTyped, RemovePolicyChain
<1>6. TablesTyped'
  BY <1>2, <1>3, <1>4, <1>5, RestTyped
<1>7. IdsTyped'
  <2>1. pcidToPolicyChainKey' \subseteq pcidToPolicyChainKey
    BY <1>1 DEF PopPcid
  <2>2. nextPcid' = nextPcid
    BY DEF RemovePolicyChain
  <2> QED
    BY <2>1, <2>2 DEF IdsTyped
<1>8. todo = {}
  BY DEF RemovePolicyChain, SessionInv
<1>9. CommandTyped'
  BY <1>8 DEF RemovePolicyChain, CommandTyped
<1> QED
  BY <1>6, <1>7, <1>9

LEMMA ReplaceTyped ==
  ASSUME TablesTyped, IdsTyped, CommandTyped, SessionInv, NEW key, ReplaceMasterMB(key)
  PROVE  TablesTyped' /\ IdsTyped' /\ CommandTyped' /\ Keys' = Keys
<1> DEFINE data == policyChainKeyToData[key]
           chain == Replaced(data.chain, command.mb, NewMb)
           v == data.vlanId
<1>1. key \in Keys /\ key \in ChainKeys /\ data.chain \in Chains /\ v \in 1..(nextVlanId - 1)
  BY DEF ReplaceMasterMB, CommandTyped, TablesTyped, DataIn
<1>2. chain \in Chains
  BY <1>1, NewMbTyped, ReplacedTyped DEF ReplaceMasterMB
<1>3. PICK no \in MayRefuse(Requested(data.flow), refused) :
        Install(Uninstalled(rules, key, data, Requested(data.flow) \ no),
                key, chain, v, refused + Cardinality(no))
  BY DEF ReplaceMasterMB
<1>4. PICK before \in 0..MaxRefused : before = refused + Cardinality(no)
  BY RefusedCount, BoundsAssumption DEF TablesTyped
<1>5. PICK table \in SUBSET rules :
        table = Uninstalled(rules, key, data, Requested(data.flow) \ no)
  BY UninstalledIs
<1>6. nextVlanId' = nextVlanId /\ nextVlanId \in Nat \ {0}
  BY DEF ReplaceMasterMB, TablesTyped
<1> HIDE DEF chain, v
<1>7. PICK new \in SUBSET Places(Plan(key, chain, v)) :
        Installed(table, key, chain, v, before, new)
  BY <1>3, <1>4, <1>5, InstallIs
<1>8. TablesTyped' /\ Keys' = Keys \union {key}
  <2>1. nextVlanId' \in Nat \ {0} /\ nextVlanId <= nextVlanId' /\ v \in 1..(nextVlanId' - 1)
    BY <1>1, <1>6
  <2> QED
    BY <1>1, <1>2, <1>7, <2>1, InstallTyped
<1>9. Keys' = Keys
  BY <1>1, <1>8
<1>10. IdsTyped'
  BY DEF ReplaceMasterMB, IdsTyped
<1>11. CommandTyped'
  BY <1>9 DEF ReplaceMasterMB, CommandTyped
<1> QED
  BY <1>8, <1>9, <1>10, <1>11

LEMMA UnregisterTyped ==
  ASSUME TablesTyped, IdsTyped, CommandTyped, NEW key, UnregisterFrom(key)
  PROVE  TablesTyped' /\ IdsTyped' /\ CommandTyped'
<1> DEFINE flow == policyChainKeyToData[key].flow
<1>1. PICK no \in MayRefuse(Requested(flow), refused) :
        /\ rules' = Uninstalled(rules, key, policyChainKeyToData[key], Requested(flow) \ no)
        /\ refused' = refused + Cardinality(no)
  BY DEF UnregisterFrom
<1>2. refused' \in 0..MaxRefused
  BY <1>1, RefusedCount, BoundsAssumption DEF TablesTyped
<1>3. /\ Keys' = Keys /\ whole' \subseteq whole /\ nextVlanId' = nextVlanId
      /\ \A k \in Keys' : policyChainKeyToData'[k] = policyChainKeyToData[k]
  BY DEF UnregisterFrom, Keys
<1>4. rules' \subseteq rules
  BY <1>1, UninstalledIs
<1>5. whole' \subseteq Keys'
  BY <1>3 DEF TablesTyped
<1>6. TablesTyped'
  BY <1>2, <1>3, <1>4, <1>5, RestTyped
<1>7. IdsTyped'
  BY DEF UnregisterFrom, IdsTyped
<1>8. CommandTyped'
  BY <1>3 DEF UnregisterFrom, CommandTyped
<1> QED
  BY <1>6, <1>7, <1>8

LEMMA HandleTyped ==
  ASSUME TablesTyped, IdsTyped, CommandTyped, SessionInv, Handle
  PROVE  TablesTyped' /\ IdsTyped' /\ CommandTyped'
<1>1. CASE AddPolicyChain
  BY <1>1, AddTyped
<1>2. CASE RemovePolicyChain
  BY <1>2, RemoveTyped
<1>3. CASE RemoveUnknown
  BY <1>3 DEF RemoveUnknown, TablesTyped, IdsTyped, CommandTyped, Keys
<1>4. CASE BeginWithMiddlebox
  <2>1. todo' \subseteq Keys
    BY <1>4 DEF BeginWithMiddlebox, CommandTyped, ChainsWith
  <2> QED
    BY <1>4, <2>1 DEF BeginWithMiddlebox, TablesTyped, IdsTyped, CommandTyped, Keys
<1>5. CASE \E key \in todo : ReplaceMasterMB(key)
  BY <1>5, ReplaceTyped
<1>6. CASE \E key \in todo : UnregisterFrom(key)
  BY <1>6, UnregisterTyped
<1> QED
  BY <1>1, <1>2, <1>3, <1>4, <1>5, <1>6 DEF Handle

-----------------------------------------------------------------------------
(* The sessions, and type correctness. *)

TypeInv == TablesTyped /\ IdsTyped /\ CommandTyped /\ SessionTyped /\ SessionInv

LEMMA ChainPartsKept ==
  ASSUME TablesTyped, IdsTyped, CommandTyped, UNCHANGED chainVars
  PROVE  TablesTyped' /\ IdsTyped' /\ CommandTyped'
BY DEF chainVars, TablesTyped, IdsTyped, CommandTyped, Keys

\* The steps of a front end leave the command in progress to the one that gave it.
FrontEndSteps(f) == Start(f) \/ GiveCommand(f) \/ Die(f) \/ Quit(f) \/ Prompt(f)

LEMMA OneAccepted ==
  ASSUME TypeInv, NEW S, S = {} \/ \E f \in FrontEnds : S = {f}
  PROVE  S \subseteq FrontEnds /\ Cardinality(S) <= 1
<1>1. CASE S = {}
  <2>1. Cardinality(S) = 0
    BY <1>1, FS_EmptySet
  <2> QED
    BY <1>1, <2>1
<1>2. CASE \E f \in FrontEnds : S = {f}
  <2>1. Cardinality(S) = 1
    BY <1>2, FS_Singleton
  <2> QED
    BY <1>2, <2>1
<1> QED
  BY <1>1, <1>2

LEMMA PromptCounted ==
  ASSUME TypeInv, prompts < MaxPrompts
  PROVE  prompts + 1 \in 0..MaxPrompts
<1>1. prompts \in 0..MaxPrompts /\ MaxPrompts \in Nat
  BY SteeringAssumption DEF TypeInv, SessionTyped
<1> QED
  BY <1>1

LEMMA FrontEndTyped ==
  ASSUME TypeInv, NEW f \in FrontEnds, FrontEndSteps(f)
  PROVE  SessionTyped'
<1>1. CASE Start(f)
  <2>1. prompts' \in 0..MaxPrompts
    BY <1>1, PromptCounted DEF Start
  <2>2. backlog' \in Seq(FrontEnds)
    BY <1>1, AppendProperties DEF Start, TypeInv, SessionTyped
  <2> QED
    BY <1>1, <2>1, <2>2 DEF Start, TypeInv, SessionTyped
<1>2. CASE GiveCommand(f)
  BY <1>2 DEF GiveCommand, TypeInv, SessionTyped
<1>3. CASE Die(f)
  BY <1>3 DEF Die, TypeInv, SessionTyped
<1>4. CASE Quit(f)
  <2>1. accepted' = {} \/ \E g \in FrontEnds : accepted' = {g}
    BY <1>4 DEF Quit, TypeInv, SessionInv
  <2>2. accepted' \subseteq FrontEnds /\ Cardinality(accepted') <= 1
    BY <2>1, OneAccepted
  <2> QED
    BY <1>4, <2>2 DEF Quit, TypeInv, SessionTyped
<1>5. CASE Prompt(f)
  <2>1. prompts' \in 0..MaxPrompts
    BY <1>5, PromptCounted DEF Prompt
  <2> QED
    BY <1>5, <2>1 DEF Prompt, TypeInv, SessionTyped
<1> QED
  BY <1>1, <1>2, <1>3, <1>4, <1>5 DEF FrontEndSteps

LEMMA FrontEndSession ==
  ASSUME TypeInv, NEW f \in FrontEnds, FrontEndSteps(f)
  PROVE  SessionInv' /\ UNCHANGED chainVars /\ server' = server
<1>0. DOMAIN frontEnd = FrontEnds /\ DOMAIN given = FrontEnds
  BY DEF TypeInv, SessionTyped
<1>1. /\ UNCHANGED chainVars /\ server' = server
      /\ \A g \in FrontEnds : g # f => frontEnd'[g] = frontEnd[g] /\ given'[g] = given[g]
      /\ accepted' = accepted \/ (~Waits(f) /\ accepted' = accepted \ {f})
  <2>1. CASE Start(f)
    BY <1>0, <2>1 DEF Start
  <2>2. CASE GiveCommand(f)
    BY <1>0, <2>2 DEF GiveCommand
  <2>3. CASE Die(f)
    BY <1>0, <2>3 DEF Die
  <2>4. CASE Quit(f)
    BY <1>0, <2>4 DEF Quit, Waits
  <2>5. CASE Prompt(f)
    BY <1>0, <2>5 DEF Prompt
  <2> QED
    BY <2>1, <2>2, <2>3, <2>4, <2>5 DEF FrontEndSteps
<1>2. f \in accepted /\ Waits(f) => given'[f] = given[f] /\ frontEnd'[f] = frontEnd[f]
  BY DEF FrontEndSteps, Start, GiveCommand, Die, Quit, Prompt, Waits, HasConnection
<1>4. accepted' = {} \/ \E g \in FrontEnds : accepted' = {g}
  BY <1>1 DEF TypeInv, SessionInv
<1>3. ASSUME server' = "handle"
      PROVE  \E g \in FrontEnds : accepted' = {g} /\ Waits(g)' /\ command' = given'[g]
  <2>1. PICK g \in FrontEnds : accepted = {g} /\ Waits(g) /\ command = given[g]
    BY <1>1, <1>3 DEF TypeInv, SessionInv
  <2>2. given'[g] = given[g] /\ frontEnd'[g] = frontEnd[g]
    BY <1>1, <1>2, <2>1
  <2>3. accepted' = accepted
    BY <1>1, <2>1
  <2>4. command' = command
    BY <1>1 DEF chainVars
  <2> QED
    BY <2>1, <2>2, <2>3, <2>4 DEF Waits
<1> QED
  BY <1>1, <1>3, <1>4 DEF TypeInv, SessionInv, chainVars

\* What a step of the server leaves of the front ends and the chains.
chainsKept == UNCHANGED << policyChainKeyToData, pcidToPolicyChainKey, nextPcid, nextVlanId,
                           rules, todo, refused, whole >>

LEMMA ChainsKept ==
  ASSUME TablesTyped, IdsTyped, CommandTyped, chainsKept,
         command' \in Requests \union {NoCommand}, reply' \in {"none", "success", "failed"}
  PROVE  TablesTyped' /\ IdsTyped' /\ CommandTyped'
BY DEF chainsKept, TablesTyped, IdsTyped, CommandTyped, Keys

LEMMA AcceptTyped ==
  ASSUME TypeInv, Accept
  PROVE  SessionTyped' /\ SessionInv' /\ UNCHANGED chainVars
<1>1. Head(backlog) \in FrontEnds /\ Tail(backlog) \in Seq(FrontEnds)
  BY HeadTailProperties DEF Accept, TypeInv, SessionTyped
<1>2. accepted' \subseteq FrontEnds /\ Cardinality(accepted') <= 1
  BY <1>1, OneAccepted DEF Accept
<1>3. SessionTyped'
  BY <1>1, <1>2 DEF Accept, TypeInv, SessionTyped
<1>4. SessionInv'
  BY <1>1 DEF Accept, TypeInv, SessionInv, chainVars
<1> QED
  BY <1>3, <1>4 DEF Accept

LEMMA ReceiveTyped ==
  ASSUME TypeInv, Receive
  PROVE  TypeInv' /\ chainsKept
<1>1. PICK f \in accepted : Waits(f) /\ command' = given[f]
  BY DEF Receive
<1>2. f \in FrontEnds /\ accepted = {f}
  BY DEF TypeInv, SessionInv
<1>3. command' \in Requests \union {NoCommand} /\ reply' \in {"none", "success", "failed"}
  BY <1>1, <1>2 DEF Receive, TypeInv, SessionTyped
<1>4. TablesTyped' /\ IdsTyped' /\ CommandTyped' /\ chainsKept
  BY <1>3, ChainsKept DEF Receive, TypeInv, chainsKept
<1>5. SessionTyped'
  BY DEF Receive, TypeInv, SessionTyped
<1>6. SessionInv'
  BY <1>1, <1>2 DEF Receive, TypeInv, SessionInv, Waits
<1> QED
  BY <1>4, <1>5, <1>6 DEF TypeInv

\* An answer, or the end: the session of the command in progress is over.
LEMMA AnswerTyped ==
  ASSUME TypeInv, Answer
  PROVE  TypeInv' /\ chainsKept
<1>1. /\ chainsKept /\ reply' = reply /\ command' = NoCommand
      /\ server' = "accept" /\ accepted' = accepted /\ backlog' = backlog
      /\ prompts' = prompts
  BY DEF Answer, chainsKept
<1>2. TablesTyped' /\ IdsTyped' /\ CommandTyped'
  BY <1>1, ChainsKept DEF TypeInv, CommandTyped
<1>3. SessionTyped'
  BY <1>1 DEF Answer, TypeInv, SessionTyped
<1>4. SessionInv'
  <2>1. todo' = {}
    BY DEF Answer, Handled
  <2> QED
    BY <1>1, <2>1 DEF TypeInv, SessionInv
<1> QED
  BY <1>1, <1>2, <1>3, <1>4 DEF TypeInv

LEMMA ExitTyped ==
  ASSUME TypeInv, Exit
  PROVE  TypeInv' /\ chainsKept
<1>1. /\ chainsKept /\ reply' = reply /\ command' = NoCommand
      /\ server' = "stopped" /\ accepted' = {} /\ backlog' = <<>>
      /\ prompts' = prompts
  BY DEF Exit, chainsKept
<1>2. TablesTyped' /\ IdsTyped' /\ CommandTyped'
  BY <1>1, ChainsKept DEF TypeInv, CommandTyped
<1>3. SessionTyped'
  <2>1. Cardinality(accepted') <= 1
    BY <1>1, OneAccepted
  <2>2. backlog' \in Seq(FrontEnds)
    BY <1>1
  <2> QED
    BY <1>1, <2>1, <2>2 DEF Exit, TypeInv, SessionTyped
<1>4. SessionInv'
  <2>1. todo' = {}
    BY DEF Exit, TypeInv, SessionInv
  <2> QED
    BY <1>1, <2>1 DEF SessionInv
<1> QED
  BY <1>1, <1>2, <1>3, <1>4 DEF TypeInv

LEMMA HandleSession ==
  ASSUME TypeInv, Handle, UNCHANGED sessionVars, server = "handle"
  PROVE  SessionInv'
<1>1. command' = command
  BY DEF Handle, AddPolicyChain, RemovePolicyChain, RemoveUnknown, BeginWithMiddlebox,
         ReplaceMasterMB, UnregisterFrom
<1>2. ASSUME todo' # {}
      PROVE  /\ reply' # "none"
             /\ command.op \in {"stopmaster", "replacemaster", "unregmb"}
             /\ command.op = "stopmaster" => command.mb \in DOMAIN masterToSlave
  <2>1. CASE AddPolicyChain \/ RemovePolicyChain \/ RemoveUnknown
    BY <1>2, <2>1 DEF AddPolicyChain, RemovePolicyChain, RemoveUnknown, TypeInv, SessionInv
  <2>2. CASE BeginWithMiddlebox
    BY <1>2, <2>2 DEF BeginWithMiddlebox, TypeInv, SessionInv
  <2>3. CASE \E key \in todo : ReplaceMasterMB(key) \/ UnregisterFrom(key)
    BY <1>2, <2>3 DEF ReplaceMasterMB, UnregisterFrom, TypeInv, SessionInv
  <2> QED
    BY <2>1, <2>2, <2>3 DEF Handle
<1>3. \A g \in FrontEnds : Waits(g)' <=> Waits(g)
  BY DEF sessionVars, Waits
<1> QED
  BY <1>1, <1>2, <1>3 DEF TypeInv, SessionInv, sessionVars

LEMMA TypeStep ==
  ASSUME TypeInv, [Next]_vars
  PROVE  TypeInv'
<1>1. CASE \E f \in FrontEnds : FrontEndSteps(f)
  <2>1. SessionTyped' /\ SessionInv' /\ UNCHANGED chainVars
    BY <1>1, FrontEndTyped, FrontEndSession
  <2> QED
    BY <2>1, ChainPartsKept DEF TypeInv
<1>2. CASE Accept
  BY <1>2, AcceptTyped, ChainPartsKept DEF TypeInv
<1>3. CASE Receive
  BY <1>3, ReceiveTyped
<1>4. CASE HandleCommand
  <2>1. Handle /\ UNCHANGED sessionVars /\ server = "handle"
    BY <1>4 DEF HandleCommand
  <2>2. SessionTyped'
    BY <2>1 DEF sessionVars, TypeInv, SessionTyped
  <2> QED
    BY <2>1, <2>2, HandleTyped, HandleSession DEF TypeInv
<1>5. CASE Answer
  BY <1>5, AnswerTyped
<1>6. CASE Exit
  BY <1>6, ExitTyped
<1>7. CASE UNCHANGED vars
  <2>1. UNCHANGED chainVars /\ UNCHANGED sessionVars
    BY <1>7 DEF vars
  <2>2. SessionTyped'
    BY <2>1 DEF sessionVars, TypeInv, SessionTyped
  <2>3. SessionInv'
    BY <2>1 DEF sessionVars, chainVars, TypeInv, SessionInv, Waits
  <2> QED
    BY <2>1, <2>2, <2>3, ChainPartsKept DEF TypeInv
<1> QED
  BY <1>1, <1>2, <1>3, <1>4, <1>5, <1>6, <1>7 DEF Next, Server, FrontEndSteps

LEMMA TypeInit == Init => TypeInv
<1> SUFFICES ASSUME Init PROVE TypeInv
  OBVIOUS
<1>1. Keys = {}
  BY DEF Init, InitChains, Keys
<1>2. TablesTyped
  <2>1. refused \in 0..MaxRefused
    BY BoundsAssumption DEF Init, InitChains
  <2> QED
    BY <1>1, <2>1 DEF Init, InitChains, TablesTyped
<1>3. IdsTyped /\ CommandTyped
  BY <1>1 DEF Init, InitChains, IdsTyped, CommandTyped
<1>4. SessionTyped
  <2>1. Cardinality(accepted) <= 1
    <3>1. Cardinality({}) = 0
      BY FS_EmptySet
    <3> QED
      BY <3>1 DEF Init
  <2>2. prompts \in 0..MaxPrompts
    BY SteeringAssumption DEF Init
  <2> QED
    BY <2>1, <2>2 DEF Init, SessionTyped
<1>5. SessionInv
  BY DEF Init, InitChains, SessionInv
<1> QED
  BY <1>2, <1>3, <1>4, <1>5 DEF TypeInv

LEMMA Typed == Spec => []TypeInv
<1>1. TypeInv /\ [Next]_vars => TypeInv'
  BY TypeStep
<1> QED
  BY <1>1, TypeInit, PTL DEF Spec

\* Whatever the operators type and the controller refuses, the back end's tables and
\* the rules on the switches speak of known switches, ports and VLAN ids it gave out.
THEOREM SteeringTypeCorrect == Spec => []TypeOK
<1>1. TypeInv => TypeOK
  BY TypeParts DEF TypeInv
<1> QED
  BY <1>1, Typed, PTL

-----------------------------------------------------------------------------
(* Careful operators. What the back end has not handled yet is as far apart  *)
(* from the chains it knows as they are from each other.                     *)

\* A front end has given a chain to add, and the back end has not handled it.
AddPending(f) ==
  /\ given[f].op = "addpolicychain" /\ given[f].key.fields # {}
  /\ ~(server = "handle" /\ f \in accepted /\ reply # "none")

AddsApart ==
  /\ \A f \in FrontEnds : AddPending(f) =>
       \A k \in Keys : k.fields \intersect given[f].key.fields = {}
  /\ \A f, g \in FrontEnds : AddPending(f) /\ AddPending(g) /\ f # g =>
       given[f].key.fields \intersect given[g].key.fields = {}

LEMMA ApartKept ==
  ASSUME AddsApart, Keys' \subseteq Keys,
         \A f \in FrontEnds : AddPending(f)' => AddPending(f) /\ given'[f] = given[f]
  PROVE  AddsApart'
BY DEF AddsApart

LEMMA FrontEndApart ==
  ASSUME TypeInv, AddsApart, Careful, NEW f \in FrontEnds, FrontEndSteps(f)
  PROVE  AddsApart'
<1>0. DOMAIN frontEnd = FrontEnds /\ DOMAIN given = FrontEnds
  BY DEF TypeInv, SessionTyped
<1>1. /\ Keys' = Keys /\ server' = server /\ reply' = reply
      /\ \A g \in FrontEnds : g # f => given'[g] = given[g]
      /\ \A g \in FrontEnds : g # f => (g \in accepted' <=> g \in accepted)
  <2>1. UNCHANGED chainVars /\ server' = server
    BY FrontEndSession
  <2>2. \A g \in FrontEnds : g # f => given'[g] = given[g]
    BY <1>0 DEF FrontEndSteps, Start, GiveCommand, Die, Quit, Prompt
  <2>3. \A g \in FrontEnds : g # f => (g \in accepted' <=> g \in accepted)
    BY DEF FrontEndSteps, Start, GiveCommand, Die, Quit, Prompt
  <2> QED
    BY <2>1, <2>2, <2>3 DEF chainVars, Keys
<1>2. \A g \in FrontEnds : g # f => (AddPending(g)' <=> AddPending(g))
  BY <1>1 DEF AddPending
<1>3. CASE Start(f) \/ Quit(f) \/ Prompt(f)
  <2>1. given' = given
    BY <1>3 DEF Start, Quit, Prompt
  <2>2. AddPending(f)' => AddPending(f)
    <3>1. CASE server # "handle"
      BY <1>1, <2>1, <3>1 DEF AddPending
    <3>2. CASE server = "handle" /\ f \in accepted
      <4>1. accepted' = accepted
        <5>1. Waits(f)
          BY <3>2 DEF TypeInv, SessionInv
        <5> QED
          BY <1>3, <5>1 DEF Start, Quit, Prompt, Waits
      <4> QED
        BY <1>1, <2>1, <4>1 DEF AddPending
    <3>3. CASE f \notin accepted
      BY <1>1, <2>1, <3>3 DEF AddPending
    <3> QED
      BY <3>1, <3>2, <3>3
  <2> QED
    BY <1>1, <1>2, <2>1, <2>2, ApartKept
<1>4. CASE Die(f)
  <2>1. given'[f] = NoCommand
    BY <1>0, <1>4 DEF Die
  <2>2. ~AddPending(f)'
    BY <2>1 DEF AddPending, NoCommand
  <2> QED
    BY <1>1, <1>2, <2>2, ApartKept
<1>5. CASE GiveCommand(f)
  <2>1. PICK c \in Requests : ~Clashes(c) /\ given' = [ given EXCEPT ![f] = c ]
    BY <1>5 DEF GiveCommand
  <2>2. given'[f] = c
    BY <1>0, <2>1
  <2>3. ASSUME c.op = "addpolicychain"
        PROVE  /\ \A k \in Keys : k.fields \intersect c.key.fields = {}
               /\ \A g \in FrontEnds : given[g].op = "addpolicychain" =>
                    given[g].key.fields \intersect c.key.fields = {}
    BY <2>1, <2>3 DEF Clashes
  <2>4. ASSUME NEW g \in FrontEnds, AddPending(g)', NEW k \in Keys'
        PROVE  k.fields \intersect given'[g].key.fields = {}
    <3>1. CASE g = f
      BY <1>1, <2>2, <2>3, <2>4, <3>1 DEF AddPending
    <3>2. CASE g # f
      BY <1>1, <1>2, <2>4, <3>2 DEF AddsApart
    <3> QED
      BY <3>1, <3>2
  <2>5. ASSUME NEW g \in FrontEnds, NEW h \in FrontEnds, AddPending(g)', AddPending(h)', g # h
        PROVE  given'[g].key.fields \intersect given'[h].key.fields = {}
    <3>1. CASE g = f
      BY <1>1, <1>2, <2>2, <2>3, <2>5, <3>1 DEF AddPending
    <3>2. CASE h = f
      BY <1>1, <1>2, <2>2, <2>3, <2>5, <3>2 DEF AddPending
    <3>3. CASE g # f /\ h # f
      BY <1>1, <1>2, <2>5, <3>3 DEF AddsApart
    <3> QED
      BY <3>1, <3>2, <3>3
  <2> QED
    BY <2>4, <2>5 DEF AddsApart
<1> QED
  BY <1>3, <1>4, <1>5 DEF FrontEndSteps

LEMMA ServerApart ==
  ASSUME TypeInv, AddsApart, Accept \/ Receive \/ Answer \/ Exit
  PROVE  AddsApart'
<1>0. DOMAIN given = FrontEnds
  BY DEF TypeInv, SessionTyped
<1>1. Keys' = Keys
  BY DEF Accept, Receive, Answer, Exit, chainVars, Keys
<1>2. ASSUME NEW f \in FrontEnds, AddPending(f)'
      PROVE  AddPending(f) /\ given'[f] = given[f]
  <2>1. CASE Accept
    BY <1>2, <2>1 DEF Accept, AddPending
  <2>2. CASE Receive
    BY <1>2, <2>2 DEF Receive, AddPending
  <2>3. CASE Answer \/ Exit
    <3>1. PICK g \in accepted : given' = [ given EXCEPT ![g] = NoCommand ]
      BY <2>3 DEF Answer, Exit
    <3>2. server = "handle" /\ g \in FrontEnds /\ accepted = {g}
      BY <2>3, <3>1 DEF Answer, Exit, TypeInv, SessionInv
    <3>3. f # g
      BY <1>0, <1>2, <3>1, <3>2 DEF AddPending, NoCommand
    <3>4. given'[f] = given[f]
      BY <1>0, <3>1, <3>3
    <3> QED
      BY <1>2, <3>2, <3>3, <3>4 DEF AddPending
  <2> QED
    BY <2>1, <2>2, <2>3
<1> QED
  BY <1>1, <1>2, ApartKept

LEMMA PendingMayAdd ==
  ASSUME TypeInv, AddsApart, server = "handle", reply = "none",
         command.op = "addpolicychain", command.key.fields # {}
  PROVE  /\ MayAdd(command.key)
         /\ \E f \in FrontEnds : accepted = {f} /\ command = given[f] /\ AddPending(f)
<1>1. PICK f \in FrontEnds : accepted = {f} /\ command = given[f]
  BY DEF TypeInv, SessionInv
<1>2. AddPending(f)
  BY <1>1 DEF AddPending
<1>3. command \in Requests /\ command.key \in ChainKeys
  BY CommandParts DEF TypeInv, CommandTyped, NoCommand
<1>4. Asked(command.key)
  BY <1>3 DEF Asked
<1> QED
  BY <1>1, <1>2, <1>3, <1>4 DEF MayAdd, AddsApart

LEMMA AddKeys ==
  ASSUME TablesTyped, IdsTyped, CommandTyped, AddPolicyChain
  PROVE  /\ command.key.fields = {} => Keys' = Keys
         /\ command.key.fields # {} => Keys' = Keys \union {command.key}
BY DEF AddPolicyChain, Install, Keys

LEMMA HandleApart ==
  ASSUME TypeInv, AddsApart, Handle, UNCHANGED sessionVars, server = "handle"
  PROVE  AddsApart'
<1>1. reply' = "none" => reply = "none"
  BY DEF Handle, AddPolicyChain, RemovePolicyChain, RemoveUnknown, BeginWithMiddlebox,
         ReplaceMasterMB, UnregisterFrom
<1>2. \A f \in FrontEnds : /\ AddPending(f)' => AddPending(f)
                           /\ given'[f] = given[f]
                           /\ AddPending(f)' /\ f \in accepted => reply' = "none"
  BY <1>1 DEF AddPending, sessionVars
<1>3. CASE AddPolicyChain /\ command.key.fields # {}
  <2>1. /\ Keys' = Keys \union {command.key}
        /\ reply = "none" /\ reply' # "none" /\ command.op = "addpolicychain"
    BY <1>3, AddKeys DEF TypeInv, AddPolicyChain
  <2>2. PICK f \in FrontEnds : accepted = {f} /\ command = given[f] /\ AddPending(f)
    BY <1>3, <2>1, PendingMayAdd
  <2>3. ~AddPending(f)'
    BY <1>2, <2>1, <2>2
  <2>4. ASSUME NEW g \in FrontEnds, AddPending(g)', NEW k \in Keys'
        PROVE  k.fields \intersect given'[g].key.fields = {}
    <3>1. g # f /\ AddPending(g) /\ given'[g] = given[g]
      BY <1>2, <2>3, <2>4
    <3>2. CASE k \in Keys
      BY <3>1, <3>2 DEF AddsApart
    <3>3. CASE k = command.key
      BY <2>2, <3>1, <3>3 DEF AddsApart
    <3> QED
      BY <2>1, <3>2, <3>3
  <2> QED
    BY <1>2, <2>4 DEF AddsApart
<1>4. CASE Keys' \subseteq Keys
  BY <1>2, <1>4, ApartKept
<1>5. CASE AddPolicyChain /\ command.key.fields = {}
  <2>1. Keys' = Keys
    BY <1>5, AddKeys DEF TypeInv
  <2> QED
    BY <1>4, <2>1
<1>6. CASE RemovePolicyChain
  <2>1. Keys' \subseteq Keys
    BY <1>6 DEF RemovePolicyChain, Keys
  <2> QED
    BY <1>4, <2>1
<1>7. CASE \E key \in todo : ReplaceMasterMB(key)
  <2>1. Keys' = Keys
    BY <1>7, ReplaceTyped DEF TypeInv
  <2> QED
    BY <1>4, <2>1
<1>8. CASE RemoveUnknown \/ BeginWithMiddlebox \/ \E key \in todo : UnregisterFrom(key)
  <2>1. Keys' = Keys
    BY <1>8 DEF RemoveUnknown, BeginWithMiddlebox, UnregisterFrom, Keys
  <2> QED
    BY <1>4, <2>1
<1> QED
  BY <1>3, <1>5, <1>6, <1>7, <1>8 DEF Handle

\* The policy chain ids: a removed chain's id goes with it, and a chain that is added
\* was not there.
LEMMA PcidsStep ==
  ASSUME TypeInv, AddsApart, PcidsKnown, Handle, server = "handle"
  PROVE  PcidsKnown'
<1>1. CASE AddPolicyChain
  <2>1. CASE pcidToPolicyChainKey' = pcidToPolicyChainKey
    <3>1. Keys \subseteq Keys'
      BY <1>1, AddKeys DEF TypeInv
    <3> QED
      BY <2>1, <3>1 DEF PcidsKnown
  <2>2. CASE /\ command.key.fields # {}
             /\ pcidToPolicyChainKey' = pcidToPolicyChainKey \union {<< nextPcid, command.key >>}
    <3>1. Keys' = Keys \union {command.key}
      BY <1>1, <2>2, AddKeys DEF TypeInv
    <3>2. MayAdd(command.key)
      BY <1>1, <2>2, PendingMayAdd DEF AddPolicyChain
    <3>3. command.key \notin Keys
      BY <2>2, <3>2 DEF MayAdd
    <3>4. \A p \in pcidToPolicyChainKey : p[2] \in Keys /\ p[2] # command.key
      BY <3>3 DEF PcidsKnown
    <3>5. << nextPcid, command.key >>[2] = command.key
      OBVIOUS
    <3>6. \A p \in pcidToPolicyChainKey' : p[2] \in Keys'
      BY <2>2, <3>1, <3>4, <3>5
    <3>7. ASSUME NEW p \in pcidToPolicyChainKey', NEW q \in pcidToPolicyChainKey', p[2] = q[2]
          PROVE  p = q
      <4>1. CASE p \in pcidToPolicyChainKey /\ q \in pcidToPolicyChainKey
        BY <3>7, <4>1 DEF PcidsKnown
      <4>2. CASE p \notin pcidToPolicyChainKey
        BY <2>2, <3>4, <3>5, <3>7, <4>2
      <4>3. CASE q \notin pcidToPolicyChainKey
        BY <2>2, <3>4, <3>5, <3>7, <4>3
      <4> QED
        BY <4>1, <4>2, <4>3
    <3> QED
      BY <3>6, <3>7 DEF PcidsKnown
  <2> QED
    BY <1>1, <2>1, <2>2 DEF AddPolicyChain
<1>2. CASE RemovePolicyChain
  <2>1. Keys' = Keys \ {command.key} /\ PopPcid(command.key)
    BY <1>2 DEF RemovePolicyChain, Keys
  <2>2. \A p \in pcidToPolicyChainKey' : p \in pcidToPolicyChainKey /\ p[2] # command.key
    BY <2>1 DEF PopPcid, PcidsKnown
  <2> QED
    BY <2>1, <2>2 DEF PcidsKnown
<1>3. CASE RemoveUnknown \/ BeginWithMiddlebox \/ \E key \in todo : UnregisterFrom(key)
  BY <1>3 DEF RemoveUnknown, BeginWithMiddlebox, UnregisterFrom, PcidsKnown, Keys
<1>4. CASE \E key \in todo : ReplaceMasterMB(key)
  <2>1. Keys' = Keys
    BY <1>4, ReplaceTyped DEF TypeInv
  <2>2. pcidToPolicyChainKey' = pcidToPolicyChainKey
    BY <1>4 DEF ReplaceMasterMB
  <2> QED
    BY <2>1, <2>2 DEF PcidsKnown
<1> QED
  BY <1>1, <1>2, <1>3, <1>4 DEF Handle

\* While a replacement goes on, the chains through the old master are still to do.
ReplacingInv ==
  /\ command.op \in {"stopmaster", "replacemaster"} /\ reply = "success"
  /\ command.mb # NewMb
  => ChainsWith(command.mb) \subseteq todo

LEMMA ReplacingStep ==
  ASSUME TypeInv, ReplacingInv, Handle
  PROVE  ReplacingInv'
<1>0. command' = command /\ NewMb' = NewMb
  <2>1. command' = command
    BY DEF Handle, AddPolicyChain, RemovePolicyChain, RemoveUnknown, BeginWithMiddlebox,
           ReplaceMasterMB, UnregisterFrom
  <2> QED
    BY <2>1 DEF NewMb
<1>1. CASE AddPolicyChain \/ RemovePolicyChain \/ RemoveUnknown
           \/ \E key \in todo : UnregisterFrom(key)
  BY <1>0, <1>1 DEF AddPolicyChain, RemovePolicyChain, RemoveUnknown, UnregisterFrom, ReplacingInv
<1>2. CASE BeginWithMiddlebox
  BY <1>0, <1>2 DEF BeginWithMiddlebox, ReplacingInv, ChainsWith, Keys
<1>3. ASSUME NEW key \in todo, ReplaceMasterMB(key), reply' = "success", command.mb # NewMb
      PROVE  ChainsWith(command.mb)' \subseteq todo'
  <2>1. reply = "success" /\ command.op \in {"stopmaster", "replacemaster"}
        /\ todo' = todo \ {key} /\ Keys' = Keys
    BY <1>3, ReplaceTyped DEF ReplaceMasterMB, TypeInv
  <2>2. ChainsWith(command.mb) \subseteq todo
    BY <1>3, <2>1 DEF ReplacingInv
  <2>3. \A k \in Keys : k # key => policyChainKeyToData'[k] = policyChainKeyToData[k]
    BY <1>3 DEF ReplaceMasterMB, Install
  <2>4. policyChainKeyToData'[key].chain =
          Replaced(policyChainKeyToData[key].chain, command.mb, NewMb)
    BY <1>3 DEF ReplaceMasterMB, Install
  <2>5. key \notin ChainsWith(command.mb)'
    BY <1>0, <1>3, <2>4 DEF ChainsWith, Replaced
  <2>6. ChainsWith(command.mb)' \subseteq ChainsWith(command.mb) \union {key}
    BY <1>0, <2>1, <2>3 DEF ChainsWith
  <2> QED
    BY <2>1, <2>2, <2>5, <2>6
<1>4. CASE \E key \in todo : ReplaceMasterMB(key)
  BY <1>0, <1>3, <1>4 DEF ReplacingInv
<1> QED
  BY <1>1, <1>2, <1>4 DEF Handle

SteerInv == ChainsInv /\ AddsApart /\ PcidsKnown /\ ReplacingInv

LEMMA ChainsStep ==
  ASSUME TypeInv, SteerInv, Handle, server = "handle"
  PROVE  ChainsInv'
<1>1. /\ KnownTyped /\ ChainsInv /\ refused \in 0..MaxRefused /\ todo \subseteq Keys
      /\ nextVlanId \in Nat \ {0} /\ \A k \in Keys : VlanOf(k) < nextVlanId
  BY TypesKnown DEF TypeInv, SteerInv, TablesTyped, CommandTyped
<1>2. CASE AddPolicyChain
  <2>1. command.key.fields # {} => MayAdd(command.key)
    BY <1>2, PendingMayAdd DEF AddPolicyChain, SteerInv
  <2> QED
    BY <1>1, <1>2, <2>1, AddKeeps
<1>3. CASE RemovePolicyChain
  BY <1>1, <1>3, RemoveKeeps
<1>4. CASE RemoveUnknown \/ BeginWithMiddlebox
  BY <1>1, <1>4, QuietKeeps DEF RemoveUnknown, BeginWithMiddlebox
<1>5. ASSUME NEW key \in todo, ReplaceMasterMB(key) PROVE ChainsInv'
  <2>1. policyChainKeyToData[key].chain \in Chains
    BY <1>1 DEF KnownTyped, DataTyped
  <2>2. NewMb \in STRING
    BY <1>5, NewMbTyped DEF ReplaceMasterMB, TypeInv
  <2> QED
    BY <1>1, <1>5, <2>1, <2>2, ReplacedTyped, ReplaceKeeps
<1>6. CASE \E key \in todo : UnregisterFrom(key)
  BY <1>1, <1>6, UnregisterKeeps
<1> QED
  BY <1>2, <1>3, <1>4, <1>5, <1>6 DEF Handle

LEMMA SteerStep ==
  ASSUME TypeInv, SteerInv, Careful, [Next]_vars
  PROVE  SteerInv'
<1>1. CASE HandleCommand
  BY <1>1, ChainsStep, HandleApart, PcidsStep, ReplacingStep DEF HandleCommand, SteerInv
<1>2. ASSUME chainsKept PROVE ChainsInv' /\ PcidsKnown'
  <2>1. KnownTyped
    BY TypesKnown DEF TypeInv
  <2>2. ChainsInv'
    BY <1>2, <2>1, QuietKeeps DEF chainsKept, SteerInv
  <2> QED
    BY <1>2, <2>2 DEF chainsKept, SteerInv, PcidsKnown, Keys
<1>3. CASE Receive \/ Answer \/ Exit
  <2>1. chainsKept
    BY <1>3, ReceiveTyped, AnswerTyped, ExitTyped
  <2>2. ReplacingInv'
    BY <1>3 DEF Receive, Answer, Exit, ReplacingInv, NoCommand
  <2> QED
    BY <1>2, <1>3, <2>1, <2>2, ServerApart DEF SteerInv
<1>4. ASSUME UNCHANGED chainVars PROVE chainsKept /\ ReplacingInv'
  BY <1>4 DEF chainVars, chainsKept, SteerInv, ReplacingInv, NewMb, ChainsWith, Keys
<1>5. CASE \E f \in FrontEnds : FrontEndSteps(f)
  BY <1>2, <1>4, <1>5, FrontEndSession, FrontEndApart DEF SteerInv
<1>6. CASE Accept
  BY <1>2, <1>4, <1>6, ServerApart DEF Accept, SteerInv
<1>7. CASE UNCHANGED vars
  <2>1. UNCHANGED chainVars /\ UNCHANGED sessionVars
    BY <1>7 DEF vars
  <2>2. AddsApart'
    BY <2>1 DEF chainVars, sessionVars, SteerInv, AddsApart, AddPending, Keys
  <2> QED
    BY <1>2, <1>4, <2>1, <2>2 DEF SteerInv
<1> QED
  BY <1>1, <1>3, <1>5, <1>6, <1>7 DEF Next, Server, FrontEndSteps

LEMMA SteerInit == Init => SteerInv
<1> SUFFICES ASSUME Init PROVE SteerInv
  OBVIOUS
<1>1. Keys = {} /\ rules = {} /\ whole = {} /\ pcidToPolicyChainKey = {}
  BY DEF Init, InitChains, Keys
<1>2. ChainsInv
  BY <1>1 DEF ChainsInv, KeysApart, VlansApart, FlowsFull, NoStrayRules, NoTwins, FieldsKnown,
              WholeIn
<1>3. AddsApart
  BY DEF Init, AddsApart, AddPending, NoCommand
<1>4. PcidsKnown
  BY <1>1 DEF PcidsKnown
<1>5. ReplacingInv
  BY DEF Init, InitChains, ReplacingInv, NoCommand
<1> QED
  BY <1>2, <1>3, <1>4, <1>5 DEF SteerInv

LEMMA CarefulSteering ==
  ASSUME Careful
  PROVE  Spec => [](TypeInv /\ SteerInv)
<1>1. Init => TypeInv /\ SteerInv
  BY TypeInit, SteerInit
<1>2. TypeInv /\ SteerInv /\ [Next]_vars => (TypeInv /\ SteerInv)'
  BY TypeStep, SteerStep
<1> QED
  BY <1>1, <1>2, PTL DEF Spec

-----------------------------------------------------------------------------
\* As long as the operators add no chain whose match fields a known one has, each
\* policy chain id is that of a known chain, and no chain has two (popPcid takes one).
THEOREM PcidsAreKnown ==
  ASSUME Careful
  PROVE  Spec => []PcidsKnown
<1>1. TypeInv /\ SteerInv => PcidsKnown
  BY DEF SteerInv
<1> QED
  BY <1>1, CarefulSteering, PTL

\* If besides the controller accepts everything, no rule is left on a switch that is
\* not of a known chain: the full flow, the VLAN id and the header fields lead
\* uninstallPolicyChainRules to every rule of the chain.
THEOREM RulesDoNotStray ==
  ASSUME Careful
  PROVE  Spec => []NoStrayRules
<1>1. TypeInv /\ SteerInv => NoStrayRules
  BY DEF SteerInv, ChainsInv
<1> QED
  BY <1>1, CarefulSteering, PTL

\* Then, when the back end answers that a master was replaced, no rule leads to it.
THEOREM OldMasterIsLeft ==
  ASSUME Careful
  PROVE  Spec => []ReplacedEverywhere
<1>1. ASSUME TypeInv, SteerInv, ReplacedSucceeded, refused = 0, NEW r \in rules
      PROVE  r.out # command.mb
  <2>1. ChainsWith(command.mb) = {}
    BY <1>1 DEF SteerInv, ReplacingInv, ReplacedSucceeded, Handled
  <2>2. PICK k \in Keys : OfChain(r, k)
    BY <1>1, NoStrayRulesIs DEF SteerInv, ChainsInv
  <2>3. PICK p \in Places(P(k)) : r = RuleAt(P(k), p)
    BY <2>2 DEF OfChain
  <2>4. RuleFacts(k, policyChainKeyToData[k].chain, VlanOf(k), p, r)
    BY <1>1, <2>3, TypesKnown, KnownRules DEF TypeInv
  <2>5. \A i \in DOMAIN policyChainKeyToData[k].chain :
          policyChainKeyToData[k].chain[i] # command.mb
    BY <2>1 DEF ChainsWith
  <2>6. command.mb \notin Switches
    BY <1>1, NamesAssumption DEF ReplacedSucceeded
  <2> QED
    BY <2>4, <2>5, <2>6 DEF RuleFacts
<1>2. TypeInv /\ SteerInv => ReplacedEverywhere
  BY <1>1 DEF ReplacedEverywhere
<1> QED
  BY <1>2, CarefulSteering, PTL

\* The chains the operators add have the same match fields, or none in common.
FieldsApart ==
  \A c, d \in Requests :
    c.op = "addpolicychain" /\ d.op = "addpolicychain" =>
      c.key.fields = d.key.fields \/ c.key.fields \intersect d.key.fields = {}

\* The packet of a chain that meets one of its rules.
MeantFor(key, r) ==
  [ switch |-> r.switch, inPort |-> r.inPort, tag |-> r.vlan, fields |-> key.fields ]

\* At each place of its way a packet of a chain that the controller accepted in full is
\* matched by the chain's own rule only.
LEMMA HopTaken ==
  ASSUME FieldsApart, TypeInv, SteerInv,
         NEW k \in whole, Unambiguous(P(k)), NEW p \in Places(P(k))
  PROVE  Matching(MeantFor(k, RuleAt(P(k), p))) = {RuleAt(P(k), p)}
<1> DEFINE r == RuleAt(P(k), p)
           packet == MeantFor(k, r)
<1>1. KnownTyped /\ ChainsInv /\ k \in Keys
  BY TypesKnown DEF TypeInv, SteerInv, TablesTyped
<1>2. r \in rules
  BY <1>1 DEF ChainsInv, WholeIn
<1>3. VlanOf(k) \in Nat \ {0}
  BY <1>1 DEF KnownTyped, DataTyped, VlanOf
<1>4. RuleFacts(k, policyChainKeyToData[k].chain, VlanOf(k), p, r)
  BY <1>1, KnownRules
<1>5. k.fields # {} /\ Asked(k)
  BY <1>1 DEF ChainsInv, KeysApart
<1> HIDE DEF r
<1>6. /\ packet.switch = r.switch /\ packet.inPort = r.inPort
      /\ packet.tag = r.vlan /\ packet.fields = k.fields
  BY DEF MeantFor
<1>7. /\ r.vlan = 0 => r.fields = k.fields
      /\ r.vlan # 0 => r.fields = {}
  BY <1>3, <1>4 DEF RuleFacts
<1> HIDE DEF packet
<1>8. r \in Matching(packet)
  BY <1>2, <1>6, <1>7 DEF Matching
<1>9. ASSUME NEW s \in Matching(packet) PROVE s = r
  <2>1. /\ s \in rules /\ s.switch = r.switch /\ s.inPort = r.inPort /\ s.vlan = r.vlan
        /\ r.vlan = 0 => s.fields \subseteq k.fields
    BY <1>6, <1>9 DEF Matching
  <2>2. s.fields = r.fields
    <3>1. CASE r.vlan # 0
      BY <1>1, <1>7, <2>1, <3>1 DEF ChainsInv, FieldsKnown
    <3>2. CASE r.vlan = 0
      <4>1. PICK key : Asked(key) /\ key.fields = s.fields /\ s.fields # {}
        BY <1>1, <2>1, <3>2 DEF ChainsInv, FieldsKnown
      <4>2. s.fields = k.fields
        BY <1>5, <2>1, <3>2, <4>1 DEF FieldsApart, Asked
      <4> QED
        BY <1>7, <3>2, <4>2
    <3> QED
      BY <3>1, <3>2
  <2> QED
    BY <1>1, <1>2, <2>1, <2>2 DEF ChainsInv, NoTwins, SameMatch
<1> QED
  BY <1>8, <1>9 DEF packet, r

-----------------------------------------------------------------------------
(* Where a packet goes, step by step. *)

LEMMA LeastMember ==
  ASSUME NEW T \in SUBSET Nat, T # {}
  PROVE  \E x \in T : \A y \in T : x <= y
<1>1. \E x \in T : \A y \in T : ~ (<<y, x>> \in OpToRel(<, Nat))
  BY NatLessThanWellFounded, WFMin
<1>2. PICK x \in T : \A y \in T : ~ (<<y, x>> \in OpToRel(<, Nat))
  BY <1>1
<1>3. ASSUME NEW y \in T PROVE x <= y
  <2>1. x \in Nat /\ y \in Nat
    OBVIOUS
  <2>2. ~ (y < x)
    BY <1>2, <2>1 DEF OpToRel
  <2> QED
    BY <2>1, <2>2
<1> QED
  BY <1>3

\* A set of naturals with 0 and with the successor of each of its members has them all.
LEMMA AllNaturals ==
  ASSUME NEW T \in SUBSET Nat, 0 \in T, \A n \in T : n + 1 \in T
  PROVE  \A n \in Nat : n \in T
<1> SUFFICES ASSUME Nat \ T # {} PROVE FALSE
  OBVIOUS
<1>1. PICK x \in Nat \ T : \A y \in Nat \ T : x <= y
  BY LeastMember
<1>2. x \in Nat /\ x # 0
  OBVIOUS
<1>3. x - 1 \in Nat /\ ~(x <= x - 1)
  BY <1>2
<1>4. x - 1 \in T
  BY <1>1, <1>3
<1>5. (x - 1) + 1 \in T
  BY <1>4
<1> QED
  BY <1>2, <1>5

\* The first m steps of a packet.
Steps(key, m, at) ==
  at = [ n \in 0..m |-> IF n = 0 THEN Sent(key) ELSE Taken(at[n - 1]) ]

LEMMA StepsAre ==
  ASSUME NEW key, NEW m \in Nat, NEW at
  PROVE  Steps(key, m, at) <=>
           /\ at = [ n \in 0..m |-> at[n] ]
           /\ at[0] = Sent(key)
           /\ \A n \in 0..(m - 1) : at[n + 1] = Taken(at[n])
<1>1. ASSUME Steps(key, m, at)
      PROVE  /\ at = [ n \in 0..m |-> at[n] ]
             /\ at[0] = Sent(key)
             /\ \A n \in 0..(m - 1) : at[n + 1] = Taken(at[n])
  <2>1. \A n \in 0..m : at[n] = IF n = 0 THEN Sent(key) ELSE Taken(at[n - 1])
    BY <1>1 DEF Steps
  <2>2. at = [ n \in 0..m |-> at[n] ]
    BY <1>1 DEF Steps
  <2>3. ASSUME NEW n \in 0..(m - 1) PROVE at[n + 1] = Taken(at[n])
    <3>1. n + 1 \in 0..m /\ n + 1 # 0 /\ (n + 1) - 1 = n
      OBVIOUS
    <3> QED
      BY <2>1, <3>1
  <2>4. at[0] = Sent(key)
    BY <2>1
  <2> QED
    BY Zenon, <2>2, <2>3, <2>4
<1>2. ASSUME at = [ n \in 0..m |-> at[n] ],
             at[0] = Sent(key),
             \A n \in 0..(m - 1) : at[n + 1] = Taken(at[n])
      PROVE  Steps(key, m, at)
  <2>1. ASSUME NEW n \in 0..m
        PROVE  at[n] = IF n = 0 THEN Sent(key) ELSE Taken(at[n - 1])
    <3>1. CASE n # 0
      <4>1. n - 1 \in 0..(m - 1) /\ (n - 1) + 1 = n
        BY <3>1
      <4> QED
        BY <1>2, <3>1, <4>1
    <3> QED
      BY <1>2, <3>1
  <2> QED
    BY <1>2, <2>1 DEF Steps
<1> QED
  BY <1>1, <1>2

\* However many steps, there are such, because each is determined by the one before.
LEMMA StepsExist ==
  ASSUME NEW key
  PROVE  \A m \in Nat : \E at : Steps(key, m, at)
<1> DEFINE T == { m \in Nat : \E at : Steps(key, m, at) }
<1>1. 0 \in T
  <2> DEFINE at == [ n \in 0..0 |-> Sent(key) ]
  <2>1. at[0] = Sent(key) /\ at = [ n \in 0..0 |-> at[n] ]
    OBVIOUS
  <2>2. \A n \in 0..(0 - 1) : at[n + 1] = Taken(at[n])
    OBVIOUS
  <2> HIDE DEF at
  <2>3. Steps(key, 0, at)
    BY <2>1, <2>2, StepsAre
  <2> QED
    BY <2>3
<1>2. ASSUME NEW m \in T PROVE m + 1 \in T
  <2>1. m \in Nat
    OBVIOUS
  <2>2. PICK f : Steps(key, m, f)
    BY <1>2
  <2>3. f[0] = Sent(key) /\ \A n \in 0..(m - 1) : f[n + 1] = Taken(f[n])
    BY <2>1, <2>2, StepsAre
  <2> DEFINE at == [ n \in 0..(m + 1) |-> IF n = m + 1 THEN Taken(f[m]) ELSE f[n] ]
  <2>4. /\ at = [ n \in 0..(m + 1) |-> at[n] ]
        /\ at[0] = Sent(key)
        /\ \A n \in 0..m : at[n] = f[n]
        /\ at[m + 1] = Taken(f[m])
    BY <2>1, <2>3
  <2> HIDE DEF at
  <2>5. ASSUME NEW n \in 0..((m + 1) - 1) PROVE at[n + 1] = Taken(at[n])
    <3>1. CASE n = m
      <4>1. m \in 0..m
        BY <2>1
      <4> QED
        BY Zenon, <2>4, <3>1, <4>1
    <3>2. CASE n # m
      <4>1. n \in 0..(m - 1) /\ n + 1 \in 0..m /\ n \in 0..m
        BY <2>1, <3>2
      <4> QED
        BY <2>3, <2>4, <4>1
    <3> QED
      BY <3>1, <3>2
  <2>6. m + 1 \in Nat
    BY <2>1
  <2>7. Steps(key, m + 1, at)
    BY <2>4, <2>5, <2>6, StepsAre
  <2> QED
    BY <2>6, <2>7
<1>3. T \in SUBSET Nat
  OBVIOUS
<1>4. \A n \in Nat : n \in T
  <2> HIDE DEF T
  <2> QED
    BY <1>1, <1>2, <1>3, AllNaturals
<1> QED
  BY <1>4

LEMMA MaxStepsIs ==
  /\ Cardinality(Switches) \in Nat /\ Cardinality(Middleboxes) \in Nat
  /\ MaxSteps \in Nat
<1>1. Cardinality(Switches) \in Nat /\ Cardinality(Middleboxes) \in Nat
  BY FiniteAssumption, FS_CardinalityType
<1> QED
  BY <1>1 DEF MaxSteps

LEMMA JourneyIs ==
  ASSUME NEW key
  PROVE  \E at : /\ at[0] = Sent(key)
                 /\ \A n \in 0..(MaxSteps - 1) : at[n + 1] = Taken(at[n])
                 /\ Journey(key) = at[MaxSteps]
<1>1. Journey(key) = (CHOOSE f : Steps(key, MaxSteps, f))[MaxSteps]
  BY DEF Journey, Steps
<1>2. PICK m \in Nat : m = MaxSteps
  BY MaxStepsIs
<1>3. PICK at : Steps(key, m, at) /\ Journey(key) = at[m]
  BY <1>1, <1>2, StepsExist
<1>4. at[0] = Sent(key) /\ \A n \in 0..(m - 1) : at[n + 1] = Taken(at[n])
  <2>1. Steps(key, m, at)
    BY <1>3
  <2> QED
    BY ONLY <2>1, StepsAre, m \in Nat
<1> QED
  BY Zenon, <1>2, <1>3, <1>4

\* What the rules of a known chain forward.
LEMMA TakenOn ==
  ASSUME FieldsApart, TypeInv, SteerInv,
         NEW k \in whole, Unambiguous(P(k)), NEW p \in Places(P(k)), NEW r, NEW packet,
         r = RuleAt(P(k), p),
         packet.switch = r.switch, packet.inPort = r.inPort, packet.tag = r.vlan,
         packet.fields = k.fields
  PROVE  Taken(packet) = Forwarded(packet, r)
<1> DEFINE twin == MeantFor(k, r)
<1>1. /\ twin.switch = r.switch /\ twin.inPort = r.inPort /\ twin.tag = r.vlan
      /\ twin.fields = k.fields
  BY DEF MeantFor
<1>2. Matching(twin) = {r}
  BY HopTaken
<1> HIDE DEF twin
<1>3. Matching(packet) = Matching(twin)
  BY <1>1 DEF Matching
<1>4. Matching(packet) = {r}
  BY <1>2, <1>3
<1>5. Cardinality({r}) = 1 /\ (CHOOSE s \in {r} : TRUE) = r
  BY FS_Singleton
<1> QED
  BY <1>4, <1>5 DEF Taken

\* The stops a packet has been at, as it leaves the i-th.
SeenTo(c, i) == [ h \in 1..i |-> c[h] ]

LEMMA SeenToIs ==
  ASSUME NEW c \in Chains
  PROVE  /\ SeenTo(c, 0) = <<>>
         /\ SeenTo(c, Len(c)) = c
         /\ \A i \in 1..Len(c) : Append(SeenTo(c, i - 1), c[i]) = SeenTo(c, i)
<1>1. c \in Seq(STRING) /\ Len(c) \in Nat /\ DOMAIN c = 1..Len(c)
  BY DEF Chains
<1>2. \A i \in 1..Len(c) : c[i] \in STRING
  BY <1>1, ElementOfSeq
<1>3. SeenTo(c, 0) = <<>>
  BY DEF SeenTo
<1>4. SeenTo(c, Len(c)) = c
  BY <1>1 DEF SeenTo
<1>5. ASSUME NEW i \in 1..Len(c) PROVE Append(SeenTo(c, i - 1), c[i]) = SeenTo(c, i)
  <2>1. PICK m \in Nat : m = i - 1 /\ m + 1 = i
    BY <1>1
  <2>2. \A h \in 1..i : c[h] \in STRING
    BY <1>1, <1>2
  <2>3. SeenTo(c, m) \in [1..m -> STRING] /\ SeenTo(c, i) \in [1..i -> STRING]
    BY <2>1, <2>2 DEF SeenTo
  <2>4. SeenTo(c, m) \in Seq(STRING) /\ Len(SeenTo(c, m)) = m
    BY <2>3, SeqDef, LenProperties
  <2>5. /\ Append(SeenTo(c, m), c[i]) \in Seq(STRING)
        /\ Len(Append(SeenTo(c, m), c[i])) = i
        /\ \A h \in 1..m : Append(SeenTo(c, m), c[i])[h] = SeenTo(c, m)[h]
        /\ Append(SeenTo(c, m), c[i])[i] = c[i]
    BY <1>2, <2>1, <2>4, AppendProperties
  <2>6. Append(SeenTo(c, m), c[i]) \in [1..i -> STRING]
    BY <2>5, LenProperties
  <2>7. \A h \in 1..i : Append(SeenTo(c, m), c[i])[h] = SeenTo(c, i)[h]
    <3>1. ASSUME NEW h \in 1..i PROVE Append(SeenTo(c, m), c[i])[h] = c[h]
      <4>1. CASE h = i
        BY <2>5, <4>1
      <4>2. CASE h # i
        <5>1. h \in 1..m
          BY <2>1, <4>2
        <5> QED
          BY <2>5, <5>1 DEF SeenTo
      <4> QED
        BY <4>1, <4>2
    <3> QED
      BY <3>1 DEF SeenTo
  <2> QED
    BY <2>1, <2>3, <2>6, <2>7
<1> QED
  BY <1>3, <1>4, <1>5

ChainOf(k) == policyChainKeyToData[k].chain

\* The i-th hop of a chain that is installed in full, along a path of n switches.
IsHop(k, i, n, path) ==
  /\ n \in Nat \ {0} /\ n <= Cardinality(Switches)
  /\ path \in [1..n -> Switches]
  /\ path[1] = SwitchOf(StopAt(k, ChainOf(k), i - 1))
  /\ path[n] = SwitchOf(ChainOf(k)[i])
  /\ \A j \in 1..n :
       /\ << i, j >> \in Places(P(k))
       /\ RuleAt(P(k), << i, j >>) = Rule(k, ChainOf(k), VlanOf(k), path, i, j)

LEMMA HopsAre ==
  ASSUME KnownTyped, NEW k \in Keys, DOMAIN P(k) = DOMAIN ChainOf(k),
         NEW i \in 1..Len(ChainOf(k))
  PROVE  /\ \E n, path : IsHop(k, i, n, path)
         /\ ChainOf(k)[i] \in Middleboxes
<1> DEFINE c == ChainOf(k)
           v == VlanOf(k)
           path == HopPath(k, c, i)
<1>1. k \in ChainKeys /\ c \in Chains /\ v \in Nat \ {0} /\ P(k) = Plan(k, c, v)
  BY DEF KnownTyped, DataTyped, ChainOf, VlanOf, P
<1>2. DOMAIN c = 1..Len(c)
  BY <1>1 DEF Chains
<1>3. i \in DOMAIN Plan(k, c, v)
  BY <1>1, <1>2
<1> HIDE DEF c, v
<1>4. /\ c[i] \in Middleboxes
      /\ Plan(k, c, v)[i] = [ j \in DOMAIN path |-> Rule(k, c, v, path, i, j) ]
  BY <1>1, <1>3, HopFacts
<1>5. PICK n \in Nat \ {0} : /\ n <= Cardinality(Switches)
                             /\ path \in [1..n -> Switches]
                             /\ path[1] = SwitchOf(StopAt(k, c, i - 1))
                             /\ path[n] = SwitchOf(c[i])
  BY <1>1, <1>3, HopFacts
<1> HIDE DEF path
<1>6. ASSUME NEW j \in 1..n
      PROVE  /\ << i, j >> \in Places(P(k))
             /\ RuleAt(P(k), << i, j >>) = Rule(k, c, v, path, i, j)
  <2>1. DOMAIN Plan(k, c, v)[i] = 1..n /\ Plan(k, c, v)[i][j] = Rule(k, c, v, path, i, j)
    BY <1>4, <1>5
  <2>2. << i, j >> \in Places(P(k))
    BY <1>1, <1>3, <2>1, PlacesAre
  <2> QED
    BY <1>1, <2>1, <2>2 DEF RuleAt
<1>7. IsHop(k, i, n, path)
  BY <1>5, <1>6 DEF IsHop, c, v
<1> QED
  BY <1>4, <1>7 DEF c

\* A packet of the chain as it leaves the i-th stop, and at the j-th switch of the path
\* to it.
Leaving(k, i) ==
  [ switch |-> SwitchOf(StopAt(k, ChainOf(k), i)),
    inPort |-> StopAt(k, ChainOf(k), i),
    tag |-> IF i = 0 \/ (i > 1 /\ i = Len(ChainOf(k))) THEN 0 ELSE VlanOf(k),
    fields |-> k.fields,
    seen |-> SeenTo(ChainOf(k), i) ]

OnHop(k, i, path, j) ==
  [ switch |-> path[j],
    inPort |-> InPort(StopAt(k, ChainOf(k), i - 1), path, j),
    tag |-> IF i = 1 /\ j = 1 THEN 0 ELSE VlanOf(k),
    fields |-> k.fields,
    seen |-> SeenTo(ChainOf(k), i - 1) ]

LEMMA HopBegins ==
  ASSUME NEW k, ChainOf(k) \in Chains, NEW i \in 1..Len(ChainOf(k)),
         NEW n, NEW path, IsHop(k, i, n, path)
  PROVE  OnHop(k, i, path, 1) = Leaving(k, i - 1)
<1>1. Len(ChainOf(k)) \in Nat
  BY DEF Chains
<1>2. (i = 1) <=> (i - 1 = 0 \/ (i - 1 > 1 /\ i - 1 = Len(ChainOf(k))))
  BY <1>1
<1>3. path[1] = SwitchOf(StopAt(k, ChainOf(k), i - 1))
  BY DEF IsHop
<1> QED
  BY <1>2, <1>3 DEF OnHop, Leaving, InPort

LEMMA HopStep ==
  ASSUME FieldsApart, TypeInv, SteerInv,
         NEW k \in whole, Unambiguous(P(k)), DOMAIN P(k) = DOMAIN ChainOf(k),
         NEW i \in 1..Len(ChainOf(k)), NEW n, NEW path, IsHop(k, i, n, path),
         NEW j \in 1..n
  PROVE  /\ j = n => Taken(OnHop(k, i, path, j)) = Leaving(k, i)
         /\ j # n => Taken(OnHop(k, i, path, j)) = OnHop(k, i, path, j + 1)
<1> DEFINE c == ChainOf(k)
           v == VlanOf(k)
           r == RuleAt(P(k), << i, j >>)
           stop == StopAt(k, c, i - 1)
           packet == OnHop(k, i, path, j)
<1>1. KnownTyped /\ k \in Keys
  BY TypesKnown DEF TypeInv, TablesTyped
<1>2. c \in Chains /\ Len(c) \in Nat /\ n \in Nat \ {0} /\ path \in [1..n -> Switches]
  BY <1>1 DEF KnownTyped, DataTyped, ChainOf, IsHop, Chains
<1>3. c[i] \in Middleboxes /\ c[i] \notin Switches
  BY <1>1, HopsAre, NamesAssumption
<1>4. << i, j >> \in Places(P(k)) /\ r = Rule(k, c, v, path, i, j)
  BY DEF IsHop
<1>5. Len(path) = n
  BY <1>2
<1> HIDE DEF r, c, v
<1>6. /\ r.switch = path[j]
      /\ r.vlan = IF i = 1 /\ j = 1 THEN 0 ELSE v
      /\ r.inPort = InPort(stop, path, j)
      /\ r.tag = IF i > 1 /\ i = Len(c) /\ j = n THEN 0 ELSE v
      /\ r.out = IF j = n THEN c[i] ELSE path[j + 1]
  BY <1>4, <1>5 DEF Rule
<1> HIDE DEF stop
<1>7. packet = [ switch |-> path[j], inPort |-> InPort(stop, path, j),
                 tag |-> IF i = 1 /\ j = 1 THEN 0 ELSE v, fields |-> k.fields,
                 seen |-> SeenTo(c, i - 1) ]
  BY DEF OnHop, c, v, stop
<1> HIDE DEF packet
<1>8. /\ packet.switch = r.switch /\ packet.inPort = r.inPort /\ packet.tag = r.vlan
      /\ packet.fields = k.fields /\ packet.seen = SeenTo(c, i - 1)
  BY <1>6, <1>7
<1>9. Taken(packet) = Forwarded(packet, r)
  BY <1>4, <1>8, TakenOn DEF r
<1>10. ASSUME j = n PROVE Taken(packet) = Leaving(k, i)
  <2>1. r.out = c[i] /\ r.tag = IF i > 1 /\ i = Len(c) THEN 0 ELSE v
    BY <1>6, <1>10
  <2>2. Forwarded(packet, r) =
          [ switch |-> SwitchOf(c[i]), inPort |-> c[i], tag |-> r.tag,
            fields |-> k.fields, seen |-> Append(SeenTo(c, i - 1), c[i]) ]
    BY <1>3, <1>8, <2>1 DEF Forwarded
  <2>3. Append(SeenTo(c, i - 1), c[i]) = SeenTo(c, i)
    BY <1>2, SeenToIs DEF c
  <2>4. i # 0 /\ StopAt(k, c, i) = c[i]
    BY DEF StopAt
  <2>5. r.tag = IF i = 0 \/ (i > 1 /\ i = Len(c)) THEN 0 ELSE v
    BY <2>1, <2>4
  <2> QED
    BY <1>9, <2>2, <2>3, <2>4, <2>5 DEF Leaving, c, v
<1>11. ASSUME j # n PROVE Taken(packet) = OnHop(k, i, path, j + 1)
  <2>1. j + 1 \in 1..n /\ j + 1 # 1 /\ (j + 1) - 1 = j
    BY <1>2, <1>11
  <2>2. r.out = path[j + 1] /\ r.out \in Switches /\ r.tag = v
    BY <1>2, <1>6, <1>11, <2>1
  <2>3. Forwarded(packet, r) =
          [ switch |-> path[j + 1], inPort |-> path[j], tag |-> v,
            fields |-> k.fields, seen |-> SeenTo(c, i - 1) ]
    BY <1>6, <1>8, <2>2 DEF Forwarded
  <2>4. InPort(stop, path, j + 1) = path[j]
    BY <2>1 DEF InPort
  <2> QED
    BY <1>9, <2>1, <2>3, <2>4 DEF OnHop, c, v, stop
<1> QED
  BY <1>10, <1>11 DEF packet

\* Steps one after the other.
Walk(at) == \A n \in 0..(MaxSteps - 1) : at[n + 1] = Taken(at[n])

LEMMA HopTravelled ==
  ASSUME FieldsApart, TypeInv, SteerInv,
         NEW k \in whole, Unambiguous(P(k)), DOMAIN P(k) = DOMAIN ChainOf(k),
         NEW i \in 1..Len(ChainOf(k)), NEW n, NEW path, IsHop(k, i, n, path),
         NEW at, Walk(at), NEW t \in Nat, t + n <= MaxSteps, at[t] = Leaving(k, i - 1)
  PROVE  at[t + n] = Leaving(k, i)
<1>1. KnownTyped /\ k \in Keys /\ MaxSteps \in Nat /\ n \in Nat \ {0}
  BY TypesKnown, MaxStepsIs DEF TypeInv, TablesTyped, IsHop
<1>2. OnHop(k, i, path, 1) = Leaving(k, i - 1)
  BY <1>1, HopBegins DEF KnownTyped, DataTyped, ChainOf
<1> DEFINE T == { j \in Nat : j < n => at[t + j] = OnHop(k, i, path, j + 1) }
<1>3. 0 \in T
  BY <1>2
<1>4. ASSUME NEW j \in T PROVE j + 1 \in T
  <2>1. j \in Nat /\ j + 1 \in Nat
    OBVIOUS
  <2>2. SUFFICES ASSUME j + 1 < n PROVE at[t + (j + 1)] = OnHop(k, i, path, (j + 1) + 1)
    BY <2>1
  <2>3. at[t + j] = OnHop(k, i, path, j + 1)
    BY <1>1, <2>1, <2>2
  <2>4. j + 1 \in 1..n /\ j + 1 # n
    BY <1>1, <2>1, <2>2
  <2>5. Taken(OnHop(k, i, path, j + 1)) = OnHop(k, i, path, (j + 1) + 1)
    BY <2>4, HopStep
  <2>6. t + j \in 0..(MaxSteps - 1) /\ t + (j + 1) = (t + j) + 1
    BY <1>1, <2>1, <2>2
  <2> QED
    BY <2>3, <2>5, <2>6 DEF Walk
<1>5. PICK m \in Nat : m + 1 = n /\ m < n
  <2>1. n - 1 \in Nat /\ (n - 1) + 1 = n /\ n - 1 < n
    BY <1>1
  <2> QED
    BY <2>1
<1>6. m \in T
  <2>1. T \in SUBSET Nat
    OBVIOUS
  <2> HIDE DEF T
  <2> QED
    BY <1>3, <1>4, <2>1, AllNaturals
<1>7. at[t + m] = OnHop(k, i, path, n)
  BY <1>5, <1>6
<1>8. Taken(OnHop(k, i, path, n)) = Leaving(k, i)
  <2>1. n \in 1..n
    BY <1>1
  <2> QED
    BY <2>1, HopStep
<1>9. t + m \in 0..(MaxSteps - 1) /\ t + n = (t + m) + 1
  BY <1>1, <1>5
<1> QED
  BY <1>7, <1>8, <1>9 DEF Walk

\* The first switch of a hop but the first expects the packet from the stop before.
LEMMA FirstOfHop ==
  ASSUME NEW key, NEW chain, NEW v, NEW path, NEW i, i # 1
  PROVE  /\ Rule(key, chain, v, path, i, 1).switch = path[1]
         /\ Rule(key, chain, v, path, i, 1).vlan = v
         /\ Rule(key, chain, v, path, i, 1).fields = {}
         /\ Rule(key, chain, v, path, i, 1).inPort = StopAt(key, chain, i - 1)
BY DEF Rule, InPort

\* No two hops of an unambiguous chain begin at the same middlebox: it has one more
\* stop than there are middleboxes, at most.
LEMMA ChainLength ==
  ASSUME KnownTyped, NEW k \in Keys, Unambiguous(P(k)), DOMAIN P(k) = DOMAIN ChainOf(k)
  PROVE  Len(ChainOf(k)) <= Cardinality(Middleboxes) + 1
<1> DEFINE c == ChainOf(k)
           m == Len(c) - 1
           f == [ i \in 1..m |-> c[i] ]
<1>1. c \in Chains /\ Len(c) \in Nat /\ Len(c) # 0
  BY EmptySeq DEF KnownTyped, DataTyped, ChainOf, Chains
<1>2. m \in Nat /\ IsFiniteSet(1..m) /\ Cardinality(1..m) = m
  BY SMTT(30), <1>1, FS_Interval
<1>3. ASSUME NEW x \in 1..m PROVE c[x] \in Middleboxes
  <2>1. x \in 1..Len(c)
    BY <1>1
  <2> QED
    BY <2>1, HopsAre
<1>4. f \in [1..m -> Middleboxes]
  BY <1>3
<1>5. ASSUME NEW x \in 1..m, NEW y \in 1..m, f[x] = f[y] PROVE x = y
  <2>1. /\ x + 1 \in 1..Len(c) /\ y + 1 \in 1..Len(c)
        /\ (x + 1) - 1 = x /\ (y + 1) - 1 = y /\ x # 0 /\ y # 0
        /\ x + 1 # 1 /\ y + 1 # 1
    BY <1>1
  <2>2. PICK n, path : IsHop(k, x + 1, n, path)
    BY <2>1, HopsAre
  <2>3. PICK o, road : IsHop(k, y + 1, o, road)
    BY <2>1, HopsAre
  <2>4. c[x] = c[y]
    BY <1>5
  <2>5. 1 \in 1..n /\ 1 \in 1..o
    BY <2>2, <2>3 DEF IsHop
  <2>6. /\ << x + 1, 1 >> \in Places(P(k))
        /\ RuleAt(P(k), << x + 1, 1 >>) = Rule(k, c, VlanOf(k), path, x + 1, 1)
        /\ path[1] = SwitchOf(StopAt(k, c, x))
    BY <2>1, <2>2, <2>5 DEF IsHop
  <2>7. /\ << y + 1, 1 >> \in Places(P(k))
        /\ RuleAt(P(k), << y + 1, 1 >>) = Rule(k, c, VlanOf(k), road, y + 1, 1)
        /\ road[1] = SwitchOf(StopAt(k, c, y))
    BY <2>1, <2>3, <2>5 DEF IsHop
  <2> HIDE DEF c
  <2>8. StopAt(k, c, x) = c[x] /\ StopAt(k, c, y) = c[x]
    BY <2>1, <2>4 DEF StopAt
  <2> DEFINE r == RuleAt(P(k), << x + 1, 1 >>)
             s == RuleAt(P(k), << y + 1, 1 >>)
  <2>9. /\ r.switch = SwitchOf(c[x]) /\ r.vlan = VlanOf(k) /\ r.fields = {}
        /\ r.inPort = c[x]
    BY <2>1, <2>6, <2>8, FirstOfHop
  <2>10. /\ s.switch = SwitchOf(c[x]) /\ s.vlan = VlanOf(k) /\ s.fields = {}
         /\ s.inPort = c[x]
    BY <2>1, <2>7, <2>8, FirstOfHop
  <2>11. SameMatch(r, s)
    BY <2>9, <2>10 DEF SameMatch
  <2>12. << x + 1, 1 >> = << y + 1, 1 >>
    BY <2>6, <2>7, <2>11 DEF Unambiguous, RuleAt
  <2> QED
    BY <2>12
<1>6. Cardinality(Middleboxes) \in Nat
  BY MaxStepsIs
<1>7. ~(Cardinality(Middleboxes) < m)
  <2> HIDE DEF f, m
  <2>1. SUFFICES ASSUME Cardinality(Middleboxes) < m PROVE FALSE
    OBVIOUS
  <2>2. \E x, y \in 1..m : x # y /\ f[x] = f[y]
    BY <1>2, <1>4, <2>1, FiniteAssumption, FS_PigeonHole
  <2> QED
    BY <1>5, <2>2
<1> QED
  BY <1>1, <1>6, <1>7

\* What is left in the tables takes no packet away from where it was delivered: rules
\* with header fields are for packets that come from a sender, and those of a chain with
\* one stop, whose tag is not popped, for packets that come from a switch.
HeadersFromHosts(table) == \A r \in table : r.vlan = 0 => r.inPort \in Hosts
OneStop(table) ==
  \A k \in Keys : Len(ChainOf(k)) = 1 =>
    \A r \in table : r.vlan = VlanOf(k) => r.inPort \in Switches

DeliveredInv ==
  /\ HeadersFromHosts(rules)
  /\ OneStop(rules)
  /\ \A k \in whole : DOMAIN P(k) = DOMAIN ChainOf(k)

LEMMA DeliveredStays ==
  ASSUME KnownTyped, DeliveredInv, NEW k \in whole
  PROVE  Taken(Leaving(k, Len(ChainOf(k)))) = Leaving(k, Len(ChainOf(k)))
<1> DEFINE c == ChainOf(k)
           packet == Leaving(k, Len(c))
<1>1. /\ k \in Keys /\ c \in Chains /\ Len(c) \in Nat /\ Len(c) # 0
      /\ VlanOf(k) \in Nat \ {0}
  BY EmptySeq DEF KnownTyped, DataTyped, ChainOf, VlanOf, Chains
<1>2. Len(c) \in 1..Len(c)
  BY <1>1
<1>3. c[Len(c)] \in Middleboxes
  BY <1>1, <1>2, HopsAre DEF DeliveredInv
<1>4. /\ packet.inPort = c[Len(c)]
      /\ packet.tag = IF Len(c) > 1 THEN 0 ELSE VlanOf(k)
  BY <1>1 DEF Leaving, StopAt
<1>5. packet.inPort \notin Hosts /\ packet.inPort \notin Switches
  BY <1>3, <1>4, NamesAssumption
<1>a. PICK l \in Nat : l = Len(c) /\ l # 0
  BY <1>1
<1>b. Len(c) > 1 \/ Len(c) = 1
  BY ONLY <1>a
<1> HIDE DEF packet
<1>6. Matching(packet) = {}
  <2> SUFFICES ASSUME NEW r \in Matching(packet) PROVE FALSE
    OBVIOUS
  <2>1. /\ r \in rules /\ r.inPort = packet.inPort
        /\ packet.tag = 0 => r.vlan = 0
        /\ packet.tag # 0 => r.vlan = packet.tag
    BY DEF Matching
  <2>2. CASE Len(c) > 1
    BY <1>4, <1>5, <2>1, <2>2 DEF DeliveredInv, HeadersFromHosts
  <2>3. CASE Len(c) = 1
    BY <1>1, <1>4, <1>5, <2>1, <2>3 DEF DeliveredInv, OneStop
  <2> QED
    BY <1>b, <2>2, <2>3
<1>7. Cardinality(Matching(packet)) # 1
  BY <1>6, FS_EmptySet
<1> QED
  BY <1>7 DEF Taken, packet

LEMMA Arrives ==
  ASSUME FieldsApart, TypeInv, SteerInv, DeliveredInv,
         NEW k \in whole, Unambiguous(P(k))
  PROVE  Journey(k).seen = ChainOf(k)
<1> DEFINE c == ChainOf(k)
<1>1. /\ KnownTyped /\ k \in Keys /\ DOMAIN P(k) = DOMAIN c
  BY TypesKnown DEF TypeInv, TablesTyped, DeliveredInv
<1>2. c \in Chains /\ Len(c) \in Nat /\ k.sender \in STRING
  BY <1>1 DEF KnownTyped, DataTyped, ChainOf, Chains, ChainKeys
<1>3. PICK at : /\ at[0] = Sent(k)
                /\ \A n \in 0..(MaxSteps - 1) : at[n + 1] = Taken(at[n])
                /\ Journey(k) = at[MaxSteps]
  BY JourneyIs
<1>4. Walk(at)
  BY <1>3 DEF Walk
<1>5. PICK S \in Nat, M \in Nat, L \in Nat :
        /\ S = Cardinality(Switches) /\ M = Cardinality(Middleboxes) /\ L = Len(c)
        /\ L <= M + 1
        /\ MaxSteps = S * (M + 1) /\ MaxSteps \in Nat
  BY <1>1, <1>2, MaxStepsIs, ChainLength DEF MaxSteps
<1> DEFINE T == { i \in Nat : i <= L => \E t \in Nat : t <= i * S /\ at[t] = Leaving(k, i) }
<1>6. 0 \in T
  <2>1. Leaving(k, 0) = Sent(k)
    BY <1>2, SeenToIs DEF Leaving, Sent, StopAt
  <2>2. 0 <= 0 * S
    BY ONLY <1>5
  <2> QED
    BY <1>3, <2>1, <2>2
<1>7. ASSUME NEW i \in T PROVE i + 1 \in T
  <2>1. i \in Nat /\ i + 1 \in Nat /\ (i + 1) - 1 = i
    OBVIOUS
  <2>2. SUFFICES ASSUME i + 1 <= L
                 PROVE  \E t \in Nat : t <= (i + 1) * S /\ at[t] = Leaving(k, i + 1)
    BY <2>1
  <2>3. PICK t \in Nat : t <= i * S /\ at[t] = Leaving(k, i)
    BY <2>1, <2>2
  <2>4. i + 1 \in 1..Len(c)
    BY <1>5, <2>1, <2>2
  <2>5. PICK n, path : IsHop(k, i + 1, n, path)
    BY <1>1, <2>4, HopsAre
  <2>6. n \in Nat /\ n <= S
    BY <1>5, <2>5 DEF IsHop
  <2>7. t + n \in Nat /\ t + n <= (i + 1) * S /\ t + n <= MaxSteps
    <3>1. (i + 1) * S = i * S + S /\ i * S \in Nat
      BY ONLY <2>1, <1>5
    <3>2. (i + 1) * S <= S * (M + 1)
      BY ONLY <2>1, <2>2, <1>5
    <3>3. PICK a \in Nat : a = i * S /\ t <= a
      BY <2>3, <3>1
    <3>4. PICK b \in Nat : b = (i + 1) * S /\ b = a + S /\ b <= MaxSteps
      BY <1>5, <3>1, <3>2, <3>3
    <3>5. t + n <= b
      BY ONLY t \in Nat, <2>6, <3>3, <3>4, S \in Nat
    <3>6. t + n \in Nat /\ t + n <= MaxSteps
      BY ONLY t \in Nat, <2>6, <3>4, <3>5, <1>5
    <3> QED
      BY <3>4, <3>5, <3>6
  <2>8. at[t + n] = Leaving(k, i + 1)
    BY <1>1, <1>4, <2>1, <2>3, <2>4, <2>5, <2>7, HopTravelled
  <2> QED
    BY <2>7, <2>8
<1>8. L \in T
  <2>1. T \in SUBSET Nat
    OBVIOUS
  <2> HIDE DEF T
  <2> QED
    BY <1>6, <1>7, <2>1, AllNaturals
<1>9. PICK t \in Nat : t <= L * S /\ at[t] = Leaving(k, L)
  BY <1>8
<1>10. t <= MaxSteps
  <2>1. L * S <= S * (M + 1)
    BY ONLY <1>5
  <2> QED
    BY ONLY <1>5, <1>9, <2>1
<1>a. MaxSteps \in Nat
  BY <1>5
<1> DEFINE U == { j \in Nat : t + j <= MaxSteps => at[t + j] = Leaving(k, L) }
<1>11. 0 \in U
  BY <1>9
<1>12. ASSUME NEW j \in U PROVE j + 1 \in U
  <2>1. j \in Nat /\ j + 1 \in Nat
    OBVIOUS
  <2>2. SUFFICES ASSUME t + (j + 1) <= MaxSteps PROVE at[t + (j + 1)] = Leaving(k, L)
    BY <2>1
  <2>3. t + j \in 0..(MaxSteps - 1) /\ t + (j + 1) = (t + j) + 1 /\ t + j <= MaxSteps
    BY ONLY <1>a, t \in Nat, <2>1, <2>2
  <2>4. at[t + j] = Leaving(k, L)
    BY <2>1, <2>3
  <2>5. Taken(Leaving(k, L)) = Leaving(k, L)
    BY <1>1, <1>5, DeliveredStays
  <2> QED
    BY <1>4, <2>3, <2>4, <2>5 DEF Walk
<1>13. PICK j \in Nat : t + j = MaxSteps
  <2>1. MaxSteps - t \in Nat /\ t + (MaxSteps - t) = MaxSteps
    BY ONLY <1>a, t \in Nat, <1>10
  <2> QED
    BY <2>1
<1>14. j \in U
  <2>1. U \in SUBSET Nat
    OBVIOUS
  <2> HIDE DEF U
  <2> QED
    BY <1>11, <1>12, <2>1, AllNaturals
<1>15. Journey(k) = Leaving(k, L)
  BY <1>3, <1>5, <1>13, <1>14
<1> QED
  BY <1>2, <1>5, <1>15, SeenToIs DEF Leaving

-----------------------------------------------------------------------------
(* And the tables keep to it. *)

LEMMA InstallDelivers ==
  ASSUME KnownTyped, DeliveredInv,
         NEW key \in ChainKeys, NEW chain \in Chains, NEW v \in Nat \ {0},
         NEW table \in SUBSET rules, NEW before,
         NEW acc \in SUBSET Places(Plan(key, chain, v)),
         Installed(table, key, chain, v, before, acc),
         \A k \in Keys : k # key => VlanOf(k) # v,
         Len(chain) = 1 => \A r \in table : r.vlan = v => r.inPort \in Switches
  PROVE  DeliveredInv'
<1> DEFINE plan == Plan(key, chain, v)
<1>1. /\ rules' = Added(table, plan, acc)
      /\ whole' \subseteq whole \union {key}
      /\ key \in whole' => DOMAIN plan = DOMAIN chain
      /\ Keys' = Keys \union {key}
  BY DEF Installed, Keys
<1>2. ChainOf(key)' = chain /\ VlanOf(key)' = v /\ P(key)' = plan
  BY DEF Installed, ChainOf, VlanOf, P
<1>3. ASSUME NEW k \in Keys, k # key
      PROVE  ChainOf(k)' = ChainOf(k) /\ VlanOf(k)' = VlanOf(k) /\ P(k)' = P(k)
  <2>1. policyChainKeyToData'[k] = policyChainKeyToData[k]
    BY <1>3 DEF Installed
  <2> QED
    BY <2>1 DEF ChainOf, VlanOf, P
<1>4. ASSUME NEW r \in rules'
      PROVE  \/ r \in table
             \/ \E p : RuleFacts(key, chain, v, p, r)
  <2> HIDE DEF plan
  <2>1. CASE r \in table
    BY <2>1
  <2>2. CASE \E p \in acc : r = RuleAt(plan, p)
    BY <2>2, PlanFacts DEF plan
  <2> QED
    BY <1>1, <2>1, <2>2, AddedIs
<1>5. HeadersFromHosts(rules)'
  <2>1. ASSUME NEW r \in rules', r.vlan = 0 PROVE r.inPort \in Hosts
    <3>1. CASE r \in table
      BY <2>1, <3>1 DEF DeliveredInv, HeadersFromHosts
    <3>2. CASE \E p : RuleFacts(key, chain, v, p, r)
      BY <2>1, <3>2 DEF RuleFacts
    <3> QED
      BY <1>4, <3>1, <3>2
  <2> QED
    BY <2>1 DEF HeadersFromHosts
<1>6. ASSUME NEW k \in Keys', Len(ChainOf(k)') = 1, NEW r \in rules', r.vlan = VlanOf(k)'
      PROVE  r.inPort \in Switches
  <2>1. CASE k = key
    <3>1. Len(chain) = 1 /\ r.vlan = v
      BY <1>2, <1>6, <2>1
    <3>2. CASE \E p : RuleFacts(key, chain, v, p, r)
      BY <3>1, <3>2 DEF RuleFacts
    <3> QED
      BY <1>4, <3>1, <3>2
  <2>2. CASE k # key
    <3>1. k \in Keys
      BY <1>1, <1>6, <2>2
    <3>2. Len(ChainOf(k)) = 1 /\ r.vlan = VlanOf(k)
      BY <1>3, <1>6, <2>2, <3>1
    <3>3. VlanOf(k) \in Nat \ {0} /\ VlanOf(k) # v
      BY <2>2, <3>1 DEF KnownTyped, DataTyped, VlanOf
    <3>4. r \in table
      <4>1. SUFFICES ASSUME \E p : RuleFacts(key, chain, v, p, r) PROVE FALSE
        BY <1>4
      <4> QED
        BY <3>2, <3>3, <4>1 DEF RuleFacts
    <3> QED
      BY <3>1, <3>2, <3>4 DEF DeliveredInv, OneStop
  <2> QED
    BY <2>1, <2>2
<1>7. OneStop(rules)'
  BY <1>6 DEF OneStop
<1>8. ASSUME NEW k \in whole' PROVE DOMAIN P(k)' = DOMAIN ChainOf(k)'
  <2>1. CASE k = key
    BY <1>1, <1>2, <1>8, <2>1
  <2>2. CASE k # key
    <3>1. k \in whole /\ k \in Keys
      BY <1>1, <1>8, <2>2 DEF KnownTyped
    <3> QED
      BY <1>3, <2>2, <3>1 DEF DeliveredInv
  <2> QED
    BY <2>1, <2>2
<1> QED
  BY <1>5, <1>7, <1>8 DEF DeliveredInv

LEMMA RestDelivers ==
  ASSUME DeliveredInv, Keys' \subseteq Keys,
         \A k \in Keys' : policyChainKeyToData'[k] = policyChainKeyToData[k],
         rules' \subseteq rules, whole' \subseteq whole, whole' \subseteq Keys'
  PROVE  DeliveredInv'
<1>1. \A k \in Keys' : ChainOf(k)' = ChainOf(k) /\ VlanOf(k)' = VlanOf(k) /\ P(k)' = P(k)
  BY DEF ChainOf, VlanOf, P
<1>2. HeadersFromHosts(rules)'
  BY DEF DeliveredInv, HeadersFromHosts
<1>3. OneStop(rules)'
  BY <1>1 DEF DeliveredInv, OneStop
<1>4. \A k \in whole' : DOMAIN P(k)' = DOMAIN ChainOf(k)'
  BY <1>1 DEF DeliveredInv
<1> QED
  BY <1>2, <1>3, <1>4 DEF DeliveredInv

LEMMA QuietDelivers ==
  ASSUME KnownTyped, DeliveredInv, UNCHANGED << policyChainKeyToData, rules, whole >>
  PROVE  DeliveredInv'
<1>1. Keys' = Keys /\ \A k \in Keys' : policyChainKeyToData'[k] = policyChainKeyToData[k]
  BY DEF Keys
<1> QED
  BY <1>1, RestDelivers DEF KnownTyped

LEMMA AddDelivers ==
  ASSUME TypeInv, SteerInv, DeliveredInv, AddPolicyChain
  PROVE  DeliveredInv'
<1> DEFINE key == command.key
<1>1. /\ KnownTyped /\ refused \in 0..MaxRefused
      /\ nextVlanId \in Nat \ {0} /\ \A k \in Keys : VlanOf(k) < nextVlanId
      /\ \A r \in rules : r.vlan \in 0..(nextVlanId - 1)
  BY TypesKnown DEF TypeInv, TablesTyped, RuleIn
<1>2. CASE key.fields = {}
  <2>1. UNCHANGED << policyChainKeyToData, rules, whole >>
    BY <1>2 DEF AddPolicyChain
  <2> QED
    BY <1>1, <2>1, QuietDelivers
<1>3. CASE key.fields # {}
  <2>1. Install(rules, key, key.chain, nextVlanId, refused)
    BY <1>3 DEF AddPolicyChain
  <2>2. command.op = "addpolicychain" /\ command \in Requests \union {NoCommand}
    BY DEF AddPolicyChain, TypeInv, CommandTyped
  <2>3. key \in ChainKeys
    BY <2>2, CommandParts
  <2>4. key.chain \in Chains
    BY <2>3 DEF ChainKeys
  <2> HIDE DEF key
  <2>5. PICK acc \in SUBSET Places(Plan(key, key.chain, nextVlanId)) :
          Installed(rules, key, key.chain, nextVlanId, refused, acc)
    BY <1>1, <2>1, InstallIs
  <2>6. \A k \in Keys : VlanOf(k) # nextVlanId
    <3>1. \A k \in Keys : VlanOf(k) \in Nat
      BY <1>1 DEF KnownTyped, DataTyped, VlanOf
    <3> QED
      BY <1>1, <3>1
  <2>7. \A r \in rules : r.vlan # nextVlanId
    BY <1>1
  <2> QED
    BY <1>1, <2>3, <2>4, <2>5, <2>6, <2>7, InstallDelivers
<1> QED
  BY <1>2, <1>3

LEMMA ReplaceDelivers ==
  ASSUME TypeInv, SteerInv, DeliveredInv, NEW key \in todo, ReplaceMasterMB(key)
  PROVE  DeliveredInv'
<1> DEFINE data == policyChainKeyToData[key]
           chain == Replaced(data.chain, command.mb, NewMb)
           v == VlanOf(key)
<1>1. /\ KnownTyped /\ refused \in 0..MaxRefused /\ key \in Keys /\ key \in ChainKeys
      /\ data.chain \in Chains /\ v \in Nat \ {0}
  BY TypesKnown DEF TypeInv, TablesTyped, CommandTyped, KnownTyped, DataTyped, VlanOf
<1>2. NewMb \in STRING
  BY NewMbTyped DEF ReplaceMasterMB, TypeInv
<1>3. chain \in Chains
  BY <1>1, <1>2, ReplacedTyped
<1>4. Len(chain) = Len(data.chain)
  <2>1. DOMAIN chain = DOMAIN data.chain
    BY DEF Replaced
  <2> HIDE DEF chain
  <2>2. DOMAIN chain = 1..Len(chain) /\ Len(chain) \in Nat
    BY <1>3 DEF Chains
  <2>3. DOMAIN data.chain = 1..Len(data.chain) /\ Len(data.chain) \in Nat
    BY <1>1 DEF Chains
  <2>4. PICK n \in Nat, m \in Nat : n = Len(chain) /\ m = Len(data.chain) /\ 1..n = 1..m
    BY <2>1, <2>2, <2>3
  <2>5. (n \in 1..n \/ n = 0) /\ (m \in 1..m \/ m = 0)
    BY ONLY n \in Nat, m \in Nat
  <2>6. (n \in 1..m \/ n = 0) /\ (m \in 1..n \/ m = 0)
    BY <2>4, <2>5
  <2>7. n = m
    BY ONLY n \in Nat, m \in Nat, <2>6
  <2> QED
    BY <2>4, <2>7
<1>5. PICK no \in MayRefuse(Requested(data.flow), refused) :
        Install(Uninstalled(rules, key, data, Requested(data.flow) \ no),
                key, chain, v, refused + Cardinality(no))
  BY DEF ReplaceMasterMB, VlanOf
<1>6. PICK before \in 0..MaxRefused : before = refused + Cardinality(no)
  <2>1. refused + Cardinality(no) \in refused..MaxRefused
    BY <1>1, RefusedCount
  <2> QED
    BY <1>1, <2>1, BoundsAssumption
<1> HIDE DEF chain, v
<1>7. PICK table \in SUBSET rules :
        table = Uninstalled(rules, key, data, Requested(data.flow) \ no)
  BY UninstalledIs
<1>8. Install(table, key, chain, v, before)
  BY <1>5, <1>6, <1>7
<1>9. PICK acc \in SUBSET Places(Plan(key, chain, v)) :
        Installed(table, key, chain, v, before, acc)
  BY <1>8, InstallIs
<1>10. \A k \in Keys : k # key => VlanOf(k) # v
  BY <1>1 DEF SteerInv, ChainsInv, VlansApart, v
<1>11. Len(chain) = 1 => \A r \in table : r.vlan = v => r.inPort \in Switches
  BY <1>1, <1>4 DEF DeliveredInv, OneStop, ChainOf, v
<1> QED
  BY <1>1, <1>3, <1>9, <1>10, <1>11, InstallDelivers

LEMMA DeliveredStep ==
  ASSUME TypeInv, SteerInv, DeliveredInv, [Next]_vars
  PROVE  DeliveredInv'
<1>1. KnownTyped /\ todo \subseteq Keys
  BY TypesKnown DEF TypeInv, CommandTyped
<1>2. CASE AddPolicyChain
  BY <1>2, AddDelivers
<1>3. CASE RemovePolicyChain
  <2>1. /\ Keys' = Keys \ {command.key} /\ whole' = whole \ {command.key}
        /\ \A k \in Keys' : policyChainKeyToData'[k] = policyChainKeyToData[k]
        /\ rules' \subseteq rules
    BY <1>3, UninstalledIs DEF RemovePolicyChain, Keys
  <2> QED
    BY <1>1, <2>1, RestDelivers DEF KnownTyped
<1>4. ASSUME NEW key \in todo, UnregisterFrom(key) PROVE DeliveredInv'
  <2>1. /\ Keys' = Keys /\ whole' = whole \ {key}
        /\ \A k \in Keys' : policyChainKeyToData'[k] = policyChainKeyToData[k]
        /\ rules' \subseteq rules
    BY <1>4, UninstalledIs DEF UnregisterFrom, Keys
  <2> QED
    BY <1>1, <2>1, RestDelivers DEF KnownTyped
<1>5. ASSUME NEW key \in todo, ReplaceMasterMB(key) PROVE DeliveredInv'
  BY <1>5, ReplaceDelivers
<1>6. CASE RemoveUnknown \/ BeginWithMiddlebox
  BY <1>1, <1>6, QuietDelivers DEF RemoveUnknown, BeginWithMiddlebox
<1>7. CASE HandleCommand
  BY <1>2, <1>3, <1>4, <1>5, <1>6, <1>7 DEF HandleCommand, Handle
<1>8. CASE UNCHANGED << policyChainKeyToData, rules, whole >>
  BY <1>1, <1>8, QuietDelivers
<1>9. CASE (\E f \in FrontEnds : FrontEndSteps(f)) \/ Accept \/ Receive \/ Answer \/ Exit
  BY <1>8, <1>9 DEF FrontEndSteps, Start, GiveCommand, Die, Quit, Prompt, Accept, Receive,
                    Answer, Exit, chainVars
<1>10. CASE UNCHANGED vars
  BY <1>8, <1>10 DEF vars, chainVars
<1> QED
  BY <1>7, <1>9, <1>10 DEF Next, Server, FrontEndSteps

\* Packets of a chain that the controller accepted in full go through exactly the
\* chain's middleboxes, in order: from hop to hop their own rule takes them, and where
\* they are delivered no rule takes them away again.
THEOREM PacketsAreSteered ==
  ASSUME Careful, FieldsApart
  PROVE  Spec => []Steered
<1>1. Init => DeliveredInv
  <2> SUFFICES ASSUME Init PROVE DeliveredInv
    OBVIOUS
  <2>1. Keys = {} /\ rules = {} /\ whole = {}
    BY DEF Init, InitChains, Keys
  <2> QED
    BY <2>1 DEF DeliveredInv, HeadersFromHosts, OneStop
<1>2. (TypeInv /\ SteerInv) /\ DeliveredInv /\ [Next]_vars => DeliveredInv'
  BY DeliveredStep
<1>3. (TypeInv /\ SteerInv) /\ DeliveredInv => Steered
  BY Arrives DEF Steered, P, ChainOf
<1> QED
  BY <1>1, <1>2, <1>3, CarefulSteering, PTL DEF Spec
===============================================================================
