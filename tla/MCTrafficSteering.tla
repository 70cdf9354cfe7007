---------------------------- MODULE MCTrafficSteering ----------------------------
(* The part of the emulated network the chains use: topology.py,             *)
(* tsaConfigFile.txt and mastersSlaves.txt.                                  *)
EXTENDS TrafficSteering

Links == { <<"s1", "s2">>, <<"s2", "s1">>, <<"s2", "s6">>, <<"s6", "s2">> }
Senders == [ h \in {"h1"} |-> "s1" ]
Mbs == [ m \in {"m2", "m6", "m7", "m10"} |-> IF m = "m2" THEN "s2" ELSE "s6" ]
Slaves == [ m \in {"m6", "m7"} |-> IF m = "m6" THEN "m7" ELSE "m10" ]

Key(chain, fields) == [ sender |-> "h1", chain |-> chain, fields |-> fields ]
AddChain(key) == [ op |-> "addpolicychain", key |-> key ]
RemoveChain(key) == [ op |-> "removepolicychain", key |-> key ]
Stop(mb) == [ op |-> "stopmaster", mb |-> mb ]

OutAndBack == Key(<<"m6", "m2">>, {"f1"})
OneMaster == Key(<<"m6">>, {"f2"})
Misspelt == Key(<<"m2", "m9", "m6">>, {"f1"})
NoFields == Key(<<"m6">>, {})

\* What the front end's menu offers, a chain with a name that is not known, and
\* what the back end takes from other clients.
MCRequests ==
  { AddChain(OutAndBack), AddChain(OneMaster), AddChain(Misspelt), AddChain(NoFields),
    RemoveChain(OutAndBack), RemoveChain(OneMaster), Stop("m6"), Stop("m7"), [ op |-> "exit" ],
    [ op |-> "replacemaster", mb |-> "m6", new |-> "m9" ], [ op |-> "unregmb", mb |-> "m6" ] }
===============================================================================
