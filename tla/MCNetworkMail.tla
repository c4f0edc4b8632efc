--------------------------- MODULE MCNetworkMail ----------------------------
(* Letters on their way: the lanes of a relay that close, the routing table *)
(* of the network, and the letters left in it.                             *)
EXTENDS RelayServer, DhtNode, TLC

CONSTANTS s1, a, b    \* nodes

MCNear == <<a, s1, b>>

VARIABLE part    \* the component that runs

networkMailVars == <<part, vars, nodeVars, mailVars>>

NetworkInit ==
    /\ part \in {"push", "node", "mail"}
    /\ Init /\ NodeInit /\ MailInit

NetworkNext ==
    /\ UNCHANGED part
    /\ \/ part = "push" /\ Next /\ UNCHANGED <<nodeVars, mailVars>>
       \/ part = "node" /\ NodeNext /\ UNCHANGED <<vars, mailVars>>
       \/ part = "mail" /\ MailNext /\ UNCHANGED <<vars, nodeVars>>

NetworkSpec == NetworkInit /\ [][NetworkNext]_networkMailVars

NetworkSymmetry == Permutations(Conns)
=============================================================================
