------------------------------- MODULE MCService ------------------------------
(* Two services of one name: one serves a port for tcp and udp, the other a   *)
(* port for a protocol that is never cleaned up.  The first selects two pods, *)
(* the second one of them.                                                    *)
EXTENDS Service, TLC

CONSTANTS s1, s2, p1, p2, shop

MCName == [s \in Services |-> shop]

MCPorts ==
    s1 :> <<[port |-> 53, target |-> 53, proto |-> "tcp"],
            [port |-> 53, target |-> 54, proto |-> "udp"]>> @@
    s2 :> <<[port |-> 80, target |-> 80, proto |-> "sctp"]>>

MCSelects == s1 :> {p1, p2} @@ s2 :> {p2}
=============================================================================
