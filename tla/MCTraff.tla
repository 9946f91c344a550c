-------------------------------- MODULE MCTraff --------------------------------
(* Instances of BeeTraff for TLC: an account with two gates, another with one, a *)
(* local server that is not a gate, and the world.                               *)
EXTENDS BeeTraff

CONSTANTS c1, c2, d1, e1, server, world, acc1, acc2,
          coming, joining, leaving, other, between, inside, six

AllAddrs == {c1, c2, d1, e1, server, world}
Sources == [f \in Flows |-> CASE f \in {coming, joining, other} -> world
                              [] f \in {leaving, between} -> d1
                              [] f = inside -> server [] OTHER -> world]
Targets == [f \in Flows |-> CASE f \in {coming, inside} -> c1
                              [] f = joining -> c2 [] f \in {other, between} -> e1
                              [] OTHER -> world]
AllGates == {[block |-> {c1, c2}, addr |-> c1, acc |-> acc1],
             [block |-> {d1}, addr |-> d1, acc |-> acc1],
             [block |-> {e1}, addr |-> e1, acc |-> acc2]}
\* -n for the clients and the server, -N for one of the gates
LocalNets == <<[block |-> {c1, c2, d1, e1, server}, count |-> FALSE],
               [block |-> {d1}, count |-> TRUE]>>
===============================================================================
