------------------------------ MODULE MCRegistry ------------------------------
(* Instances of Registry.  The list of one process is followed at a time:  *)
(* processes only share the keys, and lists change nothing.  Two gateways  *)
(* and no outage, or one gateway and an outage.                            *)
EXTENDS Registry

CONSTANTS g1, g2

MCDeployments ==
    {[gateways |-> {g1, g2}, observers |-> {Dispatch}, late |-> 1, crashes |-> 1, outages |-> 0],
     [gateways |-> {g1, g2}, observers |-> {g1},       late |-> 0, crashes |-> 1, outages |-> 0],
     [gateways |-> {g1},     observers |-> {Dispatch}, late |-> 1, crashes |-> 1, outages |-> 1],
     [gateways |-> {g1},     observers |-> {g1},       late |-> 1, crashes |-> 1, outages |-> 1]}
===============================================================================
