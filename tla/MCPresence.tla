------------------------------ MODULE MCPresence ------------------------------
(***************************************************************************)
(* Instances of Presence, with one user.  What may happen is divided into  *)
(* parts, since all of it together has too many states: calls of the user  *)
(* overlap, with the gateway as front end; or the user does one thing at a *)
(* time, with login packets, logouts of all devices, bad packets, and a    *)
(* gateway that crashes or loses its subscriber.                           *)
(***************************************************************************)
EXTENDS Presence, TLC

CONSTANTS alice, pc, g1, c1, c2, c3,
          Parts             \* the parts of an instance

VARIABLE part

Overlapping == INSTANCE Presence
    WITH Frontends <- {"gateway"}, FullLogouts <- FALSE, PacketLogins <- FALSE,
         Overlap <- TRUE, BadPackets <- FALSE, MaxFaults <- 0
OneByOne == INSTANCE Presence
    WITH Frontends <- {"dispatch"}, MaxLogouts <- 0, Overlap <- FALSE

PartsInit == Init /\ part \in Parts
PartsNext ==
    \/ part = "overlapping" /\ Overlapping!Next /\ UNCHANGED part
    \/ part = "oneByOne" /\ OneByOne!Next /\ UNCHANGED part

PartsSpec == PartsInit /\ [][PartsNext]_<<vars, part>>
FairPartsSpec == PartsSpec /\ Fairness

Symmetry == Permutations(Conns)
===============================================================================
