-------------------------- MODULE MCRelationService ---------------------------
(* An instance of RelationService: two users, every step of which may fail. *)
EXTENDS RelationService, TLC

CONSTANTS alice, bob

Symmetry == Permutations(Users)

EveryStep == Ops \X Steps
TwoOfEach == [op \in Ops |-> 2]

(* The calls about friends and those about groups share no table: only     *)
(* calls of one kind need to meet.                                         *)
FriendOps == {"applyFriend", "acceptFriend"}
OneKind ==
    \A m, n \in Calls : call[m].pc # "unused" /\ call[n].pc # "unused" =>
        (call[m].op \in FriendOps <=> call[n].op \in FriendOps)
===============================================================================
