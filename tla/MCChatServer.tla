---------------------------- MODULE MCChatServer ----------------------------
(***************************************************************************)
(* Instances of ChatServer: two concurrent handlers, two users who are     *)
(* friends one way only, a group, one replica.                             *)
(***************************************************************************)
EXTENDS ChatServer, TLC

CONSTANTS alice, bob, team, h1, h2, s1

MCFriends == {<<alice, bob>>}
MCOneMember == {MemberRow(team, alice)}

HandlerSymmetry == Permutations({h1, h2})
=============================================================================
