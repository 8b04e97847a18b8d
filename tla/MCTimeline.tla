------------------------------ MODULE MCTimeline ------------------------------
(***************************************************************************)
(* Instances of Timeline: messages to alice, whose client is modelled,     *)
(* from bob or, where who sends does not matter, from herself.             *)
(***************************************************************************)
EXTENDS Timeline, TLC

CONSTANTS alice, bob, team, h1, h2, s1

MCFriends == {<<bob, alice>>}
MCSelf == {<<alice, alice>>}

MCMembers == {MemberRow(team, alice)}
===============================================================================
