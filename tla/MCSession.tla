------------------------------- MODULE MCSession -------------------------------
(* Instances of SessionReader: requests with and without a body, one that  *)
(* is not answered and one that is rejected, a push and the two kicks of a *)
(* login                                                                   *)
EXTENDS SessionReader

CONSTANTS r1, r2, noAnswer, noMagic, p1

MCBody(r) == IF r \in {r1, noAnswer} THEN 1 ELSE 0
===============================================================================
