---------------------------- MODULE MCFinalTalk ----------------------------
(* FinalTalk on small rooms: the users are model values, interchangeable   *)
(* in the runs that check safety only.                                     *)
EXTENDS FinalTalk, TLC

CONSTANTS u1, u2, u3

TwoUsers == {u1, u2}
ThreeUsers == {u1, u2, u3}
UserSymmetry == Permutations(ThreeUsers)
=============================================================================
