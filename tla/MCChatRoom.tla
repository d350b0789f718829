----------------------------- MODULE MCChatRoom -----------------------------
(* ChatRoom with two users, and with more of them than the table has       *)
(* slots; the users are model values, interchangeable where no temporal    *)
(* property is checked.                                                    *)
EXTENDS ChatRoom, TLC

CONSTANTS u1, u2, u3, u4

Two == {u1, u2}
Four == {u1, u2, u3, u4}
UserSymmetry == Permutations(Four)

(* Bound: four users with one line are explored, three with a second line, *)
(* and two with a Ctrl+C.                                                  *)
Started == Cardinality({u \in User : pc[Main(u)] # "out"})
Explored == /\ lines > 1 => Started <= 3
            /\ ints > 0 => Started <= 2
=============================================================================
