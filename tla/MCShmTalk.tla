----------------------------- MODULE MCShmTalk -----------------------------
(* ShmTalk with the three users of the program, and with two, which is     *)
(* enough to break what needs only a race.                                 *)
EXTENDS ShmTalk

Three == 1..3
Two == 1..2
=============================================================================
