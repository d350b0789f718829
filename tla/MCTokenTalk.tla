---------------------------- MODULE MCTokenTalk ----------------------------
(* TokenTalk with the numbers given in the configurations.                 *)
EXTENDS TokenTalk, TLC
=============================================================================
