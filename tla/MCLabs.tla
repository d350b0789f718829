------------------------------- MODULE MCLabs -------------------------------
(* All programs of Labs, each from its own initial state.                  *)
EXTENDS Labs
=============================================================================
