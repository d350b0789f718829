------------------------------ MODULE MCReplay ------------------------------
(* Replay with two values, so that each of the three loops of the test     *)
(* program runs once or not at all.                                        *)
EXTENDS Replays

ZeroOne == {0, 1}
=============================================================================
