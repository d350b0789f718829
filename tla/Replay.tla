------------------------------- MODULE Replay -------------------------------
(***************************************************************************)
(* Replay of typed input with the log in shared memory, hw2/a/myio4.h.  A  *)
(* parent forks a child that runs the program and forks another when       *)
(* Ctrl+C has killed it.                                                   *)
(***************************************************************************)
EXTENDS ReplayScanf

-----------------------------------------------------------------------------
(* r_init, parent *)

(* The statics of a child are the parent's, which never change.            *)
Fork ==
  /\ version = "shm" /\ parent = "fork" /\ parent' = IF ignores THEN "wait" ELSE "forked"
  /\ pc' = "born" /\ deaf' = ignores /\ Fresh
  /\ UNCHANGED <<version, log, removed, ignores, disk, prev, torn, ints>>

Ignore ==
  /\ parent = "forked" /\ parent' = "wait" /\ ignores' = TRUE
  /\ UNCHANGED <<version, log, removed, disk, pc, deaf, statics, program, history, ints>>

AnyEnd == pc \in {"killed", "exited"}    \* mutant
Signaled == pc = "killed"

Restart ==
  /\ parent = "wait" /\ Signaled /\ parent' = "fork"
  /\ UNCHANGED <<version, log, removed, ignores, disk, pc, deaf, statics, program, history, ints>>

Finish ==
  /\ parent = "wait" /\ ~Signaled /\ pc = "exited" /\ parent' = "done"
  /\ removed' = TRUE
  /\ UNCHANGED <<version, log, ignores, disk, pc, deaf, statics, program, history, ints>>

-----------------------------------------------------------------------------
(* r_init, child *)

SetDefault ==
  /\ pc = "born" /\ deaf' = FALSE
  /\ pc' = IF nscanf_total > 0 THEN "ask" ELSE "run"
  /\ UNCHANGED <<log, family, disk, statics, program, history, ints>>

(* How many inputs to replay, after the two corrections of the answer.     *)
Ask(t) ==
  /\ version = "shm" /\ pc = "ask" /\ t \in 0..nscanf_total
  /\ nscanf_target' = t
  /\ IF t = 0 THEN nscanf_total' = 0 /\ mode' = 0 /\ pc' = "zero"
              ELSE UNCHANGED nscanf_total /\ mode' = 1 /\ pc' = "run"
  /\ UNCHANGED <<nbytes_total, data, family, disk, deaf, nscanf_running, nbytes_running,
                 program, history, ints>>

ZeroBytes ==
  /\ pc = "zero" /\ pc' = "run"
  /\ nbytes_total' = 0
  /\ UNCHANGED <<nscanf_total, data, family, disk, deaf, statics, program, history, ints>>

-----------------------------------------------------------------------------
(* r_cleanup *)

Cleanup ==
  /\ version = "shm" /\ pc = "run" /\ Over /\ pc' = "clean"
  /\ nscanf_total' = 0
  /\ UNCHANGED <<nbytes_total, data, family, disk, deaf, statics, program, history, ints>>

CleanBytes ==
  /\ version = "shm" /\ pc = "clean" /\ pc' = "left"
  /\ nbytes_total' = 0 /\ data' = NoBytes
  /\ UNCHANGED <<nscanf_total, family, disk, deaf, statics, program, history, ints>>

Exit ==
  /\ version = "shm" /\ pc = "left" /\ pc' = "exited"
  /\ UNCHANGED <<log, family, disk, deaf, statics, program, history, ints>>

-----------------------------------------------------------------------------
(* Ctrl+C reaches parent and child.                                        *)

Alive == pc \notin {"none", "killed", "exited"}

CtrlC ==
  /\ version = "shm" /\ ints < MaxInts /\ ints' = ints + 1
  /\ parent \notin {"done", "killed"}
  /\ parent' = IF ignores THEN parent ELSE "killed"
  /\ IF Alive /\ ~deaf
       THEN pc' = "killed" /\ prev' = ToKeep /\ torn' = (torn \/ LeavesTorn)
       ELSE UNCHANGED <<pc, prev, torn>>
  /\ UNCHANGED <<version, log, removed, ignores, disk, deaf, statics, program, life>>

ParentStep == Fork \/ Ignore \/ Restart \/ Finish
ChildStep == SetDefault \/ ZeroBytes \/ Cleanup \/ CleanBytes \/ Exit
ShmNext ==
  \/ ParentStep \/ ChildStep \/ CtrlC \/ (\E t \in 0..nscanf_total : Ask(t))
=============================================================================
