----------------------------- MODULE ReplayFile -----------------------------
(***************************************************************************)
(* Replay of typed input with the log in a file, hw2/myio3.h.  The handler *)
(* of SIGINT writes the log to LOG1, removes the shared memory and         *)
(* executes the program again, which reads LOG1.  The program that a       *)
(* handler executes keeps SIGINT blocked.                                  *)
(*                                                                         *)
(* Another kill (SIGQUIT, or SIGINT before there is a handler) ends the    *)
(* program anywhere, in its handler too, without a log; the user can start *)
(* it again.                                                               *)
(***************************************************************************)
EXTENDS ReplayScanf

Handling == pc \in {"caught", "emptied", "headed", "written"}
Ended == pc \in {"killed", "exited"}

(* A new process image; its shared memory is yet to be made.               *)
Exec(blocked) ==
  /\ pc' = "new" /\ masked' = blocked /\ removed' = TRUE /\ Fresh
  /\ nscanf_total' = 0 /\ nbytes_total' = 0 /\ data' = NoBytes
  /\ UNCHANGED <<version, parent, ignores, log1, deaf, prev, torn, ints>>

Launch == version = "file" /\ pc = "killed" /\ Exec(FALSE)

-----------------------------------------------------------------------------
(* r_init *)

Install ==
  /\ version = "file" /\ pc = "new" /\ pc' = "installed"
  /\ UNCHANGED <<log, family, disk, deaf, statics, program, history, ints>>

Attach ==
  /\ version = "file" /\ pc = "installed" /\ pc' = "attached"
  /\ removed' = FALSE
  /\ UNCHANGED <<version, log, parent, ignores, disk, deaf, statics, program, history, ints>>

ReadHeader ==
  /\ version = "file" /\ pc = "attached"
  /\ IF log1.is = "head" THEN pc' = "header" /\ nscanf_total' = log1.total
                         ELSE pc' = "run" /\ nscanf_total' = 0
  /\ UNCHANGED <<nbytes_total, data, family, disk, deaf, statics, program, history, ints>>

ReadData ==
  /\ version = "file" /\ pc = "header" /\ pc' = "ask"
  /\ data' = [b \in DOMAIN data |-> IF b < Len(log1.bytes) THEN log1.bytes[b + 1] ELSE Blank]
  /\ nbytes_total' = Len(log1.bytes) /\ mode' = 1
  /\ UNCHANGED <<nscanf_total, family, disk, deaf, nscanf_running, nscanf_target,
                 nbytes_running, program, history, ints>>

(* With 0 inputs to replay the log stays as it is, and what is typed comes *)
(* after it.                                                               *)
Choose(t) ==
  /\ version = "file" /\ pc = "ask" /\ t \in 0..nscanf_total /\ pc' = "run"
  /\ nscanf_target' = t
  /\ torn' = (torn \/ (t = 0 /\ nscanf_total + nbytes_total > 0))
  /\ UNCHANGED <<log, family, disk, deaf, mode, nscanf_running, nbytes_running, program,
                 life, prev, ints>>

-----------------------------------------------------------------------------
(* r_cleanup *)

Unlink ==
  /\ version = "file" /\ pc = "run" /\ Over /\ pc' = "clean"
  /\ log1' = NoFile
  /\ UNCHANGED <<log, family, masked, deaf, statics, program, history, ints>>

Detach ==
  /\ version = "file" /\ pc = "clean" /\ pc' = "left"
  /\ removed' = TRUE
  /\ UNCHANGED <<version, log, parent, ignores, disk, deaf, statics, program, history, ints>>

Return ==
  /\ version = "file" /\ pc = "left" /\ pc' = "exited"
  /\ UNCHANGED <<log, family, disk, deaf, statics, program, history, ints>>

-----------------------------------------------------------------------------
(* handle_sigint *)

(* Before the log of the last life is read the handler has none to write:  *)
(* it empties LOG1, or writes that there are no inputs, or no bytes.       *)
LosesLog ==
  \/ pc \in {"installed", "attached"} /\ prev # <<>>
  \/ pc = "header" /\ nscanf_total > 0

Caught ==
  /\ version = "file" /\ ints < MaxKills /\ ints' = ints + 1
  /\ ~masked /\ ~Ended /\ pc # "new"
  /\ pc' = "caught" /\ masked' = TRUE
  /\ prev' = ToKeep /\ torn' = (torn \/ LeavesTorn \/ LosesLog)
  /\ UNCHANGED <<log, family, log1, deaf, statics, program, life>>

OpenLog ==
  /\ version = "file" /\ pc = "caught" /\ log1' = EmptyFile
  /\ pc' = IF removed THEN "written" ELSE "emptied"
  /\ UNCHANGED <<log, family, masked, deaf, statics, program, history, ints>>

TargetHeader == nscanf_target    \* mutant
Header == nscanf_total

WriteHeader ==
  /\ version = "file" /\ pc = "emptied" /\ pc' = "headed"
  /\ log1' = [is |-> "head", total |-> Header, bytes |-> <<>>]
  /\ UNCHANGED <<log, family, masked, deaf, statics, program, history, ints>>

WriteData ==
  /\ version = "file" /\ pc = "headed" /\ pc' = "written"
  /\ log1' = [log1 EXCEPT !.bytes = [b \in 1..nbytes_total |-> data[b - 1]]]
  /\ UNCHANGED <<log, family, masked, deaf, statics, program, history, ints>>

ExecAgain == version = "file" /\ pc = "written" /\ Exec(TRUE)

(* LOG1 stays as the last handler left it, half written if it was not      *)
(* through.                                                                *)
Killed ==
  /\ version = "file" /\ ints < MaxKills /\ ints' = ints + 1
  /\ ~Ended /\ pc' = "killed"
  /\ prev' = IF pc \in {"clean", "left"} THEN <<>> ELSE prev
  /\ torn' = (torn \/ (Handling /\ pc # "written"))
  /\ UNCHANGED <<log, family, disk, deaf, statics, program, life>>

FileStep ==
  \/ Install \/ Attach \/ ReadHeader \/ ReadData \/ Unlink \/ Detach \/ Return
  \/ OpenLog \/ WriteHeader \/ WriteData \/ ExecAgain
FileNext == FileStep \/ Launch \/ Caught \/ Killed \/ (\E t \in 0..nscanf_total : Choose(t))
=============================================================================
