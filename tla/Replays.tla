------------------------------ MODULE Replays ------------------------------
(* The two versions of the library, each under the test program.           *)
EXTENDS Replay, ReplayFile

Next == Scanf \/ (\E v \in Value : Type(v)) \/ ShmNext \/ FileNext

Spec == Init /\ [][Next]_vars

(* Processes and handlers run; nobody has to type, to press Ctrl+C or to   *)
(* start the program again.                                                *)
FairSpec == Spec /\ WF_vars(ParentStep) /\ WF_vars(ChildStep \/ FileStep \/ Scanf)

-----------------------------------------------------------------------------
(* Typing. *)
TypeOK ==
  /\ version \in {"shm", "file"}
  /\ nscanf_total \in Nat /\ nbytes_total \in 0..MemSize
  /\ data \in [0..(MemSize-1) -> Byte \cup {Blank}]
  /\ removed \in BOOLEAN /\ parent \in {"fork", "forked", "wait", "done", "killed"}
  /\ ignores \in BOOLEAN /\ deaf \in BOOLEAN
  /\ log1 \in [is : {"none", "empty", "head"}, total : Nat, bytes : Seq(Byte)]
  /\ masked \in BOOLEAN
  /\ pc \in {"none", "born", "zero", "new", "installed", "attached", "header",
             "ask", "run", "cut", "stored", "clean", "left", "exited", "killed",
             "caught", "emptied", "headed", "written"}
  /\ mode \in 0..1 /\ nscanf_running \in Nat /\ nscanf_target \in Nat
  /\ nbytes_running \in 0..MemSize
  /\ phase \in 0..3 /\ n \in Nat /\ i \in 0..n
  /\ life \in Seq(Input) /\ prev \in Seq(Input) /\ torn \in BOOLEAN
  /\ ints \in 0..(MaxInts + MaxKills)

(* The log is what the program was given, input by input and byte by byte, *)
(* whenever it could be killed between two inputs, however often it was    *)
(* killed and cut before (r_scanf).                                        *)
LogHolds == ~torn /\ pc = "run" /\ ~Replaying =>
  nscanf_total = Len(life) /\ nbytes_total = BytesOf(life) /\ Spelled(life, data)

(* A program that finds a log replays from it exactly what the one before  *)
(* it was given, also when that one was killed half way through logging an *)
(* input (r_init, r_scanf).                                                *)
ReplayFaithful == ~torn =>
  /\ pc = "ask" => nscanf_total = Len(prev)
  /\ Replaying => IsPrefix(life, prev)
  /\ pc \in {"cut", "run"} /\ ~Replaying =>
       SubSeq(life, 1, nscanf_target) = SubSeq(prev, 1, nscanf_target)

InFile(s) ==
  /\ log1.total = Len(s) /\ BytesOf(s) <= Len(log1.bytes)
  /\ Spelled(s, [b \in 0..(Len(log1.bytes) - 1) |-> log1.bytes[b + 1]])

(* Between two processes LOG1 holds the inputs of the one that ended with  *)
(* Ctrl+C, or of an earlier one if nothing was written since, and none     *)
(* after a normal end (handle_sigint, r_cleanup of myio3.h).               *)
LogSurvives == version = "file" =>
  /\ pc = "exited" => log1 = NoFile
  /\ ~torn /\ pc \in {"new", "installed", "attached", "killed"} =>
       IF log1.is = "head" THEN InFile(prev) ELSE prev = <<>>

(* The parent starts a new child for one that was killed, and for none that *)
(* ended by itself: then it removes the shared memory (r_init).  A handler *)
(* gets to the new program unless it is killed itself (handle_sigint).     *)
Supervised ==
  /\ version = "shm" /\ pc = "killed" ~> pc # "killed" \/ parent = "killed"
  /\ version = "shm" /\ pc = "exited" ~> removed \/ parent = "killed"
  /\ pc = "caught" ~> pc \in {"new", "killed"}
=============================================================================
