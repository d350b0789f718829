------------------------------ MODULE ShmTalk ------------------------------
(***************************************************************************)
(* The three-user talk of hw3/talk.c.  Messages live in a ring of MaxLog   *)
(* slots in shared memory; writers hold the semaphore, readers follow      *)
(* global_seq without it.  The room starts when three users have entered   *)
(* and ends when all three have typed talk_quit.                           *)
(*                                                                         *)
(* One session, from the creation of the segment to its removal.           *)
(***************************************************************************)
EXTENDS Integers, FiniteSets, Sequences

CONSTANTS
  User,           \* the ids, 1..3 in the code
  MaxLog,         \* MAX_LOG
  OrderedLaunch,  \* the users are started one after the other, as lines 95-96 assume
  MaxLines,       \* bound: lines typed, together
  MaxCrashes      \* bound: users killed

ASSUME ShmAssumption ==
  /\ IsFiniteSet(User) /\ User # {}
  /\ MaxLog \in Nat \ {0}
  /\ OrderedLaunch \in BOOLEAN
  /\ MaxLines \in Nat /\ MaxCrashes \in Nat

VARIABLES
  sem, removed,                           \* the semaphore; the segment is gone
  user_count, global_seq, quit_flags, logs,  \* the segment
  pc, count,                              \* per user: program counter, user_count as loaded
  local_seq, heard, i_quit,               \* per user: position, last slot copied, own quit
  lines,                                  \* lines typed so far
  posted                                  \* history: the sender of each message

shm == <<user_count, global_seq, quit_flags, logs>>
own == <<local_seq, heard, i_quit>>
vars == <<sem, removed, shm, pc, count, own, lines, posted>>

N == Cardinality(User)
Slot(w, n) == [sender |-> w, seq |-> n, text |-> n]
Blank == [sender |-> 0, seq |-> 0, text |-> 0]

Goto(u, l) == pc' = [pc EXCEPT ![u] = l]
P == sem > 0 /\ sem' = sem - 1
V == sem' = sem + 1

Launching(u) == pc[u] \in {"setval", "memset", "enter", "counting"}
InCS(u) == pc[u] \in {"counting", "bump", "fill", "flag", "leave"}

NoUndo(u) == sem    \* mutant
AlwaysUndo(u) == sem + 1    \* mutant
Undo(u) == IF InCS(u) THEN sem + 1 ELSE sem

Init ==
  /\ sem = 0 /\ removed = FALSE
  /\ user_count = 0 /\ global_seq = 0
  /\ quit_flags = [u \in User |-> 0] /\ logs = [i \in 0..(MaxLog-1) |-> Blank]
  /\ pc = [u \in User |-> "out"] /\ count = [u \in User |-> 0]
  /\ local_seq = [u \in User |-> 0] /\ heard = [u \in User |-> Blank]
  /\ i_quit = [u \in User |-> FALSE]
  /\ lines = 0 /\ posted = <<>>

-----------------------------------------------------------------------------
(* Entering: whoever finds user_count = 0 initialises, without the lock.   *)

Attach(u) ==
  /\ pc[u] = "out" /\ ~removed
  /\ OrderedLaunch => \A w \in User : ~Launching(w)
  /\ Goto(u, IF user_count = 0 THEN "setval" ELSE "enter")
  /\ UNCHANGED <<sem, removed, shm, count, own, lines, posted>>

SetVal(u) ==
  /\ pc[u] = "setval" /\ Goto(u, "memset")
  /\ sem' = 1
  /\ UNCHANGED <<removed, shm, count, own, lines, posted>>

Memset(u) ==
  /\ pc[u] = "memset" /\ Goto(u, "enter")
  /\ user_count' = 0 /\ global_seq' = 0
  /\ quit_flags' = [w \in User |-> 0] /\ logs' = [i \in 0..(MaxLog-1) |-> Blank]
  /\ UNCHANGED <<sem, removed, count, own, lines, posted>>

(* user_count++ is a load and a store, which only a memset can come between. *)
LockEnter(u) ==
  /\ pc[u] = "enter" /\ Goto(u, "counting")
  /\ P
  /\ count' = [count EXCEPT ![u] = user_count]
  /\ UNCHANGED <<removed, shm, own, lines, posted>>

Enter(u) ==
  /\ pc[u] = "counting" /\ Goto(u, "barrier")
  /\ user_count' = count[u] + 1
  /\ V
  /\ UNCHANGED <<removed, global_seq, quit_flags, logs, count, own, lines, posted>>

AllButOne == user_count >= N - 1    \* mutant
MoreThanAll == user_count > N    \* mutant
AllIn == user_count >= N

(* The barrier polls user_count; a user reads on from where global_seq is  *)
(* when it gets past.                                                      *)
Start(u) ==
  /\ pc[u] = "barrier" /\ Goto(u, "talk")
  /\ AllIn
  /\ local_seq' = [local_seq EXCEPT ![u] = global_seq]
  /\ UNCHANGED <<sem, removed, shm, count, heard, i_quit, lines, posted>>

-----------------------------------------------------------------------------
(* The loop: one line or a timeout, then all new messages, then the check. *)

EvenAfterQuit(u) == TRUE    \* mutant
MaySend(u) == ~i_quit[u]

Type(u, l) ==
  /\ pc[u] = "talk" /\ Goto(u, l)
  /\ l = "send" => MaySend(u)
  /\ lines < MaxLines /\ lines' = lines + 1
  /\ UNCHANGED <<sem, removed, shm, count, own, posted>>

Timeout(u) ==
  /\ pc[u] = "talk" /\ Goto(u, "read")
  /\ UNCHANGED <<sem, removed, shm, count, own, lines, posted>>

Lock(u, from, to) ==
  /\ pc[u] = from /\ Goto(u, to)
  /\ P
  /\ UNCHANGED <<removed, shm, count, own, lines, posted>>

LockSend(u) == Lock(u, "send", "bump")
LockQuit(u) == Lock(u, "quit", "flag")
LockLeave(u) == Lock(u, "end", "leave")

(* The new number is published before its slot is written.                 *)
Bump(u) ==
  /\ pc[u] = "bump" /\ Goto(u, "fill")
  /\ global_seq' = global_seq + 1
  /\ posted' = Append(posted, u)
  /\ UNCHANGED <<sem, removed, user_count, quit_flags, logs, count, own, lines>>

NextIndex(n) == (n + 1) % MaxLog    \* mutant
Index(n) == n % MaxLog

Fill(u) ==
  /\ pc[u] = "fill" /\ Goto(u, "read")
  /\ logs' = [logs EXCEPT ![Index(global_seq)] = Slot(u, global_seq)]
  /\ V
  /\ UNCHANGED <<removed, user_count, global_seq, quit_flags, count, own, lines, posted>>

SetFlag(u) ==
  /\ pc[u] = "flag" /\ Goto(u, "read")
  /\ quit_flags' = [quit_flags EXCEPT ![u] = 1]
  /\ i_quit' = [i_quit EXCEPT ![u] = TRUE]
  /\ V
  /\ UNCHANGED <<removed, user_count, global_seq, logs, count, local_seq, heard, lines, posted>>

(* What a copy of slot i can see: while its three fields are being         *)
(* written, any mixture of the old ones and the new.                       *)
Seen(i) ==
  {logs[i]} \cup
  UNION {[sender : {logs[i].sender, w}, seq : {logs[i].seq, global_seq},
          text : {logs[i].text, global_seq}] :
         w \in {w \in User : pc[w] = "fill" /\ global_seq % MaxLog = i}}

Read(u) ==
  /\ pc[u] = "read" /\ local_seq[u] < global_seq
  /\ local_seq' = [local_seq EXCEPT ![u] = @ + 1]
  /\ \E s \in Seen((local_seq[u] + 1) % MaxLog) : heard' = [heard EXCEPT ![u] = s]
  /\ UNCHANGED <<sem, removed, shm, pc, count, i_quit, lines, posted>>

AllQuit == \A u \in User : quit_flags[u] = 1

Check(u) ==
  /\ pc[u] = "read" /\ local_seq[u] >= global_seq
  /\ Goto(u, "check")
  /\ UNCHANGED <<sem, removed, shm, count, own, lines, posted>>

EndLoop(u) ==
  /\ pc[u] = "check" /\ Goto(u, IF AllQuit THEN "end" ELSE "talk")
  /\ UNCHANGED <<sem, removed, shm, count, own, lines, posted>>

LastTwo == user_count <= 2    \* mutant
CheckedFirst == user_count = 0    \* mutant
LastOne == user_count = 1

(* The lock is released before the objects are removed.                    *)
Leave(u) ==
  /\ pc[u] = "leave" /\ Goto(u, IF LastOne THEN "remove" ELSE "done")
  /\ user_count' = user_count - 1
  /\ V
  /\ UNCHANGED <<removed, global_seq, quit_flags, logs, count, own, lines, posted>>

Remove(u) ==
  /\ pc[u] = "remove" /\ Goto(u, "done")
  /\ removed' = TRUE
  /\ UNCHANGED <<sem, shm, count, own, lines, posted>>

(* A kill; SEM_UNDO releases the lock, nothing puts the segment right.     *)
Crash(u) ==
  /\ pc[u] \notin {"out", "done", "crashed"} /\ Goto(u, "crashed")
  /\ Cardinality({w \in User : pc[w] = "crashed"}) < MaxCrashes
  /\ sem' = Undo(u)
  /\ UNCHANGED <<removed, shm, count, own, lines, posted>>

Step(u) ==
  \/ SetVal(u) \/ Memset(u) \/ LockEnter(u) \/ Enter(u) \/ Start(u)
  \/ Timeout(u) \/ LockSend(u) \/ Bump(u) \/ Fill(u) \/ LockQuit(u) \/ SetFlag(u)
  \/ Read(u) \/ Check(u) \/ EndLoop(u) \/ LockLeave(u) \/ Leave(u) \/ Remove(u)

Next == \E u \in User :
  \/ Attach(u) \/ Step(u) \/ (\E l \in {"send", "quit"} : Type(u, l)) \/ Crash(u)

Spec == Init /\ [][Next]_vars

(* Every process runs, and those waiting on the semaphore are served in    *)
(* order.  Nobody has to start the program, to type or to be killed.       *)
FairSpec == Spec /\ \A u \in User : SF_vars(Step(u))

-----------------------------------------------------------------------------
NoCrash == \A u \in User : pc[u] # "crashed"

(* Typing. *)
TypeOK ==
  /\ sem \in 0..1 /\ removed \in BOOLEAN
  /\ user_count \in 0..N /\ global_seq \in Nat
  /\ quit_flags \in [User -> {0, 1}]
  /\ logs \in [0..(MaxLog-1) -> [sender : User \cup {0}, seq : Nat, text : Nat]]
  /\ pc \in [User -> {"out", "setval", "memset", "enter", "counting", "barrier", "talk",
                      "send", "bump", "fill", "quit", "flag", "read", "check", "end",
                      "leave", "remove", "done", "crashed"}]
  /\ count \in [User -> 0..N] /\ local_seq \in [User -> Nat]
  /\ heard \in [User -> [sender : User \cup {0}, seq : Nat, text : Nat]]
  /\ i_quit \in [User -> BOOLEAN]
  /\ lines \in 0..MaxLines /\ posted \in Seq(User)

(* The lock: at most one user is between p and v, and the semaphore is     *)
(* taken exactly then, also after kills.                                   *)
LockHeldByOne ==
  /\ \A u, w \in User : InCS(u) /\ InCS(w) => u = w
  /\ \A u \in User : InCS(u) => sem = 0
  /\ (\A u \in User : ~InCS(u)) /\ (\E u \in User : pc[u] \notin {"out", "setval", "crashed"})
       => sem = 1

(* The ring holds the last MaxLog messages: the slot of each is that       *)
(* message, but for the one being written by the user inside the lock.     *)
RingIntegrity == NoCrash =>
  /\ global_seq = Len(posted)
  /\ \A n \in 1..global_seq : n > global_seq - MaxLog =>
       \/ logs[n % MaxLog] = Slot(posted[n], n)
       \/ n = global_seq /\ pc[posted[n]] = "fill"

(* "The three processes start the talk at the same time": nobody talks     *)
(* before all have entered, whatever their order or a kill (the barrier of *)
(* main).                                                                  *)
BarrierHolds ==
  \A u, w \in User : pc[u] = "talk" => pc[w] # "out" /\ ~Launching(w)

(* "End at the same time": once anybody has gone past the loop, the talk   *)
(* is over for everyone, and no message is posted any more.                *)
PastLoop(u) == pc[u] \in {"end", "leave", "remove", "done"}
EndTogether == [][(\E u \in User : PastLoop(u))
                    => AllQuit /\ global_seq' = global_seq]_vars

(* The objects go away under nobody: when they do, all the others have     *)
(* gone past their last use of the semaphore (main).                       *)
RemovedByLast == removed => \A u \in User : pc[u] \in {"done", "crashed"}

(* When all have run the program, and nobody is killed, all get past the   *)
(* barrier.                                                                *)
EveryoneStarts == \A u \in User :
  (\A w \in User : pc[w] # "out") ~> (pc[u] # "barrier" /\ ~Launching(u)) \/ ~NoCrash

(* When all have quit, and nobody is killed, all get out, and the objects  *)
(* are removed.                                                            *)
QuitEnds == AllQuit ~> (removed /\ \A u \in User : pc[u] = "done") \/ ~NoCrash

(* "All three processes are guaranteed the same order": the slot a reader  *)
(* copies for a number holds the message with that number.                 *)
SameOrder == \A u \in User : heard[u] # Blank =>
  heard[u] = Slot(posted[local_seq[u]], local_seq[u])
=============================================================================
