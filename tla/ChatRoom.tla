------------------------------ MODULE ChatRoom ------------------------------
(***************************************************************************)
(* The chat room of hw3/3-3/5.c.  A shared table lists the users with      *)
(* their private message queues; a sender numbers a line and puts it into  *)
(* the queue of every other active user, all inside the semaphore.  Each   *)
(* user is three processes: main, receiver and sender.  A terminal's       *)
(* Ctrl+C reaches all three, and the children have inherited the handler,  *)
(* cleanup, from main.                                                     *)
(*                                                                         *)
(* One lifetime of the room, from the creation of the semaphore to the     *)
(* removal of the shared objects.                                          *)
(***************************************************************************)
EXTENDS Integers, FiniteSets, Sequences

CONSTANTS
  User,           \* the runs of the program
  MaxUsers,       \* MAX_USERS
  QueueCap,       \* messages a private queue holds before msgsnd blocks
  SettledLaunch,  \* nobody starts while the creator still initialises
  MaxLines,       \* bound: lines typed, together
  MaxInts         \* bound: Ctrl+C presses, together

ASSUME ChatAssumption ==
  /\ IsFiniteSet(User) /\ 0 \notin User
  /\ MaxUsers \in Nat \ {0} /\ QueueCap \in Nat \ {0} /\ SettledLaunch \in BOOLEAN
  /\ MaxLines \in Nat /\ MaxInts \in Nat

VARIABLES
  created, removed,          \* how far the semaphore is made; the objects are removed
  sem, held,                 \* the semaphore; the processes it owes an undo
  msg_seq, user_count, users,  \* the segment; a slot is 0 or its owner
  pc, handling, pending,     \* per process; in the handler; Ctrl+C to come
  my_id, q, gone,            \* per user: slot, private queue, queue removed
  todo, seq, last,           \* per user: next slot to send to, its number, last number read
  lines, ints                \* lines typed, Ctrl+C presses

objects == <<created, removed>>
lock == <<sem, held>>
shm == <<msg_seq, user_count, users>>
signals == <<handling, pending>>
queues == <<q, gone>>
locals == <<todo, seq, last>>
bounds == <<lines, ints>>
vars == <<objects, lock, shm, pc, signals, my_id, queues, locals, bounds>>

Slot == 0..(MaxUsers-1)
NoSlot == -1
Empty == 0
Proc == User \X {"main", "recv", "send"}
Main(u) == <<u, "main">>
Recv(u) == <<u, "recv">>
Send(u) == <<u, "send">>

Goto(p, l) == pc' = [pc EXCEPT ![p] = l]

(* A failure of semop, once the semaphore is gone, is only reported.       *)
NoWait(p) == UNCHANGED lock    \* mutant
P(p) == \/ removed /\ UNCHANGED lock
        \/ ~removed /\ sem > 0 /\ sem' = sem - 1 /\ held' = held \cup {p}
V(p) == \/ removed /\ UNCHANGED lock
        \/ ~removed /\ sem' = sem + 1 /\ held' = held \ {p}

(* Processes that end give back what they hold of the semaphore.           *)
NoUndo(D) == UNCHANGED sem /\ held' = held \ D    \* mutant
UndoAll(D) == sem' = sem + Cardinality(D) /\ held' = held \ D    \* mutant
Undo(D) == /\ sem' = IF removed THEN sem ELSE sem + Cardinality(held \cap D)
           /\ held' = held \ D

Init ==
  /\ created = "no" /\ removed = FALSE /\ sem = 0 /\ held = {}
  /\ msg_seq = 0 /\ user_count = 0 /\ users = [i \in Slot |-> Empty]
  /\ pc = [p \in Proc |-> IF p[2] = "main" THEN "out" ELSE "none"]
  /\ handling = {} /\ pending = {}
  /\ my_id = [u \in User |-> NoSlot]
  /\ q = [u \in User |-> <<>>] /\ gone = {}
  /\ todo = [u \in User |-> 0] /\ seq = [u \in User |-> 0] /\ last = [u \in User |-> 0]
  /\ lines = 0 /\ ints = 0

-----------------------------------------------------------------------------
(* main *)

SemGet(u) ==
  /\ pc[Main(u)] = "out" /\ ~removed
  /\ SettledLaunch => \A w \in User : pc[Main(w)] \notin {"setval", "memset"}
  /\ Goto(Main(u), IF created = "no" THEN "setval" ELSE "attached")
  /\ created' = IF created = "no" THEN "made" ELSE created
  /\ UNCHANGED <<removed, lock, shm, signals, my_id, queues, locals, bounds>>

SetVal(u) ==
  /\ pc[Main(u)] = "setval" /\ Goto(Main(u), "memset")
  /\ sem' = 1 /\ created' = "set"
  /\ UNCHANGED <<removed, held, shm, signals, my_id, queues, locals, bounds>>

Memset(u) ==
  /\ pc[Main(u)] = "memset" /\ Goto(Main(u), "attached")
  /\ msg_seq' = 0 /\ user_count' = 0 /\ users' = [i \in Slot |-> Empty]
  /\ UNCHANGED <<objects, lock, signals, my_id, queues, locals, bounds>>

LockLogin(u) ==
  /\ pc[Main(u)] = "attached" /\ Goto(Main(u), "login")
  /\ P(Main(u))
  /\ UNCHANGED <<objects, shm, signals, my_id, queues, locals, bounds>>

(* Ctrl+C can leave the count below the slots taken.  A user who gets past *)
(* the test and finds no slot keeps my_id -1, writes users[-1], in front   *)
(* of the segment, and ends there; the kernel then does what v_sem does.   *)
HasRoom == user_count < MaxUsers /\ \E i \in Slot : users[i] = Empty
Reject(u) ==
  /\ pc[Main(u)] = "login" /\ ~HasRoom /\ Goto(Main(u), "dead")
  /\ V(Main(u))
  /\ UNCHANGED <<objects, shm, signals, my_id, queues, locals, bounds>>

SlotByCount(i) == i = user_count    \* mutant
FirstFree(i) == users[i] = Empty /\ \A j \in 0..(i-1) : users[j] # Empty

ChooseSlot(u) ==
  /\ pc[Main(u)] = "login" /\ user_count < MaxUsers /\ Goto(Main(u), "register")
  /\ \E i \in Slot : FirstFree(i) /\ my_id' = [my_id EXCEPT ![u] = i]
  /\ UNCHANGED <<objects, lock, shm, signals, queues, locals, bounds>>

Register(u) ==
  /\ pc[Main(u)] = "register" /\ Goto(Main(u), "forkRecv")
  /\ users' = [users EXCEPT ![my_id[u]] = u]
  /\ user_count' = user_count + 1
  /\ V(Main(u))
  /\ UNCHANGED <<objects, msg_seq, signals, my_id, queues, locals, bounds>>

ForkReceiver(u) ==
  /\ pc[Main(u)] = "forkRecv"
  /\ pc' = [pc EXCEPT ![Main(u)] = "forkSend", ![Recv(u)] = "recv"]
  /\ UNCHANGED <<objects, lock, shm, signals, my_id, queues, locals, bounds>>

ForkSender(u) ==
  /\ pc[Main(u)] = "forkSend"
  /\ pc' = [pc EXCEPT ![Main(u)] = "wait", ![Send(u)] = "idle"]
  /\ UNCHANGED <<objects, lock, shm, signals, my_id, queues, locals, bounds>>

ReceiverEnded(u) == pc[Recv(u)] = "dead"    \* mutant
SenderEnded(u) == pc[Send(u)] = "dead"

WaitSender(u) ==
  /\ pc[Main(u)] = "wait" /\ SenderEnded(u) /\ Goto(Main(u), "kill")
  /\ UNCHANGED <<objects, lock, shm, signals, my_id, queues, locals, bounds>>

-----------------------------------------------------------------------------
(* cleanup, run by main at the end or by any process as the handler        *)

(* Main knows both children, the sender the receiver; SIGKILL.  What they  *)
(* had in memory goes with them.                                           *)
Known(p) == CASE p[2] = "main" -> {Recv(p[1]), Send(p[1])}
              [] p[2] = "send" -> {Recv(p[1])}
              [] OTHER -> {}

Kill(p) ==
  LET D == {c \in Known(p) : pc[c] # "none"} IN
  /\ pc[p] = "kill"
  /\ pc' = [c \in Proc |-> IF c \in D THEN "dead" ELSE IF c = p THEN "lock" ELSE pc[c]]
  /\ Undo(D)
  /\ last' = [u \in User |-> IF Recv(u) \in D THEN 0 ELSE last[u]]
  /\ UNCHANGED <<objects, shm, signals, my_id, queues, todo, seq, bounds>>

LockLeave(p) ==
  /\ pc[p] = "lock" /\ Goto(p, "leave")
  /\ P(p)
  /\ UNCHANGED <<objects, shm, signals, my_id, queues, locals, bounds>>

Leave(p) ==
  /\ pc[p] = "leave" /\ Goto(p, "last")
  /\ users' = [users EXCEPT ![my_id[p[1]]] = Empty]
  /\ user_count' = user_count - 1
  /\ gone' = gone \cup {p[1]} /\ q' = [q EXCEPT ![p[1]] = <<>>]
  /\ V(p)
  /\ UNCHANGED <<objects, msg_seq, signals, my_id, locals, bounds>>

(* The count is looked at again, after the lock is released.               *)
LastUser(p) ==
  /\ pc[p] = "last" /\ Goto(p, IF user_count <= 0 THEN "remove" ELSE "dead")
  /\ UNCHANGED <<objects, lock, shm, signals, my_id, queues, locals, bounds>>

RemoveAll(p) ==
  /\ pc[p] = "remove" /\ Goto(p, "dead")
  /\ removed' = TRUE
  /\ UNCHANGED <<created, lock, shm, signals, my_id, queues, locals, bounds>>

-----------------------------------------------------------------------------
(* sender *)

Type(u) ==
  /\ pc[Send(u)] = "idle" /\ Goto(Send(u), "typed")
  /\ lines < MaxLines /\ lines' = lines + 1
  /\ UNCHANGED <<objects, lock, shm, signals, my_id, queues, locals, ints>>

EndOfInput(u) ==
  /\ pc[Send(u)] = "idle" /\ Goto(Send(u), "dead")
  /\ UNCHANGED <<objects, lock, shm, signals, my_id, queues, locals, bounds>>

LockSend(u) ==
  /\ pc[Send(u)] = "typed" /\ Goto(Send(u), "number")
  /\ P(Send(u))
  /\ UNCHANGED <<objects, shm, signals, my_id, queues, locals, bounds>>

Number(u) ==
  /\ pc[Send(u)] = "number" /\ Goto(Send(u), "send")
  /\ msg_seq' = msg_seq + 1
  /\ seq' = [seq EXCEPT ![u] = msg_seq + 1]
  /\ todo' = [todo EXCEPT ![u] = 0]
  /\ UNCHANGED <<objects, lock, user_count, users, signals, my_id, queues, last, bounds>>

(* One turn of the broadcast loop.  A full queue blocks it, lock held; a   *)
(* removed one makes msgsnd fail, which is ignored.                        *)
SendNext(u) ==
  /\ pc[Send(u)] = "send" /\ todo[u] \in Slot
  /\ todo' = [todo EXCEPT ![u] = @ + 1]
  /\ LET w == users[todo[u]] IN
       IF todo[u] = my_id[u] \/ w = Empty \/ w \in gone
         THEN UNCHANGED q
         ELSE /\ Len(q[w]) < QueueCap
              /\ q' = [q EXCEPT ![w] = Append(@, seq[u])]
  /\ UNCHANGED <<objects, lock, shm, pc, signals, my_id, gone, seq, last, bounds>>

(* Loop variable and message are written before they are read again.       *)
EndSend(u) ==
  /\ pc[Send(u)] = "send" /\ todo[u] \notin Slot /\ Goto(Send(u), "idle")
  /\ V(Send(u))
  /\ todo' = [todo EXCEPT ![u] = 0] /\ seq' = [seq EXCEPT ![u] = 0]
  /\ UNCHANGED <<objects, shm, signals, my_id, queues, last, bounds>>

-----------------------------------------------------------------------------
(* receiver *)

Receive(u) ==
  /\ pc[Recv(u)] = "recv" /\ q[u] # <<>>
  /\ last' = [last EXCEPT ![u] = Head(q[u])]
  /\ q' = [q EXCEPT ![u] = Tail(@)]
  /\ UNCHANGED <<objects, lock, shm, pc, signals, my_id, gone, todo, seq, bounds>>

-----------------------------------------------------------------------------
(* Ctrl+C: a signal to every process of the terminal, which each of them   *)
(* handles at its own time; the handler only exits before the login.       *)
Alive(p) == pc[p] \notin {"out", "none", "dead"}

CtrlC(u) ==
  /\ ints < MaxInts /\ ints' = ints + 1
  /\ Alive(Main(u))
  /\ pending' = pending \cup {p \in Proc : p[1] = u /\ Alive(p)}
  /\ UNCHANGED <<objects, lock, shm, pc, handling, my_id, queues, locals, lines>>

Deliver(p) ==
  /\ p \in pending /\ p \notin handling /\ Alive(p)
  /\ pending' = pending \ {p}
  /\ IF my_id[p[1]] = NoSlot
       THEN Goto(p, "dead") /\ Undo({p}) /\ UNCHANGED handling
       ELSE Goto(p, "kill") /\ handling' = handling \cup {p} /\ UNCHANGED lock
  /\ UNCHANGED <<objects, shm, my_id, queues, locals, bounds>>

MainStep(u) ==
  \/ SetVal(u) \/ Memset(u) \/ LockLogin(u) \/ Reject(u) \/ ChooseSlot(u)
  \/ Register(u) \/ ForkReceiver(u) \/ ForkSender(u) \/ WaitSender(u)
SenderStep(u) == LockSend(u) \/ Number(u) \/ SendNext(u) \/ EndSend(u)
Cleanup(p) ==
  Kill(p) \/ LockLeave(p) \/ Leave(p) \/ LastUser(p) \/ RemoveAll(p) \/ Deliver(p)

Next ==
  \/ \E u \in User : \/ SemGet(u) \/ MainStep(u) \/ SenderStep(u) \/ Receive(u)
                     \/ Type(u) \/ EndOfInput(u) \/ CtrlC(u)
  \/ \E p \in Proc : Cleanup(p)

Spec == Init /\ [][Next]_vars

(* Processes run, and those waiting on the semaphore or on a queue are     *)
(* served in order.  Nobody has to start, to type or to press Ctrl+C.      *)
FairSpec == Spec /\ \A u \in User :
  /\ SF_vars(MainStep(u) \/ Cleanup(Main(u)))
  /\ SF_vars(SenderStep(u) \/ Cleanup(Send(u)))
  /\ SF_vars(Receive(u) \/ Cleanup(Recv(u)))

-----------------------------------------------------------------------------
(* Typing. *)
TypeOK ==
  /\ created \in {"no", "made", "set"} /\ removed \in BOOLEAN
  /\ sem \in 0..1 /\ held \subseteq Proc
  /\ msg_seq \in Nat /\ user_count \in Int /\ users \in [Slot -> User \cup {Empty}]
  /\ pc \in [Proc -> {"out", "none", "setval", "memset", "attached", "login", "register",
                      "forkRecv", "forkSend", "wait", "kill", "lock", "leave", "last",
                      "remove", "idle", "typed", "number", "send", "recv", "dead"}]
  /\ handling \subseteq Proc /\ pending \subseteq Proc
  /\ my_id \in [User -> Slot \cup {NoSlot}] /\ q \in [User -> Seq(Nat)] /\ gone \subseteq User
  /\ todo \in [User -> 0..MaxUsers] /\ seq \in [User -> Nat] /\ last \in [User -> Nat]
  /\ lines \in 0..MaxLines /\ ints \in 0..MaxInts

(* The lock: one process holds it or it is free, whoever is interrupted or *)
(* killed inside, and nobody is in a critical section without it.          *)
InCS(p) == pc[p] \in {"login", "register", "leave", "number", "send"}
LockHeldByOne == ~removed =>
  /\ sem = IF created = "set" /\ held = {} THEN 1 ELSE 0
  /\ \A p, r \in held : p = r
  /\ \A p \in Proc : InCS(p) => p \in held

LoggedIn == {u \in User : pc[Main(u)] \in {"forkRecv", "forkSend", "wait", "kill", "lock", "leave"}}

(* "Login is a critical section", "only the first to create it initialises *)
(* it": while nobody presses Ctrl+C, the table has one slot for each user  *)
(* logged in and user_count is their number.                               *)
TableAgrees == ~removed /\ ints = 0 =>
  /\ user_count = Cardinality({i \in Slot : users[i] # Empty})
  /\ \A i \in Slot, u \in User : users[i] = u <=> u \in LoggedIn /\ my_id[u] = i

(* A receiver gets the messages in the order of their numbers, although    *)
(* every sender writes to every queue: the broadcast is inside the lock.   *)
InNumberOrder == \A u \in User :
  LET s == <<last[u]>> \o q[u] IN
  \A i, j \in DOMAIN s : i < j => s[i] < s[j] /\ s[j] <= msg_seq

(* "To the active ones, except me": when the loop has passed the slot of a *)
(* user who has not left and whose receiver lives, that user has the       *)
(* message or has it in its queue.                                         *)
Has(w, n) == last[w] = n \/ \E i \in DOMAIN q[w] : q[w][i] = n
Reached(u) == pc[Send(u)] = "send" =>
  \A k \in Slot : k < todo[u] /\ k # my_id[u] /\ users[k] \in User \ gone =>
    pc[Recv(users[k])] = "dead" \/ Has(users[k], seq[u])

Delivery == ~removed => InNumberOrder /\ \A u \in User : Reached(u)

(* A broadcast is in front of the full queue of a user whose main, in      *)
(* cleanup, has killed its receiver and waits for the lock.                *)
HeldUp == \E u, w \in User :
  /\ pc[Send(u)] = "send" /\ todo[u] \in Slot /\ users[todo[u]] = w
  /\ Len(q[w]) >= QueueCap /\ pc[Main(w)] = "lock"

(* While nobody presses Ctrl+C, whoever ends its input leaves, unless a    *)
(* broadcast is held up, which it then is for good: neither another queue  *)
(* that is full, nor a broadcast that waits for room in one, keeps main or *)
(* its cleanup from the end.                                               *)
LeavesOrHeldUp == \A u \in User :
  pc[Send(u)] = "dead" ~> pc[Main(u)] = "dead" \/ HeldUp

(* "When the sender ends (Ctrl+D) it is ended with it": while nobody       *)
(* presses Ctrl+C, main leaves the room after its sender's end (main,      *)
(* cleanup).                                                               *)
LeavesAfterEnd == \A u \in User : pc[Send(u)] = "dead" ~> pc[Main(u)] = "dead"
=============================================================================
