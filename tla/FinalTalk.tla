----------------------------- MODULE FinalTalk -----------------------------
(***************************************************************************)
(* The multi-user talk of final/5.c.  Each user runs one instance of the   *)
(* program: main logs in and forks a receiver and a sender.  The instances *)
(* share a segment (total, msgn, ids), a semaphore guarding it, and ONE    *)
(* message queue, where the mtype of a message is its number: the sender   *)
(* of number n puts `total' copies of it in the queue, and every receiver  *)
(* takes one copy of each number, in order.                                *)
(*                                                                         *)
(* The model covers one lifetime of the room, from the creation of the     *)
(* semaphore to the removal of the three IPC objects.                      *)
(***************************************************************************)
EXTENDS Integers, FiniteSets, SequencesExt

CONSTANTS
  User,        \* the runs of the program
  MaxUsers,    \* MAX_USERS
  MaxMsgn,     \* the last message number (99999)
  QueueCap,    \* messages the kernel keeps in the queue before msgsnd blocks
  MaxLines,    \* bound: lines the users type, together
  MaxCrashes   \* bound: users whose terminal is killed

ASSUME ConstantsAssumption ==
  /\ IsFiniteSet(User)
  /\ MaxUsers \in Nat \ {0} /\ MaxMsgn \in Nat \ {0} /\ QueueCap \in Nat \ {0}
  /\ MaxLines \in Nat /\ MaxCrashes \in Nat

VARIABLES
  created, removed,       \* how far the semaphore is made; all IPC objects removed
  sem, total, msgn, ids,  \* semaphore value and the shared segment
  queue,                  \* the message queue
  mpc, myid,              \* main, per user
  rpc, rnum, rbuf,        \* receiver: local_msgn and buf
  spc, sline, stype, scopies,  \* sender: buf.text, buf.mtype, copies left
  typed,  \* lines typed so far
  log  \* history: every message numbered, by whom, and who was counted then

shmVars == <<total, msgn, ids>>
recvVars == <<rpc, rnum, rbuf>>
sendVars == <<spc, sline, stype, scopies, typed>>
vars == <<created, removed, sem, shmVars, queue, mpc, myid, recvVars, sendVars, log>>

Text == {"hello", "talk_quit"}
Message == [mtype : 0..MaxMsgn, from : 1..MaxUsers, text : Text]
NoMessage == [mtype |-> 0, from |-> 0, text |-> "hello"]

(* The number after n: 99999 wraps to 0, in the sender as in the receiver. *)
NeverWraps(n) == n + 1    \* mutant
NextNum(n) == IF n >= MaxMsgn THEN 0 ELSE n + 1

(* The processes of u are inside a critical section. *)
InCS(u) == mpc[u] \in {"login", "slot", "leave", "free"} \/ spc[u] = "number"
(* The users that have an id, and those that `total' counts: a login counts *)
(* first and then takes the id, a logout also counts first.                *)
HasId == {u \in User : myid[u] # 0}
Counted == {u \in User : mpc[u] = "slot" \/ (myid[u] # 0 /\ mpc[u] # "free")}

(* u was killed; "torn" is a kill between two writes of a critical section. *)
Killed(u) == mpc[u] \in {"crashed", "torn"}

(* sem_op: its result is never looked at, so it does nothing once the      *)
(* semaphore is gone.                                                      *)
P == /\ removed \/ sem > 0
     /\ sem' = IF removed THEN sem ELSE sem - 1
V == sem' = IF removed THEN sem ELSE sem + 1

(* What SEM_UNDO gives back when the processes of u die. *)
NoUndo(u) == sem    \* mutant
Undo(u) == IF InCS(u) /\ ~removed THEN sem + 1 ELSE sem

(* A login takes the lowest free id. *)
IdByCount(i) == i = total    \* mutant
FreeId(i) == ids[i] = 0 /\ \A j \in 1..(i-1) : ids[j] # 0

(* A message is sent once for each user counted when it is numbered. *)
OthersOnly == total - 1    \* mutant
Copies == total

(* The message that makes the receiver of u exit. *)
AnyQuit(u, m) == m.text = "talk_quit"    \* mutant
OwnQuit(u, m) == m.from = myid[u] /\ m.text = "talk_quit"

Init ==
  /\ created = "no" /\ removed = FALSE
  /\ sem = 0 /\ total = 0 /\ msgn = 0 /\ ids = [i \in 1..MaxUsers |-> 0]
  /\ queue = <<>> /\ log = <<>>
  /\ mpc = [u \in User |-> "out"] /\ myid = [u \in User |-> 0]
  /\ rpc = [u \in User |-> "none"] /\ rnum = [u \in User |-> 0]
  /\ rbuf = [u \in User |-> NoMessage]
  /\ spc = [u \in User |-> "none"] /\ sline = [u \in User |-> "hello"]
  /\ stype = [u \in User |-> 0] /\ scopies = [u \in User |-> 0]
  /\ typed = 0

-----------------------------------------------------------------------------
(* main *)

(* semget(IPC_EXCL): only the creator goes on to SETVAL; a new semaphore   *)
(* has value 0.                                                            *)
SemGet(u) ==
  /\ mpc[u] = "out" /\ ~removed
  /\ created' = IF created = "no" THEN "made" ELSE created
  /\ mpc' = [mpc EXCEPT ![u] = IF created = "no" THEN "setval" ELSE "attached"]
  /\ UNCHANGED <<removed, sem, shmVars, queue, myid, recvVars, sendVars, log>>

SetVal(u) ==
  /\ mpc[u] = "setval"
  /\ sem' = 1 /\ created' = "set"
  /\ mpc' = [mpc EXCEPT ![u] = "attached"]
  /\ UNCHANGED <<removed, shmVars, queue, myid, recvVars, sendVars, log>>

LockLogin(u) ==
  /\ mpc[u] = "attached"
  /\ P
  /\ mpc' = [mpc EXCEPT ![u] = "login"]
  /\ UNCHANGED <<created, removed, shmVars, queue, myid, recvVars, sendVars, log>>

Reject(u) ==
  /\ mpc[u] = "login" /\ total >= MaxUsers
  /\ V
  /\ mpc' = [mpc EXCEPT ![u] = "rejected"]
  /\ UNCHANGED <<created, removed, shmVars, queue, myid, recvVars, sendVars, log>>

CountLogin(u) ==
  /\ mpc[u] = "login" /\ total < MaxUsers
  /\ total' = total + 1
  /\ mpc' = [mpc EXCEPT ![u] = "slot"]
  /\ UNCHANGED <<created, removed, sem, msgn, ids, queue, myid, recvVars, sendVars, log>>

(* The lowest free id is taken and both children are forked.  If no id is  *)
(* free, myid is used uninitialized: it may be any number.                 *)
Login(u) ==
  /\ mpc[u] = "slot"
  /\ \E i \in 1..MaxUsers :
       /\ FreeId(i) \/ \A j \in 1..MaxUsers : ids[j] # 0
       /\ ids' = [ids EXCEPT ![i] = 1]
       /\ myid' = [myid EXCEPT ![u] = i]
  /\ V
  /\ mpc' = [mpc EXCEPT ![u] = "wait"]
  /\ rpc' = [rpc EXCEPT ![u] = "new"]
  /\ spc' = [spc EXCEPT ![u] = "idle"]
  /\ UNCHANGED <<created, removed, total, msgn, queue, rnum, rbuf,
                 sline, stype, scopies, typed, log>>

LockLeave(u) ==
  /\ mpc[u] = "wait" /\ rpc[u] = "exit" /\ spc[u] = "exit"
  /\ P
  /\ mpc' = [mpc EXCEPT ![u] = "leave"]
  /\ UNCHANGED <<created, removed, shmVars, queue, myid, recvVars, sendVars, log>>

CountLeave(u) ==
  /\ mpc[u] = "leave"
  /\ total' = total - 1
  /\ mpc' = [mpc EXCEPT ![u] = "free"]
  /\ UNCHANGED <<created, removed, sem, msgn, ids, queue, myid, recvVars, sendVars, log>>

(* The last one out removes the objects instead of releasing the lock.     *)
Leave(u) ==
  /\ mpc[u] = "free"
  /\ ids' = [ids EXCEPT ![myid[u]] = 0]
  /\ myid' = [myid EXCEPT ![u] = 0]
  /\ IF total = 0
       THEN removed' = TRUE /\ queue' = <<>> /\ UNCHANGED sem
       ELSE V /\ UNCHANGED <<removed, queue>>
  /\ mpc' = [mpc EXCEPT ![u] = "done"]
  /\ UNCHANGED <<created, total, msgn, recvVars, sendVars, log>>

-----------------------------------------------------------------------------
(* receiver *)

(* local_msgn is read without the lock, some time after the login. *)
StartReceiver(u) ==
  /\ rpc[u] = "new"
  /\ rnum' = [rnum EXCEPT ![u] = msgn]
  /\ rpc' = [rpc EXCEPT ![u] = "recv"]
  /\ UNCHANGED <<created, removed, sem, shmVars, queue, mpc, myid, rbuf, sendVars, log>>

(* msgrcv(n): the first message of type n, any message when n = 0. *)
AnyFirst(i, n) == i = 1    \* mutant
IsFirst(i, n) ==
  /\ n = 0 \/ queue[i].mtype = n
  /\ \A j \in 1..(i-1) : n # 0 /\ queue[j].mtype # n

Receive(u) ==
  /\ rpc[u] = "recv" /\ ~removed
  /\ LET n == NextNum(rnum[u]) IN
       /\ rnum' = [rnum EXCEPT ![u] = n]
       /\ \E i \in DOMAIN queue :
            /\ IsFirst(i, n)
            /\ rbuf' = [rbuf EXCEPT ![u] = queue[i]]
            /\ queue' = RemoveAt(queue, i)
            /\ rpc' = [rpc EXCEPT ![u] = IF OwnQuit(u, queue[i]) THEN "exit" ELSE "recv"]
  /\ UNCHANGED <<created, removed, sem, shmVars, mpc, myid, sendVars, log>>

(* msgrcv fails once the queue is gone; the error is not looked at. *)
ReceiveFail(u) ==
  /\ rpc[u] = "recv" /\ removed
  /\ rnum' = [rnum EXCEPT ![u] = NextNum(rnum[u])]
  /\ UNCHANGED <<created, removed, sem, shmVars, queue, mpc, myid, rpc, rbuf, sendVars, log>>

-----------------------------------------------------------------------------
(* sender *)

Type(u, t) ==
  /\ spc[u] = "idle" /\ typed < MaxLines
  /\ typed' = typed + 1
  /\ sline' = [sline EXCEPT ![u] = t]
  /\ spc' = [spc EXCEPT ![u] = "typed"]
  /\ UNCHANGED <<created, removed, sem, shmVars, queue, mpc, myid, recvVars,
                 stype, scopies, log>>

LockSend(u) ==
  /\ spc[u] = "typed"
  /\ P
  /\ spc' = [spc EXCEPT ![u] = "number"]
  /\ UNCHANGED <<created, removed, shmVars, queue, mpc, myid, recvVars,
                 sline, stype, scopies, typed, log>>

Number(u) ==
  /\ spc[u] = "number"
  /\ msgn' = NextNum(msgn)
  /\ stype' = [stype EXCEPT ![u] = NextNum(msgn)]
  /\ scopies' = [scopies EXCEPT ![u] = Copies]
  /\ log' = Append(log, [by |-> u, to |-> HasId,
                         msg |-> [mtype |-> NextNum(msgn), from |-> myid[u], text |-> sline[u]]])
  /\ V
  /\ spc' = [spc EXCEPT ![u] = "send"]
  /\ UNCHANGED <<created, removed, total, ids, queue, mpc, myid, recvVars, sline, typed>>

(* One msgsnd, outside the lock: it blocks on a full queue, and fails on a *)
(* removed queue and for mtype 0 (EINVAL); failures are not looked at.     *)
SendCopy(u) ==
  /\ spc[u] = "send" /\ scopies[u] > 0
  /\ scopies' = [scopies EXCEPT ![u] = @ - 1]
  /\ IF removed \/ stype[u] = 0
       THEN UNCHANGED queue
       ELSE /\ Len(queue) < QueueCap
            /\ queue' = Append(queue, [mtype |-> stype[u], from |-> myid[u], text |-> sline[u]])
  /\ UNCHANGED <<created, removed, sem, shmVars, mpc, myid, recvVars,
                 spc, sline, stype, typed, log>>

EndSend(u) ==
  /\ spc[u] = "send" /\ scopies[u] = 0
  /\ spc' = [spc EXCEPT ![u] = IF sline[u] = "talk_quit" THEN "exit" ELSE "idle"]
  /\ UNCHANGED <<created, removed, sem, shmVars, queue, mpc, myid, recvVars,
                 sline, stype, scopies, typed, log>>

-----------------------------------------------------------------------------
(* The terminal of u goes away: its processes die wherever they are.  The  *)
(* kernel undoes a semaphore they hold (SEM_UNDO) and nothing else.        *)
Crash(u) ==
  /\ mpc[u] \notin {"out", "rejected", "done", "crashed", "torn"}
  /\ Cardinality({w \in User : Killed(w)}) < MaxCrashes
  /\ sem' = Undo(u)
  /\ mpc' = [mpc EXCEPT ![u] = IF @ \in {"slot", "free"} THEN "torn" ELSE "crashed"]
  /\ rpc' = [rpc EXCEPT ![u] = "dead"]
  /\ spc' = [spc EXCEPT ![u] = "dead"]
  /\ UNCHANGED <<created, removed, shmVars, queue, myid, rnum, rbuf,
                 sline, stype, scopies, typed, log>>

MainStep(u) == \/ SetVal(u) \/ LockLogin(u) \/ Reject(u) \/ CountLogin(u) \/ Login(u)
               \/ LockLeave(u) \/ CountLeave(u) \/ Leave(u)
ReceiverStep(u) == StartReceiver(u) \/ Receive(u) \/ ReceiveFail(u)
SenderStep(u) == LockSend(u) \/ Number(u) \/ SendCopy(u) \/ EndSend(u)

Next == \E u \in User :
  \/ SemGet(u) \/ MainStep(u) \/ ReceiverStep(u) \/ SenderStep(u)
  \/ (\E t \in Text : Type(u, t)) \/ Crash(u)

Spec == Init /\ [][Next]_vars

(* The scheduler runs every process, and the kernel serves those waiting   *)
(* on a semaphore or a full queue in order, so none is overtaken for ever: *)
(* a process that is able to go on again and again does.  Nobody has to    *)
(* start the program, to type or to crash.                                 *)
Fairness == \A u \in User :
  SF_vars(MainStep(u)) /\ WF_vars(ReceiverStep(u)) /\ SF_vars(SenderStep(u))

FairSpec == Spec /\ Fairness

-----------------------------------------------------------------------------
(* Typing. *)
TypeOK ==
  /\ created \in {"no", "made", "set"} /\ removed \in BOOLEAN
  /\ sem \in Int /\ total \in Int /\ msgn \in 0..MaxMsgn
  /\ ids \in [1..MaxUsers -> {0, 1}]
  /\ queue \in Seq(Message)
  /\ mpc \in [User -> {"out", "setval", "attached", "login", "slot", "rejected", "wait",
                       "leave", "free", "done", "crashed", "torn"}]
  /\ myid \in [User -> 0..MaxUsers]
  /\ rpc \in [User -> {"none", "new", "recv", "exit", "dead"}]
  /\ rnum \in [User -> 0..MaxMsgn]
  /\ rbuf \in [User -> Message \cup {NoMessage}]
  /\ spc \in [User -> {"none", "idle", "typed", "number", "send", "exit", "dead"}]
  /\ sline \in [User -> Text] /\ stype \in [User -> 0..MaxMsgn]
  /\ scopies \in [User -> Int] /\ typed \in 0..MaxLines
  /\ log \in Seq([by : User, to : SUBSET User, msg : Message])

(* The lock: while the room exists, at most one process of all users is in *)
(* a critical section, and the semaphore is free exactly when none is,     *)
(* also after any of them is killed there (SEM_UNDO, sem_op).              *)
LockHeldByOne == ~removed =>
  /\ \A u, w \in User : InCS(u) /\ InCS(w) => u = w
  /\ sem = IF created = "set" /\ \A u \in User : ~InCS(u) THEN 1 ELSE 0

(* The two halves of the segment agree with each other and with the users, *)
(* also after a user is killed, except between the two writes of a login   *)
(* or a logout: total counts those logged in, each holds an id nobody else *)
(* has, and a login that was not rejected finds a free one (the id loop of *)
(* main has no error path for a full table).                               *)
NoTorn == \A u \in User : mpc[u] # "torn"
SlotsAgree == ~removed /\ NoTorn =>
  /\ total = Cardinality(Counted)
  /\ \A i \in 1..MaxUsers : ids[i] = 1 <=> \E u \in User : myid[u] = i
  /\ \A u, w \in HasId : myid[u] = myid[w] => u = w
  /\ \A u \in User : mpc[u] = "slot" => \E i \in 1..MaxUsers : FreeId(i)

(* The last number is not used yet: a receiver there would ask for type 0. *)
NoWrap == Len(log) < MaxMsgn
NoCrash == \A u \in User : ~Killed(u)

CopiesOf(n) == {i \in DOMAIN queue : queue[i].mtype = n}
Unsent(n) == LET u == log[n].by IN IF spc[u] = "send" /\ stype[u] = n THEN scopies[u] ELSE 0
Waiting(n) == {u \in User : rpc[u] = "recv" /\ rnum[u] < n}

(* No receiver is starved of a message: however logins, logouts and other  *)
(* broadcasts interleave, the copies of a number that are in the queue or  *)
(* still to be sent suffice for the receivers that have not passed it.     *)
NoStarve == ~removed /\ NoWrap /\ NoCrash =>
  \A n \in 1..Len(log) : Cardinality(CopiesOf(n)) + Unsent(n) >= Cardinality(Waiting(n))

(* Agreement: what a receiver holds is the message numbered last before    *)
(* its own count, so any two users print the same messages in one order,   *)
(* though the copies are sent outside the lock and overtake each other.    *)
AgreedOrder == ~removed /\ NoWrap =>
  \A u \in User : rpc[u] \in {"recv", "exit"} /\ rbuf[u] # NoMessage =>
    /\ rnum[u] \in 1..Len(log)
    /\ rbuf[u] = log[rnum[u]].msg

(* A receiver exits on a talk_quit its own user typed, even though ids are *)
(* reused after a logout and old copies stay in the queue.                 *)
OwnQuitOnly == NoWrap /\ NoTorn =>
  \A u \in User : rpc[u] = "exit" =>
    log[rnum[u]].by = u /\ log[rnum[u]].msg.text = "talk_quit"

(* Whoever types talk_quit while the receiver runs gets out of the program; *)
(* only a message queue that stays full for ever can keep a user in.       *)
QuitTyped(u) == spc[u] = "typed" /\ sline[u] = "talk_quit" /\ rpc[u] = "recv" /\ ~removed
QuitLeaves == \A u \in User :
  QuitTyped(u) ~> mpc[u] = "done" \/ [](Len(queue) = QueueCap)

(* "Waits for a particular message number": what msgrcv hands to a         *)
(* receiver has the number it counted up to (receiver).                    *)
WaitsForItsNumber ==
  \A u \in User : rpc[u] = "recv" /\ rbuf[u] # NoMessage /\ ~removed => rbuf[u].mtype = rnum[u]

-----------------------------------------------------------------------------
(* The order every receiver of the room agrees on, until the room is gone  *)
(* or its numbers are used up.                                             *)
Order == INSTANCE TotalOrder WITH
  Reader <- User,
  Msg <- Message,
  NoMsg <- NoMessage,
  open <- ~removed /\ NoWrap,
  posts <- [k \in DOMAIN log |-> log[k].msg],
  listening <- {u \in User : rpc[u] = "recv"},
  pos <- rnum,
  heard <- rbuf

(* The room implements TotalOrder: each receiver hears every message from  *)
(* where it starts, one after the other, in the order of their numbers.    *)
ImplementsTotalOrder == Order!Spec
=============================================================================
