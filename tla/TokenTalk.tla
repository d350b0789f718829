----------------------------- MODULE TokenTalk -----------------------------
(***************************************************************************)
(* The three-user talk of hw3/5.c.  One message queue carries the check-in *)
(* messages of the barrier, a token that is the lock on sending and holds  *)
(* the last message number, and the messages, addressed by mtype.  Each    *)
(* user is a main process, which becomes the sender, and a receiver child. *)
(*                                                                         *)
(* The queue is one sequence per mtype, under one capacity; the model      *)
(* covers one queue, until user 1 removes it.                              *)
(***************************************************************************)
EXTENDS Integers, FiniteSets, Sequences, SequencesExt

CONSTANTS
  N,         \* number of users, 3 in the code
  QueueCap,  \* messages with a body the kernel queues before msgsnd blocks
  MaxLines,  \* bound: lines typed, together
  MaxCrashes \* bound: times a user is killed

ASSUME TokenAssumption ==
  /\ N \in Nat \ {0, 1} /\ QueueCap \in Nat \ {0}
  /\ MaxLines \in Nat /\ MaxCrashes \in Nat

VARIABLES
  checkins, tokens, inbox, removed,  \* the queue, per mtype; it is removed
  pc, sline, seq, todo,  \* sender: its line, number, recipients left
  rpc, heard,            \* receiver; history: what it has taken
  lines, crashes,        \* lines typed, kills so far
  log                    \* history: all messages, in the order of the token

queue == <<checkins, tokens, inbox, removed>>
sendVars == <<pc, sline, seq, todo>>
recvVars == <<rpc, heard>>
bounds == <<lines, crashes>>
vars == <<queue, sendVars, recvVars, bounds, log>>

User == 1..N
Text == {"hello", "talk_quit"}
Message == [from : User, num : Nat, text : Text]

(* The queue's load: check-ins have no body and take no room in it.        *)
Waiting == UNION {{u} \X DOMAIN inbox[u] : u \in User}
Load == Len(tokens) + Cardinality(Waiting)
Room == Load < QueueCap

(* The users in their order, but for u itself.                             *)
FromZero(u) == [k \in 1..(N-1) |-> IF k < u THEN k - 1 ELSE k]    \* mutant
EveryoneToo(u) == [k \in User |-> k]    \* mutant
Recipients(u) == [k \in 1..(N-1) |-> IF k < u THEN k ELSE k + 1]

Init ==
  /\ checkins = 0 /\ tokens = <<>> /\ inbox = [u \in User |-> <<>>] /\ removed = FALSE
  /\ pc = [u \in User |-> "out"] /\ sline = [u \in User |-> "hello"]
  /\ seq = [u \in User |-> 0] /\ todo = [u \in User |-> <<>>]
  /\ rpc = [u \in User |-> "none"] /\ heard = [u \in User |-> <<>>]
  /\ lines = 0 /\ crashes = 0 /\ log = <<>>

-----------------------------------------------------------------------------
(* main *)

CheckIn(u) ==
  /\ pc[u] = "out" /\ ~removed
  /\ checkins' = checkins + 1
  /\ pc' = [pc EXCEPT ![u] = "barrier"]
  /\ UNCHANGED <<tokens, inbox, removed, sline, seq, todo, recvVars, bounds, log>>

(* The barrier counts the messages in the queue, whatever they are; once   *)
(* the queue is gone IPC_STAT fails and it waits for ever.                 *)
OneShort == checkins + Load >= N - 1    \* mutant
AllThere == checkins + Load >= N

AnyInjects(u) == TRUE    \* mutant
Injects(u) == u = 1

Pass(u) ==
  /\ pc[u] = "barrier" /\ ~removed
  /\ AllThere
  /\ pc' = [pc EXCEPT ![u] = IF Injects(u) THEN "inject" ELSE "idle"]
  /\ rpc' = [rpc EXCEPT ![u] = IF Injects(u) THEN "none" ELSE "recv"]
  /\ UNCHANGED <<queue, sline, seq, todo, heard, bounds, log>>

Inject(u) ==
  /\ pc[u] = "inject" /\ Room
  /\ tokens' = Append(tokens, 0)
  /\ pc' = [pc EXCEPT ![u] = "idle"]
  /\ rpc' = [rpc EXCEPT ![u] = "recv"]
  /\ UNCHANGED <<checkins, inbox, removed, sline, seq, todo, heard, bounds, log>>

(* After the sender's loop: the receiver is killed; user 1 goes on to      *)
(* remove the queue, a second later.                                       *)
KillReceiver(u) ==
  /\ pc[u] = "kill"
  /\ rpc' = [rpc EXCEPT ![u] = "done"]
  /\ pc' = [pc EXCEPT ![u] = IF u = 1 THEN "linger" ELSE "done"]
  /\ UNCHANGED <<queue, sline, seq, todo, heard, bounds, log>>

RemoveQueue(u) ==
  /\ pc[u] = "linger"
  /\ removed' = TRUE /\ checkins' = 0 /\ tokens' = <<>> /\ inbox' = [w \in User |-> <<>>]
  /\ pc' = [pc EXCEPT ![u] = "done"]
  /\ UNCHANGED <<sline, seq, todo, recvVars, bounds, log>>

-----------------------------------------------------------------------------
(* sender *)

Type(u, t) ==
  /\ pc[u] = "idle" /\ lines < MaxLines
  /\ lines' = lines + 1
  /\ sline' = [sline EXCEPT ![u] = t]
  /\ pc' = [pc EXCEPT ![u] = "want"]
  /\ UNCHANGED <<queue, seq, todo, recvVars, crashes, log>>

EndOfInput(u) ==
  /\ pc[u] = "idle"
  /\ pc' = [pc EXCEPT ![u] = "kill"]
  /\ UNCHANGED <<queue, sline, seq, todo, recvVars, bounds, log>>

TakeToken(u) ==
  /\ pc[u] = "want" /\ tokens # <<>>
  /\ tokens' = Tail(tokens)
  /\ seq' = [seq EXCEPT ![u] = Head(tokens) + 1]
  /\ todo' = [todo EXCEPT ![u] = Recipients(u)]
  /\ log' = Append(log, [from |-> u, num |-> Head(tokens) + 1, text |-> sline[u]])
  /\ pc' = [pc EXCEPT ![u] = "send"]
  /\ UNCHANGED <<checkins, inbox, removed, sline, recvVars, bounds>>

(* The wait for the token ends with EIDRM when the queue goes, and with    *)
(* EINVAL, which is fatal, when it was gone already.                       *)
TokenGone(u) ==
  /\ pc[u] = "want" /\ removed
  /\ \E l \in {"kill", "done"} : pc' = [pc EXCEPT ![u] = l]
  /\ UNCHANGED <<queue, sline, seq, todo, recvVars, bounds, log>>

(* msgsnd blocks on a full queue, with the token held; its failure on a    *)
(* removed queue is reported and ignored.                                  *)
SendTo(u) ==
  /\ pc[u] = "send" /\ todo[u] # <<>>
  /\ removed \/ Room
  /\ inbox' = IF removed THEN inbox
              ELSE [inbox EXCEPT ![Head(todo[u])] =
                      Append(@, [from |-> u, num |-> seq[u], text |-> sline[u]])]
  /\ todo' = [todo EXCEPT ![u] = Tail(@)]
  /\ UNCHANGED <<checkins, tokens, removed, pc, sline, seq, recvVars, bounds, log>>

KeptOnQuit(u) == IF sline[u] = "talk_quit" THEN tokens ELSE Append(tokens, seq[u])    \* mutant
StaleToken(u) == Append(tokens, seq[u] - 1)    \* mutant
Returned(u) == Append(tokens, seq[u])

ReturnToken(u) ==
  /\ pc[u] = "send" /\ todo[u] = <<>>
  /\ removed \/ Room
  /\ tokens' = IF removed THEN tokens ELSE Returned(u)
  /\ pc' = [pc EXCEPT ![u] = IF sline[u] = "talk_quit" THEN "kill" ELSE "idle"]
  /\ UNCHANGED <<checkins, inbox, removed, sline, seq, todo, recvVars, bounds, log>>

-----------------------------------------------------------------------------
(* receiver *)

NextOf(u) == Head(inbox[u])

OwnEnds(u, m) == m.from = u /\ m.text = "talk_quit"    \* mutant
Ends(u, m) == m.text = "talk_quit"

Receive(u) ==
  /\ rpc[u] = "recv" /\ inbox[u] # <<>>
  /\ LET m == NextOf(u) IN
       /\ heard' = [heard EXCEPT ![u] = Append(@, m)]
       /\ rpc' = [rpc EXCEPT ![u] = IF Ends(u, m) THEN "done" ELSE "recv"]
  /\ inbox' = [inbox EXCEPT ![u] = Tail(@)]
  /\ UNCHANGED <<checkins, tokens, removed, sendVars, bounds, log>>

ReceiveFail(u) ==
  /\ rpc[u] = "recv" /\ removed
  /\ rpc' = [rpc EXCEPT ![u] = "done"]
  /\ UNCHANGED <<queue, sendVars, heard, bounds, log>>

-----------------------------------------------------------------------------
(* A user is killed and may start the program again; the queue stays as it *)
(* is, with the check-ins nobody ever takes out.                           *)
Crash(u) ==
  /\ crashes < MaxCrashes /\ crashes' = crashes + 1
  /\ pc[u] \notin {"out", "done"}
  /\ pc' = [pc EXCEPT ![u] = "out"]
  /\ rpc' = [rpc EXCEPT ![u] = "none"]
  /\ UNCHANGED <<queue, sline, seq, todo, heard, lines, log>>

MainStep(u) ==
  \/ Pass(u) \/ Inject(u) \/ KillReceiver(u) \/ RemoveQueue(u)
  \/ TakeToken(u) \/ TokenGone(u) \/ SendTo(u) \/ ReturnToken(u)
ReceiverStep(u) == Receive(u) \/ ReceiveFail(u)

Next == \E u \in User :
  \/ CheckIn(u) \/ MainStep(u) \/ ReceiverStep(u)
  \/ (\E t \in Text : Type(u, t)) \/ EndOfInput(u) \/ Crash(u)

Spec == Init /\ [][Next]_vars

(* Processes run, and the kernel serves the waiters for a type of message  *)
(* or for room in the queue in order.  Nobody has to start or to type.     *)
FairSpec == Spec /\ \A u \in User : SF_vars(MainStep(u)) /\ WF_vars(ReceiverStep(u))

-----------------------------------------------------------------------------
(* Typing. *)
TypeOK ==
  /\ checkins \in Nat /\ tokens \in Seq(Nat) /\ removed \in BOOLEAN
  /\ inbox \in [User -> Seq(Message)] /\ Load <= QueueCap
  /\ pc \in [User -> {"out", "barrier", "inject", "idle", "want", "send", "kill",
                      "linger", "done"}]
  /\ sline \in [User -> Text] /\ seq \in [User -> Nat] /\ todo \in [User -> Seq(User)]
  /\ rpc \in [User -> {"none", "recv", "done"}] /\ heard \in [User -> Seq(Message)]
  /\ lines \in 0..MaxLines /\ crashes \in 0..MaxCrashes /\ log \in Seq(Message)

Holders == {u \in User : pc[u] = "send"}

(* "A token must not be there already": the queue and the senders together *)
(* have one at most, and one more for each time a user was killed and      *)
(* started again, which nothing in main prevents.  "It has to be given     *)
(* back even when we end, or the others do not run": once user 1 has put   *)
(* it in, it is never lost unless somebody is killed.                      *)
TokenUnique == ~removed =>
  /\ Len(tokens) + Cardinality(Holders) <= 1 + crashes
  /\ crashes = 0 /\ pc[1] \notin {"out", "barrier", "inject"}
       => Len(tokens) + Cardinality(Holders) >= 1

(* Every receiver is given the others' messages in the order of the token, *)
(* and none is lost on the way: what it took and what waits for it are     *)
(* others' messages, in their order, and they are all of them, but for the *)
(* message whose sender still holds the token and has u on its list.       *)
NothingLost == crashes = 0 /\ ~removed =>
  \A u \in User :
    LET got == heard[u] \o inbox[u]
    IN /\ \A i \in DOMAIN got :
            got[i].from # u /\ got[i].num \in DOMAIN log /\ got[i] = log[got[i].num]
       /\ \A i, j \in DOMAIN got : i < j => got[i].num < got[j].num
       /\ \A n \in DOMAIN log : log[n].from # u =>
            \/ \E i \in DOMAIN got : got[i] = log[n]
            \/ /\ n = Len(log) /\ log[n].from \in Holders
               /\ Contains(todo[log[n].from], u)

(* "Simultaneous start": nobody gets past the barrier before all have      *)
(* checked in.                                                             *)
BarrierHolds == crashes = 0 =>
  \A u, w \in User : pc[u] \notin {"out", "barrier"} => pc[w] # "out"

(* A line that is typed is sent and its sender goes on or quits, unless    *)
(* the queue stays full or somebody is killed; a sender under whom the     *)
(* queue is removed ends instead of waiting on.                            *)
LineSent == \A u \in User :
  pc[u] = "want" ~>
    \/ pc[u] \in {"idle", "kill"} \/ (removed /\ pc[u] = "done")
    \/ []~Room \/ crashes > 0

(* A talk_quit ends the receivers of all users, if nobody is killed, those *)
(* whose copy of it goes with the removed queue included.                  *)
ReceiversEnd ==
  (\E u \in User : pc[u] = "kill" /\ sline[u] = "talk_quit")
    ~> (\A w \in User : rpc[w] # "recv") \/ crashes > 0

-----------------------------------------------------------------------------
(* The order of the token, as the receivers hear it, until the queue is    *)
(* removed or somebody is killed.                                          *)
NoMessage == [from |-> 0, num |-> 0, text |-> "hello"]
LastHeard(u) == IF heard[u] = <<>> THEN NoMessage ELSE heard[u][Len(heard[u])]

Talk == INSTANCE Broadcast WITH
  Reader <- User,
  Msg <- Message,
  Ending <- {m \in Message : m.text = "talk_quit"},
  NoMsg <- NoMessage,
  open <- crashes = 0 /\ ~removed,
  posts <- log,
  place <- rpc,
  pos <- [u \in User |-> LastHeard(u).num],
  heard <- [u \in User |-> LastHeard(u)]

(* The talk implements Broadcast: each receiver hears every message of the *)
(* others, one after the other in the order of the token, from the first   *)
(* on, although it may start long after the first is sent.                 *)
ImplementsBroadcast == Talk!Spec
=============================================================================
