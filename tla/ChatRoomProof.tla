---------------------------- MODULE ChatRoomProof ---------------------------
(***************************************************************************)
(* Proofs about ChatRoom, for any users, any table and any number of       *)
(* Ctrl+C.  The inductive invariant has these parts:                       *)
(*   LockSet   who holds the semaphore, and who is to set it               *)
(*   Ids       the slots of the table against the users' own ids           *)
(*   Creating  nothing has happened while the creator initialises          *)
(*   Numbers   the numbers in the queues against msg_seq                   *)
(*   Table     the table against the users logged in, without Ctrl+C       *)
(*   Forks     main has no children before it has forked them              *)
(*   Reaches   whoever a broadcast has passed has its message              *)
(*   Count     user_count is at most the number of slots taken             *)
(*   Waiting   whom a process can wait for, without Ctrl+C                 *)
(***************************************************************************)
EXTENDS ChatRoom, FiniteSetTheorems, SequenceTheorems, WellFoundedInduction, TLAPS

Place == {"out", "none", "setval", "memset", "attached", "login", "register",
          "forkRecv", "forkSend", "wait", "kill", "lock", "leave", "last",
          "remove", "idle", "typed", "number", "send", "recv", "dead"}
First == {"setval", "memset"}
Early == {"out", "setval", "memset", "attached", "login"}

LockSet ==
  /\ LockHeldByOne
  /\ ~removed /\ created # "set" => held = {}
  /\ \A u \in User : pc[Main(u)] = "setval" => created = "made"
  /\ \A u, w \in User : pc[Main(u)] = "setval" /\ pc[Main(w)] = "setval" => u = w

Ids ==
  /\ \A u \in User : pc[Main(u)] \in Early => my_id[u] = NoSlot
  /\ \A i \in Slot, u \in User : users[i] = u => my_id[u] = i
  /\ \A u \in User : pc[Main(u)] \in Early => pc[Recv(u)] = "none" /\ pc[Send(u)] = "none"

Creating ==
  /\ created = "no" => \A u \in User : pc[Main(u)] = "out"
  /\ \A u \in User : pc[Main(u)] \in First => \A w \in User : w # u => pc[Main(w)] = "out"
  /\ (\A u \in User : pc[Main(u)] \in First \cup {"out"}) =>
       msg_seq = 0 /\ user_count = 0 /\ \A i \in Slot : users[i] = Empty

(* Every number that is waiting for w, or was the last it took, is at most *)
(* n, and they are in order.                                               *)
Waits(w, n) ==
  /\ last[w] <= n
  /\ \A i \in DOMAIN q[w] : last[w] < q[w][i] /\ q[w][i] <= n
  /\ \A i, j \in DOMAIN q[w] : i < j => q[w][i] < q[w][j]

(* What the broadcast of u has not reached has only smaller numbers.       *)
Numbers == ~removed =>
  /\ \A w \in User : Waits(w, msg_seq)
  /\ \A u \in User : pc[Send(u)] = "send" =>
       /\ seq[u] = msg_seq /\ msg_seq > 0
       /\ \A k \in Slot : k >= todo[u] /\ k # my_id[u] /\ users[k] \in User
            => Waits(users[k], msg_seq - 1)

Quiet ==
  /\ pending = {}
  /\ \A u \in User : pc[Recv(u)] \in {"none", "recv", "dead"}
  /\ \A u \in User : pc[Send(u)] \in {"none", "idle", "typed", "number", "send", "dead"}

Taken == {i \in Slot : users[i] # Empty}

Inside == {"forkRecv", "forkSend", "wait", "kill", "lock", "leave"}

Agree ==
  /\ user_count = Cardinality(Taken)
  /\ \A i \in Slot, u \in User : users[i] = u <=> u \in LoggedIn /\ my_id[u] = i
  /\ \A u \in User : pc[Main(u)] = "register" => my_id[u] \in Slot /\ users[my_id[u]] = Empty
  /\ \A u \in LoggedIn : my_id[u] \in Slot

Table == ints = 0 => Quiet /\ (~removed => Agree)

(* The three processes of each user.                                       *)
LEMMA Processes ==
  /\ \A u \in User : Main(u) \in Proc /\ Recv(u) \in Proc /\ Send(u) \in Proc
  /\ \A u, w \in User : Main(u) # Recv(w) /\ Main(u) # Send(w) /\ Recv(u) # Send(w)
  /\ \A u, w \in User : (Main(u) = Main(w) => u = w) /\ (Recv(u) = Recv(w) => u = w)
                        /\ (Send(u) = Send(w) => u = w)
  /\ \A u \in User : Main(u)[1] = u /\ Recv(u)[1] = u /\ Send(u)[1] = u
                     /\ Main(u)[2] = "main" /\ Recv(u)[2] = "recv" /\ Send(u)[2] = "send"
  /\ \A p \in Proc : p[1] \in User /\ p \in {Main(p[1]), Recv(p[1]), Send(p[1])}
BY DEF Main, Recv, Send, Proc

LEMMA PcMove ==
  ASSUME TypeOK, NEW p \in Proc, NEW l \in Place, pc' = [pc EXCEPT ![p] = l]
  PROVE  pc' \in [Proc -> Place] /\ \A r \in Proc : pc'[r] = IF r = p THEN l ELSE pc[r]
BY DEF TypeOK, Place

(* Steps of the lock: a process takes it, gives it back, or moves without  *)
(* it; processes that end give it back.                                    *)

CSPlace == {"login", "register", "leave", "number", "send"}
LockGoal == LockSet' /\ sem' \in 0..1 /\ held' \subseteq Proc

LEMMA LockMove ==
  ASSUME TypeOK, LockSet, NEW p \in Proc, NEW l \in Place \ {"setval"},
         pc' = [pc EXCEPT ![p] = l], UNCHANGED objects,
         \/ P(p)
         \/ V(p) /\ InCS(p) /\ l \notin CSPlace
         \/ UNCHANGED lock /\ (l \in CSPlace => InCS(p))
  PROVE  LockGoal
<1>1. \A r \in Proc : pc'[r] = IF r = p THEN l ELSE pc[r]
  BY PcMove
<1>2. UNCHANGED <<created, removed>>
  BY DEF objects
<1>3. sem \in 0..1 /\ held \subseteq Proc
  BY DEF TypeOK
<1>4. \A u \in User : pc'[Main(u)] = "setval" => pc[Main(u)] = "setval"
  BY <1>1, Processes
<1>5. \A r \in Proc : r # p => (InCS(r)' <=> InCS(r))
  BY <1>1 DEF InCS
<1>6. InCS(p)' <=> l \in CSPlace
  BY <1>1 DEF InCS, CSPlace
<1>7. CASE removed
  <2>1. UNCHANGED lock
    BY <1>7 DEF P, V
  <2> QED BY <1>2, <1>3, <1>4, <1>7, <2>1 DEF LockGoal, LockSet, LockHeldByOne, lock
<1>8. CASE ~removed
  <2>1. /\ sem = IF created = "set" /\ held = {} THEN 1 ELSE 0
        /\ \A r, s \in held : r = s
        /\ \A r \in Proc : InCS(r) => r \in held
        /\ created # "set" => held = {}
    BY <1>8 DEF LockSet, LockHeldByOne
  <2>2. CASE P(p)
    <3>1. sem > 0 /\ sem' = sem - 1 /\ held' = held \cup {p}
      BY <1>8, <2>2 DEF P
    <3>2. held = {} /\ created = "set" /\ held' = {p} /\ sem' = 0
      BY <2>1, <3>1
    <3>3. \A r \in Proc : InCS(r)' => r \in held'
      BY <1>5, <2>1, <3>2
    <3> QED BY <1>2, <1>4, <3>2, <3>3 DEF LockGoal, LockSet, LockHeldByOne
  <2>3. CASE V(p) /\ InCS(p) /\ l \notin CSPlace
    <3>1. sem' = sem + 1 /\ held' = held \ {p}
      BY <1>8, <2>3 DEF V
    <3>2. held = {p} /\ created = "set"
      BY <2>1, <2>3
    <3>3. held' = {} /\ sem' = 1
      BY <2>1, <3>1, <3>2
    <3>4. \A r \in Proc : ~InCS(r)'
      BY <1>5, <1>6, <2>1, <2>3, <3>2
    <3> QED BY <1>2, <1>4, <3>2, <3>3, <3>4 DEF LockGoal, LockSet, LockHeldByOne
  <2>4. CASE UNCHANGED lock /\ (l \in CSPlace => InCS(p))
    <3>1. \A r \in Proc : InCS(r)' => r \in held
      BY <1>5, <1>6, <2>1, <2>4
    <3>2. UNCHANGED <<sem, held>>
      BY <2>4 DEF lock
    <3> QED BY <1>2, <1>3, <1>4, <2>1, <3>1, <3>2 DEF LockGoal, LockSet, LockHeldByOne
  <2> QED BY <2>2, <2>3, <2>4
<1> QED BY <1>7, <1>8

LEMMA LockUndo ==
  ASSUME TypeOK, LockSet, NEW D \in SUBSET Proc, Undo(D), UNCHANGED objects,
         \A r \in Proc : InCS(r)' => InCS(r) /\ r \notin D,
         \A u \in User : pc'[Main(u)] = "setval" => pc[Main(u)] = "setval"
  PROVE  LockGoal
<1>1. UNCHANGED <<created, removed>> /\ held' = held \ D
      /\ sem' = IF removed THEN sem ELSE sem + Cardinality(held \cap D)
  BY DEF objects, Undo
<1>2. sem \in 0..1 /\ held \subseteq Proc
  BY DEF TypeOK
<1>3. CASE removed
  BY <1>1, <1>2, <1>3 DEF LockGoal, LockSet, LockHeldByOne
<1>4. CASE ~removed
  <2>1. /\ sem = IF created = "set" /\ held = {} THEN 1 ELSE 0
        /\ \A r, s \in held : r = s
        /\ \A r \in Proc : InCS(r) => r \in held
        /\ created # "set" => held = {}
    BY <1>4 DEF LockSet, LockHeldByOne
  <2>2. \A r \in Proc : InCS(r)' => r \in held'
    BY <1>1, <2>1
  <2>3. /\ sem' = IF created = "set" /\ held' = {} THEN 1 ELSE 0
        /\ sem' \in 0..1
    <3>1. CASE held \cap D = {}
      <4>1. Cardinality(held \cap D) = 0 /\ held' = held
        BY <1>1, <3>1, FS_EmptySet
      <4> QED BY <1>1, <1>2, <1>4, <2>1, <4>1
    <3>2. ASSUME NEW p \in held \cap D PROVE sem' = 1 /\ held' = {} /\ created = "set"
      <4>1. held \cap D = {p} /\ held' = {} /\ created = "set" /\ sem = 0
        BY <1>1, <2>1, <3>2
      <4>2. Cardinality({p}) = 1
        BY FS_Singleton
      <4> QED BY <1>1, <1>4, <4>1, <4>2
    <3> QED BY <3>1, <3>2
  <2>4. \A u \in User : pc'[Main(u)] = "setval" => created' = "made"
    BY <1>1 DEF LockSet
  <2>5. \A u, w \in User : pc'[Main(u)] = "setval" /\ pc'[Main(w)] = "setval" => u = w
    BY DEF LockSet
  <2>6. (\A r, s \in held' : r = s) /\ held' \subseteq Proc /\ (created' # "set" => held' = {})
    BY <1>1, <1>2, <2>1
  <2> QED BY <1>1, <2>2, <2>3, <2>4, <2>5, <2>6 DEF LockGoal, LockSet, LockHeldByOne
<1> QED BY <1>3, <1>4

LEMMA KillFacts ==
  ASSUME TypeOK, NEW p \in Proc, Kill(p)
  PROVE  \E D \in SUBSET Proc :
           /\ D \subseteq {Recv(p[1]), Send(p[1])} /\ p \notin D /\ Undo(D)
           /\ \A r \in D : pc[r] # "none"
           /\ pc' \in [Proc -> Place]
           /\ \A r \in Proc : pc'[r] = IF r \in D THEN "dead" ELSE IF r = p THEN "lock" ELSE pc[r]
           /\ last' = [u \in User |-> IF Recv(u) \in D THEN 0 ELSE last[u]]
<1> DEFINE D == {c \in Known(p) : pc[c] # "none"}
<1>1. D \subseteq {Recv(p[1]), Send(p[1])} /\ p \notin D /\ D \subseteq Proc
  BY Processes DEF Known
<1>2. Undo(D) /\ last' = [u \in User |-> IF Recv(u) \in D THEN 0 ELSE last[u]]
      /\ pc' = [c \in Proc |-> IF c \in D THEN "dead" ELSE IF c = p THEN "lock" ELSE pc[c]]
  BY DEF Kill
<1>3. \A r \in D : pc[r] # "none"
  OBVIOUS
<1> HIDE DEF D
<1>4. pc' \in [Proc -> Place]
  BY <1>2 DEF TypeOK, Place
<1> QED BY <1>1, <1>2, <1>3, <1>4

LEMMA ForkMoves ==
  ASSUME TypeOK, NEW u \in User
  PROVE  /\ ForkReceiver(u) =>
              /\ pc' \in [Proc -> Place] /\ pc[Main(u)] = "forkRecv"
              /\ \A r \in Proc : pc'[r] = IF r = Main(u) THEN "forkSend"
                                           ELSE IF r = Recv(u) THEN "recv" ELSE pc[r]
         /\ ForkSender(u) =>
              /\ pc' \in [Proc -> Place] /\ pc[Main(u)] = "forkSend"
              /\ \A r \in Proc : pc'[r] = IF r = Main(u) THEN "wait"
                                           ELSE IF r = Send(u) THEN "idle" ELSE pc[r]
<1>1. Main(u) \in Proc /\ Recv(u) \in Proc /\ Send(u) \in Proc
      /\ Main(u) # Recv(u) /\ Main(u) # Send(u)
  BY Processes
<1>2. pc \in [Proc -> Place]
  BY DEF TypeOK, Place
<1>3. ASSUME ForkReceiver(u)
      PROVE  pc[Main(u)] = "forkRecv"
             /\ pc' = [[pc EXCEPT ![Main(u)] = "forkSend"] EXCEPT ![Recv(u)] = "recv"]
  BY <1>3 DEF ForkReceiver
<1>4. ASSUME ForkSender(u)
      PROVE  pc[Main(u)] = "forkSend"
             /\ pc' = [[pc EXCEPT ![Main(u)] = "wait"] EXCEPT ![Send(u)] = "idle"]
  BY <1>4 DEF ForkSender
<1> QED BY <1>1, <1>2, <1>3, <1>4 DEF Place

LEMMA LockStep ==
  ASSUME TypeOK, LockSet, [Next]_vars
  PROVE  LockGoal
<1>0. sem \in 0..1 /\ held \subseteq Proc
  BY DEF TypeOK
<1>1. CASE UNCHANGED <<objects, lock, pc>>
  BY <1>0, <1>1 DEF LockGoal, LockSet, LockHeldByOne, InCS, objects, lock
<1>2. ASSUME NEW u \in User, SemGet(u) PROVE LockGoal
  <2>1. PICK l \in {"setval", "attached"} : pc' = [pc EXCEPT ![Main(u)] = l]
                                            /\ (l = "setval" <=> created = "no")
    BY <1>2 DEF SemGet, Goto
  <2>2. removed' = removed /\ created' = IF created = "no" THEN "made" ELSE created
    BY <1>2, Zenon DEF SemGet
  <2>8. UNCHANGED lock
    BY <1>2 DEF SemGet
  <2>9. UNCHANGED <<sem, held>>
    BY <2>8 DEF lock
  <2>3. \A r \in Proc : pc'[r] = IF r = Main(u) THEN l ELSE pc[r]
    <3>1. l \in Place /\ Main(u) \in Proc /\ pc' = [pc EXCEPT ![Main(u)] = l]
      BY <2>1, Processes DEF Place
    <3> QED BY <3>1, PcMove
  <2>4. \A r \in Proc : InCS(r)' => InCS(r)
    BY <2>3 DEF InCS
  <2>5. \A w \in User : pc'[Main(w)] = "setval" => created' = "made"
    BY <2>1, <2>2, <2>3, Processes DEF LockSet
  <2>6. \A v, w \in User : pc'[Main(v)] = "setval" /\ pc'[Main(w)] = "setval" => v = w
    BY <2>1, <2>3, Processes DEF LockSet
  <2>7. (created' = "set" <=> created = "set")
    BY <2>2
  <2> QED BY <1>0, <2>2, <2>4, <2>5, <2>6, <2>7, <2>9 DEF LockGoal, LockSet, LockHeldByOne
<1>3. ASSUME NEW u \in User, SetVal(u) PROVE LockGoal
  <2>1. /\ pc[Main(u)] = "setval" /\ pc' = [pc EXCEPT ![Main(u)] = "memset"]
        /\ sem' = 1 /\ created' = "set" /\ UNCHANGED <<removed, held>>
    BY <1>3 DEF SetVal, Goto
  <2>2. \A r \in Proc : pc'[r] = IF r = Main(u) THEN "memset" ELSE pc[r]
    BY <2>1, Processes, PcMove DEF Place
  <2>3. \A r \in Proc : InCS(r)' => InCS(r)
    BY <2>2 DEF InCS
  <2>4. \A w \in User : pc'[Main(w)] # "setval"
    BY <2>1, <2>2, Processes DEF LockSet
  <2>5. ~removed => held = {}
    BY <2>1 DEF LockSet
  <2> QED BY <1>0, <2>1, <2>3, <2>4, <2>5 DEF LockGoal, LockSet, LockHeldByOne
<1>4. ASSUME NEW u \in User, LockLogin(u) \/ LockSend(u) PROVE LockGoal
  <2>1. PICK p \in Proc, l \in {"login", "number"} :
          pc' = [pc EXCEPT ![p] = l] /\ P(p) /\ UNCHANGED objects
    BY <1>4, Processes DEF LockLogin, LockSend, Goto
  <2> QED BY <2>1, LockMove DEF Place
<1>5. ASSUME NEW p \in Proc, LockLeave(p) PROVE LockGoal
  <2>1. pc' = [pc EXCEPT ![p] = "leave"] /\ P(p) /\ UNCHANGED objects
    BY <1>5 DEF LockLeave, Goto
  <2> QED BY <2>1, LockMove DEF Place
<1>6. ASSUME NEW u \in User, Reject(u) \/ Register(u) \/ EndSend(u) PROVE LockGoal
  <2>1. PICK p \in Proc, l \in {"dead", "forkRecv", "idle"} :
          pc' = [pc EXCEPT ![p] = l] /\ V(p) /\ InCS(p) /\ UNCHANGED objects
    BY <1>6, Processes DEF Reject, Register, EndSend, Goto, InCS
  <2> QED BY <2>1, LockMove DEF Place, CSPlace
<1>7. ASSUME NEW p \in Proc, Leave(p) PROVE LockGoal
  <2>1. pc' = [pc EXCEPT ![p] = "last"] /\ V(p) /\ InCS(p) /\ UNCHANGED objects
    BY <1>7 DEF Leave, Goto, InCS
  <2> QED BY <2>1, LockMove DEF Place, CSPlace
<1>8. ASSUME NEW u \in User,
             \/ Memset(u) \/ ChooseSlot(u) \/ ForkSender(u) \/ WaitSender(u) \/ Type(u)
             \/ EndOfInput(u) \/ Number(u)
      PROVE  UNCHANGED <<objects, lock>>
  BY <1>8 DEF Memset, ChooseSlot, ForkSender, WaitSender, Type, EndOfInput, Number
<1>9. ASSUME NEW u \in User,
             Memset(u) \/ ChooseSlot(u) \/ WaitSender(u) \/ Type(u) \/ EndOfInput(u) \/ Number(u)
      PROVE  LockGoal
  <2>1. PICK p \in Proc, l \in {"attached", "register", "kill", "typed", "dead", "send"} :
          pc' = [pc EXCEPT ![p] = l] /\ (l \in CSPlace => InCS(p))
    BY <1>9, Processes DEF Memset, ChooseSlot, WaitSender, Type, EndOfInput, Number, Goto, InCS,
                           CSPlace
  <2> QED BY <1>8, <1>9, <2>1, LockMove DEF Place
<1>10. ASSUME NEW u \in User, ForkReceiver(u) \/ ForkSender(u) PROVE LockGoal
  <2>1. \A r \in Proc : pc'[r] \in {pc[r], "forkSend", "recv", "wait", "idle"}
    BY <1>10, ForkMoves
  <2>2. UNCHANGED <<objects, sem, held>>
    BY <1>10 DEF ForkReceiver, ForkSender, lock
  <2>3. \A r \in Proc : InCS(r)' => InCS(r)
    BY <2>1 DEF InCS
  <2>4. \A w \in User : pc'[Main(w)] = "setval" => pc[Main(w)] = "setval"
    BY <2>1, Processes
  <2> QED BY <1>0, <2>2, <2>3, <2>4 DEF LockGoal, LockSet, LockHeldByOne, objects
<1>11. ASSUME NEW p \in Proc, Kill(p) PROVE LockGoal
  <2>1. PICK D \in SUBSET Proc :
          /\ Undo(D)
          /\ \A r \in Proc : pc'[r] = IF r \in D THEN "dead" ELSE IF r = p THEN "lock" ELSE pc[r]
    BY <1>11, KillFacts
  <2>2. UNCHANGED objects
    BY <1>11 DEF Kill
  <2>3. \A r \in Proc : InCS(r)' => InCS(r) /\ r \notin D
    BY <2>1 DEF InCS
  <2>4. \A w \in User : pc'[Main(w)] = "setval" => pc[Main(w)] = "setval"
    BY <2>1, Processes
  <2> QED BY <2>1, <2>2, <2>3, <2>4, LockUndo
<1>12. ASSUME NEW p \in Proc, LastUser(p) PROVE LockGoal
  <2>1. PICK l \in {"remove", "dead"} : pc' = [pc EXCEPT ![p] = l]
    BY <1>12 DEF LastUser, Goto
  <2>2. UNCHANGED <<objects, lock>>
    BY <1>12 DEF LastUser
  <2> QED BY <2>1, <2>2, LockMove DEF Place, CSPlace
<1>13. ASSUME NEW p \in Proc, RemoveAll(p) PROVE LockGoal
  <2>1. pc' = [pc EXCEPT ![p] = "dead"] /\ removed' /\ UNCHANGED <<created, sem, held>>
    BY <1>13 DEF RemoveAll, Goto, lock
  <2>2. \A r \in Proc : pc'[r] = IF r = p THEN "dead" ELSE pc[r]
    BY <2>1, PcMove DEF Place
  <2>3. \A w \in User : pc'[Main(w)] = "setval" => pc[Main(w)] = "setval"
    BY <2>2, Processes
  <2> QED BY <1>0, <2>1, <2>3 DEF LockGoal, LockSet, LockHeldByOne
<1>14. ASSUME NEW p \in Proc, Deliver(p) PROVE LockGoal
  <2>1. UNCHANGED objects
    BY <1>14 DEF Deliver
  <2>2. CASE my_id[p[1]] = NoSlot
    <3>1. pc' = [pc EXCEPT ![p] = "dead"] /\ Undo({p})
      BY <1>14, <2>2 DEF Deliver, Goto
    <3>2. \A r \in Proc : pc'[r] = IF r = p THEN "dead" ELSE pc[r]
      BY <3>1, PcMove DEF Place
    <3>3. \A r \in Proc : InCS(r)' => InCS(r) /\ r \notin {p}
      BY <3>2 DEF InCS
    <3>4. \A w \in User : pc'[Main(w)] = "setval" => pc[Main(w)] = "setval"
      BY <3>2, Processes
    <3> QED BY <2>1, <3>1, <3>3, <3>4, LockUndo
  <2>3. CASE my_id[p[1]] # NoSlot
    <3>1. pc' = [pc EXCEPT ![p] = "kill"] /\ UNCHANGED lock
      BY <1>14, <2>3 DEF Deliver, Goto
    <3> QED BY <2>1, <3>1, LockMove DEF Place, CSPlace
  <2> QED BY <2>2, <2>3
<1>15. ASSUME NEW u \in User, SendNext(u) \/ Receive(u) \/ CtrlC(u)
       PROVE  UNCHANGED <<objects, lock, pc>>
  BY <1>15 DEF SendNext, Receive, CtrlC
<1> QED BY <1>1, <1>2, <1>3, <1>4, <1>5, <1>6, <1>7, <1>9, <1>10, <1>11, <1>12, <1>13, <1>14,
           <1>15 DEF Next, MainStep, SenderStep, Cleanup, vars

(* Each process stays at a place of the program.                           *)
LEMMA PcStep ==
  ASSUME TypeOK, [Next]_vars
  PROVE  pc' \in [Proc -> Place]
<1>0. pc \in [Proc -> Place]
  BY DEF TypeOK, Place
<1>1. ASSUME NEW p \in Proc, NEW l \in Place, Goto(p, l) PROVE pc' \in [Proc -> Place]
  BY <1>0, <1>1 DEF Goto
<1>2. ASSUME NEW u \in User, SemGet(u) PROVE pc' \in [Proc -> Place]
  <2>1. Main(u) \in Proc /\ \E l \in {"setval", "attached"} : Goto(Main(u), l)
    BY <1>2, Processes DEF SemGet
  <2> QED BY <1>1, <2>1 DEF Place
<1>3. ASSUME NEW u \in User,
             \/ SetVal(u) \/ Memset(u) \/ LockLogin(u) \/ Reject(u) \/ ChooseSlot(u)
             \/ Register(u) \/ WaitSender(u)
      PROVE  pc' \in [Proc -> Place]
  <2>1. Main(u) \in Proc
        /\ \E l \in {"memset", "attached", "login", "dead", "register", "forkRecv", "kill"} :
             Goto(Main(u), l)
    BY <1>3, Processes DEF SetVal, Memset, LockLogin, Reject, ChooseSlot, Register, WaitSender
  <2> QED BY <1>1, <2>1 DEF Place
<1>4. ASSUME NEW u \in User, ForkReceiver(u) \/ ForkSender(u) PROVE pc' \in [Proc -> Place]
  BY <1>4, ForkMoves
<1>5. ASSUME NEW u \in User,
             Type(u) \/ EndOfInput(u) \/ LockSend(u) \/ Number(u) \/ EndSend(u)
      PROVE  pc' \in [Proc -> Place]
  <2>1. Send(u) \in Proc /\ \E l \in {"typed", "dead", "number", "send", "idle"} : Goto(Send(u), l)
    BY <1>5, Processes DEF Type, EndOfInput, LockSend, Number, EndSend
  <2> QED BY <1>1, <2>1 DEF Place
<1>6. ASSUME NEW u \in User, SendNext(u) \/ Receive(u) \/ CtrlC(u) PROVE pc' \in [Proc -> Place]
  BY <1>0, <1>6 DEF SendNext, Receive, CtrlC
<1>7. ASSUME NEW p \in Proc, Kill(p) PROVE pc' \in [Proc -> Place]
  BY <1>7, KillFacts
<1>8. ASSUME NEW p \in Proc,
             LockLeave(p) \/ Leave(p) \/ LastUser(p) \/ RemoveAll(p) \/ Deliver(p)
      PROVE  pc' \in [Proc -> Place]
  <2>1. \E l \in {"leave", "last", "remove", "dead", "kill"} : Goto(p, l)
    BY <1>8 DEF LockLeave, Leave, LastUser, RemoveAll, Deliver
  <2> QED BY <1>1, <2>1 DEF Place
<1> QED BY <1>0, <1>2, <1>3, <1>4, <1>5, <1>6, <1>7, <1>8
        DEF Next, MainStep, SenderStep, Cleanup, vars

TypeRest ==
  /\ created \in {"no", "made", "set"} /\ removed \in BOOLEAN
  /\ msg_seq \in Nat /\ user_count \in Int /\ users \in [Slot -> User \cup {Empty}]
  /\ handling \subseteq Proc /\ pending \subseteq Proc
  /\ my_id \in [User -> Slot \cup {NoSlot}] /\ q \in [User -> Seq(Nat)] /\ gone \subseteq User
  /\ todo \in [User -> 0..MaxUsers] /\ seq \in [User -> Nat] /\ last \in [User -> Nat]
  /\ lines \in 0..MaxLines /\ ints \in 0..MaxInts

LEMMA TypeStep ==
  ASSUME TypeOK, LockSet, [Next]_vars
  PROVE  TypeOK'
<1>0. TypeRest
  BY DEF TypeOK, TypeRest
<1>1. TypeRest' => TypeOK'
  BY LockStep, PcStep DEF TypeRest, TypeOK, LockGoal, Place
<1>2. CASE UNCHANGED <<objects, shm, signals, my_id, queues, locals, bounds>>
  <2>1. UNCHANGED <<created, removed, msg_seq, user_count, users, handling, pending, my_id,
                    q, gone, todo, seq, last, lines, ints>>
    BY <1>2 DEF objects, shm, signals, queues, locals, bounds
  <2>2. removed' \in BOOLEAN
    BY <1>0, <2>1, Zenon DEF TypeRest
  <2> QED BY <1>0, <1>1, <2>1, <2>2 DEF TypeRest
<1>3. ASSUME NEW u \in User,
             \/ LockLogin(u) \/ Reject(u) \/ ForkReceiver(u) \/ ForkSender(u) \/ WaitSender(u)
             \/ EndOfInput(u) \/ LockSend(u)
      PROVE  UNCHANGED <<objects, shm, signals, my_id, queues, locals, bounds>>
  BY <1>3 DEF LockLogin, Reject, ForkReceiver, ForkSender, WaitSender, EndOfInput, LockSend
<1>4. ASSUME NEW p \in Proc, LockLeave(p) \/ LastUser(p)
      PROVE  UNCHANGED <<objects, shm, signals, my_id, queues, locals, bounds>>
  BY <1>4 DEF LockLeave, LastUser
<1>5. ASSUME NEW u \in User, SemGet(u) \/ SetVal(u) PROVE TypeRest'
  <2>1. UNCHANGED <<removed, shm, signals, my_id, queues, locals, bounds>>
    BY <1>5 DEF SemGet, SetVal
  <2>2. created' \in {"no", "made", "set"}
    BY <1>0, <1>5 DEF SemGet, SetVal, TypeRest
  <2> QED BY <1>0, <2>1, <2>2 DEF TypeRest, shm, signals, queues, locals, bounds
<1>6. ASSUME NEW u \in User, Memset(u) PROVE TypeRest'
  <2>1. UNCHANGED <<objects, signals, my_id, queues, locals, bounds>>
    BY <1>6 DEF Memset
  <2>2. msg_seq' = 0 /\ user_count' = 0 /\ users' = [i \in Slot |-> Empty]
    BY <1>6 DEF Memset
  <2> QED BY <1>0, <2>1, <2>2 DEF TypeRest, objects, signals, queues, locals, bounds
<1>7. ASSUME NEW u \in User, ChooseSlot(u) PROVE TypeRest'
  <2>1. UNCHANGED <<objects, shm, signals, queues, locals, bounds>>
    BY <1>7 DEF ChooseSlot
  <2>2. \E i \in Slot : my_id' = [my_id EXCEPT ![u] = i]
    BY <1>7 DEF ChooseSlot
  <2> QED BY <1>0, <2>1, <2>2 DEF TypeRest, objects, shm, signals, queues, locals, bounds
<1>8. ASSUME NEW u \in User, Register(u) PROVE TypeRest'
  <2>1. UNCHANGED <<objects, msg_seq, signals, my_id, queues, locals, bounds>>
    BY <1>8 DEF Register
  <2>2. user_count' \in Int /\ users' \in [Slot -> User \cup {Empty}]
    <3>1. user_count' = user_count + 1 /\ users' = [users EXCEPT ![my_id[u]] = u]
      BY <1>8 DEF Register
    <3>2. user_count \in Int /\ users \in [Slot -> User \cup {Empty}]
      BY <1>0 DEF TypeRest
    <3>3. user_count' \in Int
      BY <3>1, <3>2
    <3>4. users' \in [Slot -> User \cup {Empty}]
      BY <3>1, <3>2
    <3> QED BY <3>3, <3>4
  <2> QED BY <1>0, <2>1, <2>2 DEF TypeRest, objects, signals, queues, locals, bounds
<1>9. ASSUME NEW p \in Proc, Kill(p) PROVE TypeRest'
  <2>1. UNCHANGED <<objects, shm, signals, my_id, queues, todo, seq, bounds>>
    BY <1>9 DEF Kill
  <2>2. PICK D \in SUBSET Proc : last' = [w \in User |-> IF Recv(w) \in D THEN 0 ELSE last[w]]
    BY <1>9, KillFacts
  <2>3. last' \in [User -> Nat]
    BY <1>0, <2>2 DEF TypeRest
  <2> QED BY <1>0, <2>1, <2>3 DEF TypeRest, objects, shm, signals, queues, bounds
<1>10. ASSUME NEW p \in Proc, Leave(p) PROVE TypeRest'
  <2>1. UNCHANGED <<objects, msg_seq, signals, my_id, locals, bounds>> /\ p[1] \in User
    BY <1>10, Processes DEF Leave
  <2>2. user_count' \in Int /\ users' \in [Slot -> User \cup {Empty}]
    <3>1. user_count' = user_count - 1 /\ users' = [users EXCEPT ![my_id[p[1]]] = Empty]
      BY <1>10 DEF Leave
    <3>2. user_count \in Int /\ users \in [Slot -> User \cup {Empty}]
      BY <1>0 DEF TypeRest
    <3>3. user_count' \in Int
      BY <3>1, <3>2
    <3>4. users' \in [Slot -> User \cup {Empty}]
      BY <3>1, <3>2
    <3> QED BY <3>3, <3>4
  <2>3. q' \in [User -> Seq(Nat)] /\ gone' \subseteq User
    BY <1>0, <1>10, <2>1 DEF Leave, TypeRest
  <2> QED BY <1>0, <2>1, <2>2, <2>3 DEF TypeRest, objects, signals, locals, bounds
<1>11. ASSUME NEW p \in Proc, RemoveAll(p) PROVE TypeRest'
  <2>1. UNCHANGED <<created, shm, signals, my_id, queues, locals, bounds>> /\ removed' = TRUE
    BY <1>11 DEF RemoveAll
  <2>2. removed' \in BOOLEAN
    BY <2>1
  <2> QED BY <1>0, <2>1, <2>2 DEF TypeRest, shm, signals, queues, locals, bounds
<1>12. ASSUME NEW p \in Proc, Deliver(p) PROVE TypeRest'
  <2>1. UNCHANGED <<objects, shm, my_id, queues, locals, bounds>>
    BY <1>12 DEF Deliver
  <2>2. handling' \subseteq Proc /\ pending' \subseteq Proc
    BY <1>0, <1>12 DEF Deliver, TypeRest
  <2> QED BY <1>0, <2>1, <2>2 DEF TypeRest, objects, shm, queues, locals, bounds
<1>13. ASSUME NEW u \in User, Type(u) PROVE TypeRest'
  <2>1. UNCHANGED <<objects, shm, signals, my_id, queues, locals, ints>>
    BY <1>13 DEF Type
  <2>2. lines' \in 0..MaxLines
    BY <1>0, <1>13, ChatAssumption DEF Type, TypeRest
  <2> QED BY <1>0, <2>1, <2>2 DEF TypeRest, objects, shm, signals, queues, locals
<1>14. ASSUME NEW u \in User, Number(u) PROVE TypeRest'
  <2>1. UNCHANGED <<objects, user_count, users, signals, my_id, queues, last, bounds>>
    BY <1>14 DEF Number
  <2>2. msg_seq' \in Nat /\ seq' \in [User -> Nat] /\ todo' \in [User -> 0..MaxUsers]
    BY <1>0, <1>14, ChatAssumption DEF Number, TypeRest
  <2> QED BY <1>0, <2>1, <2>2 DEF TypeRest, objects, signals, queues, bounds
<1>15. ASSUME NEW u \in User, SendNext(u) PROVE TypeRest'
  <2>1. UNCHANGED <<objects, shm, signals, my_id, gone, seq, last, bounds>>
    BY <1>15 DEF SendNext
  <2>2. todo' \in [User -> 0..MaxUsers]
    BY SMTT(30), <1>0, <1>15, ChatAssumption DEF SendNext, TypeRest, Slot
  <2>3. q' \in [User -> Seq(Nat)]
    <3>1. \/ q' = q
          \/ LET w == users[todo[u]] IN w # Empty /\ q' = [q EXCEPT ![w] = Append(@, seq[u])]
      BY <1>15 DEF SendNext
    <3>2. users[todo[u]] \in User \cup {Empty}
      BY <1>0, <1>15 DEF SendNext, TypeRest
    <3>3. \A w \in User : Append(q[w], seq[u]) \in Seq(Nat)
      BY <1>0 DEF TypeRest
    <3> QED BY <1>0, <3>1, <3>2, <3>3 DEF TypeRest
  <2> QED BY <1>0, <2>1, <2>2, <2>3 DEF TypeRest, objects, shm, signals, bounds
<1>16. ASSUME NEW u \in User, EndSend(u) PROVE TypeRest'
  <2>1. UNCHANGED <<objects, shm, signals, my_id, queues, last, bounds>>
    BY <1>16 DEF EndSend
  <2>2. seq' \in [User -> Nat] /\ todo' \in [User -> 0..MaxUsers]
    BY <1>0, <1>16, ChatAssumption DEF EndSend, TypeRest
  <2> QED BY <1>0, <2>1, <2>2 DEF TypeRest, objects, shm, signals, queues, bounds
<1>17. ASSUME NEW u \in User, Receive(u) PROVE TypeRest'
  <2>1. UNCHANGED <<objects, shm, signals, my_id, gone, todo, seq, bounds>>
    BY <1>17 DEF Receive
  <2>2. q[u] \in Seq(Nat) /\ q[u] # <<>>
    BY <1>0, <1>17 DEF Receive, TypeRest
  <2>3. Head(q[u]) \in Nat /\ Tail(q[u]) \in Seq(Nat)
    BY <2>2
  <2>4. last' \in [User -> Nat] /\ q' \in [User -> Seq(Nat)]
    BY <1>0, <1>17, <2>3 DEF Receive, TypeRest
  <2> QED BY <1>0, <2>1, <2>4 DEF TypeRest, objects, shm, signals, bounds
<1>18. ASSUME NEW u \in User, CtrlC(u) PROVE TypeRest'
  <2>1. UNCHANGED <<objects, shm, handling, my_id, queues, locals, lines>>
    BY <1>18 DEF CtrlC
  <2>2. pending' \subseteq Proc /\ ints' \in 0..MaxInts
    BY <1>0, <1>18, ChatAssumption DEF CtrlC, TypeRest
  <2> QED BY <1>0, <2>1, <2>2 DEF TypeRest, objects, shm, queues, locals
<1>19. CASE UNCHANGED vars
  BY <1>2, <1>19 DEF vars
<1> QED BY <1>1, <1>2, <1>3, <1>4, <1>5, <1>6, <1>7, <1>8, <1>9, <1>10, <1>11, <1>12, <1>13,
           <1>14, <1>15, <1>16, <1>17, <1>18, <1>19 DEF Next, MainStep, SenderStep, Cleanup

(* What a step does to the places of the processes: a main before its      *)
(* login came from there and has no children yet; and but for the first    *)
(* two steps of a user, the one who acts has been created before and is    *)
(* not creating afterwards.                                                *)
Active(w) ==
  /\ pc[Main(w)] # "out" /\ pc'[Main(w)] \notin First \cup {"out"}
  /\ \A v \in User : pc'[Main(v)] \in First \cup {"out"} => pc'[Main(v)] = pc[Main(v)]

EarlyFacts == \A v \in User : pc'[Main(v)] \in Early =>
  pc[Main(v)] \in Early /\ pc'[Recv(v)] = "none" /\ pc'[Send(v)] = "none"

LEMMA OneMoves ==
  ASSUME TypeOK, Ids, NEW p \in Proc, NEW l \in Place \ (Early \cup {"none"}),
         pc' = [pc EXCEPT ![p] = l], pc[p] \notin {"out", "none"}
  PROVE  EarlyFacts /\ \E w \in User : Active(w)
<1>1. \A r \in Proc : pc'[r] = IF r = p THEN l ELSE pc[r]
  BY PcMove
<1>2. PICK w \in User : p \in {Main(w), Recv(w), Send(w)}
  BY Processes
<1>3. \A v \in User : pc'[Main(v)] \in Early => Main(v) # p
  BY <1>1
<1>4. pc[Main(w)] \in Early => p = Main(w)
  BY <1>2 DEF Ids
<1>5. ASSUME NEW v \in User, pc'[Main(v)] \in Early
      PROVE  pc[Main(v)] \in Early /\ pc'[Recv(v)] = "none" /\ pc'[Send(v)] = "none"
  <2>1. pc[Main(v)] \in Early
    BY <1>1, <1>3, <1>5, Processes
  <2>2. pc[Recv(v)] = "none" /\ pc[Send(v)] = "none"
    BY <2>1 DEF Ids
  <2>3. Recv(v) # p /\ Send(v) # p
    BY <2>2
  <2> QED BY <1>1, <2>1, <2>2, <2>3, Processes
<1>6. pc[Main(w)] # "out" /\ pc'[Main(w)] \notin First \cup {"out"}
  <2>1. CASE p = Main(w)
    BY <1>1, <2>1 DEF First, Early
  <2>2. CASE p # Main(w)
    BY <1>1, <1>4, <2>2, Processes DEF First, Early
  <2> QED BY <2>1, <2>2
<1>7. \A v \in User : pc'[Main(v)] \in First \cup {"out"} => pc'[Main(v)] = pc[Main(v)]
  BY <1>1, <1>3, Processes DEF First, Early
<1> QED BY <1>5, <1>6, <1>7 DEF EarlyFacts, Active

LEMMA PlaceStep ==
  ASSUME TypeOK, Ids, [Next]_vars
  PROVE  /\ EarlyFacts
         /\ \/ UNCHANGED <<pc, created, msg_seq, user_count, users>>
            \/ \E u \in User : SemGet(u) \/ SetVal(u)
            \/ created' = created /\ \E w \in User : Active(w)
<1> DEFINE Goal == EarlyFacts /\ created' = created /\ \E w \in User : Active(w)
<1>1. CASE UNCHANGED <<pc, created, msg_seq, user_count, users>>
  BY <1>1 DEF EarlyFacts, Ids
<1>2. ASSUME NEW u \in User, NEW l \in {"setval", "memset", "attached", "login"},
             pc[Main(u)] \in Early, Goto(Main(u), l)
      PROVE  /\ EarlyFacts
             /\ pc[Main(u)] # "out" /\ l \notin First => Active(u)
  <2>1. \A r \in Proc : pc'[r] = IF r = Main(u) THEN l ELSE pc[r]
    <3>1. l \in Place /\ Main(u) \in Proc /\ pc' = [pc EXCEPT ![Main(u)] = l]
      BY <1>2, Processes DEF Place, Goto
    <3> QED BY <3>1, PcMove
  <2>2. \A v \in User : pc'[Main(v)] \in Early => pc[Main(v)] \in Early
    BY <1>2, <2>1, Processes
  <2>3. \A v \in User : pc'[Recv(v)] = pc[Recv(v)] /\ pc'[Send(v)] = pc[Send(v)]
    BY <2>1, Processes
  <2>4. EarlyFacts
    BY <2>2, <2>3 DEF EarlyFacts, Ids
  <2>5. ASSUME pc[Main(u)] # "out", l \notin First PROVE Active(u)
    BY <1>2, <2>1, <2>5, Processes DEF Active, First
  <2> QED BY <2>4, <2>5
<1>3. ASSUME NEW u \in User, SemGet(u) \/ SetVal(u) PROVE EarlyFacts
  <2>1. /\ pc[Main(u)] \in Early
        /\ \E l \in {"setval", "memset", "attached", "login"} : Goto(Main(u), l)
    BY <1>3 DEF SemGet, SetVal, Early
  <2> QED BY <1>2, <2>1
<1>4. ASSUME NEW u \in User, Memset(u) \/ LockLogin(u) PROVE Goal
  <2>1. /\ pc[Main(u)] \in Early \ {"out"}
        /\ \E l \in {"attached", "login"} : Goto(Main(u), l) /\ l \notin First
    BY <1>4 DEF Memset, LockLogin, Early, First
  <2>2. created' = created
    BY <1>4 DEF Memset, LockLogin, objects
  <2> QED BY <1>2, <2>1, <2>2
<1>5. ASSUME NEW u \in User, ForkReceiver(u) \/ ForkSender(u) PROVE Goal
  <2>1. pc[Main(u)] \in {"forkRecv", "forkSend"}
        /\ pc'[Main(u)] \in {"forkSend", "wait"}
        /\ \A r \in Proc : r \notin {Main(u), Recv(u), Send(u)} => pc'[r] = pc[r]
    BY <1>5, ForkMoves, Processes
  <2>2. \A v \in User : v # u => pc'[Main(v)] = pc[Main(v)] /\ pc'[Recv(v)] = pc[Recv(v)]
                                 /\ pc'[Send(v)] = pc[Send(v)]
    BY <2>1, Processes
  <2>3. EarlyFacts
    BY <2>1, <2>2 DEF EarlyFacts, Ids, Early
  <2>4. Active(u)
    BY <2>1, <2>2 DEF Active, First
  <2>5. created' = created
    BY <1>5 DEF ForkReceiver, ForkSender, objects
  <2> QED BY <2>3, <2>4, <2>5
<1>6. ASSUME NEW p \in Proc, Kill(p) PROVE Goal
  <2>1. PICK D \in SUBSET Proc :
          /\ D \subseteq {Recv(p[1]), Send(p[1])}
          /\ \A r \in D : pc[r] # "none"
          /\ \A r \in Proc : pc'[r] = IF r \in D THEN "dead" ELSE IF r = p THEN "lock" ELSE pc[r]
    BY <1>6, KillFacts
  <2>2. pc[p] = "kill" /\ created' = created
    BY <1>6 DEF Kill, objects
  <2>3. PICK w \in User : p[1] = w /\ p \in {Main(w), Recv(w), Send(w)}
    BY Processes
  <2>4. pc[Main(w)] \notin Early
    BY <2>2, <2>3 DEF Early, Ids
  <2>5. \A v \in User : pc'[Main(v)] = IF p = Main(v) THEN "lock" ELSE pc[Main(v)]
    BY <2>1, <2>3, Processes
  <2>6. \A v \in User : v # w => pc'[Recv(v)] = pc[Recv(v)] /\ pc'[Send(v)] = pc[Send(v)]
    BY <2>1, <2>3, Processes
  <2>7. EarlyFacts
    BY <2>2, <2>4, <2>5, <2>6 DEF EarlyFacts, Ids, Early
  <2>8. Active(w)
    BY <2>2, <2>4, <2>5 DEF Active, First, Early
  <2> QED BY <2>2, <2>7, <2>8
<1>7. ASSUME NEW p \in Proc, NEW l \in Place \ (Early \cup {"none"}), Goto(p, l),
             pc[p] \notin {"out", "none"}, created' = created
      PROVE  Goal
  BY <1>7, OneMoves DEF Goto
<1>8. ASSUME NEW u \in User, Reject(u) \/ ChooseSlot(u) \/ Register(u) \/ WaitSender(u) PROVE Goal
  <2>1. /\ Main(u) \in Proc /\ pc[Main(u)] \notin {"out", "none"} /\ created' = created
        /\ \E l \in {"dead", "register", "forkRecv", "kill"} : Goto(Main(u), l)
    BY <1>8, Processes DEF Reject, ChooseSlot, Register, WaitSender, objects
  <2> QED BY <1>7, <2>1 DEF Place, Early
<1>9. ASSUME NEW u \in User,
             Type(u) \/ EndOfInput(u) \/ LockSend(u) \/ Number(u) \/ EndSend(u)
      PROVE  Goal
  <2>1. /\ Send(u) \in Proc /\ pc[Send(u)] \notin {"out", "none"} /\ created' = created
        /\ \E l \in {"typed", "dead", "number", "send", "idle"} : Goto(Send(u), l)
    BY <1>9, Processes DEF Type, EndOfInput, LockSend, Number, EndSend, objects
  <2> QED BY <1>7, <2>1 DEF Place, Early
<1>10. ASSUME NEW p \in Proc,
             LockLeave(p) \/ Leave(p) \/ LastUser(p) \/ RemoveAll(p) \/ Deliver(p)
      PROVE  Goal
  <2>1. /\ pc[p] \notin {"out", "none"} /\ created' = created
        /\ \E l \in {"leave", "last", "remove", "dead", "kill"} : Goto(p, l)
    BY <1>10 DEF LockLeave, Leave, LastUser, RemoveAll, Deliver, Alive, objects
  <2> QED BY <1>7, <2>1 DEF Place, Early
<1>11. ASSUME NEW u \in User, SendNext(u) \/ Receive(u) \/ CtrlC(u)
       PROVE  UNCHANGED <<pc, created, msg_seq, user_count, users>>
  BY <1>11 DEF SendNext, Receive, CtrlC, objects, shm
<1>12. CASE UNCHANGED vars
  BY <1>1, <1>12 DEF vars, objects, shm
<1> QED BY <1>1, <1>3, <1>4, <1>5, <1>6, <1>8, <1>9, <1>10, <1>11, <1>12
        DEF Next, MainStep, SenderStep, Cleanup

LEMMA IdsStep ==
  ASSUME TypeOK, Ids, [Next]_vars
  PROVE  Ids'
<1>0. my_id \in [User -> Slot \cup {NoSlot}] /\ users \in [Slot -> User \cup {Empty}]
  BY DEF TypeOK
<1>1. /\ \A u \in User : pc[Main(u)] \in Early => my_id[u] = NoSlot
      /\ \A i \in Slot, u \in User : users[i] = u => my_id[u] = i
  BY DEF Ids
<1>2. ASSUME my_id' = my_id,
             \A i \in Slot, u \in User : users'[i] = u => my_id[u] = i
      PROVE  Ids'
  BY <1>1, <1>2, PlaceStep DEF EarlyFacts, Ids
<1>3. ASSUME NEW u \in User, ChooseSlot(u) PROVE Ids'
  <2>1. PICK k \in Slot : my_id' = [my_id EXCEPT ![u] = k]
    BY <1>3 DEF ChooseSlot
  <2>2. users' = users /\ pc[Main(u)] = "login" /\ pc' = [pc EXCEPT ![Main(u)] = "register"]
    BY <1>3 DEF ChooseSlot, shm, Goto
  <2>3. pc'[Main(u)] = "register" /\ my_id[u] = NoSlot
    BY <1>1, <2>2, Processes DEF Early, TypeOK
  <2>4. \A w \in User : w # u => my_id'[w] = my_id[w]
    BY <1>0, <2>1
  <2>5. ASSUME NEW w \in User, pc'[Main(w)] \in Early PROVE my_id'[w] = NoSlot
    <3>1. w # u
      BY <2>3, <2>5 DEF Early
    <3> QED BY <1>1, <2>4, <2>5, <3>1, PlaceStep DEF EarlyFacts
  <2>6. ASSUME NEW i \in Slot, NEW w \in User, users[i] = w PROVE my_id'[w] = i
    <3>1. w # u
      BY <1>1, <2>3, <2>6 DEF NoSlot, Slot
    <3> QED BY <1>1, <2>4, <2>6, <3>1
  <2> QED BY <2>2, <2>5, <2>6, PlaceStep DEF EarlyFacts, Ids
<1>4. ASSUME NEW u \in User, Register(u) PROVE Ids'
  <2>1. users' = [users EXCEPT ![my_id[u]] = u] /\ my_id' = my_id
    BY <1>4 DEF Register
  <2> QED BY <1>0, <1>1, <1>2, <2>1
<1>5. ASSUME NEW p \in Proc, Leave(p) PROVE Ids'
  <2>1. users' = [users EXCEPT ![my_id[p[1]]] = Empty] /\ my_id' = my_id
    BY <1>5 DEF Leave
  <2> QED BY <1>0, <1>1, <1>2, <2>1, ChatAssumption DEF Empty
<1>6. ASSUME NEW u \in User, Memset(u) PROVE Ids'
  <2>1. users' = [i \in Slot |-> Empty] /\ my_id' = my_id
    BY <1>6 DEF Memset
  <2> QED BY <1>2, <2>1, ChatAssumption DEF Empty
<1>7. CASE UNCHANGED <<users, my_id>>
  BY <1>1, <1>2, <1>7
<1>8. ASSUME NEW u \in User,
             \/ SemGet(u) \/ SetVal(u) \/ LockLogin(u) \/ Reject(u) \/ ForkReceiver(u)
             \/ ForkSender(u) \/ WaitSender(u) \/ SenderStep(u) \/ Receive(u) \/ Type(u)
             \/ EndOfInput(u) \/ CtrlC(u)
      PROVE  UNCHANGED <<users, my_id>>
  BY <1>8 DEF SemGet, SetVal, LockLogin, Reject, ForkReceiver, ForkSender, WaitSender, SenderStep,
              LockSend, Number, SendNext, EndSend, Receive, Type, EndOfInput, CtrlC, shm
<1>9. ASSUME NEW p \in Proc, Kill(p) \/ LockLeave(p) \/ LastUser(p) \/ RemoveAll(p) \/ Deliver(p)
      PROVE  UNCHANGED <<users, my_id>>
  BY <1>9 DEF Kill, LockLeave, LastUser, RemoveAll, Deliver, shm
<1>10. CASE UNCHANGED vars
  BY <1>7, <1>10 DEF vars, shm
<1> QED BY <1>3, <1>4, <1>5, <1>6, <1>7, <1>8, <1>9, <1>10 DEF Next, MainStep, Cleanup

LEMMA CreatingStep ==
  ASSUME TypeOK, Ids, Creating, SettledLaunch, [Next]_vars
  PROVE  Creating'
<1>1. CASE UNCHANGED <<pc, created, msg_seq, user_count, users>>
  BY <1>1 DEF Creating
<1>2. ASSUME NEW w \in User, Active(w), created' = created PROVE Creating'
  <2>1. created # "no"
    BY <1>2 DEF Creating, Active
  <2>2. \A v \in User : pc'[Main(v)] \notin First
    <3> SUFFICES ASSUME NEW v \in User, pc'[Main(v)] \in First PROVE FALSE
      OBVIOUS
    <3>1. pc[Main(v)] \in First /\ v # w
      BY <1>2 DEF Active
    <3>2. pc[Main(w)] = "out"
      BY <3>1 DEF Creating
    <3> QED BY <1>2, <3>2 DEF Active
  <2> QED BY <1>2, <2>1, <2>2 DEF Creating, Active
<1>3. ASSUME NEW u \in User, SemGet(u) PROVE Creating'
  <2>1. PICK l \in {"setval", "attached"} : pc' = [pc EXCEPT ![Main(u)] = l]
                                            /\ (l = "setval" <=> created = "no")
    BY <1>3 DEF SemGet, Goto
  <2>2. \A w \in User : pc'[Main(w)] = IF w = u THEN l ELSE pc[Main(w)]
    <3>1. l \in Place /\ Main(u) \in Proc
      BY Processes DEF Place
    <3>2. \A r \in Proc : pc'[r] = IF r = Main(u) THEN l ELSE pc[r]
      BY <2>1, <3>1, PcMove
    <3> QED BY <3>2, Processes
  <2>3. created' # "no" /\ UNCHANGED shm
    BY <1>3 DEF SemGet
  <2>4. \A w \in User : pc[Main(w)] \notin First
    BY <1>3 DEF SemGet, First
  <2>5. CASE created = "no"
    <3>1. \A w \in User : pc[Main(w)] = "out"
      BY <2>5 DEF Creating
    <3>2. msg_seq = 0 /\ user_count = 0 /\ \A i \in Slot : users[i] = Empty
      BY <3>1 DEF Creating
    <3>3. \A v \in User : pc'[Main(v)] \in First => v = u
      BY <2>2, <2>4
    <3> QED BY <2>2, <2>3, <3>1, <3>2, <3>3 DEF Creating, shm
  <2>6. CASE created # "no"
    <3>1. l = "attached"
      BY <2>1, <2>6
    <3>2. pc'[Main(u)] \notin First \cup {"out"} /\ \A v \in User : pc'[Main(v)] \notin First
      BY <2>2, <2>4, <3>1 DEF First
    <3> QED BY <2>3, <3>2 DEF Creating
  <2> QED BY <2>5, <2>6
<1>4. ASSUME NEW u \in User, SetVal(u) PROVE Creating'
  <2>1. pc[Main(u)] = "setval" /\ pc' = [pc EXCEPT ![Main(u)] = "memset"] /\ created' = "set"
        /\ UNCHANGED shm
    BY <1>4 DEF SetVal, Goto
  <2>2. \A w \in User : pc'[Main(w)] = IF w = u THEN "memset" ELSE pc[Main(w)]
    <3>1. "memset" \in Place /\ Main(u) \in Proc
      BY Processes DEF Place
    <3>2. \A r \in Proc : pc'[r] = IF r = Main(u) THEN "memset" ELSE pc[r]
      BY <2>1, <3>1, PcMove
    <3> QED BY <3>2, Processes
  <2>3. \A w \in User : pc'[Main(w)] \in First <=> pc[Main(w)] \in First
    BY <2>1, <2>2 DEF First
  <2>4. \A w \in User : w # u => pc[Main(w)] = "out"
    BY <2>1 DEF Creating, First
  <2>5. msg_seq = 0 /\ user_count = 0 /\ \A i \in Slot : users[i] = Empty
    BY <2>1, <2>4 DEF Creating, First
  <2>6. \A w \in User : w # u => pc'[Main(w)] = "out"
    BY <2>2, <2>4
  <2> QED BY <2>1, <2>5, <2>6 DEF Creating, shm, First
<1> QED BY <1>1, <1>2, <1>3, <1>4, PlaceStep

-----------------------------------------------------------------------------
(* The numbers. *)

LEMMA AloneInside ==
  ASSUME LockSet, ~removed, NEW p \in Proc, NEW r \in Proc, InCS(p), InCS(r)
  PROVE  p = r
BY DEF LockSet, LockHeldByOne

LEMMA SendPlace ==
  ASSUME TypeOK, [Next]_vars
  PROVE  \A w \in User : pc'[Send(w)] = "send" => pc[Send(w)] = "send" \/ Number(w)
<1> DEFINE Goal == \A w \in User : pc'[Send(w)] = "send" => pc[Send(w)] = "send"
<1>1. ASSUME NEW p \in Proc, NEW l \in Place \ {"send"}, Goto(p, l) PROVE Goal
  <2>1. \A r \in Proc : pc'[r] = IF r = p THEN l ELSE pc[r]
    BY <1>1, PcMove DEF Goto
  <2> QED BY <2>1, Processes
<1>2. ASSUME NEW u \in User, SemGet(u) PROVE Goal
  <2>1. Main(u) \in Proc /\ \E l \in {"setval", "attached"} : Goto(Main(u), l)
    BY <1>2, Processes DEF SemGet
  <2> QED BY <1>1, <2>1 DEF Place
<1>3. ASSUME NEW u \in User,
             \/ SetVal(u) \/ Memset(u) \/ LockLogin(u) \/ Reject(u) \/ ChooseSlot(u)
             \/ Register(u) \/ WaitSender(u)
      PROVE  Goal
  <2>1. Main(u) \in Proc
        /\ \E l \in {"memset", "attached", "login", "dead", "register", "forkRecv", "kill"} :
             Goto(Main(u), l)
    BY <1>3, Processes DEF SetVal, Memset, LockLogin, Reject, ChooseSlot, Register, WaitSender
  <2> QED BY <1>1, <2>1 DEF Place
<1>4. ASSUME NEW u \in User, ForkReceiver(u) \/ ForkSender(u) PROVE Goal
  BY <1>4, ForkMoves, Processes
<1>5. ASSUME NEW u \in User, Type(u) \/ EndOfInput(u) \/ LockSend(u) \/ EndSend(u) PROVE Goal
  <2>1. Send(u) \in Proc /\ \E l \in {"typed", "dead", "number", "idle"} : Goto(Send(u), l)
    BY <1>5, Processes DEF Type, EndOfInput, LockSend, EndSend
  <2> QED BY <1>1, <2>1 DEF Place
<1>6. ASSUME NEW u \in User, Number(u)
      PROVE  \A w \in User : pc'[Send(w)] = "send" => pc[Send(w)] = "send" \/ w = u
  <2>1. \A r \in Proc : pc'[r] = IF r = Send(u) THEN "send" ELSE pc[r]
    <3>1. "send" \in Place /\ Send(u) \in Proc /\ pc' = [pc EXCEPT ![Send(u)] = "send"]
      BY <1>6, Processes DEF Place, Number, Goto
    <3> QED BY <3>1, PcMove
  <2> QED BY <2>1, Processes
<1>7. ASSUME NEW u \in User, SendNext(u) \/ Receive(u) \/ CtrlC(u) PROVE Goal
  BY <1>7 DEF SendNext, Receive, CtrlC
<1>8. ASSUME NEW p \in Proc, Kill(p) PROVE Goal
  <2>1. PICK D \in SUBSET Proc :
          \A r \in Proc : pc'[r] = IF r \in D THEN "dead" ELSE IF r = p THEN "lock" ELSE pc[r]
    BY <1>8, KillFacts
  <2> QED BY <2>1, Processes
<1>9. ASSUME NEW p \in Proc,
             LockLeave(p) \/ Leave(p) \/ LastUser(p) \/ RemoveAll(p) \/ Deliver(p)
      PROVE  Goal
  <2>1. \E l \in {"leave", "last", "remove", "dead", "kill"} : Goto(p, l)
    BY <1>9 DEF LockLeave, Leave, LastUser, RemoveAll, Deliver
  <2> QED BY <1>1, <2>1 DEF Place
<1>10. CASE UNCHANGED vars
  BY <1>10 DEF vars
<1> QED BY <1>2, <1>3, <1>4, <1>5, <1>6, <1>7, <1>8, <1>9, <1>10
        DEF Next, MainStep, SenderStep, Cleanup

LEMMA WaitsMore ==
  ASSUME TypeOK, NEW w \in User, NEW n \in Int, NEW m \in Int, Waits(w, n), n <= m
  PROVE  Waits(w, m)
<1>1. last[w] \in Nat /\ q[w] \in Seq(Nat)
  BY DEF TypeOK
<1>2. \A i \in DOMAIN q[w] : q[w][i] \in Nat
  BY <1>1
<1> QED BY <1>1, <1>2 DEF Waits

(* A step that takes from the queues at most, and moves no sender to its   *)
(* broadcast.                                                              *)
Drains == \A w \in User, n \in Int : Waits(w, n) => Waits(w, n)'

LEMMA NumbersKept ==
  ASSUME TypeOK, Numbers, ~removed, Drains, msg_seq' = msg_seq,
         \A u \in User : pc'[Send(u)] = "send" =>
           /\ pc[Send(u)] = "send"
           /\ my_id'[u] = my_id[u] /\ todo'[u] = todo[u] /\ seq'[u] = seq[u]
           /\ users' = users
  PROVE  Numbers'
<1>1. msg_seq \in Int /\ msg_seq - 1 \in Int
  BY DEF TypeOK
<1>2. \A w \in User : Waits(w, msg_seq)'
  BY <1>1 DEF Numbers, Drains
<1>3. ASSUME NEW u \in User, pc'[Send(u)] = "send"
      PROVE  /\ seq'[u] = msg_seq' /\ msg_seq' > 0
             /\ \A k \in Slot : k >= todo'[u] /\ k # my_id'[u] /\ users'[k] \in User
                  => Waits(users[k], msg_seq - 1)' /\ users'[k] = users[k]
  BY <1>1, <1>3 DEF Numbers, Drains
<1> QED BY <1>2, <1>3 DEF Numbers

LEMMA PutLast ==
  ASSUME NEW s \in Seq(Nat), NEW l \in Nat, NEW n \in Nat, l <= n - 1,
         \A i \in DOMAIN s : l < s[i] /\ s[i] <= n - 1,
         \A i, j \in DOMAIN s : i < j => s[i] < s[j]
  PROVE  LET t == Append(s, n)
         IN  /\ l <= n
             /\ \A i \in DOMAIN t : l < t[i] /\ t[i] <= n
             /\ \A i, j \in DOMAIN t : i < j => t[i] < t[j]
<1> DEFINE t == Append(s, n)
<1>1. /\ Len(s) \in Nat /\ DOMAIN s = 1..Len(s) /\ \A i \in DOMAIN s : s[i] \in Nat
      /\ DOMAIN t = 1..Len(s)+1 /\ t[Len(s)+1] = n /\ \A i \in DOMAIN s : t[i] = s[i]
  OBVIOUS
<1> HIDE DEF t
<1>2. \A i \in DOMAIN t : i \in Nat /\ (i \in DOMAIN s \/ i = Len(s) + 1)
  BY <1>1
<1>3. \A i \in DOMAIN t : l < t[i] /\ t[i] <= n
  BY <1>1, <1>2
<1>4. \A i, j \in DOMAIN t : i < j => t[i] < t[j]
  <2> SUFFICES ASSUME NEW i \in DOMAIN t, NEW j \in DOMAIN t, i < j PROVE t[i] < t[j]
    OBVIOUS
  <2>1. i \in DOMAIN s
    BY <1>1, <1>2
  <2>2. CASE j \in DOMAIN s
    BY <1>1, <2>1, <2>2
  <2>3. CASE j = Len(s) + 1
    BY <1>1, <2>1, <2>3
  <2> QED BY <1>2, <2>2, <2>3
<1>5. l <= n
  OBVIOUS
<1> QED BY <1>3, <1>4, <1>5 DEF t

LEMMA NumbersStep ==
  ASSUME TypeOK, LockSet, Ids, Creating, Numbers, [Next]_vars
  PROVE  Numbers'
<1>0. msg_seq \in Nat /\ users \in [Slot -> User \cup {Empty}]
      /\ q \in [User -> Seq(Nat)] /\ last \in [User -> Nat]
      /\ todo \in [User -> 0..MaxUsers] /\ seq \in [User -> Nat]
      /\ my_id \in [User -> Slot \cup {NoSlot}]
  BY DEF TypeOK
<1>1. CASE removed'
  BY <1>1 DEF Numbers
<1>2. ASSUME NEW p \in Proc, RemoveAll(p) PROVE removed'
  BY <1>2 DEF RemoveAll
<1>3. ASSUME UNCHANGED <<queues, last>> PROVE Drains
  BY <1>3 DEF Drains, Waits, queues
<1>4. CASE UNCHANGED <<removed, msg_seq, users, my_id, queues, locals>>
           /\ \A u \in User : ~Number(u)
  <2>1. \A w \in User : pc'[Send(w)] = "send" => pc[Send(w)] = "send"
    BY <1>4, SendPlace
  <2> QED BY <1>1, <1>3, <1>4, <2>1, NumbersKept DEF locals
<1>5. ASSUME NEW u \in User, ~removed,
             \/ SemGet(u) \/ SetVal(u) \/ LockLogin(u) \/ Reject(u) \/ ForkReceiver(u)
             \/ ForkSender(u) \/ WaitSender(u) \/ LockSend(u) \/ Type(u) \/ EndOfInput(u)
             \/ CtrlC(u)
      PROVE  Numbers'
  <2>1. UNCHANGED <<removed, msg_seq, users, my_id, queues, locals>>
    BY <1>5 DEF SemGet, SetVal, LockLogin, Reject, ForkReceiver, ForkSender, WaitSender, LockSend,
                Type, EndOfInput, CtrlC, shm, objects
  <2>2. \A w \in User : ~Number(w)
    <3> SUFFICES ASSUME NEW w \in User, Number(w) PROVE FALSE
      OBVIOUS
    <3>1. msg_seq' = msg_seq + 1
      BY DEF Number
    <3> QED BY <1>0, <2>1, <3>1
  <2> QED BY <1>4, <2>1, <2>2
<1>6. ASSUME NEW p \in Proc, LockLeave(p) \/ LastUser(p) \/ Deliver(p), ~removed PROVE Numbers'
  <2>1. UNCHANGED <<removed, msg_seq, users, my_id, queues, locals>>
    BY <1>6 DEF LockLeave, LastUser, Deliver, shm, objects
  <2>2. \A w \in User : ~Number(w)
    <3> SUFFICES ASSUME NEW w \in User, Number(w) PROVE FALSE
      OBVIOUS
    <3>1. msg_seq' = msg_seq + 1
      BY DEF Number
    <3> QED BY <1>0, <2>1, <3>1
  <2> QED BY <1>4, <2>1, <2>2
<1>7. ASSUME msg_seq' = msg_seq
      PROVE  \A w \in User : pc'[Send(w)] = "send" => pc[Send(w)] = "send"
  <2>1. \A w \in User : ~Number(w)
    BY <1>0, <1>7 DEF Number
  <2> QED BY <2>1, SendPlace
<1>8. ASSUME NEW u \in User, Memset(u), ~removed PROVE Numbers'
  <2>1. pc[Main(u)] = "memset" /\ msg_seq' = 0 /\ users' = [i \in Slot |-> Empty]
        /\ UNCHANGED <<my_id, queues, locals>>
    BY <1>8 DEF Memset
  <2>2. \A w \in User : w # u => pc[Main(w)] = "out"
    BY <2>1 DEF Creating, First
  <2>3. msg_seq = 0 /\ \A i \in Slot : users[i] = Empty
    BY <2>1, <2>2 DEF Creating, First
  <2>4. msg_seq' = msg_seq /\ users' = users
    BY <1>0, <2>1, <2>3
  <2> QED BY <1>3, <1>7, <1>8, <2>1, <2>4, NumbersKept DEF locals
<1>9. ASSUME NEW u \in User, ChooseSlot(u), ~removed PROVE Numbers'
  <2>1. pc[Main(u)] = "login" /\ UNCHANGED <<msg_seq, users, queues, locals>>
    BY <1>9 DEF ChooseSlot, shm
  <2>2. \A w \in User : w # u => my_id'[w] = my_id[w]
    BY <1>0, <1>9 DEF ChooseSlot
  <2>3. pc[Send(u)] = "none"
    BY <2>1 DEF Ids, Early
  <2>4. \A w \in User : pc'[Send(w)] = "send" => pc[Send(w)] = "send" /\ w # u
    BY <1>7, <2>1, <2>3
  <2> QED BY <1>3, <1>9, <2>1, <2>2, <2>4, NumbersKept DEF locals
<1>10. ASSUME NEW p \in Proc, InCS(p), ~removed,
              (p \in {Send(u) : u \in User}) => pc'[p] # "send", msg_seq' = msg_seq
       PROVE  \A w \in User : pc'[Send(w)] # "send"
  <2> SUFFICES ASSUME NEW w \in User, pc'[Send(w)] = "send" PROVE FALSE
    OBVIOUS
  <2>1. pc[Send(w)] = "send" /\ Send(w) \in Proc
    BY <1>7, <1>10, Processes
  <2>2. Send(w) = p
    BY <1>10, <2>1, AloneInside DEF InCS
  <2> QED BY <1>10, <2>2
<1>11. ASSUME NEW u \in User, Register(u), ~removed PROVE Numbers'
  <2>1. pc[Main(u)] = "register" /\ UNCHANGED <<msg_seq, queues, locals>>
    BY <1>11 DEF Register
  <2>2. \A w \in User : pc'[Send(w)] # "send"
    BY <1>10, <1>11, <2>1, Processes DEF InCS
  <2> QED BY <1>3, <1>11, <2>1, <2>2, NumbersKept DEF locals
<1>12. ASSUME NEW p \in Proc, Leave(p), ~removed PROVE Numbers'
  <2>1. pc[p] = "leave" /\ UNCHANGED <<msg_seq, locals>> /\ q' = [q EXCEPT ![p[1]] = <<>>]
        /\ pc' = [pc EXCEPT ![p] = "last"]
    BY <1>12 DEF Leave, Goto
  <2>2. pc'[p] = "last"
    BY <2>1, PcMove DEF Place
  <2>3. \A w \in User : pc'[Send(w)] # "send"
    BY <1>10, <1>12, <2>1, <2>2 DEF InCS
  <2>4. Drains
    <3> SUFFICES ASSUME NEW w \in User, NEW n \in Int, Waits(w, n) PROVE Waits(w, n)'
      BY DEF Drains
    <3>1. q'[w] = <<>> \/ q'[w] = q[w]
      BY <1>0, <2>1
    <3>2. last' = last
      BY <2>1 DEF locals
    <3>3. DOMAIN <<>> = {}
      OBVIOUS
    <3> QED BY <3>1, <3>2, <3>3 DEF Waits
  <2> QED BY <1>12, <2>1, <2>3, <2>4, NumbersKept DEF locals
<1>13. ASSUME NEW u \in User, EndSend(u), ~removed PROVE Numbers'
  <2>1. pc[Send(u)] = "send" /\ UNCHANGED <<msg_seq, queues, last>>
        /\ pc' = [pc EXCEPT ![Send(u)] = "idle"]
    BY <1>13 DEF EndSend, shm, Goto
  <2>2. pc'[Send(u)] = "idle"
    BY <2>1, PcMove, Processes DEF Place
  <2>3. \A w \in User : pc'[Send(w)] # "send"
    BY <1>10, <1>13, <2>1, <2>2, Processes DEF InCS
  <2> QED BY <1>3, <1>13, <2>1, <2>3, NumbersKept
<1>14. ASSUME NEW p \in Proc, Kill(p), ~removed PROVE Numbers'
  <2>1. UNCHANGED <<msg_seq, users, my_id, queues, todo, seq>>
    BY <1>14 DEF Kill, shm
  <2>2. PICK D \in SUBSET Proc : last' = [u \in User |-> IF Recv(u) \in D THEN 0 ELSE last[u]]
    BY <1>14, KillFacts
  <2>3. Drains
    <3> SUFFICES ASSUME NEW w \in User, NEW n \in Int, Waits(w, n) PROVE Waits(w, n)'
      BY DEF Drains
    <3>1. last'[w] \in {0, last[w]} /\ last[w] \in Nat /\ q'[w] = q[w] /\ q[w] \in Seq(Nat)
      BY <1>0, <2>1, <2>2 DEF queues
    <3>2. \A i \in DOMAIN q[w] : q[w][i] \in Nat
      BY <3>1
    <3> QED BY <3>1, <3>2 DEF Waits
  <2> QED BY <1>7, <1>14, <2>1, <2>3, NumbersKept
<1>15. ASSUME NEW u \in User, Receive(u), ~removed PROVE Numbers'
  <2>1. UNCHANGED <<msg_seq, users, my_id, todo, seq>>
        /\ last' = [last EXCEPT ![u] = Head(q[u])] /\ q' = [q EXCEPT ![u] = Tail(q[u])]
    BY <1>15 DEF Receive, shm
  <2>2. q[u] \in Seq(Nat) /\ q[u] # <<>>
    BY <1>0, <1>15 DEF Receive
  <2>3. Drains
    <3> SUFFICES ASSUME NEW w \in User, NEW n \in Int, Waits(w, n) PROVE Waits(w, n)'
      BY DEF Drains
    <3>1. CASE w # u
      <4>1. q'[w] = q[w] /\ last'[w] = last[w]
        BY <1>0, <2>1, <3>1
      <4> QED BY <4>1 DEF Waits
    <3>2. CASE w = u
      <4> DEFINE t == Tail(q[u])
      <4>1. q'[w] = t /\ last'[w] = q[u][1] /\ last[w] \in Nat
        BY <1>0, <2>1, <2>2, <3>2
      <4>2. /\ 1 \in DOMAIN q[u] /\ \A i \in DOMAIN q[u] : i \in Nat /\ q[u][i] \in Nat
            /\ \A i \in DOMAIN t : i \in Nat /\ i >= 1 /\ i + 1 \in DOMAIN q[u]
                                   /\ t[i] = q[u][i + 1]
        BY <2>2
      <4> HIDE DEF t
      <4>3. /\ \A i \in DOMAIN q[u] : last[u] < q[u][i] /\ q[u][i] <= n
            /\ \A i, j \in DOMAIN q[u] : i < j => q[u][i] < q[u][j]
        BY <3>2 DEF Waits
      <4>4. q[u][1] <= n
        BY <4>2, <4>3
      <4>5. \A i \in DOMAIN t : q[u][1] < t[i] /\ t[i] <= n
        BY <4>2, <4>3
      <4>6. \A i, j \in DOMAIN t : i < j => t[i] < t[j]
        BY <4>2, <4>3
      <4> QED BY <3>2, <4>1, <4>4, <4>5, <4>6 DEF Waits
    <3> QED BY <3>1, <3>2
  <2> QED BY <1>7, <1>15, <2>1, <2>3, NumbersKept
<1>16. ASSUME NEW u \in User, Number(u), ~removed PROVE Numbers'
  <2>1. /\ pc[Send(u)] = "number" /\ msg_seq' = msg_seq + 1
        /\ seq' = [seq EXCEPT ![u] = msg_seq + 1] /\ UNCHANGED <<users, my_id, queues, last>>
    BY <1>16 DEF Number
  <2>2. \A w \in User, n \in Int : Waits(w, n) => Waits(w, n)'
    BY <1>3, <2>1 DEF Drains
  <2>3. \A w \in User : Waits(w, msg_seq) /\ Waits(w, msg_seq + 1)
    BY <1>0, <1>16, WaitsMore DEF Numbers
  <2>4. \A w \in User : Waits(w, msg_seq)'
    BY <1>0, <2>1, <2>2, <2>3
  <2>5. \A w \in User : pc'[Send(w)] = "send" => w = u
    <3> SUFFICES ASSUME NEW w \in User, pc'[Send(w)] = "send", w # u PROVE FALSE
      OBVIOUS
    <3>1. pc[Send(w)] = "send" \/ pc[Send(w)] = "number"
      BY SendPlace DEF Number
    <3>2. Send(w) \in Proc /\ Send(u) \in Proc /\ Send(w) # Send(u)
      BY Processes
    <3> QED BY <1>16, <2>1, <3>1, <3>2, AloneInside DEF InCS
  <2>6. seq'[u] = msg_seq' /\ msg_seq' > 0
    BY <1>0, <2>1
  <2>7. \A w \in User : Waits(w, msg_seq - 1)'
    <3>1. msg_seq' - 1 = msg_seq
      BY <1>0, <2>1
    <3>2. \A w \in User : Waits(w, msg_seq - 1)' <=> Waits(w, msg_seq)
      BY <2>1, <3>1 DEF Waits, queues
    <3> QED BY <2>3, <3>2
  <2> QED BY <2>1, <2>4, <2>5, <2>6, <2>7 DEF Numbers
<1>17. ASSUME NEW u \in User, SendNext(u), ~removed PROVE Numbers'
  <2>1. /\ pc[Send(u)] = "send" /\ todo[u] \in Slot /\ todo' = [todo EXCEPT ![u] = todo[u] + 1]
        /\ UNCHANGED <<msg_seq, users, pc, my_id, seq, last>>
    BY <1>17 DEF SendNext, shm
  <2>2. \A w \in User : pc[Send(w)] = "send" => w = u
    <3> SUFFICES ASSUME NEW w \in User, pc[Send(w)] = "send", w # u PROVE FALSE
      OBVIOUS
    <3>2. Send(w) \in Proc /\ Send(u) \in Proc /\ Send(w) # Send(u)
      BY Processes
    <3> QED BY <1>17, <2>1, <3>2, AloneInside DEF InCS
  <2>3. /\ seq[u] = msg_seq /\ msg_seq > 0
        /\ \A w \in User : Waits(w, msg_seq)
        /\ \A k \in Slot : k >= todo[u] /\ k # my_id[u] /\ users[k] \in User
             => Waits(users[k], msg_seq - 1)
    BY <1>17, <2>1 DEF Numbers
  <2>4. todo'[u] = todo[u] + 1 /\ todo[u] \in Nat /\ \A k \in Slot : k \in Nat
    BY <1>0, <2>1 DEF Slot
  <2>5. CASE q' = q
    <3>1. \A w \in User, n \in Int : Waits(w, n)' <=> Waits(w, n)
      BY <2>1, <2>5 DEF Waits
    <3>2. \A w \in User : Waits(w, msg_seq)'
      BY <1>0, <2>1, <2>3, <3>1
    <3>3. \A k \in Slot : k >= todo'[u] /\ k # my_id'[u] /\ users'[k] \in User
            => Waits(users[k], msg_seq - 1)'
      BY <1>0, <2>1, <2>3, <2>4, <3>1
    <3> QED BY <2>1, <2>2, <2>3, <3>2, <3>3 DEF Numbers
  <2>6. CASE q' # q
    <3>0. PICK k \in Slot, w \in User :
            k = todo[u] /\ w = users[k] /\ k # my_id[u]
            /\ q' = [q EXCEPT ![w] = Append(q[w], seq[u])]
      BY <1>0, <1>17, <2>1, <2>6 DEF SendNext
    <3>1. q' = [q EXCEPT ![w] = Append(q[w], seq[u])]
      BY <3>0
    <3>2. Waits(w, msg_seq - 1) /\ my_id[w] = k
      BY <2>1, <2>3, <2>4, <3>0 DEF Ids
    <3>3. \A v \in User, n \in Int : v # w => (Waits(v, n)' <=> Waits(v, n))
      <4> SUFFICES ASSUME NEW v \in User, NEW n \in Int, v # w PROVE Waits(v, n)' <=> Waits(v, n)
        OBVIOUS
      <4>1. q'[v] = q[v] /\ last' = last
        BY <1>0, <2>1, <3>1
      <4> QED BY <4>1 DEF Waits
    <3>4. Waits(w, msg_seq)'
      <4>1. /\ q'[w] = Append(q[w], msg_seq) /\ last'[w] = last[w] /\ msg_seq' = msg_seq
            /\ last[w] \in Nat /\ q[w] \in Seq(Nat)
        BY <1>0, <2>1, <2>3, <3>1
      <4>2. /\ last[w] <= msg_seq - 1
            /\ \A i \in DOMAIN q[w] : last[w] < q[w][i] /\ q[w][i] <= msg_seq - 1
            /\ \A i, j \in DOMAIN q[w] : i < j => q[w][i] < q[w][j]
        BY <3>2 DEF Waits
      <4> QED BY <1>0, <4>1, <4>2, PutLast DEF Waits
    <3>5. \A v \in User : Waits(v, msg_seq)'
      BY <1>0, <2>1, <2>3, <3>3, <3>4
    <3>6. ASSUME NEW j \in Slot, j >= todo'[u], users[j] \in User PROVE users[j] # w
      <4>1. my_id[users[j]] = j /\ j # k
        BY <2>4, <3>0, <3>6 DEF Ids
      <4> QED BY <3>2, <4>1
    <3>7. \A j \in Slot : j >= todo'[u] /\ j # my_id'[u] /\ users'[j] \in User
            => Waits(users[j], msg_seq - 1)'
      BY SMTT(30), <1>0, <2>1, <2>3, <2>4, <3>3, <3>6
    <3> QED BY <2>1, <2>2, <2>3, <3>5, <3>7 DEF Numbers
  <2> QED BY <2>5, <2>6
<1>18. CASE UNCHANGED vars
  <2>1. UNCHANGED <<removed, msg_seq, users, my_id, queues, locals, seq, pc, todo>>
    BY <1>18 DEF vars, objects, shm, locals
  <2> QED BY <1>1, <1>3, <2>1, NumbersKept DEF locals
<1>19. ASSUME removed, NEW u \in User,
              \/ SemGet(u) \/ MainStep(u) \/ SenderStep(u) \/ Receive(u)
              \/ Type(u) \/ EndOfInput(u) \/ CtrlC(u)
       PROVE  removed'
  <2>1. removed' = removed
    BY <1>19 DEF SemGet, MainStep, SetVal, Memset, LockLogin, Reject, ChooseSlot, Register,
      ForkReceiver, ForkSender, WaitSender, SenderStep, LockSend, Number, SendNext, EndSend,
      Receive, Type, EndOfInput, CtrlC, objects
  <2> QED BY <1>19, <2>1
<1>20. ASSUME removed, NEW p \in Proc, Cleanup(p) PROVE removed'
  <2>1. RemoveAll(p) \/ removed' = removed
    BY <1>20 DEF Cleanup, Kill, LockLeave, Leave, LastUser, Deliver, objects
  <2> QED BY <1>2, <1>20, <2>1
<1>21. CASE removed /\ Next
  BY <1>1, <1>19, <1>20, <1>21 DEF Next
<1>22. CASE ~removed /\ Next
  BY <1>1, <1>2, <1>5, <1>6, <1>8, <1>9, <1>11, <1>12, <1>13, <1>14, <1>15, <1>16, <1>17, <1>22
     DEF Next, MainStep, SenderStep, Cleanup
<1> QED BY <1>18, <1>21, <1>22

-----------------------------------------------------------------------------
(* The table. *)

LEMMA QuietStep ==
  ASSUME TypeOK, Quiet, ints = 0, ints' = 0, [Next]_vars
  PROVE  Quiet'
<1> DEFINE QPc == /\ \A u \in User : pc'[Recv(u)] \in {"none", "recv", "dead"}
                  /\ \A u \in User :
                       pc'[Send(u)] \in {"none", "idle", "typed", "number", "send", "dead"}
           Calm == pending' = pending
<1>0. /\ pending = {}
      /\ \A u \in User : pc[Recv(u)] \in {"none", "recv", "dead"}
      /\ \A u \in User : pc[Send(u)] \in {"none", "idle", "typed", "number", "send", "dead"}
  BY DEF Quiet
<1>1. ASSUME NEW p \in Proc, NEW l \in Place, Goto(p, l),
             \/ \E u \in User : p = Main(u)
             \/ (\E u \in User : p = Send(u)) /\ l \in {"typed", "dead", "number", "send", "idle"}
      PROVE  QPc
  <2>1. \A r \in Proc : pc'[r] = IF r = p THEN l ELSE pc[r]
    BY <1>1, PcMove DEF Goto
  <2> QED BY <1>0, <1>1, <2>1, Processes
<1>2. ASSUME NEW u \in User, SemGet(u) PROVE QPc /\ Calm
  <2>1. Main(u) \in Proc /\ \E l \in {"setval", "attached"} : Goto(Main(u), l)
    BY <1>2, Processes DEF SemGet
  <2>2. Calm
    BY <1>2 DEF SemGet, signals
  <2> QED BY <1>1, <2>1, <2>2 DEF Place
<1>3. ASSUME NEW u \in User,
             \/ SetVal(u) \/ Memset(u) \/ LockLogin(u) \/ Reject(u) \/ ChooseSlot(u)
             \/ Register(u) \/ WaitSender(u)
      PROVE  QPc /\ Calm
  <2>1. Main(u) \in Proc
        /\ \E l \in {"memset", "attached", "login", "dead", "register", "forkRecv", "kill"} :
             Goto(Main(u), l)
    BY <1>3, Processes DEF SetVal, Memset, LockLogin, Reject, ChooseSlot, Register, WaitSender
  <2>2. Calm
    BY <1>3 DEF SetVal, Memset, LockLogin, Reject, ChooseSlot, Register, WaitSender, signals
  <2> QED BY <1>1, <2>1, <2>2 DEF Place
<1>4. ASSUME NEW u \in User, ForkReceiver(u) \/ ForkSender(u) PROVE QPc /\ Calm
  <2>1. QPc
    BY <1>0, <1>4, ForkMoves, Processes
  <2>2. Calm
    BY <1>4 DEF ForkReceiver, ForkSender, signals
  <2> QED BY <2>1, <2>2
<1>5. ASSUME NEW u \in User, Type(u) \/ EndOfInput(u) \/ LockSend(u) \/ Number(u) \/ EndSend(u)
      PROVE  QPc /\ Calm
  <2>1. Send(u) \in Proc /\ \E l \in {"typed", "dead", "number", "send", "idle"} : Goto(Send(u), l)
    BY <1>5, Processes DEF Type, EndOfInput, LockSend, Number, EndSend
  <2>2. Calm
    BY <1>5 DEF Type, EndOfInput, LockSend, Number, EndSend, signals
  <2> QED BY <1>1, <2>1, <2>2 DEF Place
<1>6. ASSUME NEW u \in User, SendNext(u) \/ Receive(u) PROVE QPc /\ Calm
  BY <1>0, <1>6 DEF SendNext, Receive, signals
<1>7. ~\E u \in User : CtrlC(u)
  BY DEF CtrlC
<1>8. ASSUME NEW p \in Proc, pc[p] \in {"kill", "lock", "leave", "last", "remove"}
      PROVE  \E u \in User : p = Main(u)
  BY <1>0, <1>8, Processes
<1>9. ASSUME NEW p \in Proc, Kill(p) PROVE QPc /\ Calm
  <2>1. PICK D \in SUBSET Proc :
          \A r \in Proc : pc'[r] = IF r \in D THEN "dead" ELSE IF r = p THEN "lock" ELSE pc[r]
    BY <1>9, KillFacts
  <2>2. PICK u \in User : p = Main(u)
    BY <1>8, <1>9 DEF Kill
  <2>3. \A v \in User : Recv(v) # p /\ Send(v) # p
    BY <2>2, Processes
  <2>4. Calm
    BY <1>9 DEF Kill, signals
  <2> QED BY <1>0, <2>1, <2>3, <2>4, Processes
<1>10. ASSUME NEW p \in Proc, LockLeave(p) \/ Leave(p) \/ LastUser(p) \/ RemoveAll(p)
       PROVE  QPc /\ Calm
  <2>1. \E l \in {"leave", "last", "remove", "dead"} : Goto(p, l)
    BY <1>10 DEF LockLeave, Leave, LastUser, RemoveAll
  <2>2. \E u \in User : p = Main(u)
    BY <1>8, <1>10 DEF LockLeave, Leave, LastUser, RemoveAll
  <2>3. Calm
    BY <1>10 DEF LockLeave, Leave, LastUser, RemoveAll, signals
  <2> QED BY <1>1, <2>1, <2>2, <2>3 DEF Place
<1>11. ~\E p \in Proc : Deliver(p)
  BY <1>0 DEF Deliver
<1>12. CASE UNCHANGED vars
  BY <1>0, <1>12 DEF vars, signals, Quiet
<1>13. QPc /\ Calm => Quiet'
  BY <1>0 DEF Quiet
<1> HIDE DEF QPc, Calm
<1> QED BY <1>2, <1>3, <1>4, <1>5, <1>6, <1>7, <1>9, <1>10, <1>11, <1>12, <1>13
        DEF Next, MainStep, SenderStep, Cleanup

LEMMA AgreeKept ==
  ASSUME Agree, UNCHANGED <<user_count, users, my_id>>,
         \A v \in User : pc'[Main(v)] \in Inside <=> pc[Main(v)] \in Inside,
         \A v \in User : pc'[Main(v)] = "register" => pc[Main(v)] = "register"
  PROVE  Agree'
<1>1. LoggedIn' = LoggedIn
  BY DEF LoggedIn, Inside
<1>2. Taken' = Taken
  BY DEF Taken
<1> QED BY <1>1, <1>2 DEF Agree

LEMMA AgreeMove ==
  ASSUME TypeOK, Agree, UNCHANGED <<user_count, users, my_id>>,
         NEW u \in User, NEW l \in Place, Goto(Main(u), l), l # "register",
         l \in Inside <=> pc[Main(u)] \in Inside
  PROVE  Agree'
<1>1. Main(u) \in Proc
  BY Processes
<1>2. \A r \in Proc : pc'[r] = IF r = Main(u) THEN l ELSE pc[r]
  BY <1>1, PcMove DEF Goto
<1>3. \A v \in User : pc'[Main(v)] = IF v = u THEN l ELSE pc[Main(v)]
  BY <1>2, Processes
<1> QED BY <1>3, AgreeKept

LEMMA TakenFinite ==
  /\ IsFiniteSet(Slot)
  /\ IsFiniteSet(Taken) /\ Cardinality(Taken) \in Nat
<1>1. IsFiniteSet(Slot)
  BY ChatAssumption, FS_Interval DEF Slot
<1>2. IsFiniteSet(Taken)
  BY <1>1, FS_Subset DEF Taken
<1> QED BY <1>1, <1>2, FS_CardinalityType

LEMMA AgreeStep ==
  ASSUME TypeOK, LockSet, Creating, Quiet, Agree, ~removed, ~removed', ints = 0, ints' = 0,
         [Next]_vars
  PROVE  Agree'
<1>0. /\ user_count \in Int /\ users \in [Slot -> User \cup {Empty}]
      /\ my_id \in [User -> Slot \cup {NoSlot}]
  BY DEF TypeOK
<1>1. /\ user_count = Cardinality(Taken)
      /\ \A i \in Slot, u \in User : users[i] = u <=> pc[Main(u)] \in Inside /\ my_id[u] = i
      /\ \A u \in User : pc[Main(u)] = "register" => my_id[u] \in Slot /\ users[my_id[u]] = Empty
      /\ \A u \in User : pc[Main(u)] \in Inside => my_id[u] \in Slot
  BY DEF Agree, LoggedIn, Inside
<1>3. ASSUME NEW u \in User, SemGet(u) PROVE Agree'
  <2>1. /\ pc[Main(u)] = "out" /\ UNCHANGED <<user_count, users, my_id>>
        /\ \E l \in {"setval", "attached"} : Goto(Main(u), l)
    BY <1>3 DEF SemGet, shm
  <2> QED BY <2>1, AgreeMove DEF Place, Inside
<1>4. ASSUME NEW u \in User, Memset(u) PROVE Agree'
  <2>1. /\ pc[Main(u)] = "memset" /\ Goto(Main(u), "attached") /\ my_id' = my_id
        /\ user_count' = 0 /\ users' = [i \in Slot |-> Empty]
    BY <1>4 DEF Memset
  <2>2. \A w \in User : w # u => pc[Main(w)] = "out"
    BY <2>1 DEF Creating, First
  <2>3. user_count = 0 /\ \A i \in Slot : users[i] = Empty
    BY <2>1, <2>2 DEF Creating, First
  <2>4. user_count' = user_count /\ users' = users
    BY <1>0, <2>1, <2>3
  <2> QED BY <2>1, <2>4, AgreeMove DEF Place, Inside
<1>5. ASSUME NEW u \in User, SetVal(u) \/ LockLogin(u) \/ Reject(u) \/ WaitSender(u)
      PROVE  Agree'
  <2>1. UNCHANGED <<user_count, users, my_id>>
    BY <1>5 DEF SetVal, LockLogin, Reject, WaitSender, shm
  <2>2. \E l \in Place \ {"register"} :
          Goto(Main(u), l) /\ (l \in Inside <=> pc[Main(u)] \in Inside)
    BY <1>5 DEF SetVal, LockLogin, Reject, WaitSender, Place, Inside
  <2> QED BY <2>1, <2>2, AgreeMove
<1>6. ASSUME NEW u \in User, ForkReceiver(u) \/ ForkSender(u) PROVE Agree'
  <2>1. UNCHANGED <<user_count, users, my_id>>
    BY <1>6 DEF ForkReceiver, ForkSender, shm
  <2>2. /\ pc[Main(u)] \in {"forkRecv", "forkSend"} /\ pc'[Main(u)] \in {"forkSend", "wait"}
        /\ \A v \in User : v # u => pc'[Main(v)] = pc[Main(v)]
    BY <1>6, ForkMoves, Processes
  <2>3. \A v \in User : pc'[Main(v)] = "register" => pc[Main(v)] = "register"
    BY <2>2
  <2>4. \A v \in User : pc'[Main(v)] \in Inside <=> pc[Main(v)] \in Inside
    BY <2>2 DEF Inside
  <2> QED BY <2>1, <2>3, <2>4, AgreeKept
<1>7. ASSUME NEW u \in User,
             \/ Type(u) \/ EndOfInput(u) \/ LockSend(u) \/ Number(u) \/ SendNext(u) \/ EndSend(u)
             \/ Receive(u)
      PROVE  Agree'
  <2>1. UNCHANGED <<user_count, users, my_id>>
    BY <1>7 DEF Type, EndOfInput, LockSend, Number, SendNext, EndSend, Receive, shm
  <2>2. pc' = pc \/ \E l \in Place : Goto(Send(u), l)
    BY <1>7 DEF Type, EndOfInput, LockSend, Number, SendNext, EndSend, Receive, Place
  <2>3. \A v \in User : pc'[Main(v)] = pc[Main(v)]
    <3>1. ASSUME NEW l \in Place, Goto(Send(u), l)
          PROVE  \A v \in User : pc'[Main(v)] = pc[Main(v)]
      <4>1. Send(u) \in Proc
        BY Processes
      <4>2. \A r \in Proc : pc'[r] = IF r = Send(u) THEN l ELSE pc[r]
        BY <3>1, <4>1, PcMove DEF Goto
      <4> QED BY <4>2, Processes
    <3> QED BY <2>2, <3>1
  <2> QED BY <2>1, <2>3, AgreeKept
<1>8. ASSUME NEW p \in Proc, pc[p] \in {"kill", "lock", "leave", "last", "remove"}
      PROVE  \E u \in User : p = Main(u)
  BY <1>8, Processes DEF Quiet
<1>9. ASSUME NEW p \in Proc, Kill(p) PROVE Agree'
  <2>1. PICK D \in SUBSET Proc :
          /\ D \subseteq {Recv(p[1]), Send(p[1])}
          /\ \A r \in Proc : pc'[r] = IF r \in D THEN "dead" ELSE IF r = p THEN "lock" ELSE pc[r]
    BY <1>9, KillFacts
  <2>2. pc[p] = "kill" /\ UNCHANGED <<user_count, users, my_id>>
    BY <1>9 DEF Kill, shm
  <2>3. \A v \in User : Main(v) \notin D
    BY <2>1, Processes
  <2>4. \A v \in User : pc'[Main(v)] = IF p = Main(v) THEN "lock" ELSE pc[Main(v)]
    BY <2>1, <2>3, Processes
  <2>5. \A v \in User : pc'[Main(v)] \in Inside <=> pc[Main(v)] \in Inside
    BY <2>2, <2>4 DEF Inside
  <2>6. \A v \in User : pc'[Main(v)] = "register" => pc[Main(v)] = "register"
    BY <2>4
  <2> QED BY <2>2, <2>5, <2>6, AgreeKept
<1>10. ASSUME NEW p \in Proc, LockLeave(p) \/ LastUser(p) PROVE Agree'
  <2>1. UNCHANGED <<user_count, users, my_id>>
    BY <1>10 DEF LockLeave, LastUser, shm
  <2>2. PICK u \in User : p = Main(u)
    BY <1>8, <1>10 DEF LockLeave, LastUser
  <2>3. \E l \in Place \ {"register"} :
          Goto(Main(u), l) /\ (l \in Inside <=> pc[Main(u)] \in Inside)
    BY <1>10, <2>2 DEF LockLeave, LastUser, Place, Inside
  <2> QED BY <2>1, <2>3, AgreeMove
<1>11. ASSUME NEW u \in User, InCS(Main(u)), NEW w \in User, pc[Main(w)] = "register"
       PROVE  w = u
  BY <1>11, AloneInside, Processes DEF InCS
<1>12. ASSUME NEW u \in User, ChooseSlot(u) PROVE Agree'
  <2>1. PICK k \in Slot : FirstFree(k) /\ my_id' = [my_id EXCEPT ![u] = k]
    BY <1>12 DEF ChooseSlot
  <2>2. /\ pc[Main(u)] = "login" /\ Goto(Main(u), "register") /\ UNCHANGED <<user_count, users>>
    BY <1>12 DEF ChooseSlot, shm
  <2>3. \A v \in User : pc'[Main(v)] = IF v = u THEN "register" ELSE pc[Main(v)]
    <3>1. Main(u) \in Proc /\ "register" \in Place
      BY Processes DEF Place
    <3>2. \A r \in Proc : pc'[r] = IF r = Main(u) THEN "register" ELSE pc[r]
      BY <2>2, <3>1, PcMove DEF Goto
    <3> QED BY <3>2, Processes
  <2>4. \A v \in User : my_id'[v] = IF v = u THEN k ELSE my_id[v]
    BY <1>0, <2>1
  <2>5. users[k] = Empty
    BY <2>1 DEF FirstFree
  <2>6. \A v \in User : pc'[Main(v)] \in Inside <=> pc[Main(v)] \in Inside /\ v # u
    BY <2>2, <2>3 DEF Inside
  <2>7. \A i \in Slot : users[i] # u
    BY <1>1, <2>2 DEF Inside
  <2>8. \A i \in Slot, v \in User : users'[i] = v <=> pc'[Main(v)] \in Inside /\ my_id'[v] = i
    BY <1>1, <2>2, <2>4, <2>6, <2>7
  <2>9. \A v \in User : pc'[Main(v)] = "register" => my_id'[v] \in Slot /\ users'[my_id'[v]] = Empty
    BY <1>1, <2>2, <2>3, <2>4, <2>5
  <2>10. \A v \in User : pc'[Main(v)] \in Inside => my_id'[v] \in Slot
    BY <1>1, <2>4, <2>6
  <2>11. user_count' = Cardinality(Taken)'
    BY <1>1, <2>2 DEF Taken
  <2> QED BY <2>8, <2>9, <2>10, <2>11 DEF Agree, LoggedIn, Inside
<1>13. ASSUME NEW u \in User, Register(u) PROVE Agree'
  <2> DEFINE k == my_id[u]
  <2>1. /\ pc[Main(u)] = "register" /\ Goto(Main(u), "forkRecv") /\ my_id' = my_id
        /\ users' = [users EXCEPT ![k] = u] /\ user_count' = user_count + 1
    BY <1>13 DEF Register
  <2>2. \A v \in User : pc'[Main(v)] = IF v = u THEN "forkRecv" ELSE pc[Main(v)]
    <3>1. Main(u) \in Proc /\ "forkRecv" \in Place
      BY Processes DEF Place
    <3>2. \A r \in Proc : pc'[r] = IF r = Main(u) THEN "forkRecv" ELSE pc[r]
      BY <2>1, <3>1, PcMove DEF Goto
    <3> QED BY <3>2, Processes
  <2>3. k \in Slot /\ users[k] = Empty
    BY <1>1, <2>1
  <2>4. u # Empty
    BY ChatAssumption DEF Empty
  <2>5. \A i \in Slot : users'[i] = IF i = k THEN u ELSE users[i]
    BY <1>0, <2>1
  <2>6. \A v \in User : pc'[Main(v)] \in Inside <=> pc[Main(v)] \in Inside \/ v = u
    BY <2>2 DEF Inside
  <2>7. \A i \in Slot, v \in User : users'[i] = v <=> pc'[Main(v)] \in Inside /\ my_id'[v] = i
    <3> SUFFICES ASSUME NEW i \in Slot, NEW v \in User
                 PROVE  users'[i] = v <=> pc'[Main(v)] \in Inside /\ my_id'[v] = i
      OBVIOUS
    <3>1. CASE v = u
      <4>1. users[i] # u
        BY <1>1, <2>1 DEF Inside
      <4> QED BY <2>1, <2>5, <2>6, <3>1, <4>1
    <3>2. CASE v # u
      <4>1. v # Empty
        BY ChatAssumption DEF Empty
      <4> QED BY <1>1, <2>1, <2>3, <2>5, <2>6, <3>2, <4>1
    <3> QED BY <3>1, <3>2
  <2>8. \A v \in User : pc'[Main(v)] # "register"
    BY <1>11, <2>1, <2>2 DEF InCS
  <2>9. \A v \in User : pc'[Main(v)] \in Inside => my_id'[v] \in Slot
    BY <1>1, <2>1, <2>3, <2>6
  <2>10. user_count' = Cardinality(Taken)'
    <3>1. Taken' = Taken \cup {k} /\ k \notin Taken
      BY <2>3, <2>4, <2>5 DEF Taken
    <3>2. Cardinality(Taken') = Cardinality(Taken) + 1
      BY <3>1, TakenFinite, FS_AddElement
    <3> QED BY <1>1, <2>1, <3>2
  <2> QED BY <2>7, <2>8, <2>9, <2>10 DEF Agree, LoggedIn, Inside
<1>14. ASSUME NEW p \in Proc, Leave(p) PROVE Agree'
  <2>1. PICK u \in User : p = Main(u)
    BY <1>8, <1>14 DEF Leave
  <2> DEFINE k == my_id[u]
  <2>2. /\ pc[Main(u)] = "leave" /\ Goto(Main(u), "last") /\ my_id' = my_id
        /\ users' = [users EXCEPT ![k] = Empty] /\ user_count' = user_count - 1
    BY <1>14, <2>1, Processes DEF Leave
  <2>3. \A v \in User : pc'[Main(v)] = IF v = u THEN "last" ELSE pc[Main(v)]
    <3>1. Main(u) \in Proc /\ "last" \in Place
      BY Processes DEF Place
    <3>2. \A r \in Proc : pc'[r] = IF r = Main(u) THEN "last" ELSE pc[r]
      BY <2>2, <3>1, PcMove DEF Goto
    <3> QED BY <3>2, Processes
  <2>4. k \in Slot /\ users[k] = u /\ u # Empty
    BY <1>1, <2>2, ChatAssumption DEF Inside, Empty
  <2>5. \A i \in Slot : users'[i] = IF i = k THEN Empty ELSE users[i]
    BY <1>0, <2>2
  <2>6. \A v \in User : pc'[Main(v)] \in Inside <=> pc[Main(v)] \in Inside /\ v # u
    BY <2>3 DEF Inside
  <2>7. \A i \in Slot, v \in User : users'[i] = v <=> pc'[Main(v)] \in Inside /\ my_id'[v] = i
    <3> SUFFICES ASSUME NEW i \in Slot, NEW v \in User
                 PROVE  users'[i] = v <=> pc'[Main(v)] \in Inside /\ my_id'[v] = i
      OBVIOUS
    <3>1. v # Empty
      BY ChatAssumption DEF Empty
    <3>2. users[i] = u => i = k
      BY <1>1
    <3>3. CASE v = u
      BY <2>5, <2>6, <3>1, <3>2, <3>3
    <3>4. CASE v # u
      BY <1>1, <2>2, <2>4, <2>5, <2>6, <3>1, <3>4
    <3> QED BY <3>3, <3>4
  <2>8. \A v \in User : pc'[Main(v)] # "register"
    BY <1>11, <2>2, <2>3 DEF InCS
  <2>9. \A v \in User : pc'[Main(v)] \in Inside => my_id'[v] \in Slot
    BY <1>1, <2>2, <2>6
  <2>10. user_count' = Cardinality(Taken)'
    <3>1. Taken' = Taken \ {k} /\ k \in Taken
      BY <2>4, <2>5 DEF Taken
    <3>2. Cardinality(Taken') = Cardinality(Taken) - 1
      BY <3>1, TakenFinite, FS_RemoveElement
    <3> QED BY <1>1, <2>2, <3>2
  <2> QED BY <2>7, <2>8, <2>9, <2>10 DEF Agree, LoggedIn, Inside
<1>15. ~\E u \in User : CtrlC(u)
  BY DEF CtrlC
<1>16. ~\E p \in Proc : Deliver(p)
  BY DEF Deliver, Quiet
<1>17. ~\E p \in Proc : RemoveAll(p)
  BY DEF RemoveAll
<1>18. CASE UNCHANGED vars
  BY <1>18, AgreeKept DEF vars, shm
<1> QED BY <1>3, <1>4, <1>5, <1>6, <1>7, <1>9, <1>10, <1>12, <1>13, <1>14, <1>15, <1>16, <1>17,
           <1>18 DEF Next, MainStep, SenderStep, Cleanup

LEMMA Grows ==
  ASSUME TypeOK, [Next]_vars
  PROVE  (removed => removed') /\ (ints' = 0 => ints = 0)
<1>1. ASSUME NEW u \in User,
             \/ SemGet(u) \/ MainStep(u) \/ SenderStep(u) \/ Receive(u) \/ Type(u) \/ EndOfInput(u)
      PROVE  UNCHANGED <<removed, ints>>
  BY <1>1 DEF SemGet, MainStep, SetVal, Memset, LockLogin, Reject, ChooseSlot, Register,
      ForkReceiver, ForkSender, WaitSender, SenderStep, LockSend, Number, SendNext, EndSend,
      Receive, Type, EndOfInput, objects, bounds
<1>2. ASSUME NEW p \in Proc, Cleanup(p)
      PROVE  (removed' = TRUE \/ removed' = removed) /\ ints' = ints
  BY <1>2 DEF Cleanup, Kill, LockLeave, Leave, LastUser, RemoveAll, Deliver, objects, bounds
<1>3. ASSUME NEW u \in User, CtrlC(u) PROVE removed' = removed /\ ints' = ints + 1
  BY <1>3 DEF CtrlC, objects
<1>4. ASSUME UNCHANGED vars PROVE UNCHANGED <<removed, ints>>
  BY <1>4 DEF vars, objects, bounds
<1>5. removed' = TRUE \/ removed' = removed
  BY <1>1, <1>2, <1>3, <1>4 DEF Next
<1>6. ints' = ints \/ ints' = ints + 1
  BY <1>1, <1>2, <1>3, <1>4 DEF Next
<1>7. ints \in Nat
  BY ChatAssumption DEF TypeOK
<1>8. ints' = 0 => ints = 0
  BY <1>6, <1>7
<1>9. removed => removed'
  BY <1>5, Zenon
<1> QED BY <1>8, <1>9

LEMMA TableStep ==
  ASSUME TypeOK, LockSet, Creating, Table, [Next]_vars
  PROVE  Table'
<1> SUFFICES ASSUME ints' = 0 PROVE Quiet' /\ (~removed' => Agree')
  BY DEF Table
<1>1. ints = 0 /\ Quiet /\ (~removed => Agree)
  BY Grows DEF Table
<1>2. Quiet'
  BY <1>1, QuietStep
<1>3. ASSUME ~removed' PROVE Agree'
  BY <1>1, <1>3, Grows, AgreeStep
<1> QED BY <1>2, <1>3

-----------------------------------------------------------------------------
(* Where the processes of a user come from and go to. *)

Landing(v) ==
  /\ pc'[Main(v)] = "register" => pc[Main(v)] = "register" \/ ChooseSlot(v)
  /\ pc'[Main(v)] = "forkRecv" => pc[Main(v)] = "forkRecv" \/ Register(v)
  /\ pc'[Main(v)] = "forkSend" => pc[Main(v)] = "forkSend" \/ ForkReceiver(v)
  /\ pc'[Main(v)] = "wait" => pc[Main(v)] = "wait" \/ ForkSender(v)
  /\ pc'[Main(v)] = "send" => pc[Main(v)] = "send"
  /\ pc[Main(v)] = "setval" => pc'[Main(v)] = "setval" \/ SetVal(v) \/ Deliver(Main(v))
  /\ pc[Recv(v)] \in {"none", "dead"} => pc'[Recv(v)] = pc[Recv(v)] \/ ForkReceiver(v)
  /\ pc[Send(v)] = "none" => pc'[Send(v)] = "none" \/ ForkSender(v)
  /\ pc[Recv(v)] = "recv" =>
       \/ pc'[Recv(v)] = "recv" \/ Deliver(Recv(v)) \/ Kill(Main(v)) \/ Kill(Send(v))

LEMMA Landings ==
  ASSUME TypeOK, [Next]_vars
  PROVE  \A v \in User : Landing(v)
<1>1. ASSUME NEW p \in Proc, pc[p] \notin {"none", "dead", "setval", "recv"},
             NEW l \in Place \ {"register", "forkRecv", "forkSend", "wait", "setval"}, Goto(p, l),
             l = "send" => \E u \in User : p = Send(u)
      PROVE  \A v \in User : Landing(v)
  <2>1. \A r \in Proc : pc'[r] = IF r = p THEN l ELSE pc[r]
    BY <1>1, PcMove DEF Goto
  <2> QED BY <1>1, <2>1, Processes DEF Landing
<1>2. ASSUME NEW u \in User, SemGet(u) PROVE \A v \in User : Landing(v)
  <2>1. PICK l \in {"setval", "attached"} : pc' = [pc EXCEPT ![Main(u)] = l]
    BY <1>2 DEF SemGet, Goto
  <2>2. Main(u) \in Proc /\ l \in Place /\ pc[Main(u)] = "out"
    BY <1>2, Processes DEF SemGet, Place
  <2>3. \A r \in Proc : pc'[r] = IF r = Main(u) THEN l ELSE pc[r]
    BY <2>1, <2>2, PcMove
  <2> QED BY <2>2, <2>3, Processes DEF Landing
<1>3. ASSUME NEW u \in User, SetVal(u) \/ ChooseSlot(u) \/ Register(u)
      PROVE  \A v \in User : Landing(v)
  <2>1. PICK l \in {"memset", "register", "forkRecv"} : pc' = [pc EXCEPT ![Main(u)] = l]
    BY <1>3 DEF SetVal, ChooseSlot, Register, Goto
  <2>2. /\ Main(u) \in Proc /\ l \in Place
        /\ \/ SetVal(u) /\ l = "memset"
           \/ pc[Main(u)] # "setval" /\ (l = "register" => ChooseSlot(u))
                /\ (l = "forkRecv" => Register(u))
    <3>1. Main(u) \in Proc /\ pc \in [Proc -> Place]
      BY Processes DEF TypeOK, Place
    <3>2. pc'[Main(u)] = l
      BY <2>1, <3>1
    <3> QED BY <1>3, <3>1, <3>2 DEF SetVal, ChooseSlot, Register, Goto, Place
  <2>3. \A r \in Proc : pc'[r] = IF r = Main(u) THEN l ELSE pc[r]
    BY <2>1, <2>2, PcMove
  <2> QED BY <2>2, <2>3, Processes DEF Landing
<1>4. ASSUME NEW u \in User, ForkReceiver(u) \/ ForkSender(u) PROVE \A v \in User : Landing(v)
  BY <1>4, ForkMoves, Processes DEF Landing
<1>5. ASSUME NEW u \in User, Memset(u) \/ LockLogin(u) \/ Reject(u) \/ WaitSender(u)
      PROVE  \A v \in User : Landing(v)
  <2>1. /\ Main(u) \in Proc /\ pc[Main(u)] \notin {"none", "dead", "setval", "recv"}
        /\ \E l \in {"attached", "login", "dead", "kill"} : Goto(Main(u), l)
    BY <1>5, Processes DEF Memset, LockLogin, Reject, WaitSender
  <2> QED BY <1>1, <2>1 DEF Place
<1>6. ASSUME NEW u \in User, Type(u) \/ EndOfInput(u) \/ LockSend(u) \/ Number(u) \/ EndSend(u)
      PROVE  \A v \in User : Landing(v)
  <2>1. /\ Send(u) \in Proc /\ pc[Send(u)] \notin {"none", "dead", "setval", "recv"}
        /\ \E l \in {"typed", "dead", "number", "send", "idle"} : Goto(Send(u), l)
    BY <1>6, Processes DEF Type, EndOfInput, LockSend, Number, EndSend
  <2> QED BY <1>1, <2>1 DEF Place
<1>7. ASSUME NEW p \in Proc, LockLeave(p) \/ Leave(p) \/ LastUser(p) \/ RemoveAll(p)
      PROVE  \A v \in User : Landing(v)
  <2>1. /\ pc[p] \notin {"none", "dead", "setval", "recv"}
        /\ \E l \in {"leave", "last", "remove", "dead"} : Goto(p, l)
    BY <1>7 DEF LockLeave, Leave, LastUser, RemoveAll
  <2> QED BY <1>1, <2>1 DEF Place
<1>8. ASSUME NEW p \in Proc, Kill(p) PROVE \A v \in User : Landing(v)
  <2>1. PICK D \in SUBSET Proc :
          /\ D \subseteq {Recv(p[1]), Send(p[1])} /\ p \notin D
          /\ \A r \in D : pc[r] # "none"
          /\ \A r \in Proc : pc'[r] = IF r \in D THEN "dead" ELSE IF r = p THEN "lock" ELSE pc[r]
    BY <1>8, KillFacts
  <2>2. pc[p] = "kill" /\ p[1] \in User /\ p \in {Main(p[1]), Recv(p[1]), Send(p[1])}
    BY <1>8, Processes DEF Kill
  <2> SUFFICES ASSUME NEW v \in User PROVE Landing(v)
    OBVIOUS
  <2>3. Main(v) \notin D /\ (Recv(v) \in D => p[1] = v)
    BY <2>1, <2>2, Processes
  <2>4. pc'[Main(v)] = pc[Main(v)] \/ (pc[Main(v)] = "kill" /\ pc'[Main(v)] = "lock")
    BY <2>1, <2>2, <2>3, Processes
  <2>5. pc[Recv(v)] \in {"none", "dead"} => pc'[Recv(v)] = pc[Recv(v)]
    BY <2>1, <2>2, Processes
  <2>6. pc[Recv(v)] = "recv" => pc'[Recv(v)] = "recv" \/ Kill(Main(v)) \/ Kill(Send(v))
    BY <1>8, <2>1, <2>2, <2>3, Processes
  <2>7. pc[Send(v)] = "none" => pc'[Send(v)] = "none"
    BY <2>1, <2>2, Processes
  <2> QED BY <2>4, <2>5, <2>6, <2>7 DEF Landing
<1>9. ASSUME NEW p \in Proc, Deliver(p) PROVE \A v \in User : Landing(v)
  <2>1. PICK l \in {"dead", "kill"} : pc' = [pc EXCEPT ![p] = l]
    BY <1>9 DEF Deliver, Goto
  <2>2. \A r \in Proc : pc'[r] = IF r = p THEN l ELSE pc[r]
    <3>1. l \in Place
      BY <2>1 DEF Place
    <3> QED BY <2>1, <3>1, PcMove
  <2>3. pc[p] \notin {"none", "dead"}
    BY <1>9 DEF Deliver, Alive
  <2> QED BY <1>9, <2>2, <2>3, Processes DEF Landing
<1>10. CASE UNCHANGED pc
  BY <1>10 DEF Landing
<1>11. ASSUME NEW u \in User, SendNext(u) \/ Receive(u) \/ CtrlC(u) PROVE UNCHANGED pc
  BY <1>11 DEF SendNext, Receive, CtrlC
<1>12. CASE UNCHANGED vars
  BY <1>10, <1>12 DEF vars
<1> QED BY <1>2, <1>3, <1>4, <1>5, <1>6, <1>7, <1>8, <1>9, <1>10, <1>11, <1>12
        DEF Next, MainStep, SenderStep, Cleanup

(* No receiver and no sender before main has forked it.                    *)
Forks == \A u \in User :
  /\ pc[Main(u)] \in Early \cup {"register", "forkRecv"} => pc[Recv(u)] = "none"
  /\ pc[Main(u)] \in Early \cup {"register", "forkRecv", "forkSend"} => pc[Send(u)] = "none"

LEMMA ForksStep ==
  ASSUME TypeOK, Ids, Forks, [Next]_vars
  PROVE  Forks'
<1> SUFFICES ASSUME NEW u \in User,
                    pc'[Main(u)] \in Early \cup {"register", "forkRecv", "forkSend"}
             PROVE  /\ pc'[Main(u)] # "forkSend" => pc'[Recv(u)] = "none"
                    /\ pc'[Send(u)] = "none"
  BY DEF Forks, Early
<1>1. Landing(u)
  BY Landings
<1>2. CASE pc'[Main(u)] \in Early
  BY <1>2, PlaceStep DEF EarlyFacts
<1>3. CASE pc'[Main(u)] \in {"register", "forkRecv"}
  <2>1. pc[Main(u)] \in {"login", "register", "forkRecv"}
    BY <1>1, <1>3 DEF Landing, ChooseSlot, Register
  <2>2. pc[Recv(u)] = "none" /\ pc[Send(u)] = "none"
    BY <2>1 DEF Forks, Early
  <2>3. ~ForkReceiver(u) /\ ~ForkSender(u)
    BY <1>3, ForkMoves, Processes
  <2> QED BY <1>1, <2>2, <2>3 DEF Landing
<1>4. CASE pc'[Main(u)] = "forkSend"
  <2>1. pc[Main(u)] \in {"forkRecv", "forkSend"}
    BY <1>1, <1>4 DEF Landing, ForkReceiver
  <2>2. pc[Send(u)] = "none" /\ ~ForkSender(u)
    BY <1>4, <2>1, ForkMoves, Processes DEF Forks
  <2> QED BY <1>1, <1>4, <2>2 DEF Landing
<1> QED BY <1>2, <1>3, <1>4

-----------------------------------------------------------------------------
(* What a broadcast has passed has got the message. *)

Reaches == ~removed => \A u \in User : Reached(u)

LEMMA ReachesStep ==
  ASSUME TypeOK, LockSet, Ids, Creating, Numbers, Forks, Reaches, [Next]_vars
  PROVE  Reaches'
<1> SUFFICES ASSUME ~removed', NEW u \in User, pc'[Send(u)] = "send", NEW k \in Slot,
                    k < todo'[u], k # my_id'[u], users'[k] \in User \ gone',
                    pc'[Recv(users'[k])] # "dead"
             PROVE  Has(users[k], seq[u])'
  BY DEF Reaches, Reached
<1> DEFINE w == users[k]
           n == seq[u]
<1>0. /\ users \in [Slot -> User \cup {Empty}] /\ q \in [User -> Seq(Nat)]
      /\ last \in [User -> Nat] /\ todo \in [User -> 0..MaxUsers] /\ seq \in [User -> Nat]
      /\ my_id \in [User -> Slot \cup {NoSlot}] /\ msg_seq \in Nat
  BY DEF TypeOK
<1>1. ~removed
  BY Grows
<1>2. pc[Send(u)] = "send" /\ ~Number(u)
  <2>1. ~Number(u)
    BY <1>0 DEF Number, Slot
  <2> QED BY <2>1, SendPlace
<1>3. ASSUME NEW p \in Proc, InCS(p) PROVE p = Send(u)
  <2>1. InCS(Send(u)) /\ Send(u) \in Proc
    BY <1>2, Processes DEF InCS
  <2> QED BY <1>1, <1>3, <2>1, AloneInside
<1>4. Reached(u) /\ n = msg_seq /\ \A v \in User : Waits(v, n)
  BY <1>1, <1>2 DEF Reaches, Numbers
<1>5. ASSUME NEW v \in User, pc[Recv(v)] = "dead" PROVE pc'[Recv(v)] = "dead"
  <2>1. ~ForkReceiver(v)
    BY <1>5 DEF ForkReceiver, Forks
  <2> QED BY <1>5, <2>1, Landings DEF Landing
<1>6. ASSUME UNCHANGED <<users, my_id, gone, todo, seq>>,
             \A v \in User : pc'[Recv(v)] # "dead" /\ Has(v, n) => Has(v, n)'
      PROVE  Has(w, n)'
  <2>1. w \in User \ gone /\ pc'[Recv(w)] # "dead" /\ pc[Recv(w)] # "dead"
    BY <1>5, <1>6
  <2>2. Has(w, n)
    BY <1>2, <1>4, <1>6, <2>1 DEF Reached
  <2> QED BY <1>6, <2>1, <2>2
<1>7. CASE UNCHANGED <<users, my_id, queues, locals>>
  <2>1. \A v \in User : Has(v, n) => Has(v, n)'
    BY <1>7 DEF Has, queues, locals
  <2> QED BY <1>6, <1>7, <2>1 DEF queues, locals
<1>8. ASSUME NEW v \in User,
             \/ SemGet(v) \/ SetVal(v) \/ LockLogin(v) \/ Reject(v) \/ ForkReceiver(v)
             \/ ForkSender(v) \/ WaitSender(v) \/ LockSend(v) \/ Type(v) \/ EndOfInput(v)
             \/ CtrlC(v)
      PROVE  UNCHANGED <<users, my_id, queues, locals>>
  BY <1>8 DEF SemGet, SetVal, LockLogin, Reject, ForkReceiver, ForkSender, WaitSender, LockSend,
              Type, EndOfInput, CtrlC, shm
<1>9. ASSUME NEW p \in Proc, LockLeave(p) \/ LastUser(p) \/ Deliver(p)
      PROVE  UNCHANGED <<users, my_id, queues, locals>>
  BY <1>9 DEF LockLeave, LastUser, Deliver, shm
<1>10. ASSUME NEW v \in User, Memset(v) PROVE FALSE
  <2>1. pc[Main(v)] = "memset" /\ pc[Main(u)] \notin Early
    BY <1>2, <1>10 DEF Memset, Ids
  <2> QED BY <2>1 DEF Creating, First, Early
<1>11. ASSUME NEW v \in User, ChooseSlot(v) \/ Register(v) PROVE FALSE
  BY <1>3, <1>11, Processes DEF ChooseSlot, Register, InCS
<1>12. ASSUME NEW p \in Proc, Leave(p) PROVE FALSE
  BY <1>2, <1>3, <1>12 DEF Leave, InCS
<1>13. ASSUME NEW v \in User, Number(v) PROVE FALSE
  BY <1>2, <1>3, <1>13, Processes DEF Number, InCS
<1>14. ASSUME NEW v \in User, EndSend(v) PROVE FALSE
  <2>1. v = u
    BY <1>3, <1>14, Processes DEF EndSend, InCS
  <2>2. pc'[Send(u)] = "idle"
    BY <1>14, <2>1, Processes DEF EndSend, Goto, TypeOK
  <2> QED BY <2>2
<1>15. ASSUME NEW p \in Proc, RemoveAll(p) PROVE FALSE
  BY <1>15 DEF RemoveAll
<1>16. ASSUME NEW p \in Proc, Kill(p) PROVE Has(w, n)'
  <2>1. UNCHANGED <<users, my_id, q, gone, todo, seq>>
    BY <1>16 DEF Kill, shm, queues
  <2>2. PICK D \in SUBSET Proc :
          /\ \A r \in Proc : pc'[r] = IF r \in D THEN "dead" ELSE IF r = p THEN "lock" ELSE pc[r]
          /\ last' = [v \in User |-> IF Recv(v) \in D THEN 0 ELSE last[v]]
    BY <1>16, KillFacts
  <2>3. ASSUME NEW v \in User, pc'[Recv(v)] # "dead", Has(v, n) PROVE Has(v, n)'
    <3>1. Recv(v) \notin D
      BY <2>2, <2>3, Processes
    <3>2. last'[v] = last[v] /\ q'[v] = q[v] /\ seq'[u] = n
      BY <2>1, <2>2, <3>1
    <3> QED BY <2>3, <3>2 DEF Has
  <2> QED BY <1>6, <2>1, <2>3
<1>17. ASSUME NEW r \in User, Receive(r) PROVE Has(w, n)'
  <2>1. /\ UNCHANGED <<users, my_id, gone, todo, seq>>
        /\ last' = [last EXCEPT ![r] = Head(q[r])] /\ q' = [q EXCEPT ![r] = Tail(q[r])]
    BY <1>17 DEF Receive, shm
  <2>2. q[r] \in Seq(Nat) /\ q[r] # <<>>
    BY <1>0, <1>17 DEF Receive
  <2>3. ASSUME NEW v \in User, Has(v, n) PROVE Has(v, n)'
    <3>1. CASE v # r
      <4>1. q'[v] = q[v] /\ last'[v] = last[v] /\ seq' = seq
        BY <1>0, <2>1, <3>1
      <4> QED BY <2>3, <4>1 DEF Has
    <3>2. CASE v = r
      <4> DEFINE s == q[r]
                 t == Tail(s)
      <4>1. q'[v] = t /\ last'[v] = s[1] /\ seq' = seq
        BY <1>0, <2>1, <2>2, <3>2
      <4>2. /\ 1 \in DOMAIN s /\ \A i \in DOMAIN s : i \in Nat /\ i >= 1 /\ s[i] \in Nat
            /\ \A i \in DOMAIN s : i > 1 => i - 1 \in DOMAIN t /\ t[i - 1] = s[i]
        <5>1. s \in Seq(Nat) /\ s # <<>> /\ Len(s) \in Nat /\ DOMAIN s = 1..Len(s)
          BY <2>2, LenProperties
        <5>2. /\ t \in Seq(Nat) /\ Len(t) = Len(s) - 1
              /\ \A i \in 1..Len(t) : t[i] = s[i+1]
          BY <5>1, HeadTailProperties
        <5>3. Len(s) # 0 /\ DOMAIN t = 1..Len(t) /\ \A i \in DOMAIN s : s[i] \in Nat
          BY <5>1, <5>2, LenProperties, ElementOfSeq, EmptySeq
        <5> HIDE DEF s, t
        <5> QED BY <5>1, <5>2, <5>3
      <4>3. last[r] < s[1] /\ s[1] <= n /\ last[r] \in Nat /\ n \in Nat
        BY <1>0, <1>4, <4>2 DEF Waits
      <4>4. PICK i \in DOMAIN s : s[i] = n
        BY <2>3, <3>2, <4>2, <4>3 DEF Has
      <4> HIDE DEF t, s
      <4>5. i = 1 \/ i > 1
        BY <4>2
      <4>6. CASE i = 1
        BY <4>1, <4>4, <4>6 DEF Has
      <4>7. CASE i > 1
        BY <4>1, <4>2, <4>4, <4>7 DEF Has
      <4> QED BY <4>5, <4>6, <4>7
    <3> QED BY <3>1, <3>2
  <2> QED BY <1>6, <2>1, <2>3
<1>18. ASSUME NEW v \in User, SendNext(v) PROVE Has(w, n)'
  <2>1. v = u
    BY <1>3, <1>18, Processes DEF SendNext, InCS
  <2>2. /\ todo[u] \in Slot /\ todo' = [todo EXCEPT ![u] = todo[u] + 1]
        /\ UNCHANGED <<users, my_id, gone, seq, last>>
        /\ LET v1 == users[todo[u]] IN
             IF todo[u] = my_id[u] \/ v1 = Empty \/ v1 \in gone
               THEN q' = q ELSE q' = [q EXCEPT ![v1] = Append(q[v1], seq[u])]
    BY <1>18, <2>1 DEF SendNext, shm
  <2>3. todo'[u] = todo[u] + 1 /\ todo[u] \in Nat /\ k \in Nat /\ w \in User \ gone
        /\ k # my_id[u] /\ n \in Nat /\ w # Empty
    BY <1>0, <2>2, ChatAssumption DEF Slot, Empty
  <2>4. q[w] \in Seq(Nat)
    BY <1>0, <2>3
  <2>5. q'[w] = q[w] \/ q'[w] = Append(q[w], n)
    <3>1. users[todo[u]] \in User \cup {Empty}
      BY <1>0, <2>2
    <3> QED BY <1>0, <2>2, <2>3, <3>1
  <2>6. CASE k < todo[u]
    <3>1. Has(w, n)
      BY <1>2, <1>4, <1>5, <2>2, <2>3, <2>6 DEF Reached
    <3>2. \A i \in DOMAIN q[w] : i \in DOMAIN q'[w] /\ q'[w][i] = q[w][i]
      <4>1. CASE q'[w] = Append(q[w], n)
        BY <2>3, <2>4, <4>1, AppendProperties, LenProperties
      <4>2. CASE q'[w] = q[w]
        BY <4>2
      <4> QED BY <2>5, <4>1, <4>2
    <3> QED BY <2>2, <3>1, <3>2 DEF Has
  <2>7. CASE k = todo[u]
    <3>1. q'[w] = Append(q[w], n)
      BY <1>0, <2>2, <2>3, <2>7
    <3>2. Len(q[w]) + 1 \in DOMAIN q'[w] /\ q'[w][Len(q[w]) + 1] = n
      BY <2>3, <2>4, <3>1
    <3> QED BY <2>2, <3>2 DEF Has
  <2> QED BY <2>3, <2>6, <2>7
<1>19. CASE UNCHANGED vars
  BY <1>7, <1>19 DEF vars, shm
<1> QED BY <1>7, <1>8, <1>9, <1>10, <1>11, <1>12, <1>13, <1>14, <1>15, <1>16, <1>17, <1>18, <1>19
        DEF Next, MainStep, SenderStep, Cleanup

-----------------------------------------------------------------------------
(* With Ctrl+C the count is too low at worst. *)

Count == ~removed =>
  /\ user_count <= Cardinality(Taken)
  /\ \A u \in User : pc[Main(u)] = "register" => my_id[u] \in Slot /\ users[my_id[u]] = Empty

LEMMA CountStep ==
  ASSUME TypeOK, LockSet, Creating, Count, [Next]_vars
  PROVE  Count'
<1> SUFFICES ASSUME ~removed' PROVE Count'
  BY DEF Count
<1>0. /\ user_count \in Int /\ users \in [Slot -> User \cup {Empty}]
      /\ my_id \in [User -> Slot \cup {NoSlot}] /\ Cardinality(Taken) \in Nat
  BY TakenFinite DEF TypeOK
<1>1. /\ ~removed /\ user_count <= Cardinality(Taken)
      /\ \A u \in User : pc[Main(u)] = "register" => my_id[u] \in Slot /\ users[my_id[u]] = Empty
  BY Grows DEF Count
<1>2. \A u \in User : pc'[Main(u)] = "register" => pc[Main(u)] = "register" \/ ChooseSlot(u)
  BY Landings DEF Landing
<1>3. CASE UNCHANGED <<user_count, users, my_id>> /\ \A u \in User : ~ChooseSlot(u)
  <2>1. Taken' = Taken
    BY <1>3 DEF Taken
  <2> QED BY <1>1, <1>2, <1>3, <2>1 DEF Count
<1>4. ASSUME NEW p \in Proc, InCS(p), NEW u \in User, pc[Main(u)] = "register"
      PROVE  p = Main(u)
  <2>1. Main(u) \in Proc /\ InCS(Main(u))
    BY <1>4, Processes DEF InCS
  <2> QED BY <1>1, <1>4, <2>1, AloneInside
<1>5. ASSUME NEW u \in User, ChooseSlot(u) PROVE Count'
  <2>1. PICK k \in Slot : users[k] = Empty /\ my_id' = [my_id EXCEPT ![u] = k]
    BY <1>5 DEF ChooseSlot, FirstFree
  <2>2. UNCHANGED <<user_count, users>> /\ Taken' = Taken /\ InCS(Main(u))
    BY <1>5 DEF ChooseSlot, shm, Taken, InCS
  <2>3. \A v \in User : pc'[Main(v)] = "register" => v = u
    <3> SUFFICES ASSUME NEW v \in User, pc'[Main(v)] = "register" PROVE v = u
      OBVIOUS
    <3>1. InCS(Main(v)) /\ Main(v) \in Proc /\ Main(u) \in Proc
      BY <1>2, Processes DEF InCS, ChooseSlot
    <3>2. Main(v) = Main(u)
      BY <1>1, <2>2, <3>1, AloneInside
    <3> QED BY <3>2, Processes
  <2> QED BY <1>0, <1>1, <2>1, <2>2, <2>3 DEF Count
<1>6. ASSUME NEW u \in User, Register(u) PROVE Count'
  <2> DEFINE k == my_id[u]
  <2>1. pc[Main(u)] = "register" /\ users' = [users EXCEPT ![k] = u]
        /\ user_count' = user_count + 1 /\ Goto(Main(u), "forkRecv")
    BY <1>6 DEF Register
  <2>2. k \in Slot /\ users[k] = Empty /\ u # Empty
    BY <1>1, <2>1, ChatAssumption DEF Empty
  <2>3. Taken' = Taken \cup {k} /\ k \notin Taken
    BY <1>0, <2>1, <2>2 DEF Taken
  <2>4. Cardinality(Taken') = Cardinality(Taken) + 1
    BY <2>3, TakenFinite, FS_AddElement
  <2>5. \A v \in User : pc'[Main(v)] # "register"
    <3> SUFFICES ASSUME NEW v \in User, pc'[Main(v)] = "register" PROVE FALSE
      OBVIOUS
    <3>1. InCS(Main(v)) /\ InCS(Main(u)) /\ Main(v) \in Proc /\ Main(u) \in Proc
      BY <1>2, <2>1, Processes DEF InCS, ChooseSlot
    <3>2. v = u
      BY <1>1, <3>1, AloneInside, Processes
    <3>3. pc'[Main(u)] = "forkRecv"
      BY <2>1, <3>1 DEF Goto, TypeOK
    <3> QED BY <3>2, <3>3
  <2> QED BY <1>0, <1>1, <2>1, <2>4, <2>5 DEF Count
<1>7. ASSUME NEW p \in Proc, Leave(p) PROVE Count'
  <2> DEFINE k == my_id[p[1]]
  <2>1. pc[p] = "leave" /\ users' = [users EXCEPT ![k] = Empty] /\ my_id' = my_id
        /\ user_count' = user_count - 1 /\ InCS(p)
    BY <1>7 DEF Leave, InCS
  <2>2. Cardinality(Taken') >= Cardinality(Taken) - 1
    <3>1. CASE k \in Taken
      <4>1. Taken' = Taken \ {k}
        BY <1>0, <2>1, <3>1 DEF Taken
      <4>2. Cardinality(Taken \ {k}) = Cardinality(Taken) - 1
        BY <3>1, TakenFinite, FS_RemoveElement
      <4> QED BY <1>0, <4>1, <4>2
    <3>2. CASE k \notin Taken
      <4>1. Taken' = Taken
        BY <1>0, <2>1, <3>2 DEF Taken
      <4> QED BY <1>0, <4>1
    <3> QED BY <3>1, <3>2
  <2>3. ASSUME NEW v \in User, pc'[Main(v)] = "register" PROVE FALSE
    <3>1. pc[Main(v)] = "register" \/ pc[Main(v)] = "login"
      BY <1>2, <2>3 DEF ChooseSlot
    <3>2. p = Main(v)
      BY <1>1, <2>1, <3>1, AloneInside, Processes DEF InCS
    <3> QED BY <2>1, <3>1, <3>2
  <2>4. Cardinality(Taken') \in Nat
    <3>1. Taken' \subseteq Slot
      BY DEF Taken
    <3> QED BY <3>1, TakenFinite, FS_Subset, FS_CardinalityType
  <2> QED BY <1>0, <1>1, <2>1, <2>2, <2>3, <2>4 DEF Count
<1>8. ASSUME NEW u \in User, Memset(u) PROVE Count'
  <2>1. pc[Main(u)] = "memset" /\ user_count' = 0 /\ users' = [i \in Slot |-> Empty]
        /\ my_id' = my_id /\ Goto(Main(u), "attached")
    BY <1>8 DEF Memset
  <2>2. \A v \in User : v # u => pc[Main(v)] = "out"
    BY <2>1 DEF Creating, First
  <2>3. \A v \in User : pc'[Main(v)] # "register"
    BY <1>2, <2>1, <2>2 DEF ChooseSlot
  <2>4. Taken' = {}
    BY <2>1 DEF Taken
  <2>5. Cardinality(Taken') = 0
    BY <2>4, FS_EmptySet
  <2> QED BY <2>1, <2>3, <2>5 DEF Count
<1>9. ASSUME NEW u \in User,
             \/ SemGet(u) \/ SetVal(u) \/ LockLogin(u) \/ Reject(u) \/ ForkReceiver(u)
             \/ ForkSender(u) \/ WaitSender(u) \/ SenderStep(u) \/ Receive(u) \/ Type(u)
             \/ EndOfInput(u) \/ CtrlC(u)
      PROVE  UNCHANGED <<user_count, users, my_id>>
  BY <1>9 DEF SemGet, SetVal, LockLogin, Reject, ForkReceiver, ForkSender, WaitSender, SenderStep,
              LockSend, Number, SendNext, EndSend, Receive, Type, EndOfInput, CtrlC, shm
<1>10. ASSUME NEW p \in Proc, Kill(p) \/ LockLeave(p) \/ LastUser(p) \/ RemoveAll(p) \/ Deliver(p)
       PROVE  UNCHANGED <<user_count, users, my_id>>
  BY <1>10 DEF Kill, LockLeave, LastUser, RemoveAll, Deliver, shm
<1>11. CASE UNCHANGED vars
  <2>1. UNCHANGED <<user_count, users, my_id>>
    BY <1>11 DEF vars, shm
  <2> QED BY <1>3, <1>5, <2>1
<1> QED BY <1>3, <1>5, <1>6, <1>7, <1>8, <1>9, <1>10, <1>11 DEF Next, MainStep, Cleanup

-----------------------------------------------------------------------------
(* Who waits for whom, without Ctrl+C. *)

Waiting == ints = 0 /\ ~removed =>
  /\ created = "made" => \E u \in User : pc[Main(u)] = "setval"
  /\ \A p \in held : InCS(p)
  /\ \A u \in User : pc[Main(u)] \in {"forkSend", "wait"} => pc[Recv(u)] = "recv"
  /\ \A u \in User : pc[Main(u)] # "send"

HeldInside == \A p \in held : InCS(p)

LEMMA HeldMove ==
  ASSUME TypeOK, HeldInside, ~removed, NEW p \in Proc, NEW l \in Place,
         pc' = [pc EXCEPT ![p] = l],
         \/ P(p) /\ l \in CSPlace
         \/ V(p)
         \/ UNCHANGED lock /\ (InCS(p) => l \in CSPlace)
  PROVE  HeldInside'
<1>1. \A r \in Proc : pc'[r] = IF r = p THEN l ELSE pc[r]
  BY PcMove
<1>2. held \subseteq Proc
  BY DEF TypeOK
<1>3. \A r \in held : r # p => InCS(r)'
  BY <1>1, <1>2 DEF HeldInside, InCS
<1>4. l \in CSPlace => InCS(p)'
  BY <1>1 DEF InCS, CSPlace
<1> QED BY <1>3, <1>4 DEF HeldInside, P, V, lock

LEMMA HeldStep ==
  ASSUME TypeOK, HeldInside, Forks, Quiet, ~removed, [Next]_vars
  PROVE  HeldInside'
<1>1. CASE UNCHANGED <<held, pc>>
  BY <1>1 DEF HeldInside, InCS
<1>2. ASSUME NEW u \in User, SemGet(u) PROVE HeldInside'
  <2>1. PICK l \in {"setval", "attached"} : pc' = [pc EXCEPT ![Main(u)] = l]
    BY <1>2 DEF SemGet, Goto
  <2>2. Main(u) \in Proc /\ l \in Place /\ pc[Main(u)] = "out" /\ UNCHANGED lock
    BY <1>2, Processes DEF SemGet, Place
  <2>3. ~InCS(Main(u))
    BY <2>2 DEF InCS
  <2> QED BY <2>1, <2>2, <2>3, HeldMove
<1>3. ASSUME NEW u \in User, SetVal(u) PROVE HeldInside'
  <2>1. /\ pc[Main(u)] = "setval" /\ pc' = [pc EXCEPT ![Main(u)] = "memset"]
        /\ held' = held /\ Main(u) \in Proc
    BY <1>3, Processes DEF SetVal, Goto
  <2>2. \A r \in Proc : pc'[r] = IF r = Main(u) THEN "memset" ELSE pc[r]
    BY <2>1, PcMove DEF Place
  <2>3. \A r \in Proc : InCS(r) => InCS(r)'
    BY <2>1, <2>2 DEF InCS
  <2> QED BY <2>1, <2>3 DEF HeldInside, TypeOK
<1>4. ASSUME NEW u \in User, LockLogin(u) \/ LockSend(u) PROVE HeldInside'
  <2>1. PICK p \in Proc, l \in {"login", "number"} : pc' = [pc EXCEPT ![p] = l] /\ P(p)
    BY <1>4, Processes DEF LockLogin, LockSend, Goto
  <2> QED BY <2>1, HeldMove DEF Place, CSPlace
<1>5. ASSUME NEW p \in Proc, LockLeave(p) PROVE HeldInside'
  <2>1. pc' = [pc EXCEPT ![p] = "leave"] /\ P(p)
    BY <1>5 DEF LockLeave, Goto
  <2> QED BY <2>1, HeldMove DEF Place, CSPlace
<1>6. ASSUME NEW u \in User, Reject(u) \/ Register(u) \/ EndSend(u) PROVE HeldInside'
  <2>1. PICK p \in Proc, l \in {"dead", "forkRecv", "idle"} : pc' = [pc EXCEPT ![p] = l] /\ V(p)
    BY <1>6, Processes DEF Reject, Register, EndSend, Goto
  <2> QED BY <2>1, HeldMove DEF Place
<1>7. ASSUME NEW p \in Proc, Leave(p) PROVE HeldInside'
  <2>1. pc' = [pc EXCEPT ![p] = "last"] /\ V(p)
    BY <1>7 DEF Leave, Goto
  <2> QED BY <2>1, HeldMove DEF Place
<1>8. ASSUME NEW u \in User,
             Memset(u) \/ ChooseSlot(u) \/ WaitSender(u) \/ Type(u) \/ EndOfInput(u) \/ Number(u)
      PROVE  HeldInside'
  <2>1. UNCHANGED lock
    BY <1>8 DEF Memset, ChooseSlot, WaitSender, Type, EndOfInput, Number
  <2>2. PICK p \in Proc, l \in {"attached", "register", "kill", "typed", "dead", "send"} :
          pc' = [pc EXCEPT ![p] = l] /\ (InCS(p) => l \in CSPlace)
    BY <1>8, Processes DEF Memset, ChooseSlot, WaitSender, Type, EndOfInput, Number, Goto, InCS,
                           CSPlace
  <2> QED BY <2>1, <2>2, HeldMove DEF Place
<1>9. ASSUME NEW u \in User, ForkReceiver(u) \/ ForkSender(u) PROVE HeldInside'
  <2>1. UNCHANGED held /\ pc[Main(u)] \in {"forkRecv", "forkSend"}
    BY <1>9, ForkMoves DEF ForkReceiver, ForkSender, lock
  <2>2. \A r \in Proc : r \notin {Main(u), Recv(u), Send(u)} => pc'[r] = pc[r]
    BY <1>9, ForkMoves
  <2>3. ~InCS(Main(u)) /\ ~InCS(Recv(u))
    BY <2>1 DEF InCS, Quiet
  <2>4. ~InCS(Send(u))
    BY <2>1 DEF InCS, Forks
  <2> QED BY <2>1, <2>2, <2>3, <2>4 DEF HeldInside, InCS, TypeOK
<1>10. ASSUME NEW p \in Proc, Kill(p) PROVE HeldInside'
  <2>1. PICK D \in SUBSET Proc :
          /\ Undo(D)
          /\ \A r \in Proc : pc'[r] = IF r \in D THEN "dead" ELSE IF r = p THEN "lock" ELSE pc[r]
    BY <1>10, KillFacts
  <2>2. held' = held \ D /\ held \subseteq Proc /\ ~InCS(p)
    BY <1>10, <2>1 DEF Undo, TypeOK, Kill, InCS
  <2> QED BY <2>1, <2>2 DEF HeldInside, InCS
<1>11. ASSUME NEW p \in Proc, LastUser(p) \/ RemoveAll(p) PROVE HeldInside'
  <2>1. PICK l \in {"remove", "dead"} : pc' = [pc EXCEPT ![p] = l]
    BY <1>11 DEF LastUser, RemoveAll, Goto
  <2>2. UNCHANGED lock /\ ~InCS(p)
    BY <1>11 DEF LastUser, RemoveAll, InCS
  <2> QED BY <2>1, <2>2, HeldMove DEF Place
<1>12. ASSUME NEW p \in Proc, Deliver(p) PROVE FALSE
  BY <1>12 DEF Deliver, Quiet
<1>13. ASSUME NEW u \in User, SendNext(u) \/ Receive(u) \/ CtrlC(u) PROVE UNCHANGED <<held, pc>>
  BY <1>13 DEF SendNext, Receive, CtrlC, lock
<1>14. CASE UNCHANGED vars
  BY <1>1, <1>14 DEF vars, lock
<1> QED BY <1>1, <1>2, <1>3, <1>4, <1>5, <1>6, <1>7, <1>8, <1>9, <1>10, <1>11, <1>12, <1>13,
           <1>14 DEF Next, MainStep, SenderStep, Cleanup

LEMMA WaitingStep ==
  ASSUME TypeOK, Ids, Forks, Table, Waiting, [Next]_vars
  PROVE  Waiting'
<1> SUFFICES ASSUME ints' = 0, ~removed' PROVE Waiting'
  BY DEF Waiting
<1>1. ints = 0 /\ ~removed /\ Quiet
  BY Grows DEF Table
<1>2. /\ created = "made" => \E u \in User : pc[Main(u)] = "setval"
      /\ HeldInside
      /\ \A u \in User : pc[Main(u)] \in {"forkSend", "wait"} => pc[Recv(u)] = "recv"
      /\ \A u \in User : pc[Main(u)] # "send"
  BY <1>1 DEF Waiting, HeldInside
<1>3. \A u \in User : Landing(u)
  BY Landings
<1>4. ~\E p \in Proc : Deliver(p)
  BY <1>1 DEF Deliver, Quiet
<1>5. ASSUME created' = "made" PROVE \E u \in User : pc'[Main(u)] = "setval"
  <2>1. CASE created = "made"
    <3>1. PICK u \in User : pc[Main(u)] = "setval"
      BY <1>2, <2>1
    <3>2. ~SetVal(u)
      BY <1>5 DEF SetVal
    <3> QED BY <1>3, <1>4, <3>1, <3>2, Processes DEF Landing
  <2>2. CASE created # "made"
    <3>1. PICK u \in User : SemGet(u)
      BY <1>5, <2>2, PlaceStep DEF SetVal
    <3>2. created = "no" /\ Goto(Main(u), "setval")
      BY <1>5, <2>2, <3>1 DEF SemGet
    <3>3. pc'[Main(u)] = "setval"
      BY <3>2, Processes DEF Goto, TypeOK
    <3> QED BY <3>3
  <2> QED BY <2>1, <2>2
<1>6. ASSUME NEW u \in User, pc'[Main(u)] \in {"forkSend", "wait"} PROVE pc'[Recv(u)] = "recv"
  <2>1. CASE ForkReceiver(u)
    BY <2>1, ForkMoves, Processes
  <2>2. CASE ~ForkReceiver(u)
    <3>1. pc[Recv(u)] = "recv"
      BY <1>2, <1>3, <1>6, <2>2 DEF Landing, ForkSender
    <3>2. ~Kill(Send(u))
      BY <1>1 DEF Kill, Quiet
    <3>3. ~Kill(Main(u))
      <4> SUFFICES ASSUME Kill(Main(u)) PROVE FALSE
        OBVIOUS
      <4>1. Main(u) \in Proc
        BY Processes
      <4>2. pc'[Main(u)] \in {"dead", "lock"}
        BY <4>1, KillFacts
      <4> QED BY <1>6, <4>2
    <3> QED BY <1>3, <1>4, <3>1, <3>2, <3>3, Processes DEF Landing
  <2> QED BY <2>1, <2>2
<1>7. HeldInside'
  BY <1>1, <1>2, HeldStep
<1>8. \A u \in User : pc'[Main(u)] # "send"
  BY <1>2, <1>3 DEF Landing
<1> QED BY <1>5, <1>6, <1>7, <1>8 DEF Waiting, HeldInside, InCS

(* There is a first free slot when there is a free one.                    *)
LEMMA FirstExists ==
  ASSUME NEW i \in Slot, users[i] = Empty
  PROVE  \E k \in Slot : FirstFree(k)
<1> DEFINE S == {k \in Slot : users[k] = Empty}
<1>1. S \subseteq Nat /\ S # {}
  BY DEF Slot
<1> HIDE DEF S
<1>2. PICK m \in S : \A k \in S : <<k, m>> \notin OpToRel(<, Nat)
  BY <1>1, NatLessThanWellFounded, WFMin
<1>3. \A k \in S : ~(k < m)
  BY <1>1, <1>2 DEF OpToRel
<1>4. m \in Slot /\ users[m] = Empty /\ \A j \in 0..(m-1) : j \in Slot /\ j < m
  BY ChatAssumption DEF S, Slot
<1>5. \A j \in 0..(m-1) : users[j] # Empty
  BY <1>3, <1>4 DEF S
<1> QED BY <1>4, <1>5 DEF FirstFree

-----------------------------------------------------------------------------
(* The theorems. *)

Base == TypeOK /\ LockSet /\ Ids

LEMMA BaseInit == ASSUME Init PROVE Base
<1>1. \A u \in User : pc[Main(u)] = "out" /\ pc[Recv(u)] = "none" /\ pc[Send(u)] = "none"
  BY Processes DEF Init
<1>2. pc \in [Proc -> {"out", "none"}]
  BY DEF Init
<1>3. TypeOK
  <2>1. pc \in [Proc -> Place]
    BY <1>2 DEF Place
  <2>2. removed \in BOOLEAN
    BY DEF Init
  <2>3. TypeRest
    BY <2>2, ChatAssumption DEF Init, TypeRest
  <2> QED BY <2>1, <2>2, <2>3 DEF Init, TypeOK, TypeRest, Place
<1>4. LockSet
  <2>1. \A p \in Proc : ~InCS(p)
    BY <1>2 DEF InCS
  <2> QED BY <1>1, <2>1 DEF Init, LockSet, LockHeldByOne
<1>5. Ids
  BY <1>1, ChatAssumption DEF Init, Ids, Empty
<1> QED BY <1>3, <1>4, <1>5 DEF Base

LEMMA BaseInvariant == Spec => []Base
<1>1. ASSUME Base, [Next]_vars PROVE Base'
  BY <1>1, LockStep, TypeStep, IdsStep DEF Base, LockGoal
<1> QED BY <1>1, BaseInit, PTL DEF Spec

(* Every variable keeps its type, whatever starts, types or is interrupted,*)
(* in whatever order.                                                      *)
THEOREM TypeCorrect == Spec => []TypeOK
<1>1. Base => TypeOK
  BY DEF Base
<1> QED BY <1>1, BaseInvariant, PTL

(* The critical sections of login, broadcast and cleanup are disjoint, and *)
(* whoever is interrupted or killed in one gives the semaphore back.       *)
THEOREM LockCorrect == Spec => []LockHeldByOne
<1>1. Base => LockHeldByOne
  BY DEF Base, LockSet
<1> QED BY <1>1, BaseInvariant, PTL

IInv ==
  /\ TypeOK /\ LockSet /\ Ids /\ Creating /\ Numbers /\ Table
  /\ Forks /\ Reaches /\ Count /\ Waiting

LEMMA Invariance == ASSUME SettledLaunch PROVE Spec => []IInv
<1>1. ASSUME Init PROVE IInv
  <2>1. \A u \in User : pc[Main(u)] = "out" /\ pc[Recv(u)] = "none" /\ pc[Send(u)] = "none"
    BY <1>1, Processes DEF Init
  <2>2. Creating
    BY <1>1, <2>1 DEF Init, Creating, First
  <2>3. Numbers
    <3>1. DOMAIN <<>> = {}
      OBVIOUS
    <3>2. \A w \in User : Waits(w, msg_seq)
      BY <1>1, <3>1 DEF Init, Waits
    <3> QED BY <2>1, <3>2 DEF Numbers
  <2>4. Quiet
    BY <1>1, <2>1 DEF Init, Quiet
  <2>5. Taken = {}
    BY <1>1 DEF Init, Taken
  <2>6. LoggedIn = {} /\ \A u \in User : pc[Main(u)] # "register"
    BY <2>1 DEF LoggedIn
  <2>7. \A i \in Slot, u \in User : users[i] # u
    BY <1>1, ChatAssumption DEF Init, Empty
  <2>8. user_count = Cardinality(Taken)
    BY <1>1, <2>5, FS_EmptySet DEF Init
  <2>9. Agree
    BY <2>6, <2>7, <2>8 DEF Agree
  <2>10. Forks /\ Reaches
    BY <2>1 DEF Forks, Reaches, Reached
  <2>11. Count
    BY <1>1, <2>5, <2>6, FS_EmptySet DEF Init, Count
  <2>12. Waiting
    BY <1>1, <2>1 DEF Init, Waiting
  <2> QED BY <1>1, <2>2, <2>3, <2>4, <2>9, <2>10, <2>11, <2>12, BaseInit DEF IInv, Base, Table
<1>2. ASSUME IInv, [Next]_vars PROVE IInv'
  BY <1>2, LockStep, TypeStep, IdsStep, CreatingStep, NumbersStep, TableStep, ForksStep,
     ReachesStep, CountStep, WaitingStep
     DEF IInv, LockGoal
<1> QED BY <1>1, <1>2, PTL DEF Spec

(* "Login is a critical section": while nobody presses Ctrl+C, the table   *)
(* has one slot for each user logged in, its own, and user_count is their  *)
(* number (the login of main, cleanup).                                    *)
THEOREM TableCorrect == ASSUME SettledLaunch PROVE Spec => []TableAgrees
<1>1. IInv => TableAgrees
  BY DEF IInv, Table, Agree, TableAgrees, Taken
<1> QED BY <1>1, Invariance, PTL

LEMMA InOrder == ASSUME TypeOK, Numbers, ~removed PROVE InNumberOrder
<1> SUFFICES ASSUME NEW u \in User
             PROVE  LET s == <<last[u]>> \o q[u] IN
                      \A i, j \in DOMAIN s : i < j => s[i] < s[j] /\ s[j] <= msg_seq
  BY DEF InNumberOrder
<1> DEFINE s == <<last[u]>> \o q[u]
<1>1. last[u] \in Nat /\ q[u] \in Seq(Nat) /\ msg_seq \in Nat
  BY DEF TypeOK
<1>2. Waits(u, msg_seq)
  BY DEF Numbers
<1>3. s[1] = last[u] /\ \A i \in DOMAIN s : i \in Nat /\ i >= 1
      /\ (i > 1 => i - 1 \in DOMAIN q[u] /\ s[i] = q[u][i-1])
  <2>1. <<last[u]>> \in Seq(Nat) /\ Len(<<last[u]>>) = 1 /\ <<last[u]>>[1] = last[u]
    BY <1>1
  <2>2. /\ s \in Seq(Nat) /\ Len(s) = 1 + Len(q[u])
        /\ \A i \in 1..Len(s) : s[i] = IF i <= 1 THEN <<last[u]>>[i] ELSE q[u][i-1]
    BY <1>1, <2>1, ConcatProperties
  <2>3. Len(q[u]) \in Nat /\ DOMAIN q[u] = 1..Len(q[u]) /\ DOMAIN s = 1..Len(s)
    BY <1>1, <2>2
  <2> QED BY <2>1, <2>2, <2>3
<1> HIDE DEF s
<1> SUFFICES ASSUME NEW i \in DOMAIN s, NEW j \in DOMAIN s, i < j
             PROVE  s[i] < s[j] /\ s[j] <= msg_seq
  BY DEF s
<1>4. j > 1 /\ j - 1 \in DOMAIN q[u] /\ s[j] = q[u][j-1] /\ s[j] <= msg_seq
  BY <1>2, <1>3 DEF Waits
<1>5. CASE i = 1
  BY <1>2, <1>3, <1>4, <1>5 DEF Waits
<1>6. CASE i > 1
  <2>1. i - 1 \in DOMAIN q[u] /\ s[i] = q[u][i-1] /\ i - 1 < j - 1
    BY <1>3, <1>6
  <2> QED BY <1>2, <1>4, <2>1 DEF Waits
<1> QED BY <1>3, <1>4, <1>5, <1>6

(* Every receiver gets increasing numbers, and whoever is in the table     *)
(* and receives gets each message, whoever sends to it, leaves, or is      *)
(* interrupted or killed in the middle of a broadcast (sender).            *)
THEOREM DeliveryCorrect == ASSUME SettledLaunch PROVE Spec => []Delivery
<1>1. IInv => Delivery
  BY InOrder DEF IInv, Reaches, Delivery
<1> QED BY <1>1, Invariance, PTL

(* The kernel's and the handlers' double steps only make the count too     *)
(* low: a user is turned away at the login only when every slot is taken,  *)
(* whoever pressed Ctrl+C (main, the test of user_count).                  *)
TurnedAwayFull == \A u \in User : ~removed /\ Reject(u) => \A i \in Slot : users[i] # Empty

THEOREM RejectCorrect == ASSUME SettledLaunch PROVE Spec => [][TurnedAwayFull]_vars
<1>1. ASSUME IInv PROVE TurnedAwayFull
  <2> SUFFICES ASSUME ~removed, user_count >= MaxUsers, NEW i \in Slot, users[i] = Empty
               PROVE  FALSE
    <3>1. MaxUsers \in Nat /\ user_count \in Int
      BY <1>1, ChatAssumption DEF IInv, TypeOK
    <3>2. ~HasRoom /\ (\E i \in Slot : users[i] = Empty) => user_count >= MaxUsers
      BY <3>1 DEF HasRoom
    <3> QED BY <3>2 DEF TurnedAwayFull, Reject
  <2>1. Taken \subseteq Slot \ {i}
    BY DEF Taken
  <2>2. Cardinality(Slot) = MaxUsers
    BY ChatAssumption, FS_Interval DEF Slot
  <2>3. Cardinality(Slot \ {i}) = MaxUsers - 1 /\ IsFiniteSet(Slot \ {i})
    BY <2>2, TakenFinite, FS_RemoveElement
  <2>4. Cardinality(Taken) <= MaxUsers - 1
    BY <2>1, <2>3, FS_Subset
  <2>5. user_count <= Cardinality(Taken)
    BY <1>1 DEF IInv, Count
  <2> QED BY <1>1, <2>4, <2>5, TakenFinite, ChatAssumption DEF IInv, TypeOK
<1>2. IInv /\ [Next]_vars => [TurnedAwayFull]_vars
  BY <1>1
<1> QED BY <1>2, Invariance, PTL DEF Spec

-----------------------------------------------------------------------------
(* No deadlock but one. *)

(* What lets each process take its next step, by the place it is at.       *)
Unguarded == {"setval", "memset", "register", "forkRecv", "forkSend", "kill", "leave", "last",
              "remove", "number"}
Room(u) ==
  LET w == users[todo[u]] IN
  \/ todo[u] \notin Slot \/ todo[u] = my_id[u] \/ w = Empty \/ w \in gone
  \/ Len(q[w]) < QueueCap
Can(p) ==
  \/ pc[p] \in Unguarded
  \/ pc[p] \in {"attached", "lock", "typed"} /\ (removed \/ sem > 0)
  \/ pc[p] = "login" /\ (~HasRoom \/ \E i \in Slot : FirstFree(i))
  \/ pc[p] = "wait" /\ SenderEnded(p[1])
  \/ pc[p] = "recv" /\ q[p[1]] # <<>>
  \/ pc[p] = "send" /\ Room(p[1])

(* A process that is in the middle of something: not before its start, at  *)
(* the keyboard, waiting for a message or for the end of its sender, or    *)
(* ended.                                                                  *)
Busy(p) == pc[p] \notin {"out", "none", "idle", "recv", "wait", "dead"}

NoDeadlock == ints = 0 /\ ~removed /\ (\E p \in Proc : Busy(p)) =>
  HeldUp \/ \E p \in Proc : Can(p)

LEMMA SendMoves ==
  ASSUME TypeOK, Quiet, Agree, Waiting, ints = 0, ~removed, NEW u \in User, pc[Send(u)] = "send"
  PROVE  HeldUp \/ \E p \in Proc : Can(p)
<1>1. CASE Room(u)
  BY <1>1, Processes DEF Can
<1>2. CASE ~Room(u)
  <2> DEFINE w == users[todo[u]]
  <2>1. todo[u] \in Slot /\ w \in User /\ ~(Len(q[w]) < QueueCap)
    BY <1>2 DEF Room, TypeOK
  <2>2. Len(q[w]) >= QueueCap /\ q[w] # <<>>
    <3>1. q[w] \in Seq(Nat) /\ QueueCap \in Nat \ {0}
      BY <2>1, ChatAssumption DEF TypeOK
    <3>2. Len(q[w]) \in Nat /\ (q[w] = <<>> => Len(q[w]) = 0)
      BY <3>1
    <3> QED BY <2>1, <3>1, <3>2
  <2> HIDE DEF w
  <2>3. w \in LoggedIn
    BY <2>1 DEF Agree, w
  <2>4. CASE pc[Main(w)] \in {"forkRecv", "forkSend", "kill", "leave"}
    BY <2>1, <2>4, Processes DEF Can, Unguarded
  <2>5. CASE pc[Main(w)] = "wait"
    <3>1. pc[Recv(w)] = "recv"
      BY <2>1, <2>5 DEF Waiting
    <3> QED BY <2>1, <2>2, <3>1, Processes DEF Can
  <2>6. CASE pc[Main(w)] = "lock"
    BY <2>1, <2>2, <2>6 DEF HeldUp, w
  <2> QED BY <2>3, <2>4, <2>5, <2>6 DEF LoggedIn
<1> QED BY <1>1, <1>2

LEMMA LoginMoves == ASSUME NEW p \in Proc, pc[p] = "login" PROVE Can(p)
<1>1. CASE ~HasRoom
  BY <1>1 DEF Can
<1>2. CASE HasRoom
  <2>1. PICK i \in Slot : users[i] = Empty
    BY <1>2 DEF HasRoom
  <2> QED BY <2>1, FirstExists DEF Can
<1> QED BY <1>1, <1>2

LEMMA Unblocked == ASSUME IInv PROVE NoDeadlock
<1> SUFFICES ASSUME ints = 0, ~removed, NEW b \in Proc, Busy(b)
             PROVE  HeldUp \/ \E p \in Proc : Can(p)
  BY DEF NoDeadlock
<1>1. TypeOK /\ LockSet /\ Ids /\ Creating /\ Quiet /\ Agree /\ Waiting
  BY DEF IInv, Table
<1>2. ASSUME NEW p \in Proc, pc[p] = "send" PROVE HeldUp \/ \E r \in Proc : Can(r)
  <2>1. CASE p = Send(p[1])
    BY <1>1, <1>2, <2>1, SendMoves, Processes
  <2>2. CASE p # Send(p[1])
    <3>1. p \in {Main(p[1]), Recv(p[1])} /\ p[1] \in User
      BY <2>2, Processes
    <3>2. pc[Recv(p[1])] # "send" /\ pc[Main(p[1])] # "send"
      BY <1>1, <3>1 DEF Quiet, Waiting
    <3> QED BY <1>2, <3>1, <3>2
  <2> QED BY <2>1, <2>2
<1>3. ASSUME NEW h \in held PROVE HeldUp \/ \E r \in Proc : Can(r)
  <2>1. h \in Proc /\ pc[h] \in {"login", "register", "leave", "number", "send"}
    BY <1>1 DEF Waiting, TypeOK, InCS
  <2>2. pc[h] \in Unguarded => Can(h)
    BY DEF Can
  <2> QED BY <1>2, <2>1, <2>2, LoginMoves DEF Unguarded
<1>4. CASE pc[b] \in {"attached", "lock", "typed"}
  <2>1. CASE sem > 0
    BY <1>4, <2>1 DEF Can
  <2>2. CASE ~(sem > 0) /\ held = {}
    <3>1. created # "set"
      BY <2>2 DEF IInv, LockSet, LockHeldByOne
    <3>2. created # "no"
      <4> SUFFICES ASSUME created = "no" PROVE FALSE
        OBVIOUS
      <4>1. \A u \in User : pc[Main(u)] = "out"
        BY <1>1 DEF Creating
      <4>2. \A u \in User : pc[Recv(u)] = "none" /\ pc[Send(u)] = "none"
        BY <1>1, <4>1 DEF Ids, Early
      <4> QED BY <1>4, <4>1, <4>2, Processes
    <3>3. PICK u \in User : pc[Main(u)] = "setval"
      BY <1>1, <3>1, <3>2 DEF Waiting, TypeOK
    <3>4. Can(Main(u))
      BY <3>3 DEF Can, Unguarded
    <3> QED BY <3>4, Processes
  <2> QED BY <1>3, <2>1, <2>2
<1>5. CASE pc[b] \in Unguarded
  BY <1>5 DEF Can
<1>6. CASE pc[b] = "login"
  BY <1>6, LoginMoves
<1> QED BY <1>1, <1>2, <1>4, <1>5, <1>6 DEF Busy, Unguarded, TypeOK

(* The one deadlock of the room: while nobody pressed Ctrl+C, somebody who *)
(* is in the middle of something can go on, or somebody else can, unless a *)
(* sender blocks, lock held, on the full queue of a user in cleanup        *)
(* (msgsnd of the sender, p_sem of cleanup).                               *)
THEOREM DeadlockFree == ASSUME SettledLaunch PROVE Spec => []NoDeadlock
<1>1. IInv => NoDeadlock
  BY Unblocked
<1> QED BY <1>1, Invariance, PTL
=============================================================================
