--------------------------- MODULE FinalTalkProof ---------------------------
(***************************************************************************)
(* Proofs about FinalTalk, for any set of users and any values of the      *)
(* bounds.  The inductive invariant is built in layers, each proved with   *)
(* the help of those before it:                                            *)
(*   TypeOK and Control   where the three processes of a user can be       *)
(*   LockInv              who holds the semaphore                          *)
(*   SlotsInv             total and ids against the users                  *)
(***************************************************************************)
EXTENDS FinalTalk, FiniteSetTheorems, SequenceTheorems,
        WellFoundedInduction, TLAPS

(* The phases of main determine those of its children, and whether the     *)
(* user has an id.                                                         *)
Control == \A u \in User :
  /\ mpc[u] \in {"out", "setval", "attached", "login", "slot", "rejected"}
       => rpc[u] = "none" /\ spc[u] = "none" /\ myid[u] = 0
  /\ mpc[u] = "wait" => myid[u] # 0 /\ rpc[u] \in {"new", "recv", "exit"}
                          /\ spc[u] \in {"idle", "typed", "number", "send", "exit"}
  /\ mpc[u] \in {"leave", "free", "done"} => rpc[u] = "exit" /\ spc[u] = "exit"
  /\ mpc[u] \in {"leave", "free"} => myid[u] # 0
  /\ mpc[u] = "done" => myid[u] = 0
  /\ Killed(u) => rpc[u] = "dead" /\ spc[u] = "dead"

(* Taking an element out of a sequence.                                    *)
LEMMA RemoveAtProperties ==
  ASSUME NEW S, NEW s \in Seq(S), NEW i \in 1..Len(s)
  PROVE  /\ RemoveAt(s, i) \in Seq(S)
         /\ Len(RemoveAt(s, i)) = Len(s) - 1
         /\ \A j \in 1..(Len(s)-1) :
              RemoveAt(s, i)[j] = IF j < i THEN s[j] ELSE s[j+1]
<1> DEFINE a == SubSeq(s, 1, i-1)
           b == SubSeq(s, i+1, Len(s))
<1>1. Len(s) \in Nat /\ \A j \in 1..Len(s) : s[j] \in S
  BY ElementOfSeq, LenProperties
<1>2. a \in Seq(S) /\ Len(a) = i-1 /\ \A j \in 1..(i-1) : a[j] = s[j]
  <2>1. \A j \in 1..(i-1) : s[j] \in S
    BY <1>1
  <2> QED BY <1>1, <2>1, SubSeqProperties
<1>3. b \in Seq(S) /\ Len(b) = Len(s)-i /\ \A j \in 1..(Len(s)-i) : b[j] = s[i+j]
  <2>1. \A j \in (i+1)..Len(s) : s[j] \in S
    BY <1>1
  <2> HIDE DEF a
  <2> QED BY <1>1, <2>1, SubSeqProperties
<1>4. RemoveAt(s, i) = a \o b
  BY DEF RemoveAt
<1> HIDE DEF a, b
<1>5. /\ a \o b \in Seq(S)
      /\ Len(a \o b) = Len(a) + Len(b)
      /\ \A j \in 1..(Len(a) + Len(b)) : (a \o b)[j] = IF j <= Len(a) THEN a[j] ELSE b[j - Len(a)]
  BY <1>2, <1>3, ConcatProperties
<1> QED BY <1>1, <1>2, <1>3, <1>4, <1>5

(* A message taken by the receiver is one of the queue.                    *)
LEMMA QueueElement ==
  ASSUME TypeOK, NEW i \in DOMAIN queue
  PROVE  i \in 1..Len(queue) /\ queue[i] \in Message
BY ElementOfSeq, LenProperties DEF TypeOK

(* The children of u run only while main waits for them.                   *)
LEMMA SenderAlive ==
  ASSUME TypeOK, Control, NEW u \in User,
         spc[u] \in {"idle", "typed", "number", "send"}
  PROVE  mpc[u] = "wait" /\ myid[u] \in 1..MaxUsers
<1>1. mpc[u] \in {"out", "setval", "attached", "login", "slot", "rejected", "wait",
                  "leave", "free", "done", "crashed", "torn"} /\ myid[u] \in 0..MaxUsers
  BY DEF TypeOK
<1>2. mpc[u] = "wait" /\ myid[u] # 0
  BY <1>1, Zenon DEF Control, Killed
<1> QED BY <1>1, <1>2

LEMMA ReceiverAlive ==
  ASSUME TypeOK, Control, NEW u \in User, rpc[u] \in {"new", "recv"}
  PROVE  mpc[u] = "wait" /\ myid[u] \in 1..MaxUsers
<1>1. mpc[u] \in {"out", "setval", "attached", "login", "slot", "rejected", "wait",
                  "leave", "free", "done", "crashed", "torn"} /\ myid[u] \in 0..MaxUsers
  BY DEF TypeOK
<1>2. mpc[u] = "wait" /\ myid[u] # 0
  BY <1>1, Zenon DEF Control, Killed
<1> QED BY <1>1, <1>2

-----------------------------------------------------------------------------
LEMMA TypeInit == Init => TypeOK /\ Control
<1> SUFFICES ASSUME Init PROVE TypeOK /\ Control
  OBVIOUS
<1>1. queue \in Seq(Message) /\ log \in Seq([by : User, to : SUBSET User, msg : Message])
  BY EmptySeq DEF Init
<1>2. TypeOK
  <2>1. rbuf \in [User -> Message \cup {NoMessage}]
    BY DEF Init
  <2>2. rnum \in [User -> 0..MaxMsgn] /\ stype \in [User -> 0..MaxMsgn] /\ msgn \in 0..MaxMsgn
    BY ConstantsAssumption DEF Init
  <2>3. myid \in [User -> 0..MaxUsers] /\ typed \in 0..MaxLines
    BY ConstantsAssumption DEF Init
  <2>4. sline \in [User -> Text]
    BY DEF Init, Text
  <2>5. ids \in [1..MaxUsers -> {0, 1}] /\ scopies \in [User -> Int]
    BY DEF Init
  <2>6. /\ mpc \in [User -> {"out", "setval", "attached", "login", "slot", "rejected", "wait",
                             "leave", "free", "done", "crashed", "torn"}]
        /\ rpc \in [User -> {"none", "new", "recv", "exit", "dead"}]
        /\ spc \in [User -> {"none", "idle", "typed", "number", "send", "exit", "dead"}]
    BY DEF Init
  <2>7. sem \in Int /\ total \in Int
    BY DEF Init
  <2>8. created \in {"no", "made", "set"} /\ removed \in BOOLEAN
    BY Zenon DEF Init
  <2> QED BY <1>1, <2>1, <2>2, <2>3, <2>4, <2>5, <2>6, <2>7, <2>8, Zenon DEF TypeOK
<1>3. Control
  BY DEF Init, Control, Killed
<1> QED BY <1>2, <1>3

LEMMA NextNumType ==
  ASSUME NEW n \in 0..MaxMsgn
  PROVE  NextNum(n) \in 0..MaxMsgn
BY ConstantsAssumption DEF NextNum

LEMMA TypeStep == TypeOK /\ Control /\ [Next]_vars => TypeOK' /\ Control'
<1> SUFFICES ASSUME TypeOK, Control, [Next]_vars PROVE TypeOK' /\ Control'
  OBVIOUS
<1> USE ConstantsAssumption
<1>1. CASE UNCHANGED vars
  BY <1>1 DEF TypeOK, Control, Killed, vars, shmVars, recvVars, sendVars
<1>2. ASSUME NEW u \in User, SemGet(u) PROVE TypeOK' /\ Control'
  BY <1>2 DEF TypeOK, Control, Killed, SemGet, shmVars, recvVars, sendVars
<1>3. ASSUME NEW u \in User, SetVal(u) PROVE TypeOK' /\ Control'
  BY <1>3 DEF TypeOK, Control, Killed, SetVal, shmVars, recvVars, sendVars
<1>4. ASSUME NEW u \in User, LockLogin(u) PROVE TypeOK' /\ Control'
  BY <1>4 DEF TypeOK, Control, Killed, LockLogin, P, shmVars, recvVars, sendVars
<1>5. ASSUME NEW u \in User, Reject(u) PROVE TypeOK' /\ Control'
  BY <1>5 DEF TypeOK, Control, Killed, Reject, V, shmVars, recvVars, sendVars
<1>18. ASSUME NEW u \in User, CountLogin(u) PROVE TypeOK' /\ Control'
  BY <1>18 DEF TypeOK, Control, Killed, CountLogin, recvVars, sendVars
<1>6. ASSUME NEW u \in User, Login(u) PROVE TypeOK' /\ Control'
  BY <1>6 DEF TypeOK, Control, Killed, Login, FreeId, V, recvVars, sendVars
<1>7. ASSUME NEW u \in User, LockLeave(u) PROVE TypeOK' /\ Control'
  BY <1>7 DEF TypeOK, Control, Killed, LockLeave, P, shmVars, recvVars, sendVars
<1>19. ASSUME NEW u \in User, CountLeave(u) PROVE TypeOK' /\ Control'
  BY <1>19 DEF TypeOK, Control, Killed, CountLeave, recvVars, sendVars
<1>8. ASSUME NEW u \in User, Leave(u) PROVE TypeOK' /\ Control'
  <2>1. queue' \in Seq(Message) /\ removed' \in BOOLEAN /\ sem' \in Int
    <3>1. CASE total = 0
      BY <1>8, <3>1, EmptySeq DEF TypeOK, Leave
    <3>2. CASE total # 0
      BY <1>8, <3>2 DEF TypeOK, Leave, V
    <3> QED BY <3>1, <3>2
  <2> QED BY <1>8, <2>1 DEF TypeOK, Control, Killed, Leave, recvVars, sendVars
<1>9. ASSUME NEW u \in User, StartReceiver(u) PROVE TypeOK' /\ Control'
  BY <1>9 DEF TypeOK, Control, Killed, StartReceiver, shmVars, sendVars
<1>10. ASSUME NEW u \in User, Receive(u) PROVE TypeOK' /\ Control'
  <2>1. PICK i \in DOMAIN queue :
          /\ rbuf' = [rbuf EXCEPT ![u] = queue[i]]
          /\ queue' = RemoveAt(queue, i)
          /\ rpc' = [rpc EXCEPT ![u] = IF OwnQuit(u, queue[i]) THEN "exit" ELSE "recv"]
    BY <1>10 DEF Receive
  <2>2. i \in 1..Len(queue) /\ queue[i] \in Message
    BY QueueElement
  <2>3. queue' \in Seq(Message)
    BY <2>1, <2>2, RemoveAtProperties DEF TypeOK
  <2>4. rnum' \in [User -> 0..MaxMsgn]
    BY <1>10, NextNumType DEF TypeOK, Receive
  <2>5. rbuf' \in [User -> Message \cup {NoMessage}]
    BY <2>1, <2>2 DEF TypeOK
  <2>6. rpc' \in [User -> {"none", "new", "recv", "exit", "dead"}]
    BY <2>1 DEF TypeOK
  <2>7. rpc[u] = "recv" /\ UNCHANGED <<created, removed, sem, shmVars, mpc, myid, sendVars, log>>
    BY <1>10 DEF Receive
  <2>8. TypeOK'
    BY <2>3, <2>4, <2>5, <2>6, <2>7 DEF TypeOK, shmVars, sendVars
  <2>9. Control'
    BY <2>1, <2>7 DEF TypeOK, Control, Killed, sendVars
  <2> QED BY <2>8, <2>9
<1>11. ASSUME NEW u \in User, ReceiveFail(u) PROVE TypeOK' /\ Control'
  <2>1. rnum' \in [User -> 0..MaxMsgn]
    BY <1>11, NextNumType DEF TypeOK, ReceiveFail
  <2> QED BY <1>11, <2>1 DEF TypeOK, Control, Killed, ReceiveFail, shmVars, sendVars
<1>12. ASSUME NEW u \in User, NEW t \in Text, Type(u, t) PROVE TypeOK' /\ Control'
  BY <1>12 DEF TypeOK, Control, Killed, Type, shmVars, recvVars
<1>13. ASSUME NEW u \in User, LockSend(u) PROVE TypeOK' /\ Control'
  BY <1>13 DEF TypeOK, Control, Killed, LockSend, P, shmVars, recvVars
<1>14. ASSUME NEW u \in User, Number(u) PROVE TypeOK' /\ Control'
  <2> DEFINE m == [mtype |-> NextNum(msgn), from |-> myid[u], text |-> sline[u]]
             e == [by |-> u, to |-> HasId, msg |-> m]
  <2>1. NextNum(msgn) \in 0..MaxMsgn
    BY NextNumType DEF TypeOK
  <2>2. mpc[u] = "wait" /\ myid[u] \in 1..MaxUsers
    BY <1>14, SenderAlive DEF Number
  <2>3. m \in Message
    BY <2>1, <2>2 DEF TypeOK, Message
  <2>4. e \in [by : User, to : SUBSET User, msg : Message]
    BY <2>3 DEF HasId
  <2>5. log' = Append(log, e)
    BY <1>14 DEF Number
  <2> HIDE DEF e, m
  <2>6. log' \in Seq([by : User, to : SUBSET User, msg : Message])
    BY <2>4, <2>5, AppendProperties DEF TypeOK
  <2>7. scopies' \in [User -> Int] /\ stype' \in [User -> 0..MaxMsgn] /\ sem' \in Int
    BY <1>14, <2>1 DEF TypeOK, Number, V, Copies
  <2>8. spc' = [spc EXCEPT ![u] = "send"] /\ msgn' = NextNum(msgn)
    BY <1>14 DEF Number
  <2>9. UNCHANGED <<created, removed, total, ids, queue, mpc, myid, rpc, rnum, rbuf, sline, typed>>
    BY <1>14 DEF Number, recvVars
  <2>10. TypeOK'
    BY <2>1, <2>6, <2>7, <2>8, <2>9 DEF TypeOK
  <2>11. Control'
    BY <1>14, <2>8, <2>9 DEF TypeOK, Control, Killed, Number
  <2> QED BY <2>10, <2>11
<1>15. ASSUME NEW u \in User, SendCopy(u) PROVE TypeOK' /\ Control'
  <2> DEFINE m == [mtype |-> stype[u], from |-> myid[u], text |-> sline[u]]
  <2>1. mpc[u] = "wait" /\ myid[u] \in 1..MaxUsers
    BY <1>15, SenderAlive DEF SendCopy
  <2>2. m \in Message
    BY <2>1 DEF TypeOK, Message
  <2>3. queue' = queue \/ queue' = Append(queue, m)
    BY <1>15 DEF SendCopy
  <2> HIDE DEF m
  <2>4. queue' \in Seq(Message)
    <3>1. queue \in Seq(Message)
      BY DEF TypeOK
    <3>2. Append(queue, m) \in Seq(Message)
      BY <2>2, <3>1, AppendProperties
    <3> QED BY <2>3, <3>1, <3>2
  <2>5. scopies' \in [User -> Int]
    BY <1>15 DEF TypeOK, SendCopy
  <2>6. UNCHANGED <<created, removed, sem, total, msgn, ids, mpc, myid, rpc, rnum, rbuf,
                    spc, sline, stype, typed, log>>
    BY <1>15 DEF SendCopy, shmVars, recvVars
  <2>7. TypeOK'
    BY <2>4, <2>5, <2>6 DEF TypeOK
  <2>8. Control'
    BY <2>6 DEF Control, Killed
  <2> QED BY <2>7, <2>8
<1>16. ASSUME NEW u \in User, EndSend(u) PROVE TypeOK' /\ Control'
  BY <1>16 DEF TypeOK, Control, Killed, EndSend, shmVars, recvVars
<1>17. ASSUME NEW u \in User, Crash(u) PROVE TypeOK' /\ Control'
  <2>1. sem' \in Int
    <3>1. CASE InCS(u) /\ ~removed
      BY <1>17, <3>1 DEF TypeOK, Crash, Undo
    <3>2. CASE ~(InCS(u) /\ ~removed)
      BY <1>17, <3>2 DEF TypeOK, Crash, Undo
    <3> QED BY <3>1, <3>2
  <2>2. mpc' = [mpc EXCEPT ![u] = "torn"] \/ mpc' = [mpc EXCEPT ![u] = "crashed"]
    BY <1>17 DEF Crash
  <2> QED BY <1>17, <2>1, <2>2 DEF TypeOK, Control, Killed, Crash, shmVars
<1> QED BY <1>1, <1>2, <1>3, <1>4, <1>5, <1>6, <1>7, <1>8, <1>9, <1>10, <1>11, <1>12,
           <1>13, <1>14, <1>15, <1>16, <1>17, <1>18, <1>19
        DEF Next, MainStep, ReceiverStep, SenderStep

(* The state of the room is always one of the declared kind: in particular *)
(* the numbers stay within 0..MaxMsgn, which the wrap of sender and        *)
(* receiver is for.                                                        *)
THEOREM TypeCorrect == Spec => []TypeOK
<1>1. TypeOK /\ Control /\ [][Next]_vars => [](TypeOK /\ Control)
  BY TypeStep, PTL
<1> QED BY TypeInit, <1>1, PTL DEF Spec

-----------------------------------------------------------------------------
(* Until the semaphore is set nobody is past attaching to it, and only its *)
(* creator sets it, once.                                                  *)
Setup ==
  /\ removed => created = "set"
  /\ created # "set" => \A u \in User : mpc[u] \in {"out", "setval", "attached", "crashed"}
  /\ \A u \in User : mpc[u] = "setval" => created = "made"
  /\ \A u, w \in User : mpc[u] = "setval" /\ mpc[w] = "setval" => u = w

LEMMA SetupInit == Init => Setup
BY DEF Init, Setup

(* A step of u that is past the setup leaves the setup alone.              *)
LEMMA SetupKept ==
  ASSUME Setup, TypeOK, NEW u \in User, NEW c,
         mpc[u] \notin {"out", "setval", "attached", "crashed"},
         created' = created, mpc' = [mpc EXCEPT ![u] = c], c # "setval"
  PROVE  Setup'
<1>1. created = "set"
  BY DEF Setup
<1>2. \A w \in User : mpc'[w] = "setval" => mpc[w] = "setval"
  BY DEF TypeOK
<1> QED BY <1>1, <1>2 DEF Setup

LEMMA SetupStep == TypeOK /\ Control /\ Setup /\ LockHeldByOne /\ [Next]_vars => Setup'
<1> SUFFICES ASSUME TypeOK, Control, Setup, LockHeldByOne, [Next]_vars PROVE Setup'
  OBVIOUS
<1>1. CASE UNCHANGED <<created, removed, mpc>>
  BY <1>1 DEF Setup
<1>2. ASSUME NEW u \in User, SemGet(u) PROVE Setup'
  <2>1. CASE created = "no"
    <3>1. \A w \in User : mpc[w] # "setval"
      BY <2>1 DEF Setup
    <3>2. ~removed' /\ created' = "made" /\ mpc' = [mpc EXCEPT ![u] = "setval"]
      BY <1>2, <2>1 DEF SemGet
    <3> QED BY <2>1, <3>1, <3>2 DEF TypeOK, Setup
  <2>2. CASE created # "no"
    BY <1>2, <2>2 DEF TypeOK, Setup, SemGet
  <2> QED BY <2>1, <2>2
<1>3. ASSUME NEW u \in User, SetVal(u) PROVE Setup'
  BY <1>3 DEF TypeOK, Setup, SetVal
<1>4. ASSUME NEW u \in User, LockLogin(u) PROVE Setup'
  <2>1. created = "set"
    <3>1. CASE removed
      BY <3>1 DEF Setup
    <3>2. CASE ~removed
      <4>1. sem # 0
        BY <1>4, <3>2 DEF LockLogin, P
      <4> QED BY <3>2, <4>1 DEF LockHeldByOne
    <3> QED BY <3>1, <3>2
  <2> QED BY <1>4, <2>1 DEF TypeOK, Setup, LockLogin
<1>5. ASSUME NEW u \in User,
             Reject(u) \/ CountLogin(u) \/ Login(u) \/ LockLeave(u) \/ CountLeave(u)
      PROVE Setup'
  <2>1. PICK c \in {"rejected", "slot", "wait", "leave", "free"} : mpc' = [mpc EXCEPT ![u] = c]
    BY <1>5 DEF Reject, CountLogin, Login, LockLeave, CountLeave
  <2>2. mpc[u] \notin {"out", "setval", "attached", "crashed"} /\ created' = created
    BY <1>5 DEF Reject, CountLogin, Login, LockLeave, CountLeave
  <2> QED BY <2>1, <2>2, SetupKept
<1>6. ASSUME NEW u \in User, Leave(u) PROVE Setup'
  <2>1. mpc[u] = "free" /\ created' = created /\ mpc' = [mpc EXCEPT ![u] = "done"]
    BY <1>6 DEF Leave
  <2> QED BY <2>1, SetupKept
<1>7. ASSUME NEW u \in User, Crash(u) PROVE Setup'
  <2>1. created' = created /\ removed' = removed
    BY <1>7 DEF Crash
  <2>2. PICK c \in {"crashed", "torn"} :
           mpc' = [mpc EXCEPT ![u] = c] /\ (c = "torn" => mpc[u] \in {"slot", "free"})
    BY <1>7 DEF Crash
  <2> QED BY <2>1, <2>2 DEF TypeOK, Setup
<1>8. ASSUME NEW u \in User, ReceiverStep(u) \/ SenderStep(u) \/ \E t \in Text : Type(u, t)
      PROVE UNCHANGED <<created, removed, mpc>>
  BY <1>8 DEF ReceiverStep, SenderStep, StartReceiver, Receive, ReceiveFail, LockSend,
              Number, SendCopy, EndSend, Type
<1> QED BY <1>1, <1>2, <1>3, <1>4, <1>5, <1>6, <1>7, <1>8 DEF Next, MainStep, vars

-----------------------------------------------------------------------------
(* The three ways a step treats the lock.                                  *)
LEMMA LockKept ==
  ASSUME LockHeldByOne, \A w \in User : InCS(w)' <=> InCS(w),
         UNCHANGED <<created, removed, sem>>
  PROVE  LockHeldByOne'
BY DEF LockHeldByOne

LEMMA LockTaken ==
  ASSUME LockHeldByOne, NEW u \in User, P, UNCHANGED <<created, removed>>,
         \A w \in User : InCS(w)' <=> InCS(w) \/ w = u
  PROVE  LockHeldByOne'
<1> SUFFICES ASSUME ~removed PROVE LockHeldByOne'
  BY DEF LockHeldByOne
<1>1. sem = 1 /\ created = "set" /\ \A w \in User : ~InCS(w)
  <2>1. sem > 0
    BY DEF P
  <2> QED BY <2>1 DEF LockHeldByOne
<1>2. sem' = 0
  BY <1>1 DEF P
<1> QED BY <1>1, <1>2 DEF LockHeldByOne

LEMMA InCSAfterSetup ==
  ASSUME TypeOK, Control, Setup, NEW u \in User, InCS(u)
  PROVE  created = "set"
<1>1. mpc[u] \in {"login", "slot", "leave", "free", "wait"}
  BY SenderAlive DEF InCS
<1> QED BY <1>1 DEF Setup

LEMMA LockGivenBack ==
  ASSUME LockHeldByOne, TypeOK, Control, Setup, NEW u \in User, InCS(u), UNCHANGED <<created, removed>>,
         sem' = (IF removed THEN sem ELSE sem + 1),
         \A w \in User : InCS(w)' <=> InCS(w) /\ w # u
  PROVE  LockHeldByOne'
<1> SUFFICES ASSUME ~removed PROVE LockHeldByOne'
  BY DEF LockHeldByOne
<1>1. \A w \in User : ~InCS(w)'
  BY DEF LockHeldByOne
<1>2. sem = 0 /\ created = "set"
  BY InCSAfterSetup DEF LockHeldByOne
<1> QED BY <1>1, <1>2 DEF LockHeldByOne

LEMMA LockStep == TypeOK /\ Control /\ Setup /\ LockHeldByOne /\ [Next]_vars => LockHeldByOne'
<1> SUFFICES ASSUME TypeOK, Control, Setup, LockHeldByOne, [Next]_vars PROVE LockHeldByOne'
  OBVIOUS
<1>1. CASE UNCHANGED <<created, removed, sem, mpc, spc>>
  BY <1>1, LockKept DEF InCS
<1>2. ASSUME NEW u \in User, SemGet(u) PROVE LockHeldByOne'
  <2>2. PICK c \in {"setval", "attached"} : mpc' = [mpc EXCEPT ![u] = c]
    BY <1>2 DEF SemGet
  <2>3. \A w \in User : InCS(w)' <=> InCS(w)
    BY <1>2, <2>2 DEF TypeOK, InCS, SemGet, sendVars
  <2>4. created' = "set" <=> created = "set"
    BY <1>2 DEF SemGet
  <2>5. removed' = removed /\ sem' = sem
    BY <1>2 DEF SemGet
  <2> QED BY <2>3, <2>4, <2>5 DEF LockHeldByOne
<1>3. ASSUME NEW u \in User, SetVal(u) PROVE LockHeldByOne'
  <2>1. created = "made"
    BY <1>3 DEF Setup, SetVal
  <2>2. \A w \in User : ~InCS(w)
    BY <2>1, InCSAfterSetup
  <2>3. \A w \in User : ~InCS(w)'
    BY <1>3, <2>2 DEF TypeOK, InCS, SetVal, sendVars
  <2> QED BY <1>3, <2>3 DEF LockHeldByOne, SetVal
<1>4. ASSUME NEW u \in User, LockLogin(u) PROVE LockHeldByOne'
  <2>1. \A w \in User : InCS(w)' <=> InCS(w) \/ w = u
    BY <1>4 DEF TypeOK, InCS, LockLogin, sendVars
  <2> QED BY <1>4, <2>1, LockTaken DEF LockLogin
<1>5. ASSUME NEW u \in User, Reject(u) PROVE LockHeldByOne'
  <2>1. InCS(u) /\ \A w \in User : InCS(w)' <=> InCS(w) /\ w # u
    BY <1>5 DEF TypeOK, Control, InCS, Reject, sendVars
  <2> QED BY <1>5, <2>1, LockGivenBack DEF Reject, V
<1>6. ASSUME NEW u \in User, CountLogin(u) PROVE LockHeldByOne'
  <2>1. \A w \in User : InCS(w)' <=> InCS(w)
    BY <1>6 DEF TypeOK, InCS, CountLogin, sendVars
  <2> QED BY <1>6, <2>1, LockKept DEF CountLogin
<1>7. ASSUME NEW u \in User, Login(u) PROVE LockHeldByOne'
  <2>1. InCS(u) /\ \A w \in User : InCS(w)' <=> InCS(w) /\ w # u
    BY <1>7 DEF TypeOK, Control, InCS, Login
  <2> QED BY <1>7, <2>1, LockGivenBack DEF Login, V
<1>8. ASSUME NEW u \in User, LockLeave(u) PROVE LockHeldByOne'
  <2>1. \A w \in User : InCS(w)' <=> InCS(w) \/ w = u
    BY <1>8 DEF TypeOK, InCS, LockLeave, sendVars
  <2> QED BY <1>8, <2>1, LockTaken DEF LockLeave
<1>9. ASSUME NEW u \in User, CountLeave(u) PROVE LockHeldByOne'
  <2>1. \A w \in User : InCS(w)' <=> InCS(w)
    BY <1>9 DEF TypeOK, InCS, CountLeave, sendVars
  <2> QED BY <1>9, <2>1, LockKept DEF CountLeave
<1>10. ASSUME NEW u \in User, Leave(u) PROVE LockHeldByOne'
  <2>1. CASE total = 0
    BY <1>10, <2>1 DEF LockHeldByOne, Leave
  <2>2. CASE total # 0
    <3>1. InCS(u) /\ \A w \in User : InCS(w)' <=> InCS(w) /\ w # u
      BY <1>10 DEF TypeOK, Control, InCS, Leave, sendVars
    <3> QED BY <1>10, <2>2, <3>1, LockGivenBack DEF Leave, V
  <2> QED BY <2>1, <2>2
<1>11. ASSUME NEW u \in User, LockSend(u) PROVE LockHeldByOne'
  <2>1. \A w \in User : InCS(w)' <=> InCS(w) \/ w = u
    BY <1>11 DEF TypeOK, InCS, LockSend
  <2> QED BY <1>11, <2>1, LockTaken DEF LockSend
<1>12. ASSUME NEW u \in User, Number(u) PROVE LockHeldByOne'
  <2>1. mpc[u] = "wait"
    BY <1>12, SenderAlive DEF Number
  <2>2. InCS(u) /\ \A w \in User : InCS(w)' <=> InCS(w) /\ w # u
    BY <1>12, <2>1 DEF TypeOK, InCS, Number
  <2> QED BY <1>12, <2>2, LockGivenBack DEF Number, V
<1>13. ASSUME NEW u \in User, (\E t \in Text : Type(u, t)) \/ SendCopy(u) \/ EndSend(u)
       PROVE LockHeldByOne'
  <2>1. PICK c \in {"typed", "send", "exit", "idle"} : spc' = [spc EXCEPT ![u] = c] \/ spc' = spc
    BY <1>13 DEF Type, SendCopy, EndSend
  <2>2. spc[u] # "number" /\ UNCHANGED <<created, removed, sem, mpc>>
    BY <1>13 DEF Type, SendCopy, EndSend
  <2>3. \A w \in User : InCS(w)' <=> InCS(w)
    BY <2>1, <2>2 DEF TypeOK, InCS
  <2> QED BY <2>2, <2>3, LockKept
<1>14. ASSUME NEW u \in User, Crash(u) PROVE LockHeldByOne'
  <2>1. PICK c \in {"crashed", "torn"} : mpc' = [mpc EXCEPT ![u] = c]
    BY <1>14 DEF Crash
  <2>2. \A w \in User : InCS(w)' <=> InCS(w) /\ w # u
    BY <1>14, <2>1 DEF TypeOK, InCS, Crash
  <2>3. UNCHANGED <<created, removed>> /\ sem' = Undo(u)
    BY <1>14 DEF Crash
  <2>4. CASE InCS(u)
    BY <2>2, <2>3, <2>4, LockGivenBack DEF Undo, TypeOK
  <2>5. CASE ~InCS(u)
    BY <2>2, <2>3, <2>5, LockKept DEF Undo
  <2> QED BY <2>4, <2>5
<1>15. ASSUME NEW u \in User, ReceiverStep(u) PROVE UNCHANGED <<created, removed, sem, mpc, spc>>
  BY <1>15 DEF ReceiverStep, StartReceiver, Receive, ReceiveFail, sendVars
<1> QED BY <1>1, <1>2, <1>3, <1>4, <1>5, <1>6, <1>7, <1>8, <1>9, <1>10, <1>11, <1>12,
           <1>13, <1>14, <1>15 DEF Next, MainStep, SenderStep, vars, sendVars

(* Mutual exclusion of the users' critical sections on the one semaphore,  *)
(* and the semaphore is given back whenever its holder is killed: no kill  *)
(* leaves the room locked once the semaphore has been set.                 *)
THEOREM LockCorrect == Spec => []LockHeldByOne
<1>1. Init => LockHeldByOne
  BY DEF Init, LockHeldByOne, InCS
<1>2. TypeOK /\ Control /\ Setup /\ LockHeldByOne /\ [][Next]_vars
        => [](TypeOK /\ Control /\ Setup /\ LockHeldByOne)
  BY TypeStep, SetupStep, LockStep, PTL
<1> QED BY TypeInit, SetupInit, <1>1, <1>2, PTL DEF Spec

-----------------------------------------------------------------------------
(* A set of natural numbers has a least element.                           *)
LEMMA LeastElement ==
  ASSUME NEW T \in SUBSET Nat, T # {}
  PROVE  \E x \in T : \A y \in T : x <= y
<1> DEFINE R == {ss \in Nat \X Nat : ss[1] < ss[2]}
<1>1. IsWellFoundedOn(R, Nat)
  BY NatLessThanWellFounded DEF OpToRel
<1>2. \A x, y \in Nat : y < x => <<y, x>> \in R
  OBVIOUS
<1> HIDE DEF R
<1>3. PICK x \in T : \A y \in T : <<y, x>> \notin R
  BY <1>1, WFMin
<1>4. \A y \in T : ~(y < x)
  BY <1>2, <1>3
<1>5. \A y \in T : y \in Nat /\ x \in Nat
  OBVIOUS
<1>6. \A y \in T : x <= y
  BY <1>4, <1>5
<1> QED BY <1>6

LEMMA UsersFinite ==
  /\ IsFiniteSet(Counted) /\ IsFiniteSet(HasId)
  /\ Cardinality(Counted) \in Nat /\ Cardinality(HasId) \in Nat
BY ConstantsAssumption, FS_Subset, FS_CardinalityType DEF Counted, HasId

(* The part of SlotsAgree that is inductive; a login under way has passed  *)
(* the test against MaxUsers.                                              *)
IdsAgree ==
  /\ \A i \in 1..MaxUsers : ids[i] = 1 <=> \E u \in User : myid[u] = i
  /\ \A u, w \in HasId : myid[u] = myid[w] => u = w
Slots == ~removed /\ NoTorn =>
  /\ total = Cardinality(Counted) /\ total <= MaxUsers
  /\ IdsAgree

(* With fewer ids in use than there are, one is free: a login that passed  *)
(* the test finds an id.                                                   *)
LEMMA SlotFound ==
  ASSUME TypeOK, Control, LockHeldByOne, Slots, ~removed, NoTorn,
         NEW u \in User, mpc[u] = "slot"
  PROVE  \E i \in 1..MaxUsers : FreeId(i)
<1>1. HasId \subseteq Counted \ {u}
  <2> SUFFICES ASSUME NEW w \in HasId PROVE w \in Counted \ {u}
    OBVIOUS
  <2>1. w \in User /\ myid[w] # 0 /\ w # u
    BY DEF HasId, Control
  <2>2. mpc[w] # "free"
    BY <2>1 DEF LockHeldByOne, InCS
  <2> QED BY <2>1, <2>2 DEF Counted
<1>2. u \in Counted
  BY DEF Counted
<1>3. Cardinality(HasId) < MaxUsers
  <2>1. Cardinality(Counted \ {u}) = Cardinality(Counted) - 1 /\ IsFiniteSet(Counted \ {u})
    BY <1>2, UsersFinite, FS_RemoveElement
  <2>2. Cardinality(HasId) <= Cardinality(Counted \ {u})
    BY <1>1, <2>1, FS_Subset
  <2> QED BY <2>1, <2>2, UsersFinite, ConstantsAssumption DEF Slots
<1>4. \E i \in 1..MaxUsers : ids[i] = 0
  <2> SUFFICES ASSUME \A i \in 1..MaxUsers : ids[i] # 0 PROVE FALSE
    OBVIOUS
  <2>1. \A i \in 1..MaxUsers : \E w \in HasId : myid[w] = i
    <3> SUFFICES ASSUME NEW i \in 1..MaxUsers PROVE \E w \in HasId : myid[w] = i
      OBVIOUS
    <3>1. ids[i] = 1
      BY DEF TypeOK
    <3>2. PICK w \in User : myid[w] = i
      BY <3>1 DEF Slots, IdsAgree
    <3> QED BY <3>2 DEF HasId
  <2> DEFINE f == [w \in HasId |-> myid[w]]
  <2>2. f \in Surjection(HasId, 1..MaxUsers)
    BY <2>1 DEF Surjection, TypeOK, HasId
  <2>3. Cardinality(1..MaxUsers) <= Cardinality(HasId)
    BY <2>2, UsersFinite, FS_Surjection
  <2>4. Cardinality(1..MaxUsers) = MaxUsers
    BY ConstantsAssumption, FS_Interval
  <2> QED BY <1>3, <2>3, <2>4, UsersFinite, ConstantsAssumption
<1>5. PICK i \in 1..MaxUsers : ids[i] = 0 /\ \A j \in 1..MaxUsers : ids[j] = 0 => i <= j
  <2> DEFINE T == {j \in 1..MaxUsers : ids[j] = 0}
  <2>1. T \in SUBSET Nat /\ T # {}
    BY <1>4
  <2>2. \E x \in T : \A y \in T : x <= y
    BY <2>1, LeastElement
  <2> QED BY <2>2
<1>6. \A j \in 1..(i-1) : j \in 1..MaxUsers /\ ids[j] # 0
  BY <1>5, ConstantsAssumption
<1> QED BY <1>5, <1>6 DEF FreeId

(* Steps that move nobody in or out of the table.                          *)
LEMMA SlotsKept ==
  ASSUME Slots, NoTorn' => NoTorn, Counted' = Counted,
         UNCHANGED <<removed, total, ids, myid>>
  PROVE  Slots'
BY DEF Slots, IdsAgree, HasId

LEMMA SlotsStep ==
  TypeOK /\ Control /\ LockHeldByOne /\ Slots /\ [Next]_vars => Slots'
<1> SUFFICES ASSUME TypeOK, Control, LockHeldByOne, Slots, [Next]_vars PROVE Slots'
  OBVIOUS
<1>1. CASE UNCHANGED <<removed, total, ids, myid, mpc>>
  BY <1>1, SlotsKept DEF NoTorn, Counted
<1>2. ASSUME NEW u \in User, NEW c, mpc' = [mpc EXCEPT ![u] = c],
             c \notin {"slot", "free", "torn"}, mpc[u] \notin {"slot", "free", "torn"},
             UNCHANGED <<removed, total, ids, myid>>
      PROVE Slots'
  <2>1. Counted' = Counted
    BY <1>2 DEF TypeOK, Counted
  <2>2. NoTorn' => NoTorn
    BY <1>2 DEF TypeOK, NoTorn
  <2> QED BY <1>2, <2>1, <2>2, SlotsKept
<1>3. ASSUME NEW u \in User, SemGet(u) \/ SetVal(u) \/ LockLogin(u) \/ Reject(u) \/ LockLeave(u)
      PROVE Slots'
  <2>1. PICK c \in {"setval", "attached", "login", "rejected", "leave"} : mpc' = [mpc EXCEPT ![u] = c]
    BY <1>3 DEF SemGet, SetVal, LockLogin, Reject, LockLeave
  <2>2. mpc[u] \notin {"slot", "free", "torn"} /\ UNCHANGED <<removed, total, ids, myid>>
    BY <1>3 DEF SemGet, SetVal, LockLogin, Reject, LockLeave, shmVars
  <2> QED BY <1>2, <2>1, <2>2
<1>4. ASSUME NEW u \in User, CountLogin(u) PROVE Slots'
  <2>1. Counted' = Counted \cup {u} /\ u \notin Counted
    BY <1>4 DEF TypeOK, Control, Counted, CountLogin
  <2>2. Cardinality(Counted') = Cardinality(Counted) + 1
    BY <2>1, UsersFinite, FS_AddElement
  <2>3. NoTorn' => NoTorn
    BY <1>4 DEF TypeOK, NoTorn, CountLogin
  <2>4. UNCHANGED <<removed, ids, myid>> /\ total' = total + 1 /\ total < MaxUsers
    BY <1>4 DEF CountLogin
  <2>5. IdsAgree => IdsAgree'
    BY <2>4 DEF IdsAgree, HasId
  <2> QED BY <2>2, <2>3, <2>4, <2>5, ConstantsAssumption DEF Slots, TypeOK
<1>5. ASSUME NEW u \in User, Login(u) PROVE Slots'
  <2> SUFFICES ASSUME ~removed', NoTorn' PROVE Slots'
    BY DEF Slots
  <2>1. ~removed /\ NoTorn /\ total' = total /\ mpc[u] = "slot" /\ myid[u] = 0
    BY <1>5 DEF TypeOK, Control, NoTorn, Login
  <2>2. PICK i \in 1..MaxUsers :
          /\ FreeId(i) \/ \A j \in 1..MaxUsers : ids[j] # 0
          /\ ids' = [ids EXCEPT ![i] = 1]
          /\ myid' = [myid EXCEPT ![u] = i]
    BY <1>5 DEF Login
  <2>3. ids[i] = 0
    BY <2>1, <2>2, SlotFound DEF FreeId
  <2>4. Counted' = Counted
    BY <1>5, <2>1, <2>2 DEF TypeOK, Counted, Login
  <2>5. IdsAgree
    BY <2>1 DEF Slots
  <2>6. \A w \in User : myid[w] # i
    BY <2>3, <2>5 DEF IdsAgree
  <2>7. IdsAgree'
    <3>1. \A j \in 1..MaxUsers : ids'[j] = 1 <=> \E w \in User : myid'[w] = j
      <4> SUFFICES ASSUME NEW j \in 1..MaxUsers
                   PROVE  ids'[j] = 1 <=> \E w \in User : myid'[w] = j
        OBVIOUS
      <4>1. CASE j = i
        BY <2>2, <4>1 DEF TypeOK
      <4>2. CASE j # i
        <5>1. ids'[j] = ids[j]
          BY <2>2, <4>2 DEF TypeOK
        <5>2. \A w \in User : myid'[w] = j <=> myid[w] = j
          BY <2>1, <2>2, <4>2 DEF TypeOK
        <5> QED BY <2>5, <5>1, <5>2 DEF IdsAgree
      <4> QED BY <4>1, <4>2
    <3>2. \A w \in User : myid'[w] = IF w = u THEN i ELSE myid[w]
      BY <2>2 DEF TypeOK
    <3>3. \A v, w \in HasId' : myid'[v] = myid'[w] => v = w
      BY <2>5, <2>6, <3>2 DEF IdsAgree, HasId
    <3> QED BY <3>1, <3>3 DEF IdsAgree
  <2> QED BY <2>1, <2>4, <2>7 DEF Slots
<1>6. ASSUME NEW u \in User, CountLeave(u) PROVE Slots'
  <2>1. Counted' = Counted \ {u} /\ u \in Counted
    BY <1>6 DEF TypeOK, Control, Counted, CountLeave
  <2>2. Cardinality(Counted') = Cardinality(Counted) - 1
    BY <2>1, UsersFinite, FS_RemoveElement
  <2>3. NoTorn' => NoTorn
    BY <1>6 DEF TypeOK, NoTorn, CountLeave
  <2>4. UNCHANGED <<removed, ids, myid>> /\ total' = total - 1
    BY <1>6 DEF CountLeave
  <2>5. IdsAgree => IdsAgree'
    BY <2>4 DEF IdsAgree, HasId
  <2> QED BY <2>2, <2>3, <2>4, <2>5, ConstantsAssumption DEF Slots, TypeOK
<1>7. ASSUME NEW u \in User, Leave(u) PROVE Slots'
  <2> SUFFICES ASSUME ~removed', NoTorn' PROVE Slots'
    BY DEF Slots
  <2>1. /\ ~removed /\ total' = total /\ mpc[u] = "free"
        /\ ids' = [ids EXCEPT ![myid[u]] = 0] /\ myid' = [myid EXCEPT ![u] = 0]
        /\ mpc' = [mpc EXCEPT ![u] = "done"]
    BY <1>7 DEF Leave, TypeOK
  <2>2. NoTorn
    BY <2>1 DEF TypeOK, NoTorn
  <2>3. Counted' = Counted
    BY <2>1 DEF TypeOK, Counted
  <2>4. IdsAgree
    BY <2>1, <2>2 DEF Slots
  <2>5. myid[u] \in 1..MaxUsers
    BY <2>1 DEF TypeOK, Control
  <2>6. \A w \in User : myid'[w] = IF w = u THEN 0 ELSE myid[w]
    BY <2>1 DEF TypeOK
  <2>7. \A w \in User : w # u => myid[w] # myid[u]
    BY <2>4, <2>5 DEF IdsAgree, HasId
  <2>8. \A j \in 1..MaxUsers : ids'[j] = 1 <=> \E w \in User : myid'[w] = j
    <3> SUFFICES ASSUME NEW j \in 1..MaxUsers
                 PROVE  ids'[j] = 1 <=> \E w \in User : myid'[w] = j
      OBVIOUS
    <3>1. CASE j = myid[u]
      <4>1. ids'[j] = 0
        BY <2>1, <2>5, <3>1 DEF TypeOK
      <4>2. \A w \in User : myid'[w] # j
        BY <2>6, <2>7, <3>1
      <4> QED BY <4>1, <4>2
    <3>2. CASE j # myid[u]
      <4>1. ids'[j] = ids[j]
        BY <2>1, <3>2 DEF TypeOK
      <4>2. \A w \in User : myid'[w] = j <=> myid[w] = j
        BY <2>6, <3>2
      <4> QED BY <2>4, <4>1, <4>2 DEF IdsAgree
    <3> QED BY <3>1, <3>2
  <2>9. \A v, w \in HasId' : myid'[v] = myid'[w] => v = w
    BY <2>4, <2>6 DEF IdsAgree, HasId
  <2> QED BY <2>1, <2>2, <2>3, <2>8, <2>9 DEF Slots, IdsAgree
<1>8. ASSUME NEW u \in User, Crash(u) PROVE Slots'
  <2>1. CASE mpc[u] \in {"slot", "free"}
    <3>1. mpc' = [mpc EXCEPT ![u] = "torn"]
      BY <1>8, <2>1 DEF Crash
    <3> QED BY <3>1 DEF TypeOK, NoTorn, Slots
  <2>2. CASE mpc[u] \notin {"slot", "free"}
    <3>1. /\ mpc' = [mpc EXCEPT ![u] = "crashed"] /\ mpc[u] # "torn"
          /\ UNCHANGED <<removed, total, ids, myid>>
      BY <1>8, <2>2 DEF Crash, shmVars
    <3> QED BY <1>2, <2>2, <3>1
  <2> QED BY <2>1, <2>2
<1>9. ASSUME NEW u \in User, ReceiverStep(u) \/ SenderStep(u) \/ \E t \in Text : Type(u, t)
      PROVE UNCHANGED <<removed, total, ids, myid, mpc>>
  BY <1>9 DEF ReceiverStep, SenderStep, StartReceiver, Receive, ReceiveFail, LockSend,
              Number, SendCopy, EndSend, Type, shmVars
<1> QED BY <1>1, <1>3, <1>4, <1>5, <1>6, <1>7, <1>8, <1>9 DEF Next, MainStep, vars, shmVars

LEMMA SlotsInit == Init => Slots
<1> SUFFICES ASSUME Init PROVE Slots
  OBVIOUS
<1>1. Counted = {} /\ HasId = {}
  BY DEF Init, Counted, HasId
<1>2. total = Cardinality(Counted) /\ total <= MaxUsers
  BY <1>1, FS_EmptySet, ConstantsAssumption DEF Init
<1>3. IdsAgree
  BY <1>1 DEF Init, IdsAgree
<1> QED BY <1>2, <1>3 DEF Slots

(* Whatever the interleaving, and whoever is killed (except between the    *)
(* two writes of a login or logout), total and ids describe exactly the    *)
(* users that are in, and a login that is not rejected always gets an id.  *)
THEOREM SlotsCorrect == Spec => []SlotsAgree
<1>1. Init => LockHeldByOne
  BY DEF Init, LockHeldByOne, InCS
<1>2. /\ TypeOK /\ Control /\ Setup /\ LockHeldByOne /\ Slots /\ [][Next]_vars
      => [](TypeOK /\ Control /\ Setup /\ LockHeldByOne /\ Slots)
  BY TypeStep, SetupStep, LockStep, SlotsStep, PTL
<1>3. TypeOK /\ Control /\ LockHeldByOne /\ Slots => SlotsAgree
  BY SlotFound DEF Slots, IdsAgree, SlotsAgree
<1> QED BY TypeInit, SetupInit, SlotsInit, <1>1, <1>2, <1>3, PTL DEF Spec
=============================================================================
