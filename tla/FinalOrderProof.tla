-------------------------- MODULE FinalOrderProof --------------------------
(***************************************************************************)
(* What the receivers of final/5.c get, proved for any set of users and    *)
(* any values of the bounds: the agreed order, whose talk_quit ends a      *)
(* receiver, and that the room implements TotalOrder.  It rests on the     *)
(* layers of FinalTalkProof, and adds                                      *)
(*   Ordered    every copy, wherever it is, is a message of the log        *)
(*   OwnAhead   what lies ahead of a receiver with its id is its own       *)
(***************************************************************************)
EXTENDS FinalTalkProof

Entry == [by : User, to : SUBSET User, msg : Message]

Entries == \A k \in 1..Len(log) : log[k].msg.mtype = k
Queued == \A i \in 1..Len(queue) :
  queue[i].mtype \in 1..Len(log) /\ queue[i] = log[queue[i].mtype].msg
Sending == \A u \in User : spc[u] = "send" =>
  /\ stype[u] \in 1..Len(log)
  /\ log[stype[u]].msg = [mtype |-> stype[u], from |-> myid[u], text |-> sline[u]]
Receiving == \A u \in User :
  /\ rpc[u] \in {"none", "new"} => rbuf[u] = NoMessage
  /\ rpc[u] = "recv" => rnum[u] <= Len(log)
  /\ rpc[u] \in {"recv", "exit"} /\ rbuf[u] # NoMessage
       => rnum[u] \in 1..Len(log) /\ rbuf[u] = log[rnum[u]].msg

Ordered == ~removed /\ NoWrap =>
  msgn = Len(log) /\ Entries /\ Queued /\ Sending /\ Receiving

-----------------------------------------------------------------------------
(* The log only grows, and a removed room stays removed.                   *)
LEMMA LogType ==
  ASSUME TypeOK
  PROVE  /\ Len(log) \in Nat /\ DOMAIN log = 1..Len(log)
         /\ \A k \in 1..Len(log) : log[k] \in Entry /\ log[k].msg \in Message
<1>1. log \in Seq(Entry)
  BY DEF TypeOK, Entry
<1>2. \A k \in 1..Len(log) : log[k] \in Entry
  BY <1>1, ElementOfSeq
<1> QED BY <1>1, <1>2, LenProperties DEF Entry

LEMMA QueueType ==
  ASSUME TypeOK
  PROVE  Len(queue) \in Nat /\ DOMAIN queue = 1..Len(queue) /\ queue \in Seq(Message)
BY LenProperties DEF TypeOK

LEMMA NumberAppends ==
  ASSUME TypeOK, Control, NEW u \in User, Number(u)
  PROVE  LET m == [mtype |-> NextNum(msgn), from |-> myid[u], text |-> sline[u]]
         IN  /\ Len(log') = Len(log) + 1
             /\ \A k \in 1..Len(log) : log'[k] = log[k]
             /\ log'[Len(log) + 1].msg = m /\ log'[Len(log) + 1].by = u
<1> DEFINE m == [mtype |-> NextNum(msgn), from |-> myid[u], text |-> sline[u]]
           e == [by |-> u, to |-> HasId, msg |-> m]
<1>1. m \in Message
  BY NextNumType, SenderAlive DEF TypeOK, Number, Message
<1>2. e \in Entry /\ e.msg = m /\ e.by = u
  BY <1>1 DEF Entry, HasId
<1>3. log' = Append(log, e)
  BY DEF Number
<1> HIDE DEF e
<1>4. log \in Seq(Entry)
  BY DEF TypeOK, Entry
<1>5. /\ Len(Append(log, e)) = Len(log) + 1
      /\ \A k \in 1..Len(log) : Append(log, e)[k] = log[k]
      /\ Append(log, e)[Len(log) + 1] = e
  BY <1>2, <1>4, AppendProperties
<1> QED BY <1>2, <1>3, <1>5

LEMMA OnlyNumberLogs ==
  ASSUME [Next]_vars
  PROVE  log' = log \/ \E u \in User : Number(u)
BY DEF Next, MainStep, ReceiverStep, SenderStep, SemGet, SetVal, LockLogin, Reject, CountLogin,
       Login, LockLeave, CountLeave, Leave, StartReceiver, Receive, ReceiveFail, Type,
       LockSend, SendCopy, EndSend, Crash, vars

LEMMA LogGrows ==
  ASSUME TypeOK, Control, [Next]_vars
  PROVE  /\ Len(log') \in Nat /\ Len(log) <= Len(log')
         /\ \A k \in 1..Len(log) : log'[k] = log[k]
         /\ NoWrap' => NoWrap
<1>1. CASE log' = log
  BY <1>1, LogType DEF NoWrap
<1>2. CASE \E u \in User : Number(u)
  <2>1. PICK u \in User : Number(u)
    BY <1>2
  <2>2. Len(log') = Len(log) + 1 /\ \A k \in 1..Len(log) : log'[k] = log[k]
    BY <2>1, NumberAppends
  <2> QED BY <2>2, LogType, ConstantsAssumption DEF NoWrap
<1> QED BY <1>1, <1>2, OnlyNumberLogs

LEMMA RemovedForEver ==
  ASSUME [Next]_vars, ~removed'
  PROVE  ~removed
BY DEF Next, MainStep, ReceiverStep, SenderStep, SemGet, SetVal, LockLogin, Reject, CountLogin,
       Login, LockLeave, CountLeave, Leave, StartReceiver, Receive, ReceiveFail, Type,
       LockSend, Number, SendCopy, EndSend, Crash, vars

-----------------------------------------------------------------------------
LEMMA OrderedInit == Init => Ordered
<1> SUFFICES ASSUME Init PROVE Ordered
  OBVIOUS
<1>1. Len(log) = 0 /\ Len(queue) = 0 /\ msgn = 0
  <2>1. log = <<>> /\ queue = <<>> /\ msgn = 0
    BY DEF Init
  <2> QED BY <2>1
<1>2. Entries /\ Queued
  BY <1>1 DEF Entries, Queued
<1>3. Sending /\ Receiving
  BY DEF Init, Sending, Receiving
<1> QED BY <1>1, <1>2, <1>3 DEF Ordered

(* What a receiver waits for in a room that is not used up.                *)
LEMMA NextIsAhead ==
  ASSUME TypeOK, Control, Ordered, ~removed, NoWrap, NEW u \in User, rpc[u] = "recv"
  PROVE  NextNum(rnum[u]) = rnum[u] + 1 /\ rnum[u] \in Nat /\ rnum[u] <= Len(log)
<1>1. rnum[u] \in 0..MaxMsgn /\ rnum[u] <= Len(log) /\ Len(log) < MaxMsgn /\ Len(log) \in Nat
  BY LogType DEF TypeOK, Ordered, Receiving, NoWrap
<1> QED BY <1>1, ConstantsAssumption DEF NextNum

(* The message a receiver takes is the next one of the log.                *)
LEMMA Received ==
  ASSUME TypeOK, Control, Ordered, ~removed, NoWrap, NEW u \in User, Receive(u)
  PROVE  \E i \in 1..Len(queue) :
           /\ rnum' = [rnum EXCEPT ![u] = rnum[u] + 1]
           /\ rnum[u] + 1 \in 1..Len(log)
           /\ queue[i].mtype = rnum[u] + 1
           /\ queue[i] = log[rnum[u] + 1].msg
           /\ rbuf' = [rbuf EXCEPT ![u] = queue[i]]
           /\ queue' = RemoveAt(queue, i)
           /\ rpc' = [rpc EXCEPT ![u] = IF OwnQuit(u, queue[i]) THEN "exit" ELSE "recv"]
<1>1. rpc[u] = "recv"
  BY DEF Receive
<1>2. NextNum(rnum[u]) = rnum[u] + 1 /\ rnum[u] \in Nat
  BY <1>1, NextIsAhead
<1>3. PICK i \in DOMAIN queue :
        /\ IsFirst(i, NextNum(rnum[u]))
        /\ rbuf' = [rbuf EXCEPT ![u] = queue[i]]
        /\ queue' = RemoveAt(queue, i)
        /\ rpc' = [rpc EXCEPT ![u] = IF OwnQuit(u, queue[i]) THEN "exit" ELSE "recv"]
  BY DEF Receive
<1>4. rnum' = [rnum EXCEPT ![u] = rnum[u] + 1]
  BY <1>2 DEF Receive
<1>5. i \in 1..Len(queue) /\ queue[i].mtype = rnum[u] + 1
  BY <1>2, <1>3, QueueType DEF IsFirst
<1>6. queue[i].mtype \in 1..Len(log) /\ queue[i] = log[queue[i].mtype].msg
  BY <1>5 DEF Ordered, Queued
<1> QED BY <1>3, <1>4, <1>5, <1>6

(* A step that leaves the messages and the children alone.                 *)
LEMMA OrderedKept ==
  ASSUME Ordered, ~removed, NoWrap, UNCHANGED <<msgn, log, queue, myid, recvVars, stype, sline>>,
         \A w \in User : spc'[w] = "send" => spc[w] = "send"
  PROVE  Ordered'
BY DEF Ordered, Entries, Queued, Sending, Receiving, recvVars

LEMMA OrderedStep == TypeOK /\ Control /\ Ordered /\ [Next]_vars => Ordered'
<1> SUFFICES ASSUME TypeOK, Control, Ordered, [Next]_vars, ~removed', NoWrap' PROVE Ordered'
  BY DEF Ordered
<1>1. ~removed /\ NoWrap
  BY LogGrows, RemovedForEver
<1>2. msgn = Len(log) /\ Entries /\ Queued /\ Sending /\ Receiving
  BY <1>1 DEF Ordered
<1>3. CASE UNCHANGED vars
  BY <1>1, <1>3, OrderedKept DEF vars, shmVars, sendVars
<1>4. ASSUME NEW u \in User,
             SemGet(u) \/ SetVal(u) \/ LockLogin(u) \/ Reject(u) \/ CountLogin(u)
               \/ LockLeave(u) \/ CountLeave(u)
      PROVE Ordered'
  <2>1. UNCHANGED <<msgn, log, queue, myid, recvVars, stype, sline, spc>>
    BY <1>4 DEF SemGet, SetVal, LockLogin, Reject, CountLogin, LockLeave, CountLeave,
                shmVars, sendVars
  <2> QED BY <1>1, <2>1, OrderedKept
<1>5. ASSUME NEW u \in User, LockSend(u) \/ EndSend(u) PROVE Ordered'
  <2>1. UNCHANGED <<msgn, log, queue, myid, recvVars, stype, sline>>
    BY <1>5 DEF LockSend, EndSend, shmVars
  <2>2. PICK c \in {"number", "exit", "idle"} : spc' = [spc EXCEPT ![u] = c]
    BY <1>5 DEF LockSend, EndSend
  <2>3. \A w \in User : spc'[w] = "send" => spc[w] = "send"
    BY <2>2 DEF TypeOK
  <2> QED BY <1>1, <2>1, <2>3, OrderedKept
<1>6. ASSUME NEW u \in User, NEW t \in Text, Type(u, t) PROVE Ordered'
  <2>1. UNCHANGED <<msgn, log, queue, myid, rpc, rnum, rbuf, stype>>
    BY <1>6 DEF Type, shmVars, recvVars
  <2>2. \A w \in User : spc'[w] = "send" => spc[w] = "send" /\ sline'[w] = sline[w]
    BY <1>6 DEF TypeOK, Type
  <2>3. Sending'
    BY <1>2, <2>1, <2>2 DEF Sending
  <2>4. Entries' /\ Queued' /\ Receiving'
    BY <1>2, <2>1 DEF Entries, Queued, Receiving
  <2> QED BY <1>2, <2>1, <2>3, <2>4 DEF Ordered
<1>7. ASSUME NEW u \in User, Login(u) PROVE Ordered'
  <2>1. UNCHANGED <<msgn, log, queue, rnum, rbuf, stype, sline>>
    BY <1>7 DEF Login
  <2>2. \A w \in User : /\ spc'[w] = "send" => spc[w] = "send" /\ myid'[w] = myid[w]
                        /\ rpc'[w] = rpc[w] \/ (rpc[w] = "none" /\ rpc'[w] = "new")
    BY <1>7 DEF TypeOK, Control, Login
  <2>3. Sending'
    BY <1>2, <2>1, <2>2 DEF Sending
  <2>4. Receiving'
    BY <1>2, <2>1, <2>2 DEF Receiving
  <2>5. Entries' /\ Queued'
    BY <1>2, <2>1 DEF Entries, Queued
  <2> QED BY <1>2, <2>1, <2>3, <2>4, <2>5 DEF Ordered
<1>8. ASSUME NEW u \in User, Leave(u) PROVE Ordered'
  <2>1. UNCHANGED <<msgn, log, queue, rpc, rnum, rbuf, spc, stype, sline>>
    BY <1>8 DEF Leave, recvVars, sendVars
  <2>2. \A w \in User : spc'[w] = "send" => myid'[w] = myid[w]
    BY <1>8, <2>1 DEF TypeOK, Control, Leave
  <2>3. Sending'
    BY <1>2, <2>1, <2>2 DEF Sending
  <2>4. Entries' /\ Queued' /\ Receiving'
    BY <1>2, <2>1 DEF Entries, Queued, Receiving
  <2> QED BY <1>2, <2>1, <2>3, <2>4 DEF Ordered
<1>9. ASSUME NEW u \in User, StartReceiver(u) PROVE Ordered'
  <2>1. UNCHANGED <<msgn, log, queue, myid, rbuf, spc, stype, sline>>
    BY <1>9 DEF StartReceiver, shmVars, sendVars
  <2>2. /\ \A w \in User \ {u} : rpc'[w] = rpc[w] /\ rnum'[w] = rnum[w]
        /\ rpc'[u] = "recv" /\ rnum'[u] = Len(log) /\ rbuf[u] = NoMessage
    BY <1>2, <1>9 DEF TypeOK, Receiving, StartReceiver
  <2>3. Receiving'
    BY <1>2, <2>1, <2>2, LogType DEF Receiving
  <2>4. Entries' /\ Queued' /\ Sending'
    BY <1>2, <2>1 DEF Entries, Queued, Sending
  <2> QED BY <1>2, <2>1, <2>3, <2>4 DEF Ordered
<1>10. ASSUME NEW u \in User, Receive(u) PROVE Ordered'
  <2>1. UNCHANGED <<msgn, log, myid, spc, stype, sline>>
    BY <1>10 DEF Receive, shmVars, sendVars
  <2>2. PICK i \in 1..Len(queue) :
           /\ rnum' = [rnum EXCEPT ![u] = rnum[u] + 1]
           /\ rnum[u] + 1 \in 1..Len(log)
           /\ queue[i].mtype = rnum[u] + 1
           /\ queue[i] = log[rnum[u] + 1].msg
           /\ rbuf' = [rbuf EXCEPT ![u] = queue[i]]
           /\ queue' = RemoveAt(queue, i)
           /\ rpc' = [rpc EXCEPT ![u] = IF OwnQuit(u, queue[i]) THEN "exit" ELSE "recv"]
    BY <1>1, <1>10, Received
  <2>3. /\ \A w \in User \ {u} : rpc'[w] = rpc[w] /\ rnum'[w] = rnum[w] /\ rbuf'[w] = rbuf[w]
        /\ rpc'[u] \in {"recv", "exit"} /\ rnum'[u] = rnum[u] + 1
        /\ rbuf'[u] = log[rnum[u] + 1].msg
    BY <2>2 DEF TypeOK
  <2>4. Receiving'
    BY <1>2, <2>1, <2>2, <2>3 DEF Receiving
  <2>5. /\ Len(queue') = Len(queue) - 1
        /\ \A j \in 1..(Len(queue)-1) : queue'[j] = IF j < i THEN queue[j] ELSE queue[j+1]
    BY <2>2, QueueType, RemoveAtProperties
  <2>6. \A j \in 1..Len(queue') : \E k \in 1..Len(queue) : queue'[j] = queue[k]
    BY <2>2, <2>5, QueueType
  <2>7. Queued'
    BY <1>2, <2>1, <2>6 DEF Queued
  <2>8. Entries' /\ Sending'
    BY <1>2, <2>1 DEF Entries, Sending
  <2> QED BY <1>2, <2>1, <2>4, <2>7, <2>8 DEF Ordered
<1>11. ASSUME NEW u \in User, ReceiveFail(u) PROVE Ordered'
  BY <1>1, <1>11 DEF ReceiveFail
<1>12. ASSUME NEW u \in User, Number(u) PROVE Ordered'
  <2> DEFINE n == Len(log) + 1
             m == [mtype |-> n, from |-> myid[u], text |-> sline[u]]
  <2>1. NextNum(msgn) = n
    BY <1>1, <1>2, LogType, ConstantsAssumption DEF NextNum, NoWrap
  <2>2. /\ Len(log') = n /\ n \in Nat
        /\ \A k \in 1..Len(log) : log'[k] = log[k]
        /\ log'[n].msg = m
    BY <1>12, <2>1, NumberAppends, LogType
  <2>3. UNCHANGED <<queue, myid, rpc, rnum, rbuf, sline>> /\ msgn' = n
    BY <1>12, <2>1 DEF Number, recvVars
  <2>4. /\ \A w \in User \ {u} : spc'[w] = spc[w] /\ stype'[w] = stype[w]
        /\ stype'[u] = n
    BY <1>12, <2>1 DEF TypeOK, Number
  <2> HIDE DEF n
  <2>5. n = Len(log) + 1 /\ \A k : k \in 1..n <=> k \in 1..Len(log) \/ k = n
    BY LogType DEF n
  <2>6. Entries'
    BY <1>2, <2>2, <2>5 DEF Entries
  <2>7. Queued'
    BY <1>2, <2>2, <2>3, <2>5 DEF Queued
  <2>8. Sending'
    BY <1>2, <2>2, <2>3, <2>4, <2>5 DEF Sending
  <2>9. Receiving'
    <3>1. \A w \in User : rnum[w] <= Len(log) => rnum[w] <= n
      BY <2>5, LogType DEF TypeOK
    <3> QED BY <1>2, <2>2, <2>3, <2>5, <3>1 DEF Receiving
  <2> QED BY <2>2, <2>3, <2>6, <2>7, <2>8, <2>9 DEF Ordered
<1>13. ASSUME NEW u \in User, SendCopy(u) PROVE Ordered'
  <2> DEFINE m == [mtype |-> stype[u], from |-> myid[u], text |-> sline[u]]
  <2>1. UNCHANGED <<msgn, log, myid, rpc, rnum, rbuf, spc, stype, sline>>
    BY <1>13 DEF SendCopy, shmVars, recvVars
  <2>2. stype[u] \in 1..Len(log) /\ log[stype[u]].msg = m
    BY <1>2, <1>13 DEF Sending, SendCopy
  <2>3. queue' = Append(queue, m)
    BY <1>1, <1>13, <2>2, LogType DEF SendCopy
  <2>4. m \in Message /\ m.mtype = stype[u]
    BY <2>2, LogType
  <2> HIDE DEF m
  <2>5. Len(queue') = Len(queue) + 1 /\ Len(queue) \in Nat
        /\ (\A j \in 1..Len(queue) : queue'[j] = queue[j]) /\ queue'[Len(queue) + 1] = m
    BY <2>3, <2>4, QueueType, AppendProperties
  <2>6. \A j \in 1..Len(queue') : queue'[j] = m \/ \E k \in 1..Len(queue) : queue'[j] = queue[k]
    BY <2>5
  <2>7. Queued'
    BY <1>2, <2>1, <2>2, <2>4, <2>6 DEF Queued
  <2>8. Entries' /\ Sending' /\ Receiving'
    BY <1>2, <2>1 DEF Entries, Sending, Receiving
  <2> QED BY <1>2, <2>1, <2>7, <2>8 DEF Ordered
<1>14. ASSUME NEW u \in User, Crash(u) PROVE Ordered'
  <2>1. UNCHANGED <<msgn, log, queue, myid, rnum, rbuf, stype, sline>>
    BY <1>14 DEF Crash, shmVars
  <2>2. \A w \in User : /\ spc'[w] = "send" => spc[w] = "send"
                        /\ rpc'[w] = rpc[w] \/ rpc'[w] = "dead"
    BY <1>14 DEF TypeOK, Crash
  <2>3. Sending' /\ Receiving'
    BY <1>2, <2>1, <2>2 DEF Sending, Receiving
  <2>4. Entries' /\ Queued'
    BY <1>2, <2>1 DEF Entries, Queued
  <2> QED BY <1>2, <2>1, <2>3, <2>4 DEF Ordered
<1> QED BY <1>3, <1>4, <1>5, <1>6, <1>7, <1>8, <1>9, <1>10, <1>11, <1>12, <1>13, <1>14
        DEF Next, MainStep, ReceiverStep, SenderStep

(* However the copies of different messages overtake each other in the     *)
(* queue, what a receiver holds is the message with the number it counted  *)
(* to, so all receivers of the room print one and the same sequence.       *)
THEOREM AgreedOrderCorrect == Spec => []AgreedOrder
<1>1. TypeOK /\ Control /\ Ordered /\ [][Next]_vars => [](TypeOK /\ Control /\ Ordered)
  BY TypeStep, OrderedStep, PTL
<1>2. Ordered => AgreedOrder
  BY DEF Ordered, Receiving, AgreedOrder
<1> QED BY TypeInit, OrderedInit, <1>1, <1>2, PTL DEF Spec

-----------------------------------------------------------------------------
(* The refinement of TotalOrder.                                           *)
Posts == [k \in DOMAIN log |-> log[k].msg]
Listening == {u \in User : rpc[u] = "recv"}

LEMMA OrderUnchanged ==
  ASSUME ~removed, NoWrap, ~removed', NoWrap', log' = log, Listening' = Listening,
         rnum' = rnum, rbuf' = rbuf
  PROVE  UNCHANGED Order!vars
<1>1. Posts' = Posts
  BY DEF Posts
<1>2. (~removed /\ NoWrap)' = (~removed /\ NoWrap)
  OBVIOUS
<1> QED BY <1>1, <1>2 DEF Order!vars, Posts, Listening

LEMMA OrderInit == Init => Order!Init
<1> SUFFICES ASSUME Init PROVE Order!Init
  OBVIOUS
<1>1. log = <<>> /\ ~removed
  BY DEF Init
<1>2. NoWrap
  BY <1>1, ConstantsAssumption DEF NoWrap
<1>3. [k \in DOMAIN log |-> log[k].msg] = <<>>
  BY <1>1
<1>4. {u \in User : rpc[u] = "recv"} = {}
  BY DEF Init
<1>5. rnum = [u \in User |-> 0] /\ rbuf = [u \in User |-> NoMessage]
  BY DEF Init
<1> QED BY <1>1, <1>2, <1>3, <1>4, <1>5 DEF Order!Init

LEMMA OrderStep ==
  TypeOK /\ Control /\ Ordered /\ [Next]_vars => [Order!Next]_(Order!vars)
<1> SUFFICES ASSUME TypeOK, Control, Ordered, [Next]_vars, ~removed', NoWrap'
             PROVE  Order!InOrder \/ UNCHANGED Order!vars
  BY DEF Order!Next
<1>1. ~removed /\ NoWrap
  BY LogGrows, RemovedForEver
<1>2. CASE UNCHANGED vars
  BY <1>1, <1>2, OrderUnchanged DEF vars, recvVars, Listening
<1>3. ASSUME NEW u \in User, MainStep(u) \/ SemGet(u) PROVE UNCHANGED Order!vars
  <2>1. UNCHANGED <<log, rnum, rbuf>>
    BY <1>3 DEF MainStep, SemGet, SetVal, LockLogin, Reject, CountLogin, Login, LockLeave,
                CountLeave, Leave, recvVars
  <2>2. rpc' = rpc \/ (rpc[u] = "none" /\ rpc' = [rpc EXCEPT ![u] = "new"])
    <3>1. CASE Login(u)
      BY <3>1 DEF Control, Login
    <3>2. CASE ~Login(u)
      BY <1>3, <3>2 DEF MainStep, SemGet, SetVal, LockLogin, Reject, CountLogin,
                        LockLeave, CountLeave, Leave, recvVars
    <3> QED BY <3>1, <3>2
  <2>3. Listening' = Listening
    BY <2>2 DEF TypeOK, Listening
  <2> QED BY <1>1, <2>1, <2>3, OrderUnchanged
<1>4. ASSUME NEW u \in User, StartReceiver(u) PROVE Order!Listen(u)
  <2>1. u \notin Listening /\ Listening' = Listening \cup {u}
    BY <1>4 DEF TypeOK, Listening, StartReceiver
  <2>2. Len(Posts) = msgn /\ Posts' = Posts /\ rbuf' = rbuf
    <3>1. Posts = [k \in 1..Len(log) |-> log[k].msg] /\ Len(log) \in Nat
      BY LogType DEF Posts
    <3>2. Len(Posts) = Len(log)
      BY <3>1
    <3> QED BY <1>1, <1>4, <3>2 DEF Ordered, StartReceiver, Posts
  <2>3. rnum' = [rnum EXCEPT ![u] = msgn]
    BY <1>4 DEF StartReceiver
  <2> QED BY <2>1, <2>2, <2>3 DEF Order!Listen, Posts, Listening
<1>5. ASSUME NEW u \in User, Receive(u) PROVE Order!Hear(u)
  <2>1. PICK i \in 1..Len(queue) :
           /\ rnum' = [rnum EXCEPT ![u] = rnum[u] + 1]
           /\ rnum[u] + 1 \in 1..Len(log)
           /\ queue[i].mtype = rnum[u] + 1
           /\ queue[i] = log[rnum[u] + 1].msg
           /\ rbuf' = [rbuf EXCEPT ![u] = queue[i]]
           /\ queue' = RemoveAt(queue, i)
           /\ rpc' = [rpc EXCEPT ![u] = IF OwnQuit(u, queue[i]) THEN "exit" ELSE "recv"]
    BY <1>1, <1>5, Received
  <2>2. Posts = [k \in 1..Len(log) |-> log[k].msg] /\ Len(log) \in Nat
    BY LogType DEF Posts
  <2>3. Len(Posts) = Len(log) /\ Posts[rnum[u] + 1] = log[rnum[u] + 1].msg
    BY <2>1, <2>2
  <2>4. u \in Listening /\ Listening' \in {Listening, Listening \ {u}}
    <3>1. rpc[u] = "recv"
      BY <1>5 DEF Receive
    <3>2. rpc' = [rpc EXCEPT ![u] = "exit"] \/ rpc' = [rpc EXCEPT ![u] = "recv"]
      BY <2>1
    <3> QED BY <3>1, <3>2 DEF TypeOK, Listening
  <2>5. Posts' = Posts
    BY <1>5 DEF Receive, Posts
  <2>6. rnum[u] < Len(log)
    BY <2>1, <2>2 DEF TypeOK
  <2>7. rbuf' = [rbuf EXCEPT ![u] = Posts[rnum[u] + 1]]
    BY <2>1, <2>3
  <2> QED BY <2>1, <2>3, <2>4, <2>5, <2>6, <2>7 DEF Order!Hear, Posts, Listening
<1>6. ASSUME NEW u \in User, ReceiveFail(u) PROVE FALSE
  BY <1>1, <1>6 DEF ReceiveFail
<1>7. ASSUME NEW u \in User, Number(u) PROVE Order!Post
  <2> DEFINE m == [mtype |-> NextNum(msgn), from |-> myid[u], text |-> sline[u]]
  <2>1. m \in Message
    BY <1>7, NextNumType, SenderAlive DEF TypeOK, Number, Message
  <2>2. /\ Len(log') = Len(log) + 1
        /\ \A k \in 1..Len(log) : log'[k] = log[k]
        /\ log'[Len(log) + 1].msg = m
    BY <1>7, NumberAppends
  <2> HIDE DEF m
  <2>3. DOMAIN log = 1..Len(log) /\ Len(log) \in Nat /\ DOMAIN log' = 1..Len(log')
    BY LogType, TypeStep
  <2>4. Posts \in Seq(Message) /\ Len(Posts) = Len(log)
    BY <2>3, LogType DEF Posts
  <2>5. Posts' = [k \in 1..(Len(log) + 1) |-> IF k = Len(log) + 1 THEN m ELSE log[k].msg]
    BY <2>2, <2>3 DEF Posts
  <2>6. Posts' = Append(Posts, m)
    <3>1. /\ Append(Posts, m) \in Seq(Message) /\ Len(Append(Posts, m)) = Len(log) + 1
          /\ \A k \in 1..Len(log) : Append(Posts, m)[k] = Posts[k]
          /\ Append(Posts, m)[Len(log) + 1] = m
      BY <2>1, <2>4, AppendProperties
    <3>2. Posts' \in Seq(Message) /\ Len(Posts') = Len(log) + 1
      BY <2>1, <2>3, <2>5, LogType
    <3>3. \A k \in 1..(Len(log) + 1) : Posts'[k] = Append(Posts, m)[k]
      <4>1. \A k \in 1..Len(log) : Posts[k] = log[k].msg
        BY <2>3 DEF Posts
      <4> QED BY <2>3, <2>5, <3>1, <4>1
    <3> QED BY <3>1, <3>2, <3>3, SeqEqual
  <2>7. UNCHANGED <<rnum, rbuf, Listening>>
    BY <1>7 DEF Number, recvVars, Listening
  <2> QED BY <2>1, <2>6, <2>7 DEF Order!Post, Posts, Listening
<1>8. ASSUME NEW u \in User,
             LockSend(u) \/ SendCopy(u) \/ EndSend(u) \/ \E t \in Text : Type(u, t)
      PROVE UNCHANGED Order!vars
  <2>1. UNCHANGED <<log, rpc, rnum, rbuf>>
    BY <1>8 DEF LockSend, SendCopy, EndSend, Type, recvVars
  <2> QED BY <1>1, <2>1, OrderUnchanged DEF Listening
<1>9. ASSUME NEW u \in User, Crash(u) PROVE Order!Stop(u) \/ UNCHANGED Order!vars
  <2>1. UNCHANGED <<log, rnum, rbuf>> /\ rpc' = [rpc EXCEPT ![u] = "dead"]
    BY <1>9 DEF Crash
  <2>2. Listening' = Listening \ {u}
    BY <2>1 DEF TypeOK, Listening
  <2>3. CASE u \in Listening
    BY <2>1, <2>2, <2>3 DEF Order!Stop, Listening
  <2>4. CASE u \notin Listening
    BY <1>1, <2>1, <2>2, <2>4, OrderUnchanged
  <2> QED BY <2>3, <2>4
<1> QED BY <1>1, <1>2, <1>3, <1>4, <1>5, <1>6, <1>7, <1>8, <1>9
        DEF Next, ReceiverStep, SenderStep, Order!InOrder

(* The room implements TotalOrder: until its numbers are used up or it is  *)
(* removed, every receiver hears every message from where it starts, one   *)
(* after the other and none left out, whoever crashes or sends meanwhile.  *)
THEOREM Implements == Spec => ImplementsTotalOrder
<1>1. TypeOK /\ Control /\ Ordered /\ [][Next]_vars => [](TypeOK /\ Control /\ Ordered)
  BY TypeStep, OrderedStep, PTL
<1> QED BY TypeInit, OrderedInit, OrderInit, OrderStep, <1>1, PTL
        DEF Spec, ImplementsTotalOrder, Order!Spec

-----------------------------------------------------------------------------
(* Ids are reused, but a message that carries the id of a receiver and is  *)
(* numbered after the place where it started is its own user's: until that *)
(* user has left nobody else gets the id.                                  *)
OwnAhead == ~removed /\ NoWrap /\ NoTorn =>
  \A u \in User : rpc[u] = "recv" =>
    \A k \in 1..Len(log) : k > rnum[u] /\ log[k].msg.from = myid[u] => log[k].by = u
QuitOwn == NoWrap /\ NoTorn =>
  \A u \in User : rpc[u] = "exit" =>
    rnum[u] \in 1..Len(log) /\ log[rnum[u]].by = u /\ log[rnum[u]].msg.text = "talk_quit"

LEMMA TornForEver ==
  ASSUME TypeOK, [Next]_vars, NoTorn'
  PROVE  NoTorn
<1>1. CASE mpc' = mpc
  BY <1>1 DEF NoTorn
<1>2. ASSUME NEW u \in User, NEW c, mpc' = [mpc EXCEPT ![u] = c], mpc[u] # "torn"
      PROVE  NoTorn
  BY <1>2 DEF TypeOK, NoTorn
<1>3. ASSUME NEW u \in User, MainStep(u) \/ SemGet(u) \/ Crash(u)
      PROVE  mpc[u] # "torn" /\ \E c : mpc' = [mpc EXCEPT ![u] = c]
  BY <1>3 DEF MainStep, SemGet, SetVal, LockLogin, Reject, CountLogin, Login, LockLeave,
              CountLeave, Leave, Crash
<1>4. ASSUME NEW u \in User, ReceiverStep(u) \/ SenderStep(u) \/ \E t \in Text : Type(u, t)
      PROVE  mpc' = mpc
  BY <1>4 DEF ReceiverStep, SenderStep, StartReceiver, Receive, ReceiveFail, LockSend,
              Number, SendCopy, EndSend, Type
<1>5. CASE UNCHANGED vars
  BY <1>1, <1>5 DEF vars
<1> QED BY <1>1, <1>2, <1>3, <1>4, <1>5 DEF Next

LEMMA OwnKept ==
  ASSUME OwnAhead, QuitOwn, ~removed' => ~removed, NoTorn' => NoTorn, log' = log,
         \A w \in User : /\ rpc'[w] = "recv"
                              => removed' \/ (rpc[w] = "recv" /\ rnum'[w] = rnum[w] /\ myid'[w] = myid[w])
                         /\ rpc'[w] = "exit" => rpc[w] = "exit" /\ rnum'[w] = rnum[w]
  PROVE  OwnAhead' /\ QuitOwn'
BY DEF OwnAhead, QuitOwn, NoWrap

LEMMA OwnStep ==
  TypeOK /\ Control /\ Slots /\ Ordered /\ OwnAhead /\ QuitOwn /\ [Next]_vars
    => OwnAhead' /\ QuitOwn'
<1> SUFFICES ASSUME TypeOK, Control, Slots, Ordered, OwnAhead, QuitOwn, [Next]_vars
             PROVE  OwnAhead' /\ QuitOwn'
  OBVIOUS
<1>1. (~removed' => ~removed) /\ (NoTorn' => NoTorn)
  BY RemovedForEver, TornForEver
<1>2. CASE log' = log /\ UNCHANGED <<rpc, rnum, myid>>
  BY <1>1, <1>2, OwnKept
<1>3. ASSUME NEW u \in User, SemGet(u) \/ (MainStep(u) /\ ~Login(u) /\ ~Leave(u))
      PROVE  log' = log /\ UNCHANGED <<rpc, rnum, myid>>
  BY <1>3 DEF MainStep, SemGet, SetVal, LockLogin, Reject, CountLogin, LockLeave, CountLeave,
              recvVars
<1>4. ASSUME NEW u \in User, LockSend(u) \/ SendCopy(u) \/ EndSend(u) \/ \E t \in Text : Type(u, t)
      PROVE  log' = log /\ UNCHANGED <<rpc, rnum, myid>>
  BY <1>4 DEF LockSend, SendCopy, EndSend, Type, recvVars
<1>5. ASSUME NEW u \in User, Login(u) PROVE OwnAhead' /\ QuitOwn'
  <2>1. PICK i \in 1..MaxUsers : myid' = [myid EXCEPT ![u] = i]
    BY <1>5 DEF Login
  <2>2. rpc' = [rpc EXCEPT ![u] = "new"] /\ rnum' = rnum /\ log' = log
    BY <1>5 DEF Login
  <2>3. \A w \in User : /\ rpc'[w] = "recv" => rpc[w] = "recv" /\ myid'[w] = myid[w]
                        /\ rpc'[w] = "exit" => rpc[w] = "exit"
    BY <2>1, <2>2 DEF TypeOK
  <2> QED BY <1>1, <2>2, <2>3, OwnKept
<1>6. ASSUME NEW u \in User, Leave(u) PROVE OwnAhead' /\ QuitOwn'
  <2>1. myid' = [myid EXCEPT ![u] = 0] /\ rpc[u] = "exit" /\ log' = log /\ UNCHANGED <<rpc, rnum>>
    BY <1>6 DEF Control, Leave, recvVars
  <2>2. \A w \in User : rpc[w] = "recv" => myid'[w] = myid[w]
    BY <2>1 DEF TypeOK
  <2> QED BY <1>1, <2>1, <2>2, OwnKept
<1>7. ASSUME NEW u \in User, StartReceiver(u) PROVE OwnAhead' /\ QuitOwn'
  <2>1. /\ \A w \in User \ {u} : rpc'[w] = rpc[w] /\ rnum'[w] = rnum[w]
        /\ rpc'[u] = "recv" /\ rnum'[u] = msgn
        /\ UNCHANGED <<log, myid, removed>>
    BY <1>7 DEF TypeOK, StartReceiver
  <2>2. QuitOwn'
    BY <1>1, <2>1 DEF QuitOwn, NoWrap
  <2>3. OwnAhead'
    <3> SUFFICES ASSUME ~removed', NoWrap', NoTorn', NEW w \in User, rpc'[w] = "recv",
                        NEW k \in 1..Len(log'), k > rnum'[w], log'[k].msg.from = myid'[w]
                 PROVE  log'[k].by = w
      BY DEF OwnAhead
    <3>1. CASE w = u
      BY <1>1, <2>1, <3>1, LogType DEF Ordered, NoWrap
    <3>2. CASE w # u
      BY <1>1, <2>1, <3>2 DEF OwnAhead, NoWrap
    <3> QED BY <3>1, <3>2
  <2> QED BY <2>2, <2>3
<1>8. ASSUME NEW u \in User, Receive(u) PROVE OwnAhead' /\ QuitOwn'
  <2>1. UNCHANGED <<log, myid, removed, mpc>> /\ ~removed /\ rpc[u] = "recv"
    BY <1>8 DEF Receive
  <2> SUFFICES ASSUME NoWrap, NoTorn PROVE OwnAhead' /\ QuitOwn'
    BY <2>1 DEF OwnAhead, QuitOwn, NoWrap, NoTorn
  <2>2. PICK i \in 1..Len(queue) :
           /\ rnum' = [rnum EXCEPT ![u] = rnum[u] + 1]
           /\ rnum[u] + 1 \in 1..Len(log)
           /\ queue[i].mtype = rnum[u] + 1
           /\ queue[i] = log[rnum[u] + 1].msg
           /\ rbuf' = [rbuf EXCEPT ![u] = queue[i]]
           /\ queue' = RemoveAt(queue, i)
           /\ rpc' = [rpc EXCEPT ![u] = IF OwnQuit(u, queue[i]) THEN "exit" ELSE "recv"]
    BY <1>8, <2>1, Received
  <2>3. rnum[u] \in Nat
    BY DEF TypeOK
  <2>4. /\ \A w \in User \ {u} : rpc'[w] = rpc[w] /\ rnum'[w] = rnum[w]
        /\ rnum'[u] = rnum[u] + 1
    BY <2>2 DEF TypeOK
  <2>5. \A k \in 1..Len(log) : k > rnum[u] /\ log[k].msg.from = myid[u] => log[k].by = u
    BY <2>1 DEF OwnAhead
  <2>6. rpc'[u] = "exit" => OwnQuit(u, queue[i])
    BY <2>2 DEF TypeOK
  <2>7. OwnAhead'
    <3> SUFFICES ASSUME NEW w \in User, rpc'[w] = "recv",
                        NEW k \in 1..Len(log'), k > rnum'[w], log'[k].msg.from = myid'[w]
                 PROVE  log'[k].by = w
      BY DEF OwnAhead
    <3>1. CASE w = u
      BY <2>1, <2>3, <2>4, <2>5, <3>1
    <3>2. CASE w # u
      BY <2>1, <2>4, <3>2 DEF OwnAhead
    <3> QED BY <3>1, <3>2
  <2>8. QuitOwn'
    <3> SUFFICES ASSUME NEW w \in User, rpc'[w] = "exit"
                 PROVE  /\ rnum'[w] \in 1..Len(log') /\ log'[rnum'[w]].by = w
                        /\ log'[rnum'[w]].msg.text = "talk_quit"
      BY DEF QuitOwn
    <3>1. CASE w = u
      BY <2>1, <2>2, <2>3, <2>4, <2>5, <2>6, <3>1 DEF OwnQuit
    <3>2. CASE w # u
      BY <2>1, <2>4, <3>2 DEF QuitOwn
    <3> QED BY <3>1, <3>2
  <2> QED BY <2>7, <2>8
<1>9. ASSUME NEW u \in User, ReceiveFail(u) PROVE OwnAhead' /\ QuitOwn'
  <2>1. removed' /\ log' = log /\ rpc' = rpc /\ rpc[u] = "recv"
    BY <1>9 DEF ReceiveFail
  <2>2. \A w \in User \ {u} : rnum'[w] = rnum[w]
    BY <1>9 DEF TypeOK, ReceiveFail
  <2> QED BY <1>1, <2>1, <2>2, OwnKept
<1>10. ASSUME NEW u \in User, Number(u) PROVE OwnAhead' /\ QuitOwn'
  <2>1. /\ Len(log') = Len(log) + 1
        /\ \A k \in 1..Len(log) : log'[k] = log[k]
        /\ log'[Len(log) + 1].msg.from = myid[u] /\ log'[Len(log) + 1].by = u
    <3> DEFINE m == [mtype |-> NextNum(msgn), from |-> myid[u], text |-> sline[u]]
    <3>1. /\ Len(log') = Len(log) + 1
          /\ \A k \in 1..Len(log) : log'[k] = log[k]
          /\ log'[Len(log) + 1].msg = m /\ log'[Len(log) + 1].by = u
      BY <1>10, NumberAppends, Zenon
    <3>2. m.from = myid[u]
      OBVIOUS
    <3> QED BY <3>1, <3>2, Zenon
  <2>2. UNCHANGED <<rpc, rnum, myid, removed>>
    BY <1>10 DEF Number, recvVars
  <2>3. Len(log) \in Nat /\ (NoWrap' => NoWrap)
    BY LogType, LogGrows
  <2>4. QuitOwn'
    BY <1>1, <2>1, <2>2, <2>3 DEF QuitOwn
  <2>5. OwnAhead'
    <3> SUFFICES ASSUME ~removed', NoWrap', NoTorn', NEW w \in User, rpc'[w] = "recv",
                        NEW k \in 1..Len(log'), k > rnum'[w], log'[k].msg.from = myid'[w]
                 PROVE  log'[k].by = w
      BY DEF OwnAhead
    <3>1. CASE k \in 1..Len(log)
      BY <1>1, <2>1, <2>2, <2>3, <3>1 DEF OwnAhead
    <3>2. CASE k = Len(log) + 1
      <4>1. myid[w] = myid[u]
        BY <2>1, <2>2, <3>2
      <4>2. w \in HasId /\ u \in HasId
        BY <1>10, <2>2, <4>1, ReceiverAlive DEF HasId
      <4>3. w = u
        BY <1>1, <2>2, <4>1, <4>2 DEF Slots, IdsAgree
      <4> QED BY <2>1, <3>2, <4>3
    <3> QED BY <2>1, <2>3, <3>1, <3>2
  <2> QED BY <2>4, <2>5
<1>11. ASSUME NEW u \in User, Crash(u) PROVE OwnAhead' /\ QuitOwn'
  <2>1. rpc' = [rpc EXCEPT ![u] = "dead"] /\ UNCHANGED <<log, rnum, myid>>
    BY <1>11 DEF Crash
  <2>2. \A w \in User : /\ rpc'[w] = "recv" => rpc[w] = "recv"
                        /\ rpc'[w] = "exit" => rpc[w] = "exit"
    BY <2>1 DEF TypeOK
  <2> QED BY <1>1, <2>1, <2>2, OwnKept
<1>12. CASE UNCHANGED vars
  BY <1>2, <1>12 DEF vars, recvVars
<1> QED BY <1>2, <1>3, <1>4, <1>5, <1>6, <1>7, <1>8, <1>9, <1>10, <1>11, <1>12
        DEF Next, MainStep, ReceiverStep, SenderStep

(* A receiver ends only on a talk_quit of its own user: neither another's  *)
(* talk_quit nor one left over from an earlier holder of its id can end it.*)
THEOREM OwnQuitCorrect == Spec => []OwnQuitOnly
<1>1. Init => LockHeldByOne /\ OwnAhead /\ QuitOwn
  BY DEF Init, LockHeldByOne, InCS, OwnAhead, QuitOwn
<1>2. /\ TypeOK /\ Control /\ Setup /\ LockHeldByOne /\ Slots /\ Ordered /\ OwnAhead /\ QuitOwn
      /\ [][Next]_vars
      => [](TypeOK /\ Control /\ Setup /\ LockHeldByOne /\ Slots /\ Ordered /\ OwnAhead /\ QuitOwn)
  BY TypeStep, SetupStep, LockStep, SlotsStep, OrderedStep, OwnStep, PTL
<1>3. QuitOwn => OwnQuitOnly
  BY DEF QuitOwn, OwnQuitOnly
<1> QED BY TypeInit, SetupInit, SlotsInit, OrderedInit, <1>1, <1>2, <1>3, PTL DEF Spec
=============================================================================
