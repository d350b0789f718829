-------------------------- MODULE FinalCopiesProof --------------------------
(***************************************************************************)
(* No receiver of final/5.c is starved, for any set of users and any       *)
(* values of the bounds: the copies of a message that are in the queue or  *)
(* still to be sent are enough for the receivers that wait for it.  Hence  *)
(* nobody waits in a circle, but for a full queue.                         *)
(***************************************************************************)
EXTENDS FinalOrderProof

(* NoStarve with its guard; Enough is inductive given the layers below it. *)
Enough == \A n \in 1..Len(log) : Cardinality(CopiesOf(n)) + Unsent(n) >= Cardinality(Waiting(n))

CopiesAt(q, n) == {i \in 1..Len(q) : q[i].mtype = n}

LEMMA CopiesFinite ==
  ASSUME NEW q \in Seq(Message), NEW n
  PROVE  IsFiniteSet(CopiesAt(q, n)) /\ Cardinality(CopiesAt(q, n)) \in Nat
<1>1. IsFiniteSet(1..Len(q))
  BY LenProperties, FS_Interval
<1> QED BY <1>1, FS_Subset, FS_CardinalityType DEF CopiesAt

LEMMA CopiesOfIn ==
  ASSUME TypeOK, NEW n
  PROVE  CopiesOf(n) = CopiesAt(queue, n)
BY QueueType DEF CopiesOf, CopiesAt

(* Taking the message at i out of a queue takes one copy of its number,    *)
(* and none of another.                                                    *)
LEMMA CopiesRemoved ==
  ASSUME NEW q \in Seq(Message), NEW i \in 1..Len(q), NEW n
  PROVE  Cardinality(CopiesAt(RemoveAt(q, i), n)) =
           IF q[i].mtype = n THEN Cardinality(CopiesAt(q, n)) - 1 ELSE Cardinality(CopiesAt(q, n))
<1> DEFINE r == RemoveAt(q, i)
           S == CopiesAt(r, n)
           T == CopiesAt(q, n) \ {i}
           shift(j) == IF j < i THEN j ELSE j + 1
           f == [j \in S |-> shift(j)]
<1>1. /\ r \in Seq(Message) /\ Len(q) \in Nat /\ Len(r) = Len(q) - 1
      /\ \A j \in 1..(Len(q)-1) : r[j] = q[shift(j)]
  <2>1. /\ r \in Seq(Message) /\ Len(r) = Len(q) - 1
        /\ \A j \in 1..(Len(q)-1) : r[j] = IF j < i THEN q[j] ELSE q[j+1]
    BY RemoveAtProperties
  <2> QED BY <2>1, LenProperties
<1> HIDE DEF r
<1>2. f \in Bijection(S, T)
  <2>1. \A j \in S : j \in 1..(Len(q)-1) /\ q[shift(j)].mtype = n
    BY <1>1 DEF CopiesAt
  <2>2. \A j \in 1..(Len(q)-1) : shift(j) \in 1..Len(q) /\ shift(j) # i
    BY <1>1
  <2>3. f \in [S -> T]
    BY <2>1, <2>2 DEF CopiesAt
  <2>4. \A j, k \in S : f[j] = f[k] => j = k
    BY <2>1, <1>1
  <2>5. \A t \in T : \E j \in S : f[j] = t
    <3> SUFFICES ASSUME NEW t \in T PROVE \E j \in S : f[j] = t
      OBVIOUS
    <3>1. t \in 1..Len(q) /\ t # i /\ q[t].mtype = n
      BY DEF CopiesAt
    <3>2. CASE t < i
      <4>1. t \in 1..(Len(q)-1) /\ shift(t) = t
        BY <1>1, <3>1, <3>2
      <4>2. t \in S
        BY <1>1, <3>1, <4>1 DEF CopiesAt
      <4> QED BY <4>1, <4>2
    <3>3. CASE t > i
      <4>1. t-1 \in 1..(Len(q)-1) /\ shift(t-1) = t
        BY <1>1, <3>1, <3>3
      <4>2. t-1 \in S
        BY <1>1, <3>1, <4>1 DEF CopiesAt
      <4> QED BY <4>1, <4>2
    <3> QED BY <1>1, <3>1, <3>2, <3>3
  <2> HIDE DEF f, S, T
  <2>6. f \in Injection(S, T)
    BY <2>3, <2>4 DEF Injection, IsInjective
  <2>7. f \in Surjection(S, T)
    BY <2>3, <2>5 DEF Surjection
  <2> QED BY <2>6, <2>7 DEF Bijection
<1>3. IsFiniteSet(S) /\ IsFiniteSet(CopiesAt(q, n))
  BY <1>1, CopiesFinite
<1>4. Cardinality(S) = Cardinality(T)
  <2>1. ExistsBijection(S, T)
    BY <1>2 DEF ExistsBijection
  <2> QED BY <1>3, <2>1, FS_Bijection
<1>5. Cardinality(T) = IF i \in CopiesAt(q, n) THEN Cardinality(CopiesAt(q, n)) - 1
                                               ELSE Cardinality(CopiesAt(q, n))
  BY <1>3, FS_RemoveElement
<1>6. i \in CopiesAt(q, n) <=> q[i].mtype = n
  BY DEF CopiesAt
<1> QED BY <1>4, <1>5, <1>6 DEF r

(* Sending a message adds one copy of its number.                          *)
LEMMA CopiesAdded ==
  ASSUME NEW q \in Seq(Message), NEW m \in Message, NEW n
  PROVE  Cardinality(CopiesAt(Append(q, m), n)) =
           IF m.mtype = n THEN Cardinality(CopiesAt(q, n)) + 1 ELSE Cardinality(CopiesAt(q, n))
<1> DEFINE r == Append(q, m)
           k == Len(q) + 1
<1>1. Len(q) \in Nat /\ Len(r) = k /\ (\A j \in 1..Len(q) : r[j] = q[j]) /\ r[k] = m
  BY AppendProperties, LenProperties
<1> HIDE DEF r
<1>2. IsFiniteSet(CopiesAt(q, n))
  BY CopiesFinite
<1>5. k \notin CopiesAt(q, n)
  BY <1>1 DEF CopiesAt
<1>3. CASE m.mtype = n
  <2>1. CopiesAt(r, n) = CopiesAt(q, n) \cup {k}
    BY <1>1, <1>3 DEF CopiesAt
  <2>2. Cardinality(CopiesAt(q, n) \cup {k}) = Cardinality(CopiesAt(q, n)) + 1
    BY <1>2, <1>5, FS_AddElement
  <2> QED BY <1>3, <2>1, <2>2 DEF r
<1>4. CASE m.mtype # n
  <2>1. CopiesAt(r, n) = CopiesAt(q, n)
    BY <1>1, <1>4 DEF CopiesAt
  <2> QED BY <1>4, <2>1 DEF r
<1> QED BY <1>3, <1>4

-----------------------------------------------------------------------------
LEMMA WaitingFinite ==
  ASSUME NEW n
  PROVE  IsFiniteSet(Waiting(n)) /\ Cardinality(Waiting(n)) \in Nat
BY ConstantsAssumption, FS_Subset, FS_CardinalityType DEF Waiting

LEMMA UnsentType ==
  ASSUME TypeOK, NEW n \in 1..Len(log)
  PROVE  Unsent(n) \in Int
<1>1. log[n].by \in User
  BY LogType DEF Entry
<1>2. \A u \in User : scopies[u] \in Int
  BY DEF TypeOK
<1> QED BY <1>1, <1>2 DEF Unsent

LEMMA KilledForEver ==
  ASSUME TypeOK, [Next]_vars, NoCrash'
  PROVE  NoCrash /\ NoTorn
<1>1. NoCrash
  <2>1. CASE mpc' = mpc
    BY <2>1 DEF NoCrash, Killed
  <2>2. ASSUME NEW u \in User, NEW c, mpc' = [mpc EXCEPT ![u] = c], ~Killed(u)
        PROVE  NoCrash
    BY <2>2 DEF TypeOK, NoCrash, Killed
  <2>3. ASSUME NEW u \in User, MainStep(u) \/ SemGet(u) \/ Crash(u)
        PROVE  ~Killed(u) /\ \E c : mpc' = [mpc EXCEPT ![u] = c]
    BY <2>3 DEF MainStep, SemGet, SetVal, LockLogin, Reject, CountLogin, Login, LockLeave,
                CountLeave, Leave, Crash, Killed
  <2>4. ASSUME NEW u \in User, ReceiverStep(u) \/ SenderStep(u) \/ \E t \in Text : Type(u, t)
        PROVE  mpc' = mpc
    BY <2>4 DEF ReceiverStep, SenderStep, StartReceiver, Receive, ReceiveFail, LockSend,
                Number, SendCopy, EndSend, Type
  <2>5. CASE UNCHANGED vars
    BY <2>1, <2>5 DEF vars
  <2> QED BY <2>1, <2>2, <2>3, <2>4, <2>5 DEF Next
<1> QED BY <1>1 DEF NoCrash, NoTorn, Killed

(* A step after which no fewer copies are on their way, and nobody new     *)
(* waits for an old message.                                               *)
LEMMA EnoughKept ==
  ASSUME TypeOK, TypeOK', Enough, log' = log, queue' = queue,
         \A n \in 1..Len(log) : Waiting(n)' \subseteq Waiting(n),
         \A n \in 1..Len(log) : Unsent(n)' = Unsent(n)
  PROVE  Enough'
<1> SUFFICES ASSUME NEW n \in 1..Len(log)
             PROVE  Cardinality(CopiesOf(n)') + Unsent(n)' >= Cardinality(Waiting(n)')
  BY DEF Enough
<1>1. CopiesOf(n)' = CopiesOf(n)
  BY DEF CopiesOf
<1>2. Cardinality(Waiting(n)') <= Cardinality(Waiting(n)) /\ Cardinality(Waiting(n)') \in Nat
  BY WaitingFinite, FS_Subset, FS_CardinalityType
<1>3. Cardinality(CopiesOf(n)) \in Nat
  BY CopiesOfIn, CopiesFinite, QueueType
<1>4. Cardinality(CopiesOf(n)) + Unsent(n) >= Cardinality(Waiting(n))
  BY DEF Enough
<1> QED BY <1>1, <1>2, <1>3, <1>4, UnsentType, WaitingFinite

(* Who receives is counted, so a new message is sent often enough.         *)
LEMMA ReceiversCounted ==
  ASSUME TypeOK, Control, Slots, ~removed, NoTorn, NEW n
  PROVE  Cardinality(Waiting(n)) <= total
<1>1. Waiting(n) \subseteq Counted
  BY ReceiverAlive DEF Waiting, Counted
<1> QED BY <1>1, UsersFinite, FS_Subset DEF Slots

LEMMA EnoughStep ==
  TypeOK /\ Control /\ Slots /\ Ordered /\ NoStarve /\ [Next]_vars => NoStarve'
<1> SUFFICES ASSUME TypeOK, Control, Slots, Ordered, NoStarve, [Next]_vars,
                    ~removed', NoWrap', NoCrash'
             PROVE  Enough'
  BY DEF NoStarve, Enough
<1>1. ~removed /\ NoWrap /\ NoCrash /\ NoTorn /\ TypeOK'
  BY LogGrows, RemovedForEver, KilledForEver, TypeStep
<1>2. Enough /\ msgn = Len(log) /\ Queued /\ Receiving
  BY <1>1 DEF NoStarve, Enough, Ordered
<1>3. \A n \in 1..Len(log) : log[n].by \in User
  BY LogType DEF Entry
<1>4. ASSUME UNCHANGED <<log, queue, rpc, rnum, spc, stype, scopies>> PROVE Enough'
  BY <1>1, <1>2, <1>4, EnoughKept DEF Waiting, Unsent
<1>5. CASE UNCHANGED vars
  BY <1>4, <1>5 DEF vars, recvVars, sendVars
<1>6. ASSUME NEW u \in User, SemGet(u) \/ (MainStep(u) /\ ~Login(u)) PROVE Enough'
  <2>1. UNCHANGED <<log, queue, rpc, rnum, spc, stype, scopies>>
    BY <1>1, <1>6 DEF MainStep, SemGet, SetVal, LockLogin, Reject, CountLogin, LockLeave,
                      CountLeave, Leave, recvVars, sendVars
  <2> QED BY <1>4, <2>1
<1>7. ASSUME NEW u \in User, Login(u) PROVE Enough'
  <2>1. UNCHANGED <<log, queue, rnum, stype, scopies>>
    BY <1>7 DEF Login
  <2>2. \A w \in User : /\ rpc'[w] = "recv" => rpc[w] = "recv"
                        /\ spc'[w] = "send" <=> spc[w] = "send"
    BY <1>7 DEF TypeOK, Control, Login
  <2> QED BY <1>1, <1>2, <1>3, <2>1, <2>2, EnoughKept DEF Waiting, Unsent
<1>8. ASSUME NEW u \in User, StartReceiver(u) PROVE Enough'
  <2>1. UNCHANGED <<log, queue, spc, stype, scopies>>
    BY <1>8 DEF StartReceiver, sendVars
  <2>2. /\ \A w \in User \ {u} : rpc'[w] = rpc[w] /\ rnum'[w] = rnum[w]
        /\ rnum'[u] = Len(log)
    BY <1>2, <1>8 DEF TypeOK, StartReceiver
  <2>3. \A n \in 1..Len(log) : Waiting(n)' \subseteq Waiting(n)
    BY <2>2, LogType DEF Waiting
  <2> QED BY <1>1, <1>2, <2>1, <2>3, EnoughKept DEF Unsent
<1>9. ASSUME NEW u \in User, ReceiveFail(u) PROVE FALSE
  BY <1>1, <1>9 DEF ReceiveFail
<1>10. ASSUME NEW u \in User, LockSend(u) \/ \E t \in Text : Type(u, t) PROVE Enough'
  <2>1. UNCHANGED <<log, queue, rpc, rnum, stype, scopies>>
    BY <1>10 DEF LockSend, Type, recvVars
  <2>2. \A w \in User : spc'[w] = "send" <=> spc[w] = "send"
    BY <1>10 DEF TypeOK, LockSend, Type
  <2> QED BY <1>1, <1>2, <1>3, <2>1, <2>2, EnoughKept DEF Waiting, Unsent
<1>11. ASSUME NEW u \in User, EndSend(u) PROVE Enough'
  <2>1. UNCHANGED <<log, queue, rpc, rnum, stype, scopies>> /\ scopies[u] = 0
    BY <1>11 DEF EndSend, recvVars
  <2>2. /\ \A w \in User \ {u} : spc'[w] = spc[w]
        /\ spc'[u] # "send"
    BY <1>11 DEF TypeOK, EndSend
  <2> QED BY <1>1, <1>2, <1>3, <2>1, <2>2, EnoughKept DEF Waiting, Unsent
<1>12. ASSUME NEW u \in User, Crash(u) PROVE FALSE
  BY <1>12 DEF TypeOK, Crash, NoCrash, Killed
<1>13. ASSUME NEW u \in User, SendCopy(u) PROVE Enough'
  <2> DEFINE m == [mtype |-> stype[u], from |-> myid[u], text |-> sline[u]]
  <2>1. UNCHANGED <<log, rpc, rnum, spc, stype>> /\ scopies' = [scopies EXCEPT ![u] = scopies[u] - 1]
    BY <1>13 DEF SendCopy, recvVars
  <2>2. stype[u] \in 1..Len(log) /\ log[stype[u]].msg = m
    BY <1>1, <1>13 DEF Ordered, Sending, SendCopy
  <2>3. queue' = Append(queue, m)
    BY <1>1, <1>13, <2>2, LogType DEF SendCopy
  <2>4. m \in Message /\ m.mtype = stype[u]
    BY <2>2, LogType
  <2> HIDE DEF m
  <2> SUFFICES ASSUME NEW n \in 1..Len(log)
               PROVE  Cardinality(CopiesOf(n)') + Unsent(n)' >= Cardinality(Waiting(n)')
    BY <2>1 DEF Enough
  <2>5. CopiesOf(n) = CopiesAt(queue, n) /\ CopiesOf(n)' = CopiesAt(Append(queue, m), n)
    <3>1. DOMAIN queue' = 1..Len(queue')
      BY <1>1, LenProperties DEF TypeOK
    <3> QED BY <2>3, <3>1, CopiesOfIn DEF CopiesOf, CopiesAt
  <2>6. Cardinality(CopiesOf(n)') = IF stype[u] = n THEN Cardinality(CopiesOf(n)) + 1
                                                   ELSE Cardinality(CopiesOf(n))
    BY <2>4, <2>5, QueueType, CopiesAdded
  <2> DEFINE w == log[n].by
             due == spc[w] = "send" /\ stype[w] = n
  <2>12. Unsent(n) = (IF due THEN scopies[w] ELSE 0) /\ Unsent(n)' = (IF due THEN scopies'[w] ELSE 0)
    BY <2>1 DEF Unsent
  <2>13. w \in User /\ scopies[w] \in Int
    BY <1>3 DEF TypeOK
  <2> HIDE DEF w
  <2>14. scopies'[w] = IF w = u THEN scopies[w] - 1 ELSE scopies[w]
    BY <2>1, <2>13 DEF TypeOK
  <2>7. IF stype[u] = n THEN Unsent(n)' >= Unsent(n) - 1 ELSE Unsent(n)' = Unsent(n)
    <3>1. CASE w = u
      BY <2>12, <2>13, <2>14, <3>1
    <3>2. CASE w # u
      BY <2>12, <2>13, <2>14, <3>2
    <3> QED BY <3>1, <3>2
  <2>8. Unsent(n) \in Int /\ Unsent(n)' \in Int
    BY <2>12, <2>13, <2>14
  <2>9. Waiting(n)' = Waiting(n)
    BY <2>1 DEF Waiting
  <2>10. Cardinality(CopiesOf(n)) + Unsent(n) >= Cardinality(Waiting(n))
    BY <1>2 DEF Enough
  <2>11. Cardinality(CopiesOf(n)) \in Nat
    BY <2>5, QueueType, CopiesFinite
  <2> QED BY <2>6, <2>7, <2>8, <2>9, <2>10, <2>11, WaitingFinite
<1>14. ASSUME NEW u \in User, Number(u) PROVE Enough'
  <2> DEFINE k == Len(log) + 1
  <2>1. NextNum(msgn) = k
    BY <1>1, <1>2, LogType, ConstantsAssumption DEF NextNum, NoWrap
  <2>2. /\ Len(log') = k /\ Len(log) \in Nat
        /\ \A n \in 1..Len(log) : log'[n] = log[n]
        /\ log'[k].by = u
    BY <1>14, NumberAppends, LogType
  <2>3. UNCHANGED <<queue, rpc, rnum>>
    BY <1>14 DEF Number, recvVars
  <2>4. /\ \A w \in User \ {u} : spc'[w] = spc[w] /\ stype'[w] = stype[w] /\ scopies'[w] = scopies[w]
        /\ spc'[u] = "send" /\ spc[u] = "number" /\ stype'[u] = k /\ scopies'[u] = total
    BY <1>14, <2>1 DEF TypeOK, Number, Copies
  <2> SUFFICES ASSUME NEW n \in 1..Len(log')
               PROVE  Cardinality(CopiesOf(n)') + Unsent(n)' >= Cardinality(Waiting(n)')
    BY DEF Enough
  <2>5. CopiesOf(n)' = CopiesOf(n) /\ Waiting(n)' = Waiting(n)
    BY <2>3 DEF CopiesOf, Waiting
  <2>6. CASE n \in 1..Len(log)
    <3>1. Unsent(n)' = Unsent(n)
      BY <1>3, <2>2, <2>4, <2>6 DEF Unsent
    <3> QED BY <1>2, <2>5, <2>6, <3>1 DEF Enough
  <2>7. CASE n = k
    <3>1. Unsent(n)' = total
      BY <2>2, <2>4, <2>7 DEF Unsent
    <3>2. Cardinality(CopiesOf(n)) \in Nat
      BY CopiesOfIn, CopiesFinite, QueueType
    <3>3. Cardinality(Waiting(n)) <= total
      BY <1>1, ReceiversCounted
    <3> QED BY <2>5, <3>1, <3>2, <3>3, WaitingFinite DEF TypeOK
  <2> QED BY <2>2, <2>6, <2>7
<1>15. ASSUME NEW u \in User, Receive(u) PROVE Enough'
  <2>1. UNCHANGED <<log, spc, stype, scopies>> /\ rpc[u] = "recv"
    BY <1>15 DEF Receive, sendVars
  <2>2. PICK i \in 1..Len(queue) :
           /\ rnum' = [rnum EXCEPT ![u] = rnum[u] + 1]
           /\ rnum[u] + 1 \in 1..Len(log)
           /\ queue[i].mtype = rnum[u] + 1
           /\ queue[i] = log[rnum[u] + 1].msg
           /\ rbuf' = [rbuf EXCEPT ![u] = queue[i]]
           /\ queue' = RemoveAt(queue, i)
           /\ rpc' = [rpc EXCEPT ![u] = IF OwnQuit(u, queue[i]) THEN "exit" ELSE "recv"]
    BY <1>1, <1>15, Received
  <2> DEFINE k == rnum[u] + 1
  <2> SUFFICES ASSUME NEW n \in 1..Len(log)
               PROVE  Cardinality(CopiesOf(n)') + Unsent(n)' >= Cardinality(Waiting(n)')
    BY <2>1 DEF Enough
  <2>3. CopiesOf(n) = CopiesAt(queue, n) /\ CopiesOf(n)' = CopiesAt(RemoveAt(queue, i), n)
    <3>1. DOMAIN queue' = 1..Len(queue')
      BY <1>1, LenProperties DEF TypeOK
    <3> QED BY <2>2, <3>1, CopiesOfIn DEF CopiesOf, CopiesAt
  <2>4. Cardinality(CopiesOf(n)') = IF n = k THEN Cardinality(CopiesOf(n)) - 1
                                             ELSE Cardinality(CopiesOf(n))
    BY <2>2, <2>3, QueueType, CopiesRemoved
  <2>5. Cardinality(CopiesOf(n)) \in Nat
    BY <2>3, QueueType, CopiesFinite
  <2>6. Unsent(n)' = Unsent(n)
    BY <2>1 DEF Unsent
  <2>7. Cardinality(CopiesOf(n)) + Unsent(n) >= Cardinality(Waiting(n))
    BY <1>2 DEF Enough
  <2>8. Cardinality(Waiting(n)') <= IF n = k THEN Cardinality(Waiting(n)) - 1
                                             ELSE Cardinality(Waiting(n))
    <3>1. rnum[u] \in Nat /\ k \in Nat /\ rnum'[u] = k
          /\ \A w \in User \ {u} : rnum'[w] = rnum[w] /\ rpc'[w] = rpc[w]
      BY <2>2 DEF TypeOK
    <3>2. CASE n = k
      <4>1. u \in Waiting(n)
        BY <2>1, <3>1, <3>2 DEF Waiting
      <4>2. Waiting(n)' \subseteq Waiting(n) \ {u}
        BY <3>1, <3>2 DEF Waiting
      <4>3. /\ IsFiniteSet(Waiting(n) \ {u})
            /\ Cardinality(Waiting(n) \ {u}) = Cardinality(Waiting(n)) - 1
        BY <4>1, WaitingFinite, FS_RemoveElement
      <4>4. Cardinality(Waiting(n)') <= Cardinality(Waiting(n) \ {u})
        BY <4>2, <4>3, FS_Subset
      <4> QED BY <3>2, <4>3, <4>4
    <3>3. CASE n # k
      <4>1. Waiting(n)' \subseteq Waiting(n)
        BY <2>1, <3>1, <3>3 DEF Waiting
      <4>2. Cardinality(Waiting(n)') <= Cardinality(Waiting(n))
        BY <4>1, WaitingFinite, FS_Subset
      <4> QED BY <3>3, <4>2
    <3> QED BY <3>2, <3>3
  <2>9. Cardinality(Waiting(n)') \in Nat
    <3>1. IsFiniteSet(Waiting(n)')
      BY ConstantsAssumption, FS_Subset DEF Waiting
    <3> QED BY <3>1, FS_CardinalityType
  <2> QED BY <2>4, <2>5, <2>6, <2>7, <2>8, <2>9, UnsentType, WaitingFinite
<1> QED BY <1>5, <1>6, <1>7, <1>8, <1>9, <1>10, <1>11, <1>12, <1>13, <1>14, <1>15
        DEF Next, ReceiverStep, SenderStep

(* However logins, logouts and broadcasts interleave, while nobody is      *)
(* killed each receiver finds a copy of its own of every message that is   *)
(* numbered after it started to listen.                                    *)
THEOREM NoStarveCorrect == Spec => []NoStarve
<1>1. Init => LockHeldByOne /\ NoStarve
  <2> SUFFICES ASSUME Init PROVE LockHeldByOne /\ NoStarve
    OBVIOUS
  <2>1. log = <<>>
    BY DEF Init
  <2>2. Len(log) = 0
    BY <2>1
  <2> QED BY <2>2 DEF Init, LockHeldByOne, InCS, NoStarve
<1>2. /\ TypeOK /\ Control /\ Setup /\ LockHeldByOne /\ Slots /\ Ordered /\ NoStarve
      /\ [][Next]_vars
      => [](TypeOK /\ Control /\ Setup /\ LockHeldByOne /\ Slots /\ Ordered /\ NoStarve)
  BY TypeStep, SetupStep, LockStep, SlotsStep, OrderedStep, EnoughStep, PTL
<1> QED BY TypeInit, SetupInit, SlotsInit, OrderedInit, <1>1, <1>2, PTL DEF Spec

-----------------------------------------------------------------------------
(* No deadlock but one. *)

(* What lets main, receiver and sender of u take their next step.          *)
MainCan(u) ==
  \/ mpc[u] \in {"setval", "login", "leave", "free"}
  \/ mpc[u] = "attached" /\ sem > 0
  \/ mpc[u] = "slot" /\ \E i \in 1..MaxUsers : FreeId(i)
  \/ mpc[u] = "wait" /\ rpc[u] = "exit" /\ spc[u] = "exit" /\ sem > 0
ReceiverCan(u) ==
  \/ rpc[u] = "new"
  \/ rpc[u] = "recv" /\ \E i \in DOMAIN queue : IsFirst(i, NextNum(rnum[u]))
SenderCan(u) ==
  \/ spc[u] = "typed" /\ sem > 0
  \/ spc[u] = "number"
  \/ spc[u] = "send" /\ (scopies[u] = 0 \/ (scopies[u] > 0 /\ Len(queue) < QueueCap))
Can(u) == MainCan(u) \/ ReceiverCan(u) \/ SenderCan(u)

(* A process of u is in the middle of something, or has not heard all that *)
(* was numbered: the room is not merely waiting for its users.             *)
Busy(u) ==
  \/ mpc[u] \in {"setval", "attached", "login", "slot", "leave", "free"}
  \/ mpc[u] = "wait" /\ rpc[u] = "exit" /\ spc[u] = "exit"
  \/ rpc[u] = "new" \/ (rpc[u] = "recv" /\ rnum[u] < Len(log))
  \/ spc[u] \in {"typed", "number", "send"}

(* A sender in front of a full queue.                                      *)
Blocked == \E u \in User : spc[u] = "send" /\ scopies[u] > 0 /\ Len(queue) >= QueueCap

NoDeadlock == ~removed /\ NoWrap /\ NoCrash /\ (\E u \in User : Busy(u)) =>
  Blocked \/ \E u \in User : Can(u)

(* While the semaphore is not set, its creator is about to set it, unless  *)
(* it was killed; and no sender has sent too many copies.                  *)
Creator ==
  /\ created = "no" => \A u \in User : mpc[u] = "out"
  /\ created = "made" /\ NoCrash => \E u \in User : mpc[u] = "setval"
CopiesLeft == ~removed /\ NoTorn => \A u \in User : spc[u] = "send" => scopies[u] >= 0

LEMMA CreatorStep == TypeOK /\ Setup /\ Creator /\ [Next]_vars => Creator'
<1> SUFFICES ASSUME TypeOK, Setup, Creator, [Next]_vars PROVE Creator'
  OBVIOUS
<1>1. NoCrash' => NoCrash
  BY KilledForEver
<1>2. ASSUME UNCHANGED <<created, mpc>> PROVE Creator'
  BY <1>1, <1>2 DEF Creator
<1>3. ASSUME NEW u \in User, SemGet(u) PROVE Creator'
  BY <1>1, <1>3 DEF TypeOK, Creator, SemGet
<1>4. ASSUME NEW u \in User, SetVal(u) PROVE Creator'
  BY <1>4 DEF Creator, SetVal
<1>5. ASSUME NEW u \in User, MainStep(u), ~SetVal(u) PROVE Creator'
  <2>1. /\ created' = created /\ mpc[u] \notin {"out", "setval"}
        /\ \A w \in User \ {u} : mpc'[w] = mpc[w]
    BY <1>5 DEF TypeOK, MainStep, LockLogin, Reject, CountLogin, Login, LockLeave,
                CountLeave, Leave
  <2> QED BY <1>1, <2>1 DEF Creator
<1>6. ASSUME NEW u \in User, Crash(u) PROVE Creator'
  <2>1. created' = created /\ mpc[u] # "out" /\ Killed(u)'
    BY <1>6 DEF TypeOK, Crash, Killed
  <2>2. ~NoCrash'
    BY <2>1 DEF NoCrash
  <2> QED BY <2>1, <2>2 DEF Creator
<1>7. ASSUME NEW u \in User, ReceiverStep(u) \/ SenderStep(u) \/ \E t \in Text : Type(u, t)
      PROVE  Creator'
  BY <1>2, <1>7 DEF ReceiverStep, SenderStep, StartReceiver, Receive, ReceiveFail, LockSend,
                    Number, SendCopy, EndSend, Type
<1> QED BY <1>2, <1>3, <1>4, <1>5, <1>6, <1>7 DEF Next, vars

LEMMA CopiesLeftStep ==
  TypeOK /\ Slots /\ CopiesLeft /\ [Next]_vars => CopiesLeft'
<1> SUFFICES ASSUME TypeOK, Slots, CopiesLeft, [Next]_vars, ~removed', NoTorn'
             PROVE  \A u \in User : spc'[u] = "send" => scopies'[u] >= 0
  BY DEF CopiesLeft
<1>1. ~removed /\ NoTorn /\ total \in Nat
  BY RemovedForEver, TornForEver, UsersFinite DEF Slots
<1>2. \A u \in User : spc[u] = "send" => scopies[u] >= 0
  BY <1>1 DEF CopiesLeft
<1>3. ASSUME scopies' = scopies, \A u \in User : spc'[u] = "send" => spc[u] = "send"
      PROVE  \A u \in User : spc'[u] = "send" => scopies'[u] >= 0
  BY <1>2, <1>3
<1>4. ASSUME NEW u \in User, SemGet(u) \/ MainStep(u) \/ ReceiverStep(u) \/ LockSend(u)
                               \/ EndSend(u) \/ Crash(u) \/ \E t \in Text : Type(u, t)
      PROVE  scopies' = scopies /\ \A w \in User : spc'[w] = "send" => spc[w] = "send"
  BY <1>4 DEF TypeOK, SemGet, MainStep, SetVal, LockLogin, Reject, CountLogin, Login,
              LockLeave, CountLeave, Leave, ReceiverStep, StartReceiver, Receive, ReceiveFail,
              LockSend, EndSend, Crash, Type, sendVars
<1>5. ASSUME NEW u \in User, Number(u)
      PROVE  \A w \in User : spc'[w] = "send" => scopies'[w] >= 0
  BY <1>1, <1>2, <1>5 DEF TypeOK, Number, Copies
<1>6. ASSUME NEW u \in User, SendCopy(u)
      PROVE  \A w \in User : spc'[w] = "send" => scopies'[w] >= 0
  BY <1>2, <1>6 DEF TypeOK, SendCopy
<1>7. CASE UNCHANGED vars
  BY <1>3, <1>7 DEF vars, sendVars
<1> QED BY <1>3, <1>4, <1>5, <1>6, <1>7 DEF Next, SenderStep

(* A receiver that has not heard a number takes a copy of it, or its       *)
(* sender sends one.                                                       *)
LEMMA ReceiverMoves ==
  ASSUME TypeOK, Ordered, NoStarve, CopiesLeft, ~removed, NoWrap, NoCrash, NoTorn,
         NEW u \in User, rpc[u] = "recv", rnum[u] < Len(log)
  PROVE  Blocked \/ \E w \in User : Can(w)
<1> DEFINE n == rnum[u] + 1
<1>1. n \in 1..Len(log) /\ n # 0 /\ NextNum(rnum[u]) = n
  <2>1. rnum[u] \in Nat /\ Len(log) \in Nat /\ Len(log) < MaxMsgn
    BY LogType, ConstantsAssumption DEF TypeOK, NoWrap
  <2> QED BY <2>1, ConstantsAssumption DEF NextNum
<1>2. Cardinality(CopiesOf(n)) + Unsent(n) >= Cardinality(Waiting(n))
  BY <1>1 DEF NoStarve
<1>3. Cardinality(Waiting(n)) > 0
  <2>1. u \in Waiting(n)
    BY <1>1 DEF Waiting, TypeOK
  <2> QED BY <2>1, WaitingFinite, FS_EmptySet
<1> HIDE DEF n
<1>4. CASE CopiesOf(n) # {}
  <2>1. CopiesOf(n) \in SUBSET Nat
    BY QueueType DEF CopiesOf
  <2>2. PICK i \in CopiesOf(n) : \A j \in CopiesOf(n) : i <= j
    BY <1>4, <2>1, LeastElement
  <2>3. i \in 1..Len(queue) /\ queue[i].mtype = n
    BY <2>2, QueueType DEF CopiesOf
  <2>4. \A j \in 1..(i-1) : queue[j].mtype # n
    <3> SUFFICES ASSUME NEW j \in 1..(i-1), queue[j].mtype = n PROVE FALSE
      OBVIOUS
    <3>1. j \in CopiesOf(n)
      BY <2>3, QueueType DEF CopiesOf
    <3> QED BY <2>2, <2>3, <3>1
  <2>5. IsFirst(i, n)
    BY <1>1, <2>3, <2>4 DEF IsFirst
  <2>6. ReceiverCan(u)
    BY <1>1, <2>3, <2>5, QueueType DEF ReceiverCan
  <2> QED BY <2>6 DEF Can
<1>5. CASE CopiesOf(n) = {}
  <2>1. Unsent(n) > 0
    BY <1>1, <1>2, <1>3, <1>5, FS_EmptySet, UnsentType, WaitingFinite
  <2> DEFINE w == log[n].by
  <2>2. w \in User
    BY <1>1, LogType DEF Entry
  <2>3. spc[w] = "send" /\ scopies[w] > 0
    BY <2>1 DEF Unsent
  <2> HIDE DEF w
  <2>4. Len(queue) < QueueCap \/ Len(queue) >= QueueCap
    BY QueueType, ConstantsAssumption
  <2> QED BY <2>2, <2>3, <2>4 DEF Blocked, Can, SenderCan
<1> QED BY <1>4, <1>5

(* Whoever waits for the lock gets it, or somebody inside can go on, or    *)
(* its creator sets it.                                                    *)
LEMMA LockMoves ==
  ASSUME TypeOK, Control, Setup, LockHeldByOne, Slots, Creator, ~removed, NoCrash, NoTorn,
         NEW u \in User, mpc[u] \in {"attached", "wait"} \/ spc[u] = "typed"
  PROVE  sem > 0 \/ \E w \in User : Can(w)
<1>1. CASE created = "set" /\ \A w \in User : ~InCS(w)
  BY <1>1 DEF LockHeldByOne
<1>2. ASSUME NEW w \in User, InCS(w) PROVE \E v \in User : Can(v)
  BY <1>2, SlotFound DEF InCS, Can, MainCan, SenderCan
<1>3. CASE created # "set"
  <2>1. mpc[u] # "out"
    BY DEF Control
  <2>2. created # "no"
    BY <2>1 DEF Creator
  <2>3. PICK w \in User : mpc[w] = "setval"
    BY <1>3, <2>2 DEF Creator, TypeOK
  <2> QED BY <2>3 DEF Can, MainCan
<1> QED BY <1>1, <1>2, <1>3

LEMMA Unblocked ==
  ASSUME TypeOK, Control, Setup, LockHeldByOne, Slots, Ordered, NoStarve, Creator, CopiesLeft
  PROVE  NoDeadlock
<1> SUFFICES ASSUME ~removed, NoWrap, NoCrash, NEW u \in User, Busy(u)
             PROVE  Blocked \/ \E w \in User : Can(w)
  BY DEF NoDeadlock
<1>0. NoTorn
  BY DEF NoCrash, NoTorn, Killed
<1>1. CASE mpc[u] \in {"setval", "login", "leave", "free"} \/ rpc[u] = "new" \/ spc[u] = "number"
  BY <1>1 DEF Can, MainCan, ReceiverCan, SenderCan
<1>2. CASE mpc[u] = "slot"
  BY <1>0, <1>2, SlotFound DEF Can, MainCan
<1>3. CASE mpc[u] = "attached" \/ (mpc[u] = "wait" /\ rpc[u] = "exit" /\ spc[u] = "exit")
  BY <1>0, <1>3, LockMoves DEF Can, MainCan
<1>4. CASE spc[u] = "typed"
  BY <1>0, <1>4, LockMoves DEF Can, SenderCan
<1>5. CASE spc[u] = "send"
  <2>1. scopies[u] = 0 \/ scopies[u] > 0
    BY <1>0, <1>5 DEF CopiesLeft, TypeOK
  <2>2. Len(queue) < QueueCap \/ Len(queue) >= QueueCap
    BY QueueType, ConstantsAssumption
  <2> QED BY <1>5, <2>1, <2>2 DEF Blocked, Can, SenderCan
<1>6. CASE rpc[u] = "recv" /\ rnum[u] < Len(log)
  BY <1>0, <1>6, ReceiverMoves
<1> QED BY <1>1, <1>2, <1>3, <1>4, <1>5, <1>6 DEF Busy

(* While nobody is killed and the numbers last, the room always comes to   *)
(* rest with every message heard by every receiver: no login, logout,      *)
(* broadcast or receiver waits for another in a circle, unless a sender    *)
(* stands before a full queue (sem_op in main and sender, msgrcv in        *)
(* receiver).                                                              *)
THEOREM DeadlockFree == Spec => []NoDeadlock
<1>1. Init => LockHeldByOne /\ NoStarve /\ Creator /\ CopiesLeft
  <2> SUFFICES ASSUME Init PROVE LockHeldByOne /\ NoStarve /\ Creator /\ CopiesLeft
    OBVIOUS
  <2>1. Len(log) = 0
    BY DEF Init
  <2> QED BY <2>1 DEF Init, LockHeldByOne, InCS, NoStarve, Creator, CopiesLeft
<1>2. /\ TypeOK /\ Control /\ Setup /\ LockHeldByOne /\ Slots /\ Ordered /\ NoStarve
      /\ Creator /\ CopiesLeft /\ [][Next]_vars
      => [](/\ TypeOK /\ Control /\ Setup /\ LockHeldByOne /\ Slots /\ Ordered /\ NoStarve
            /\ Creator /\ CopiesLeft)
  BY TypeStep, SetupStep, LockStep, SlotsStep, OrderedStep, EnoughStep, CreatorStep,
     CopiesLeftStep, PTL
<1> QED BY TypeInit, SetupInit, SlotsInit, OrderedInit, <1>1, <1>2, Unblocked, PTL DEF Spec
=============================================================================
