--------------------------- MODULE TokenTalkProof ---------------------------
(***************************************************************************)
(* Proofs about TokenTalk, for any number of users, any queue and any      *)
(* number of kills.  The inductive invariant has these parts:              *)
(*   Tokens    the tokens there are, and the one user 1 has yet to inject  *)
(*   Exact     with nobody killed: one token, one check-in for each user   *)
(*   Starting  the check-ins, while somebody is still out                  *)
(*   Order     the numbers in the log against the token and its holder     *)
(*   Delivery  what each receiver was given, against the log               *)
(* and, for the refinement of Broadcast, Ready: who is past the start has  *)
(* a receiver.                                                             *)
(***************************************************************************)
EXTENDS TokenTalk, FiniteSetTheorems, SequenceTheorems, TLAPS

Place == {"out", "barrier", "inject", "idle", "want", "send", "kill", "linger", "done"}

(* User 1 has yet to put its token into the queue.                         *)
Early == pc[1] \in {"out", "barrier", "inject"}
Owed == IF Early THEN 1 ELSE 0

(* The users that have checked in.                                         *)
In == {u \in User : pc[u] # "out"}

Tokens ==
  /\ \A u \in User : pc[u] \in {"inject", "linger"} => u = 1
  /\ ~removed => Len(tokens) + Cardinality(Holders) + Owed <= 1 + crashes

Starting == crashes = 0 =>
  /\ ~removed => checkins <= Cardinality(In)
  /\ (\E w \in User : pc[w] = "out") =>
       /\ ~removed /\ tokens = <<>> /\ \A u \in User : inbox[u] = <<>>
       /\ \A u \in User : pc[u] \in {"out", "barrier"}

Calm == crashes = 0 /\ ~removed

Exact == Calm =>
  Len(tokens) + Cardinality(Holders) + Owed = 1 /\ checkins = Cardinality(In)

Order == Calm =>
  /\ Early => log = <<>>
  /\ \A n \in DOMAIN log : log[n].num = n
  /\ tokens # <<>> => Head(tokens) = Len(log)
  /\ \A w \in Holders :
       /\ Len(log) > 0 /\ seq[w] = Len(log)
       /\ log[Len(log)] = [from |-> w, num |-> seq[w], text |-> sline[w]]
       /\ \A k \in DOMAIN todo[w] : todo[w][k] # w
       /\ \A j, k \in DOMAIN todo[w] : todo[w][j] = todo[w][k] => j = k

Got(u) == heard[u] \o inbox[u]
OnList(u) == \E w \in Holders : Contains(todo[w], u)

GotFromLog(u) == \A i \in DOMAIN Got(u) :
  Got(u)[i].from # u /\ Got(u)[i].num \in DOMAIN log /\ Got(u)[i] = log[Got(u)[i].num]
GotInOrder(u) == \A i, j \in DOMAIN Got(u) : i < j => Got(u)[i].num < Got(u)[j].num
GotAll(u) == \A n \in DOMAIN log : log[n].from # u =>
  (\E i \in DOMAIN Got(u) : Got(u)[i] = log[n]) \/ (n = Len(log) /\ OnList(u))
GotBefore(u) == OnList(u) => \A i \in DOMAIN Got(u) : Got(u)[i].num < Len(log)

Delivery == Calm =>
  \A u \in User : GotFromLog(u) /\ GotInOrder(u) /\ GotAll(u) /\ GotBefore(u)

IInv == TypeOK /\ IsFiniteSet(Waiting) /\ Tokens /\ Exact /\ Starting /\ Order /\ Delivery

-----------------------------------------------------------------------------
(* Typing, and the load of the queue: a message sent adds one pair to      *)
(* Waiting, a message taken takes the pair with the largest position out.  *)

LEMMA Recipients_ ==
  ASSUME NEW u \in User
  PROVE  /\ Recipients(u) \in Seq(User) /\ Len(Recipients(u)) = N - 1
         /\ \A k \in 1..(N-1) : Recipients(u)[k] # u
         /\ \A j, k \in 1..(N-1) : Recipients(u)[j] = Recipients(u)[k] => j = k
         /\ \A w \in User : w # u => Contains(Recipients(u), w)
<1>1. N \in Nat /\ N - 1 \in Nat /\ u \in Nat /\ 1 <= u /\ u <= N
  BY TokenAssumption DEF User
<1>2. \A k \in 1..(N-1) : (IF k < u THEN k ELSE k + 1) \in User
  BY <1>1 DEF User
<1>3. Recipients(u) \in [1..(N-1) -> User]
  BY <1>2 DEF Recipients
<1>4. Recipients(u) \in Seq(User) /\ Len(Recipients(u)) = N - 1
  BY <1>1, <1>3
<1>5. \A k \in 1..(N-1) : Recipients(u)[k] = IF k < u THEN k ELSE k + 1
  BY DEF Recipients
<1>6. ASSUME NEW w \in User, w # u PROVE Contains(Recipients(u), w)
  <2>1. w \in Nat /\ 1 <= w /\ w <= N
    BY <1>1 DEF User
  <2>2. PICK k \in 1..(N-1) : (k < u /\ w = k) \/ (~(k < u) /\ w = k + 1)
    <3>1. CASE w < u
      <4>1. w \in 1..(N-1)
        BY <1>1, <2>1, <3>1
      <4> QED BY <3>1, <4>1
    <3>2. CASE w > u
      <4>1. w - 1 \in 1..(N-1) /\ ~(w - 1 < u) /\ w = (w - 1) + 1
        BY <1>1, <2>1, <3>2
      <4> QED BY <4>1
    <3> QED BY <1>1, <1>6, <2>1, <3>1, <3>2
  <2>3. Recipients(u)[k] = w
    BY <1>5, <2>2
  <2> QED BY <1>4, <2>3 DEF Contains
<1>7. /\ \A k \in 1..(N-1) : Recipients(u)[k] # u
      /\ \A j, k \in 1..(N-1) : Recipients(u)[j] = Recipients(u)[k] => j = k
  BY <1>1, <1>5
<1> QED BY <1>4, <1>6, <1>7

LEMMA LoadStep ==
  ASSUME TypeOK, IsFiniteSet(Waiting), [Next]_vars
  PROVE  IsFiniteSet(Waiting)' /\ (Load <= QueueCap)'
<1> USE DEF TypeOK
<1>a. Cardinality(Waiting) \in Nat /\ Len(tokens) \in Nat /\ QueueCap \in Nat
  BY FS_CardinalityType, TokenAssumption
<1>b. Load = Len(tokens) + Cardinality(Waiting) /\ Load <= QueueCap
  BY DEF Load
<1>1. CASE UNCHANGED <<tokens, inbox>>
  BY <1>1 DEF Load, Waiting
<1>2. ASSUME UNCHANGED inbox, Room, NEW n \in Nat, tokens' = Append(tokens, n)
      PROVE  IsFiniteSet(Waiting)' /\ (Load <= QueueCap)'
  <2>1. Waiting' = Waiting /\ Len(tokens') = Len(tokens) + 1
    BY <1>2 DEF Waiting
  <2> QED BY <1>2, <1>a, <2>1 DEF Load, Room
<1>3. ASSUME NEW u \in User, Inject(u) PROVE IsFiniteSet(Waiting)' /\ (Load <= QueueCap)'
  BY <1>2, <1>3 DEF Inject
<1>4. ASSUME NEW u \in User, ReturnToken(u)
      PROVE  IsFiniteSet(Waiting)' /\ (Load <= QueueCap)'
  <2>1. CASE removed
    BY <1>1, <1>4, <2>1 DEF ReturnToken
  <2>2. CASE ~removed
    BY <1>2, <1>4, <2>2 DEF ReturnToken, Returned
  <2> QED BY <2>1, <2>2
<1>5. ASSUME NEW u \in User, TakeToken(u) PROVE IsFiniteSet(Waiting)' /\ (Load <= QueueCap)'
  <2>1. Waiting' = Waiting /\ Len(tokens') = Len(tokens) - 1
    BY <1>5 DEF Waiting, TakeToken
  <2> QED BY <1>a, <1>b, <2>1 DEF Load
<1>6. ASSUME NEW u \in User, RemoveQueue(u) PROVE IsFiniteSet(Waiting)' /\ (Load <= QueueCap)'
  <2>1. tokens' = <<>> /\ \A w \in User : inbox'[w] = <<>>
    BY <1>6 DEF RemoveQueue
  <2>2. Waiting' = {}
    BY <2>1 DEF Waiting
  <2> QED BY <1>a, <2>1, <2>2, FS_EmptySet DEF Load
<1>7. ASSUME NEW u \in User, SendTo(u) PROVE IsFiniteSet(Waiting)' /\ (Load <= QueueCap)'
  <2>1. CASE removed
    BY <1>1, <1>7, <2>1 DEF SendTo
  <2>2. CASE ~removed
    <3>1. Head(todo[u]) \in User /\ [from |-> u, num |-> seq[u], text |-> sline[u]] \in Message
      BY <1>7 DEF SendTo, Message
    <3>2. PICK h \in User, m \in Message : inbox' = [inbox EXCEPT ![h] = Append(inbox[h], m)]
      BY <1>7, <2>2, <3>1 DEF SendTo
    <3>3. Room /\ tokens' = tokens
      BY <1>7, <2>2 DEF SendTo
    <3>4. \A w \in User : DOMAIN inbox'[w] = IF w = h THEN 1..(Len(inbox[h]) + 1)
                                                      ELSE DOMAIN inbox[w]
      BY <3>2
    <3>5. Waiting' = Waiting \cup {<<h, Len(inbox[h]) + 1>>}
      <4>1. DOMAIN inbox'[h] = DOMAIN inbox[h] \cup {Len(inbox[h]) + 1}
        BY <3>2, <3>4
      <4>2. \A w \in User : w # h => DOMAIN inbox'[w] = DOMAIN inbox[w]
        BY <3>4
      <4>3. \A x : x \in Waiting <=> \E w \in User : \E i \in DOMAIN inbox[w] : x = <<w, i>>
        BY DEF Waiting
      <4>4. \A x : x \in Waiting' <=> \E w \in User : \E i \in DOMAIN inbox'[w] : x = <<w, i>>
        BY DEF Waiting
      <4> HIDE DEF TypeOK
      <4> QED BY <4>1, <4>2, <4>3, <4>4
    <3>6. Cardinality(Waiting') <= Cardinality(Waiting) + 1 /\ IsFiniteSet(Waiting')
      <4>1. /\ IsFiniteSet(Waiting \cup {<<h, Len(inbox[h]) + 1>>})
            /\ Cardinality(Waiting \cup {<<h, Len(inbox[h]) + 1>>}) \in
                 {Cardinality(Waiting), Cardinality(Waiting) + 1}
        BY FS_AddElement
      <4> QED BY <1>a, <3>5, <4>1
    <3> QED BY SMTT(30), <1>a, <3>3, <3>6, FS_CardinalityType DEF Load, Room
  <2> QED BY <2>1, <2>2
<1>8. ASSUME NEW u \in User, Receive(u) PROVE IsFiniteSet(Waiting)' /\ (Load <= QueueCap)'
  <2>1. inbox[u] \in Seq(Message) /\ inbox' = [inbox EXCEPT ![u] = Tail(inbox[u])]
        /\ inbox[u] # <<>> /\ tokens' = tokens
    BY <1>8 DEF Receive
  <2>2. \A w \in User : DOMAIN inbox'[w] \subseteq DOMAIN inbox[w]
    BY <2>1
  <2>3. Waiting' \subseteq Waiting
    BY <2>2 DEF Waiting
  <2>4. Cardinality(Waiting') <= Cardinality(Waiting) /\ IsFiniteSet(Waiting')
    BY <2>3, FS_Subset
  <2> QED BY <1>a, <1>b, <2>1, <2>4, FS_CardinalityType DEF Load
<1>9. ASSUME NEW u \in User,
             \/ CheckIn(u) \/ Pass(u) \/ KillReceiver(u) \/ (\E t \in Text : Type(u, t))
             \/ EndOfInput(u) \/ TokenGone(u) \/ ReceiveFail(u) \/ Crash(u)
      PROVE  UNCHANGED <<tokens, inbox>>
  BY <1>9 DEF CheckIn, Pass, KillReceiver, Type, EndOfInput, TokenGone, ReceiveFail, Crash, queue
<1> QED BY <1>1, <1>3, <1>4, <1>5, <1>6, <1>7, <1>8, <1>9
        DEF Next, MainStep, ReceiverStep, vars, queue

LEMMA TypeStep ==
  ASSUME TypeOK, IsFiniteSet(Waiting), [Next]_vars
  PROVE  TypeOK'
<1> USE DEF TypeOK
<1>0. (Load <= QueueCap)'
  BY LoadStep
<1>1. CASE UNCHANGED vars
  BY <1>0, <1>1 DEF vars, queue, sendVars, recvVars, bounds
<1>2. ASSUME NEW u \in User, CheckIn(u) PROVE TypeOK'
  BY <1>0, <1>2 DEF CheckIn, recvVars, bounds
<1>3. ASSUME NEW u \in User, Pass(u) PROVE TypeOK'
  BY <1>0, <1>3 DEF Pass, queue, bounds
<1>4. ASSUME NEW u \in User, Inject(u) PROVE TypeOK'
  <2>1. tokens' \in Seq(Nat)
    BY <1>4 DEF Inject
  <2> QED BY <1>0, <1>4, <2>1 DEF Inject, bounds
<1>5. ASSUME NEW u \in User, KillReceiver(u) PROVE TypeOK'
  BY <1>0, <1>5 DEF KillReceiver, queue, bounds
<1>6. ASSUME NEW u \in User, RemoveQueue(u) PROVE TypeOK'
  <2>1. removed' \in BOOLEAN /\ checkins' \in Nat /\ tokens' \in Seq(Nat)
        /\ inbox' \in [User -> Seq(Message)]
    <3>1. removed' \in BOOLEAN
      BY <1>6, Zenon DEF RemoveQueue
    <3>2. checkins' \in Nat /\ tokens' \in Seq(Nat) /\ inbox' \in [User -> Seq(Message)]
      BY <1>6 DEF RemoveQueue
    <3> QED BY <3>1, <3>2
  <2>2. pc' \in [User -> Place]
    BY <1>6 DEF RemoveQueue, Place
  <2>3. UNCHANGED <<sline, seq, todo, recvVars, bounds, log>>
    BY <1>6 DEF RemoveQueue
  <2> QED BY <1>0, <2>1, <2>2, <2>3 DEF recvVars, bounds, Place
<1>7. ASSUME NEW u \in User, NEW t \in Text, Type(u, t) PROVE TypeOK'
  <2>1. lines' \in 0..MaxLines
    BY <1>7, TokenAssumption DEF Type
  <2> QED BY <1>0, <1>7, <2>1 DEF Type, queue, recvVars
<1>8. ASSUME NEW u \in User, EndOfInput(u) \/ TokenGone(u) PROVE TypeOK'
  <2>1. PICK l \in {"kill", "done"} : pc' = [pc EXCEPT ![u] = l]
    BY <1>8 DEF EndOfInput, TokenGone
  <2>2. UNCHANGED <<queue, sline, seq, todo, recvVars, bounds, log>>
    BY <1>8 DEF EndOfInput, TokenGone
  <2> QED BY <1>0, <2>1, <2>2 DEF queue, recvVars, bounds
<1>9. ASSUME NEW u \in User, TakeToken(u) PROVE TypeOK'
  <2>1. tokens' \in Seq(Nat) /\ Head(tokens) + 1 \in Nat
    BY <1>9 DEF TakeToken
  <2>2. [from |-> u, num |-> Head(tokens) + 1, text |-> sline[u]] \in Message
    BY <2>1 DEF Message
  <2>3. log' \in Seq(Message)
    BY SMTT(30), <1>9, <2>2 DEF TakeToken
  <2>4. todo' \in [User -> Seq(User)] /\ seq' \in [User -> Nat]
    BY <1>9, <2>1, Recipients_ DEF TakeToken
  <2>5. pc' \in [User -> Place] /\ UNCHANGED <<checkins, inbox, removed, sline, recvVars, bounds>>
    BY <1>9 DEF TakeToken, Place
  <2> QED BY <1>0, <2>1, <2>3, <2>4, <2>5 DEF recvVars, bounds, Place
<1>10. ASSUME NEW u \in User, SendTo(u) PROVE TypeOK'
  <2>1. todo' \in [User -> Seq(User)] /\ Head(todo[u]) \in User
    BY SMTT(30), <1>10 DEF SendTo
  <2>2. [from |-> u, num |-> seq[u], text |-> sline[u]] \in Message
    BY DEF Message
  <2>3. inbox' \in [User -> Seq(Message)]
    BY SMTT(30), <1>10, <2>1, <2>2 DEF SendTo
  <2> QED BY <1>0, <1>10, <2>1, <2>3 DEF SendTo, recvVars, bounds
<1>11. ASSUME NEW u \in User, ReturnToken(u) PROVE TypeOK'
  <2>1. tokens' \in Seq(Nat)
    BY <1>11 DEF ReturnToken, Returned
  <2>2. pc' \in [User -> Place]
    BY <1>11 DEF ReturnToken, Place
  <2> QED BY <1>0, <1>11, <2>1, <2>2 DEF ReturnToken, recvVars, bounds, Place
<1>12. ASSUME NEW u \in User, Receive(u) PROVE TypeOK'
  <2>1. inbox[u] \in Seq(Message) /\ inbox[u] # <<>>
    BY <1>12 DEF Receive
  <2>2. heard' \in [User -> Seq(Message)]
    BY <1>12, <2>1 DEF Receive, NextOf
  <2>3. inbox' \in [User -> Seq(Message)]
    BY <1>12, <2>1 DEF Receive
  <2>4. rpc' \in [User -> {"none", "recv", "done"}]
    BY <1>12 DEF Receive
  <2> QED BY <1>0, <1>12, <2>2, <2>3, <2>4 DEF Receive, sendVars, bounds
<1>13. ASSUME NEW u \in User, ReceiveFail(u) PROVE TypeOK'
  BY <1>0, <1>13 DEF ReceiveFail, queue, sendVars, bounds
<1>14. ASSUME NEW u \in User, Crash(u) PROVE TypeOK'
  <2>1. crashes' \in 0..MaxCrashes
    BY <1>14, TokenAssumption DEF Crash
  <2> QED BY <1>0, <1>14, <2>1 DEF Crash, queue
<1> QED BY <1>1, <1>2, <1>3, <1>4, <1>5, <1>6, <1>7, <1>8, <1>9, <1>10, <1>11, <1>12,
           <1>13, <1>14 DEF Next, MainStep, ReceiverStep

-----------------------------------------------------------------------------
(* The tokens.  Holders gains or loses the user that moves.                *)

LEMMA UserFinite ==
  /\ IsFiniteSet(User) /\ Cardinality(User) = N /\ N \in Nat /\ 1 \in User
  /\ IsFiniteSet(Holders) /\ Cardinality(Holders) \in Nat
  /\ IsFiniteSet(In) /\ Cardinality(In) \in Nat
<1>1. N \in Nat /\ 1 \in 1..N
  BY TokenAssumption
<1>2. IsFiniteSet(1..N) /\ Cardinality(1..N) = N
  BY <1>1, FS_Interval
<1>3. Holders \subseteq 1..N /\ In \subseteq 1..N
  BY DEF Holders, In, User
<1> QED BY <1>1, <1>2, <1>3, FS_Subset, FS_CardinalityType DEF User

LEMMA HoldersMove ==
  ASSUME TypeOK, NEW u \in User, NEW l \in Place, pc' = [pc EXCEPT ![u] = l]
  PROVE  /\ pc[u] # "send" /\ l # "send" => Holders' = Holders
         /\ pc[u] = "send" /\ l # "send"
              => Holders' = Holders \ {u} /\ Cardinality(Holders') = Cardinality(Holders) - 1
         /\ pc[u] # "send" /\ l = "send"
              => Holders' = Holders \cup {u} /\ Cardinality(Holders') = Cardinality(Holders) + 1
<1>1. \A w \in User : pc'[w] = IF w = u THEN l ELSE pc[w]
  BY DEF TypeOK
<1>2. ASSUME pc[u] # "send", l # "send" PROVE Holders' = Holders
  BY <1>1, <1>2 DEF Holders
<1>3. ASSUME pc[u] = "send", l # "send" PROVE u \in Holders /\ Holders' = Holders \ {u}
  BY <1>1, <1>3 DEF Holders
<1>4. ASSUME pc[u] # "send", l = "send" PROVE u \notin Holders /\ Holders' = Holders \cup {u}
  BY <1>1, <1>4 DEF Holders
<1> QED BY <1>2, <1>3, <1>4, UserFinite, FS_AddElement, FS_RemoveElement

(* With nobody killed, a holder is the only one and there is no token in   *)
(* the queue, and user 1 owes a token only when there is none.             *)
LEMMA OneToken ==
  ASSUME TypeOK, Tokens, Calm
  PROVE  /\ \A u, w \in Holders : u = w
         /\ \A u \in Holders : tokens = <<>> /\ ~Early
         /\ tokens # <<>> => Holders = {} /\ ~Early /\ Tail(tokens) = <<>>
<1>1. Len(tokens) + Cardinality(Holders) + Owed <= 1 /\ Len(tokens) \in Nat /\ Owed \in {0, 1}
  BY DEF Tokens, Calm, TypeOK, Owed
<1>2. ASSUME NEW u \in Holders, NEW w \in Holders, u # w PROVE FALSE
  <2>1. Cardinality(Holders \ {u}) = Cardinality(Holders) - 1 /\ IsFiniteSet(Holders \ {u})
    BY UserFinite, FS_RemoveElement
  <2>2. Cardinality(Holders \ {u}) # 0
    BY <1>2, <2>1, FS_EmptySet
  <2>3. Cardinality(Holders \ {u}) \in Nat
    BY <2>1, FS_CardinalityType
  <2> QED BY <1>1, <2>1, <2>2, <2>3, UserFinite
<1>3. Holders # {} => Cardinality(Holders) >= 1
  BY UserFinite, FS_EmptySet
<1>4. Holders # {} => Len(tokens) = 0 /\ Owed = 0
  BY <1>1, <1>3, UserFinite
<1>5. Len(tokens) = 0 => tokens = <<>>
  BY DEF TypeOK
<1>6. ASSUME tokens # <<>> PROVE Holders = {} /\ Owed = 0 /\ Tail(tokens) = <<>>
  <2>1. tokens \in Seq(Nat) /\ Len(tokens) >= 1
    BY <1>1, <1>5, <1>6 DEF TypeOK
  <2>2. Len(tokens) = 1 /\ Owed = 0 /\ Cardinality(Holders) = 0
    <3>1. Cardinality(Holders) \in Nat
      BY UserFinite
    <3>2. \A a, b, c \in Nat : a + b + c <= 1 /\ a >= 1 => a = 1 /\ b = 0 /\ c = 0
      OBVIOUS
    <3>3. Len(tokens) \in Nat /\ Owed \in Nat
      BY <1>1
    <3> QED BY <1>1, <2>1, <3>1, <3>2, <3>3
  <2>3. Tail(tokens) \in Seq(Nat) /\ Len(Tail(tokens)) = 0
    BY <1>6, <2>1, <2>2
  <2>4. Tail(tokens) = <<>>
    BY <2>3, EmptySeq
  <2> QED BY <1>3, <2>2, <2>4
<1> QED BY <1>2, <1>4, <1>5, <1>6 DEF Owed

LEMMA TokensStep ==
  ASSUME TypeOK, Tokens, [Next]_vars
  PROVE  Tokens'
<1>0. /\ Len(tokens) \in Nat /\ Owed \in {0, 1} /\ crashes \in Nat /\ 1 \in User
      /\ Cardinality(Holders) \in Nat
  BY UserFinite, TokenAssumption DEF TypeOK, Owed
<1>1. CASE UNCHANGED <<tokens, pc, removed, crashes>>
  BY <1>1 DEF Tokens, Holders, Owed, Early
<1>2. ASSUME NEW u \in User, NEW l \in Place, pc' = [pc EXCEPT ![u] = l],
             l \in {"inject", "linger"} => u = 1
      PROVE  /\ \A w \in User : pc'[w] = IF w = u THEN l ELSE pc[w]
             /\ \A w \in User : pc'[w] \in {"inject", "linger"} => w = 1
  BY <1>2 DEF TypeOK, Tokens
<1>3. ASSUME NEW u \in User, NEW l \in Place \ {"send", "out"}, pc' = [pc EXCEPT ![u] = l],
             l \in {"inject", "linger"} => u = 1,
             l \in {"barrier", "inject"} => pc[u] \in {"out", "barrier", "inject"}, pc[u] # "send",
             UNCHANGED <<tokens, removed, crashes>>
      PROVE  Tokens'
  <2>1. Holders' = Holders
    BY <1>3, HoldersMove
  <2>2. Owed' <= Owed
    BY <1>0, <1>2, <1>3 DEF Owed, Early
  <2>3. Owed' \in {0, 1}
    BY DEF Owed
  <2> QED BY <1>0, <1>2, <1>3, <2>1, <2>2, <2>3 DEF Tokens
<1>4. ASSUME NEW u \in User,
             \/ CheckIn(u) \/ Pass(u) \/ KillReceiver(u) \/ (\E t \in Text : Type(u, t))
             \/ EndOfInput(u) \/ TokenGone(u)
      PROVE  Tokens'
  <2>1. PICK l \in Place \ {"send", "out"} :
          /\ pc' = [pc EXCEPT ![u] = l]
          /\ l \in {"inject", "linger"} => u = 1
          /\ l \in {"barrier", "inject"} => pc[u] \in {"out", "barrier", "inject"}
    BY <1>4 DEF CheckIn, Pass, KillReceiver, Type, EndOfInput, TokenGone, Injects, Place
  <2>2. pc[u] # "send" /\ UNCHANGED <<tokens, removed, crashes>>
    BY <1>4 DEF CheckIn, Pass, KillReceiver, Type, EndOfInput, TokenGone, queue, bounds
  <2> QED BY <1>3, <2>1, <2>2
<1>5. ASSUME NEW u \in User, Inject(u) PROVE Tokens'
  <2>1. pc[u] = "inject" /\ pc' = [pc EXCEPT ![u] = "idle"] /\ tokens' = Append(tokens, 0)
        /\ UNCHANGED <<removed, crashes>>
    BY <1>5 DEF Inject, bounds
  <2>2. u = 1
    BY <2>1 DEF Tokens
  <2>3. Owed = 1 /\ Owed' = 0
    <3>1. pc[1] = "inject" /\ pc'[1] = "idle"
      BY <2>1, <2>2 DEF TypeOK
    <3>2. Early /\ ~Early'
      BY <3>1 DEF Early
    <3> QED BY <3>2 DEF Owed
  <2>4. Holders' = Holders
    BY <2>1, HoldersMove DEF Place
  <2>5. Len(tokens') = Len(tokens) + 1
    BY <2>1 DEF TypeOK
  <2>6. \A w \in User : pc'[w] \in {"inject", "linger"} => w = 1
    BY <1>2, <2>1 DEF Place
  <2> QED BY <1>0, <2>1, <2>3, <2>4, <2>5, <2>6 DEF Tokens
<1>6. ASSUME NEW u \in User, RemoveQueue(u) PROVE Tokens'
  <2>1. removed' = TRUE /\ pc' = [pc EXCEPT ![u] = "done"]
    BY <1>6 DEF RemoveQueue
  <2>2. \A w \in User : pc'[w] \in {"inject", "linger"} => w = 1
    BY <1>2, <2>1 DEF Place
  <2> QED BY <2>1, <2>2 DEF Tokens
<1>7. ASSUME NEW u \in User, TakeToken(u) PROVE Tokens'
  <2>1. pc[u] = "want" /\ tokens # <<>> /\ pc' = [pc EXCEPT ![u] = "send"]
        /\ tokens' = Tail(tokens) /\ UNCHANGED <<removed, crashes>>
    BY <1>7 DEF TakeToken, bounds
  <2>2. Len(tokens') = Len(tokens) - 1
    BY <2>1 DEF TypeOK
  <2>3. Cardinality(Holders') = Cardinality(Holders) + 1
    BY <2>1, HoldersMove DEF Place
  <2>4. Owed' = Owed
    BY SMTT(30), <1>0, <1>2, <2>1 DEF Owed, Early, Place
  <2>5. \A w \in User : pc'[w] \in {"inject", "linger"} => w = 1
    BY <1>2, <2>1 DEF Place
  <2> QED BY <1>0, <2>1, <2>2, <2>3, <2>4, <2>5 DEF Tokens
<1>8. ASSUME NEW u \in User, ReturnToken(u) PROVE Tokens'
  <2>1. PICK l \in {"kill", "idle"} : pc' = [pc EXCEPT ![u] = l]
    BY <1>8 DEF ReturnToken
  <2>2. pc[u] = "send" /\ UNCHANGED <<removed, crashes>>
    BY <1>8 DEF ReturnToken, bounds
  <2>3. ~removed => Len(tokens') = Len(tokens) + 1
    BY <1>8 DEF ReturnToken, Returned, TypeOK
  <2>4. Cardinality(Holders') = Cardinality(Holders) - 1
    BY <2>1, <2>2, HoldersMove DEF Place
  <2>5. Owed' = Owed
    BY SMTT(30), <1>0, <1>2, <2>1, <2>2 DEF Owed, Early, Place
  <2>6. \A w \in User : pc'[w] \in {"inject", "linger"} => w = 1
    BY <1>2, <2>1 DEF Place
  <2> QED BY <1>0, <2>2, <2>3, <2>4, <2>5, <2>6 DEF Tokens
<1>9. ASSUME NEW u \in User, Crash(u) PROVE Tokens'
  <2>1. pc' = [pc EXCEPT ![u] = "out"] /\ crashes' = crashes + 1 /\ UNCHANGED <<removed, tokens>>
    BY <1>9 DEF Crash, queue
  <2>2. Cardinality(Holders') \in {Cardinality(Holders), Cardinality(Holders) - 1}
    BY <2>1, HoldersMove DEF Place
  <2>3. Owed' \in {0, 1}
    BY DEF Owed
  <2>4. pc[u] \in {"out", "barrier", "inject"} /\ u = 1 => Owed = 1
    BY DEF Owed, Early
  <2>5. \A w \in User : pc'[w] \in {"inject", "linger"} => w = 1
    BY <1>2, <2>1 DEF Place
  <2> QED BY <1>0, <2>1, <2>2, <2>3, <2>5 DEF Tokens
<1>10. ASSUME NEW u \in User, SendTo(u) \/ ReceiverStep(u)
       PROVE  UNCHANGED <<tokens, pc, removed, crashes>>
  BY <1>10 DEF SendTo, ReceiverStep, Receive, ReceiveFail, queue, sendVars, bounds
<1> QED BY <1>1, <1>4, <1>5, <1>6, <1>7, <1>8, <1>9, <1>10
        DEF Next, MainStep, vars, queue, sendVars, bounds

-----------------------------------------------------------------------------
(* The barrier: while somebody is out, nothing has been sent, so the queue *)
(* holds one check-in for each user that has come.                         *)

LEMMA StartingStep ==
  ASSUME TypeOK, Starting, [Next]_vars
  PROVE  Starting'
<1> SUFFICES ASSUME crashes' = 0 PROVE
      /\ ~removed' => checkins' <= Cardinality(In')
      /\ (\E w \in User : pc'[w] = "out") =>
           /\ ~removed' /\ tokens' = <<>> /\ \A u \in User : inbox'[u] = <<>>
           /\ \A u \in User : pc'[u] \in {"out", "barrier"}
  BY DEF Starting
<1>0. crashes \in Nat /\ checkins \in Nat
  BY TokenAssumption DEF TypeOK
<1>1. CASE UNCHANGED <<checkins, tokens, inbox, removed, pc, crashes>>
  BY <1>1 DEF Starting, In
<1>2. ASSUME NEW u \in User, CheckIn(u)
      PROVE  /\ ~removed' => checkins' <= Cardinality(In')
             /\ (\E w \in User : pc'[w] = "out") =>
                  /\ ~removed' /\ tokens' = <<>> /\ \A w \in User : inbox'[w] = <<>>
                  /\ \A w \in User : pc'[w] \in {"out", "barrier"}
  <2>1. pc[u] = "out" /\ ~removed /\ checkins' = checkins + 1
        /\ pc' = [pc EXCEPT ![u] = "barrier"] /\ UNCHANGED <<tokens, inbox, removed, crashes>>
    BY <1>2 DEF CheckIn, bounds
  <2>2. \A w \in User : pc'[w] = IF w = u THEN "barrier" ELSE pc[w]
    BY <2>1 DEF TypeOK
  <2>3. In' = In \cup {u} /\ u \notin In
    BY <2>1, <2>2 DEF In
  <2>4. Cardinality(In') = Cardinality(In) + 1
    BY <2>3, UserFinite, FS_AddElement
  <2> QED BY <1>0, <2>1, <2>2, <2>4, UserFinite DEF Starting
<1>3. ASSUME NEW u \in User, NEW l \in Place \ {"out"}, pc' = [pc EXCEPT ![u] = l], pc[u] # "out",
             crashes = 0,
             UNCHANGED <<checkins, removed>> \/ removed',
             (\A w \in User : pc[w] # "out") \/ (l = "barrier" /\ UNCHANGED <<tokens, inbox, removed>>)
      PROVE  /\ ~removed' => checkins' <= Cardinality(In')
             /\ (\E w \in User : pc'[w] = "out") =>
                  /\ ~removed' /\ tokens' = <<>> /\ \A w \in User : inbox'[w] = <<>>
                  /\ \A w \in User : pc'[w] \in {"out", "barrier"}
  <2>1. \A w \in User : pc'[w] = IF w = u THEN l ELSE pc[w]
    BY <1>3 DEF TypeOK
  <2>2. In' = In
    BY <1>3, <2>1 DEF In
  <2> QED BY <1>3, <2>1, <2>2 DEF Starting
<1>4. ASSUME NEW u \in User, pc[u] \notin {"out", "barrier"}, crashes = 0
      PROVE  \A w \in User : pc[w] # "out"
  BY <1>4 DEF Starting
<1>5. ASSUME NEW u \in User, Pass(u), crashes = 0
      PROVE  \A w \in User : pc[w] # "out"
  <2> SUFFICES ASSUME NEW w \in User, pc[w] = "out" PROVE FALSE
    OBVIOUS
  <2>1. tokens = <<>> /\ \A v \in User : inbox[v] = <<>>
    BY <1>5 DEF Starting
  <2>2. Waiting = {}
    BY <2>1 DEF Waiting
  <2>3. Load = 0
    BY <2>1, <2>2, FS_EmptySet DEF Load
  <2>4. checkins >= N /\ checkins <= Cardinality(In)
    BY <1>0, <1>5, <2>3, UserFinite DEF Pass, AllThere, Starting
  <2>5. In \subseteq User \ {w} /\ IsFiniteSet(User \ {w}) /\ Cardinality(User \ {w}) = N - 1
    BY UserFinite, FS_RemoveElement DEF In
  <2>6. Cardinality(In) <= N - 1
    BY <2>5, FS_Subset
  <2> QED BY <1>0, <2>4, <2>6, UserFinite
<1>6. ASSUME NEW u \in User,
             \/ Pass(u) \/ Inject(u) \/ KillReceiver(u) \/ RemoveQueue(u) \/ TakeToken(u)
             \/ TokenGone(u) \/ ReturnToken(u) \/ EndOfInput(u) \/ \E t \in Text : Type(u, t)
      PROVE  /\ \E l \in Place \ {"out", "barrier"} : pc' = [pc EXCEPT ![u] = l]
             /\ pc[u] # "out" /\ (pc[u] = "barrier" => Pass(u)) /\ crashes' = crashes
             /\ UNCHANGED <<checkins, removed>> \/ removed'
  <2>1. \E l \in Place \ {"out", "barrier"} : pc' = [pc EXCEPT ![u] = l]
    BY <1>6 DEF Pass, Inject, KillReceiver, RemoveQueue, TakeToken, TokenGone, ReturnToken,
                EndOfInput, Type, Place
  <2>2. pc[u] # "out" /\ (pc[u] = "barrier" => Pass(u)) /\ crashes' = crashes
    BY <1>6 DEF Pass, Inject, KillReceiver, RemoveQueue, TakeToken, TokenGone, ReturnToken,
                EndOfInput, Type, bounds
  <2>3. UNCHANGED <<checkins, removed>> \/ removed'
    BY <1>6 DEF Pass, Inject, KillReceiver, RemoveQueue, TakeToken, TokenGone, ReturnToken,
                EndOfInput, Type, queue
  <2> QED BY <2>1, <2>2, <2>3
<1>7. ASSUME NEW u \in User,
             \/ Pass(u) \/ Inject(u) \/ KillReceiver(u) \/ RemoveQueue(u) \/ TakeToken(u)
             \/ TokenGone(u) \/ ReturnToken(u) \/ EndOfInput(u) \/ \E t \in Text : Type(u, t)
      PROVE  /\ ~removed' => checkins' <= Cardinality(In')
             /\ (\E w \in User : pc'[w] = "out") =>
                  /\ ~removed' /\ tokens' = <<>> /\ \A w \in User : inbox'[w] = <<>>
                  /\ \A w \in User : pc'[w] \in {"out", "barrier"}
  <2>1. PICK l \in Place \ {"out", "barrier"} : pc' = [pc EXCEPT ![u] = l]
    BY <1>6, <1>7
  <2>2. /\ pc[u] # "out" /\ (pc[u] = "barrier" => Pass(u)) /\ crashes = 0
        /\ UNCHANGED <<checkins, removed>> \/ removed'
    BY <1>6, <1>7
  <2>3. \A w \in User : pc[w] # "out"
    BY <1>4, <1>5, <2>2
  <2> QED BY <1>3, <2>1, <2>2, <2>3
<1>8. ASSUME NEW u \in User, SendTo(u) \/ Receive(u)
      PROVE  /\ ~removed' => checkins' <= Cardinality(In')
             /\ (\E w \in User : pc'[w] = "out") =>
                  /\ ~removed' /\ tokens' = <<>> /\ \A w \in User : inbox'[w] = <<>>
                  /\ \A w \in User : pc'[w] \in {"out", "barrier"}
  <2>1. UNCHANGED <<checkins, removed, pc, crashes>>
    BY <1>8 DEF SendTo, Receive, sendVars, bounds
  <2>2. pc[u] = "send" \/ inbox[u] # <<>>
    BY <1>8 DEF SendTo, Receive
  <2>3. \A w \in User : pc[w] # "out"
    BY <2>1, <2>2 DEF Starting
  <2> QED BY <2>1, <2>3 DEF Starting, In
<1>9. ASSUME NEW u \in User, ReceiveFail(u)
      PROVE  UNCHANGED <<checkins, tokens, inbox, removed, pc, crashes>>
  BY <1>9 DEF ReceiveFail, queue, sendVars, bounds
<1>10. ASSUME NEW u \in User, Crash(u) PROVE FALSE
  BY <1>0, <1>10 DEF Crash
<1> QED BY <1>1, <1>2, <1>7, <1>8, <1>9, <1>10
        DEF Next, MainStep, ReceiverStep, vars, queue, sendVars, bounds

-----------------------------------------------------------------------------
(* What one step of a sequence does to the messages a receiver was given.  *)

LEMMA TakeFromFront ==
  ASSUME NEW S, NEW a \in Seq(S), NEW b \in Seq(S), b # <<>>
  PROVE  Append(a, Head(b)) \o Tail(b) = a \o b
<1>1. /\ Append(a, Head(b)) \in Seq(S) /\ Len(Append(a, Head(b))) = Len(a) + 1
      /\ Tail(b) \in Seq(S) /\ Len(Tail(b)) = Len(b) - 1 /\ Len(a) \in Nat /\ Len(b) \in Nat
      /\ \A i \in 1..Len(Tail(b)) : Tail(b)[i] = b[i+1]
      /\ Head(b) = b[1] /\ Len(b) >= 1
      /\ \A i \in 1..Len(a) : Append(a, Head(b))[i] = a[i]
      /\ Append(a, Head(b))[Len(a)+1] = Head(b)
  OBVIOUS
<1>2. /\ Append(a, Head(b)) \o Tail(b) \in Seq(S) /\ a \o b \in Seq(S)
      /\ Len(Append(a, Head(b)) \o Tail(b)) = Len(a) + Len(b) /\ Len(a \o b) = Len(a) + Len(b)
  BY <1>1
<1>3. ASSUME NEW i \in 1..(Len(a) + Len(b))
      PROVE  (Append(a, Head(b)) \o Tail(b))[i] = (a \o b)[i]
  <2>1. CASE i <= Len(a)
    BY <1>1, <2>1, ConcatProperties
  <2>2. CASE i = Len(a) + 1
    BY <1>1, <2>2, ConcatProperties
  <2>3. CASE i > Len(a) + 1
    BY <1>1, <2>3, ConcatProperties
  <2> QED BY <1>1, <2>1, <2>2, <2>3
<1> QED BY <1>2, <1>3, SeqEqual

LEMMA AddAtEnd ==
  ASSUME NEW a \in Seq(Message), NEW b \in Seq(Message), NEW m \in Message
  PROVE  a \o Append(b, m) = Append(a \o b, m)
<1>1. Append(b, m) \in Seq(Message) /\ a \o b \in Seq(Message)
  OBVIOUS
<1>2. a \o Append(b, m) \in Seq(Message) /\ Append(a \o b, m) \in Seq(Message)
      /\ Len(a \o Append(b, m)) = Len(Append(a \o b, m))
  BY <1>1
<1>3. \A i \in 1..Len(a \o Append(b, m)) : (a \o Append(b, m))[i] = Append(a \o b, m)[i]
  BY <1>1
<1> QED BY <1>2, <1>3, SeqEqual

LEMMA RestOfList ==
  ASSUME NEW s \in Seq(User), s # <<>>, NEW v
  PROVE  /\ Contains(s, v) <=> v = Head(s) \/ Contains(Tail(s), v)
         /\ Tail(s) \in Seq(User) /\ Len(Tail(s)) = Len(s) - 1
         /\ \A i \in 1..Len(Tail(s)) : Tail(s)[i] = s[i+1] /\ i + 1 \in 1..Len(s)
<1>1. /\ Tail(s) \in Seq(User) /\ Len(Tail(s)) = Len(s) - 1
      /\ \A i \in 1..Len(Tail(s)) : Tail(s)[i] = s[i+1] /\ i + 1 \in 1..Len(s)
      /\ Head(s) = s[1] /\ Len(s) \in Nat \ {0}
  OBVIOUS
<1>2. ASSUME Contains(s, v) PROVE v = Head(s) \/ Contains(Tail(s), v)
  <2>1. PICK i \in 1..Len(s) : s[i] = v
    BY <1>2 DEF Contains
  <2>2. CASE i = 1
    BY <1>1, <2>1, <2>2
  <2>3. CASE i # 1
    <3>1. i - 1 \in 1..Len(Tail(s)) /\ Tail(s)[i-1] = s[i]
      BY <1>1, <2>3
    <3> QED BY <2>1, <3>1 DEF Contains
  <2> QED BY <2>2, <2>3
<1>3. v = Head(s) => Contains(s, v)
  BY <1>1 DEF Contains
<1>4. Contains(Tail(s), v) => Contains(s, v)
  BY <1>1 DEF Contains
<1> QED BY <1>1, <1>2, <1>3, <1>4

LEMMA CalmStep ==
  ASSUME TypeOK, [Next]_vars, Calm'
  PROVE  Calm /\ \A u \in User : ~Crash(u) /\ ~RemoveQueue(u) /\ ~TokenGone(u) /\ ~ReceiveFail(u)
<1>1. crashes \in Nat
  BY TokenAssumption DEF TypeOK
<1>2. \A u \in User : ~Crash(u) /\ ~RemoveQueue(u)
  BY <1>1 DEF Crash, RemoveQueue, Calm
<1>3. UNCHANGED <<removed, crashes>>
  BY <1>2 DEF Next, MainStep, ReceiverStep, CheckIn, Pass, Inject, KillReceiver, TakeToken, TokenGone,
              SendTo, ReturnToken, Receive, ReceiveFail, Type, EndOfInput, vars, queue, bounds
<1> QED BY <1>2, <1>3 DEF Calm, TokenGone, ReceiveFail

(* What the holder of the token has on its list.                           *)
LEMMA SendFacts ==
  ASSUME TypeOK, Tokens, Order, Calm, NEW u \in User, SendTo(u)
  PROVE  /\ u \in Holders /\ (\A w \in Holders : w = u) /\ Holders' = Holders
         /\ todo[u] \in Seq(User) /\ todo[u] # <<>> /\ todo' = [todo EXCEPT ![u] = Tail(todo[u])]
         /\ Head(todo[u]) \in User /\ Head(todo[u]) # u /\ ~Contains(Tail(todo[u]), Head(todo[u]))
         /\ log[Len(log)] = [from |-> u, num |-> seq[u], text |-> sline[u]] /\ log \in Seq(Message)
         /\ log # <<>> /\ seq[u] = Len(log)
         /\ inbox' = [inbox EXCEPT ![Head(todo[u])] = Append(@, log[Len(log)])]
<1>1. u \in Holders /\ Holders' = Holders /\ todo[u] # <<>> /\ ~removed
  BY DEF SendTo, Holders, Calm
<1>2. \A w \in Holders : w = u
  BY <1>1, OneToken
<1>3. todo[u] \in Seq(User) /\ DOMAIN todo[u] = 1..Len(todo[u]) /\ log \in Seq(Message)
  BY DEF TypeOK
<1>4. Head(todo[u]) = todo[u][1] /\ 1 \in 1..Len(todo[u]) /\ todo[u][1] \in User
  BY <1>1, <1>3
<1>a. /\ \A k \in DOMAIN todo[u] : todo[u][k] # u
      /\ \A j, k \in DOMAIN todo[u] : todo[u][j] = todo[u][k] => j = k
  BY <1>1 DEF Order
<1>5. Head(todo[u]) # u
  BY <1>3, <1>4, <1>a
<1>6. ASSUME Contains(Tail(todo[u]), Head(todo[u])) PROVE FALSE
  <2>1. PICK i \in 1..Len(Tail(todo[u])) : Tail(todo[u])[i] = Head(todo[u])
    BY <1>6 DEF Contains
  <2>2. todo[u][i+1] = todo[u][1] /\ i + 1 \in 1..Len(todo[u]) /\ i + 1 # 1
    BY <1>1, <1>3, <1>4, <2>1, RestOfList
  <2> QED BY <1>3, <1>4, <1>a, <2>2
<1>7. log[Len(log)] = [from |-> u, num |-> seq[u], text |-> sline[u]] /\ Len(log) > 0
      /\ seq[u] = Len(log)
  BY <1>1 DEF Order
<1>8. todo' = [todo EXCEPT ![u] = Tail(todo[u])]
  BY DEF SendTo
<1>9. inbox' = [inbox EXCEPT ![Head(todo[u])] =
                  Append(@, [from |-> u, num |-> seq[u], text |-> sline[u]])]
  BY <1>1 DEF SendTo
<1> QED BY <1>1, <1>2, <1>3, <1>4, <1>5, <1>6, <1>7, <1>8, <1>9

(* Nothing makes or loses a token, or a check-in, but a kill and the end   *)
(* of the queue.                                                           *)
LEMMA ExactStep ==
  ASSUME TypeOK, Tokens, Exact, [Next]_vars
  PROVE  Exact'
<1> SUFFICES ASSUME Calm' PROVE Len(tokens') + Cardinality(Holders') + Owed' = 1
                                /\ checkins' = Cardinality(In')
  BY DEF Exact
<1> DEFINE Same == Len(tokens') + Cardinality(Holders') + Owed' = 1 /\ checkins' = Cardinality(In')
<1>a. Calm /\ \A u \in User : ~Crash(u) /\ ~RemoveQueue(u) /\ ~TokenGone(u) /\ ~ReceiveFail(u)
  BY CalmStep
<1>0. /\ Len(tokens) \in Nat /\ Owed \in {0, 1} /\ checkins \in Nat /\ ~removed
      /\ Cardinality(Holders) \in Nat /\ Cardinality(In) \in Nat
      /\ Len(tokens) + Cardinality(Holders) + Owed = 1 /\ checkins = Cardinality(In)
  BY <1>a, UserFinite DEF TypeOK, Owed, Exact, Calm
<1>1. CASE UNCHANGED <<checkins, tokens, pc>>
  BY <1>0, <1>1 DEF Holders, Owed, Early, In
<1>2. ASSUME NEW u \in User, NEW l \in Place, pc' = [pc EXCEPT ![u] = l]
      PROVE  /\ \A w \in User : pc'[w] = IF w = u THEN l ELSE pc[w]
             /\ pc[u] # "out" /\ l # "out" => In' = In
             /\ pc[u] = "out" /\ l # "out" => In' = In \cup {u} /\ u \notin In
             /\ ((pc[u] \in {"out", "barrier", "inject"} <=> l \in {"out", "barrier", "inject"})
                   => Owed' = Owed)
  <2>1. \A w \in User : pc'[w] = IF w = u THEN l ELSE pc[w]
    BY <1>2 DEF TypeOK
  <2>2. 1 \in User
    BY UserFinite
  <2> QED BY <2>1, <2>2 DEF In, Owed, Early
<1>3. ASSUME NEW u \in User, NEW l \in Place \ {"send", "out"}, pc' = [pc EXCEPT ![u] = l],
             pc[u] \in {"out", "barrier", "inject"} <=> l \in {"out", "barrier", "inject"},
             pc[u] \notin {"send", "out"}, UNCHANGED <<tokens, checkins>>
      PROVE  Same
  <2>1. Holders' = Holders
    BY <1>3, HoldersMove
  <2>2. Owed' = Owed /\ In' = In
    BY <1>2, <1>3
  <2> QED BY <1>0, <1>3, <2>1, <2>2
<1>4. ASSUME NEW u \in User, CheckIn(u) PROVE Same
  <2>1. pc[u] = "out" /\ pc' = [pc EXCEPT ![u] = "barrier"] /\ checkins' = checkins + 1
        /\ tokens' = tokens
    BY <1>4 DEF CheckIn
  <2>2. Holders' = Holders
    BY <2>1, HoldersMove DEF Place
  <2>3. Owed' = Owed /\ In' = In \cup {u} /\ u \notin In
    BY <1>2, <2>1 DEF Place
  <2>4. Cardinality(In') = Cardinality(In) + 1
    BY <2>3, UserFinite, FS_AddElement
  <2> QED BY <1>0, <2>1, <2>2, <2>3, <2>4
<1>5. ASSUME NEW u \in User,
             KillReceiver(u) \/ (\E t \in Text : Type(u, t)) \/ EndOfInput(u)
      PROVE  Same
  <2>1. PICK l \in {"kill", "linger", "done", "want"} : pc' = [pc EXCEPT ![u] = l]
    BY <1>5 DEF KillReceiver, Type, EndOfInput
  <2>2. pc[u] \in {"kill", "idle"} /\ UNCHANGED <<tokens, checkins>>
    BY <1>5 DEF KillReceiver, Type, EndOfInput, queue
  <2> QED BY <1>3, <2>1, <2>2 DEF Place
<1>6. ASSUME NEW u \in User, Pass(u) PROVE Same
  <2>1. pc[u] = "barrier" /\ pc' = [pc EXCEPT ![u] = IF u = 1 THEN "inject" ELSE "idle"]
        /\ UNCHANGED <<tokens, checkins>>
    BY <1>6 DEF Pass, Injects, queue
  <2>2. CASE u = 1
    BY <1>3, <2>1, <2>2 DEF Place
  <2>3. CASE u # 1
    <3>1. Holders' = Holders /\ pc' = [pc EXCEPT ![u] = "idle"]
      BY <2>1, <2>3, HoldersMove DEF Place
    <3>2. (\A w \in User : pc'[w] = IF w = u THEN "idle" ELSE pc[w]) /\ In' = In
      BY <1>2, <2>1, <3>1 DEF Place
    <3>3. Owed' = Owed
      BY <2>3, <3>2, UserFinite DEF Owed, Early
    <3> QED BY <1>0, <2>1, <3>1, <3>2, <3>3
  <2> QED BY <2>2, <2>3
<1>7. ASSUME NEW u \in User, Inject(u) PROVE Same
  <2>1. pc[u] = "inject" /\ pc' = [pc EXCEPT ![u] = "idle"] /\ tokens' = Append(tokens, 0)
        /\ checkins' = checkins
    BY <1>7 DEF Inject
  <2>2. u = 1
    BY <2>1 DEF Tokens
  <2>3. pc[1] = "inject" /\ pc'[1] = "idle"
    BY <2>1, <2>2 DEF TypeOK
  <2>4. Owed = 1 /\ Owed' = 0
    BY <2>3 DEF Owed, Early
  <2>5. Holders' = Holders /\ In' = In
    BY <1>2, <2>1, HoldersMove DEF Place
  <2>6. Len(tokens') = Len(tokens) + 1
    BY <2>1 DEF TypeOK
  <2> QED BY <1>0, <2>1, <2>4, <2>5, <2>6
<1>8. ASSUME NEW u \in User, TakeToken(u) PROVE Same
  <2>1. pc[u] = "want" /\ tokens # <<>> /\ pc' = [pc EXCEPT ![u] = "send"]
        /\ tokens' = Tail(tokens) /\ checkins' = checkins
    BY <1>8 DEF TakeToken
  <2>2. Len(tokens') = Len(tokens) - 1
    BY <2>1 DEF TypeOK
  <2>3. Cardinality(Holders') = Cardinality(Holders) + 1
    BY <2>1, HoldersMove DEF Place
  <2>4. Owed' = Owed /\ In' = In
    BY <1>2, <2>1 DEF Place
  <2> QED BY <1>0, <2>1, <2>2, <2>3, <2>4
<1>9. ASSUME NEW u \in User, ReturnToken(u) PROVE Same
  <2>1. PICK l \in {"kill", "idle"} : pc' = [pc EXCEPT ![u] = l]
    BY <1>9 DEF ReturnToken
  <2>2. pc[u] = "send" /\ checkins' = checkins
    BY <1>9 DEF ReturnToken
  <2>3. Len(tokens') = Len(tokens) + 1
    BY <1>0, <1>9 DEF ReturnToken, Returned, TypeOK
  <2>4. Cardinality(Holders') = Cardinality(Holders) - 1
    BY <2>1, <2>2, HoldersMove DEF Place
  <2>5. Owed' = Owed /\ In' = In
    BY <1>2, <2>1, <2>2 DEF Place
  <2> QED BY <1>0, <2>2, <2>3, <2>4, <2>5
<1>10. ASSUME NEW u \in User, SendTo(u) \/ Receive(u) PROVE Same
  <2>1. UNCHANGED <<checkins, tokens, pc>>
    BY <1>10 DEF SendTo, Receive, sendVars
  <2> QED BY <1>1, <2>1
<1> QED BY <1>a, <1>1, <1>4, <1>5, <1>6, <1>7, <1>8, <1>9, <1>10
        DEF Next, MainStep, ReceiverStep, vars, queue, sendVars

-----------------------------------------------------------------------------
(* The numbers: the token in the queue, or the one its holder has, is the  *)
(* number of the last message.                                             *)

LEMMA OrderStep ==
  ASSUME TypeOK, Tokens, Order, [Next]_vars
  PROVE  Order'
<1> SUFFICES ASSUME Calm' PROVE Order'
  BY DEF Order
<1>a. Calm /\ \A u \in User : ~Crash(u) /\ ~RemoveQueue(u) /\ ~TokenGone(u) /\ ~ReceiveFail(u)
  BY CalmStep
<1>b. log \in Seq(Message)
  BY DEF TypeOK
<1>1. ASSUME UNCHANGED <<log, tokens, seq, todo>>, Holders' = Holders, Early' => Early,
             \A w \in Holders : sline'[w] = sline[w]
      PROVE  Order'
  BY <1>1, <1>a DEF Order
<1>2. CASE UNCHANGED vars
  BY <1>1, <1>2 DEF vars, queue, sendVars, Holders, Early
<1>3. ASSUME NEW u \in User,
             CheckIn(u) \/ Pass(u) \/ KillReceiver(u) \/ EndOfInput(u) \/ \E t \in Text : Type(u, t)
      PROVE  Order'
  <2>1. PICK l \in Place \ {"send", "out"} :
          /\ pc' = [pc EXCEPT ![u] = l]
          /\ l \in {"barrier", "inject"} => pc[u] \in {"out", "barrier", "inject"}
    BY <1>3 DEF CheckIn, Pass, KillReceiver, Type, EndOfInput, Place
  <2>2. pc[u] # "send" /\ UNCHANGED <<log, tokens, seq, todo>>
    BY <1>3 DEF CheckIn, Pass, KillReceiver, Type, EndOfInput, queue
  <2>3. Holders' = Holders
    BY <2>1, <2>2, HoldersMove
  <2>4. Early' => Early
    BY <2>1, UserFinite DEF Early, TypeOK
  <2>5. \A w \in Holders : sline'[w] = sline[w]
    BY <1>3 DEF CheckIn, Pass, KillReceiver, Type, EndOfInput, Holders, TypeOK
  <2> QED BY <1>1, <2>2, <2>3, <2>4, <2>5
<1>4. ASSUME NEW u \in User, Receive(u) PROVE Order'
  BY <1>1, <1>4 DEF Receive, sendVars, Holders, Early
<1>5. ASSUME NEW u \in User, Inject(u) PROVE Order'
  <2>1. pc[u] = "inject" /\ pc' = [pc EXCEPT ![u] = "idle"] /\ tokens' = Append(tokens, 0)
        /\ UNCHANGED <<sline, seq, todo, log>>
    BY <1>5 DEF Inject
  <2>2. u = 1
    BY <2>1 DEF Tokens
  <2>3. Early /\ ~Early'
    BY <2>1, <2>2 DEF Early, TypeOK
  <2>4. tokens = <<>> /\ Holders = {} /\ log = <<>>
    BY <1>a, <2>3, OneToken DEF Order
  <2>5. Holders' = {}
    BY <2>1, <2>4, HoldersMove DEF Place
  <2>6. tokens' = <<0>> /\ Head(tokens') = 0 /\ Len(log') = 0
    BY <2>1, <2>4
  <2> QED BY <2>1, <2>3, <2>4, <2>5, <2>6 DEF Order
<1>6. ASSUME NEW u \in User, TakeToken(u) PROVE Order'
  <2>1. /\ pc[u] = "want" /\ tokens # <<>> /\ pc' = [pc EXCEPT ![u] = "send"]
        /\ tokens' = Tail(tokens) /\ seq' = [seq EXCEPT ![u] = Head(tokens) + 1]
        /\ todo' = [todo EXCEPT ![u] = Recipients(u)] /\ sline' = sline
        /\ log' = Append(log, [from |-> u, num |-> Head(tokens) + 1, text |-> sline[u]])
    BY <1>6 DEF TakeToken
  <2>2. Holders = {} /\ ~Early /\ tokens' = <<>> /\ Head(tokens) = Len(log)
    BY <1>a, <2>1, OneToken DEF Order
  <2>3. Holders' = {u}
    BY <2>1, <2>2, HoldersMove DEF Place
  <2>4. ~Early'
    BY <2>1, <2>2, UserFinite DEF Early, TypeOK
  <2>5. [from |-> u, num |-> Len(log) + 1, text |-> sline[u]] \in Message
    BY <1>b DEF Message, TypeOK
  <2>6. /\ Len(log') = Len(log) + 1 /\ DOMAIN log' = 1..(Len(log) + 1)
        /\ \A n \in DOMAIN log : log'[n] = log[n]
        /\ log'[Len(log) + 1] = [from |-> u, num |-> Len(log) + 1, text |-> sline[u]]
        /\ DOMAIN log = 1..Len(log) /\ Len(log) \in Nat
    BY <1>b, <2>1, <2>2, <2>5
  <2>7. \A n \in DOMAIN log' : log'[n].num = n
    <3>1. \A n \in DOMAIN log : log[n].num = n
      BY <1>a DEF Order
    <3> QED BY <2>6, <3>1
  <2>8. seq'[u] = Len(log') /\ todo'[u] = Recipients(u) /\ sline'[u] = sline[u]
    BY <2>1, <2>2, <2>6 DEF TypeOK
  <2>9. /\ \A k \in DOMAIN todo'[u] : todo'[u][k] # u
        /\ \A j, k \in DOMAIN todo'[u] : todo'[u][j] = todo'[u][k] => j = k
    <3>1. DOMAIN Recipients(u) = 1..(N-1)
      BY DEF Recipients
    <3>2. /\ \A k \in DOMAIN Recipients(u) : Recipients(u)[k] # u
          /\ \A j, k \in DOMAIN Recipients(u) : Recipients(u)[j] = Recipients(u)[k] => j = k
      BY <3>1, Recipients_
    <3> QED BY <2>8, <3>2
  <2>10. Len(log') > 0 /\ log'[Len(log')] = [from |-> u, num |-> seq'[u], text |-> sline'[u]]
    BY <2>6, <2>8
  <2> QED BY <2>2, <2>3, <2>4, <2>7, <2>8, <2>9, <2>10 DEF Order
<1>7. ASSUME NEW u \in User, SendTo(u) PROVE Order'
  <2>1. UNCHANGED <<tokens, pc, sline, seq, log>>
    BY <1>7 DEF SendTo
  <2>2. /\ u \in Holders /\ (\A w \in Holders : w = u) /\ Holders' = Holders
        /\ todo[u] \in Seq(User) /\ todo[u] # <<>> /\ todo' = [todo EXCEPT ![u] = Tail(todo[u])]
    BY <1>a, <1>7, SendFacts
  <2>3. todo'[u] = Tail(todo[u])
    BY <2>2 DEF TypeOK
  <2>4. /\ \A k \in DOMAIN todo[u] : todo[u][k] # u
        /\ \A j, k \in DOMAIN todo[u] : todo[u][j] = todo[u][k] => j = k
    BY <1>a, <2>2 DEF Order
  <2>5. \A k \in DOMAIN todo'[u] :
          k \in Nat /\ k + 1 \in DOMAIN todo[u] /\ todo'[u][k] = todo[u][k+1]
    <3>1. Tail(todo[u]) \in Seq(User)
          /\ \A i \in 1..Len(Tail(todo[u])) :
               Tail(todo[u])[i] = todo[u][i+1] /\ i + 1 \in 1..Len(todo[u])
      BY <2>2, RestOfList
    <3>2. DOMAIN todo[u] = 1..Len(todo[u]) /\ Len(Tail(todo[u])) \in Nat
      BY <2>2, <3>1
    <3>3. DOMAIN Tail(todo[u]) = 1..Len(Tail(todo[u]))
      BY <3>1
    <3> QED BY <2>3, <3>1, <3>2, <3>3
  <2>6. /\ \A k \in DOMAIN todo'[u] : todo'[u][k] # u
        /\ \A j, k \in DOMAIN todo'[u] : todo'[u][j] = todo'[u][k] => j = k
    <3>1. ASSUME NEW j \in DOMAIN todo'[u], NEW k \in DOMAIN todo'[u], todo'[u][j] = todo'[u][k]
          PROVE  j = k
      <4>1. j + 1 = k + 1 /\ j \in Nat /\ k \in Nat
        BY <2>4, <2>5, <3>1
      <4> QED BY <4>1
    <3>2. \A k \in DOMAIN todo'[u] : todo'[u][k] # u
      BY <2>4, <2>5
    <3> QED BY <3>1, <3>2
  <2>7. Early' = Early
    BY <2>1 DEF Early
  <2> QED BY <1>a, <2>1, <2>2, <2>6, <2>7 DEF Order
<1>8. ASSUME NEW u \in User, ReturnToken(u) PROVE Order'
  <2>1. /\ pc[u] = "send" /\ ~removed /\ tokens' = Append(tokens, seq[u])
        /\ UNCHANGED <<sline, seq, todo, log>>
    BY <1>8, <1>a DEF ReturnToken, Returned, Calm
  <2>2. PICK l \in {"kill", "idle"} : pc' = [pc EXCEPT ![u] = l]
    BY <1>8 DEF ReturnToken
  <2>3. u \in Holders /\ (\A w \in Holders : w = u) /\ tokens = <<>> /\ ~Early
    BY <1>a, <2>1, OneToken DEF Holders
  <2>4. Holders' = {}
    BY <2>1, <2>2, <2>3, HoldersMove DEF Place
  <2>5. ~Early'
    BY <2>2, <2>3, UserFinite DEF Early, TypeOK
  <2>6. Head(tokens') = seq[u]
    BY <2>1, <2>3
  <2>7. seq[u] = Len(log)
    BY <1>a, <2>3 DEF Order
  <2> QED BY <1>a, <2>1, <2>4, <2>5, <2>6, <2>7 DEF Order
<1> QED BY <1>a, <1>2, <1>3, <1>4, <1>5, <1>6, <1>7, <1>8 DEF Next, MainStep, ReceiverStep

-----------------------------------------------------------------------------
(* Delivery: a message enters the log when all the others are on the list  *)
(* of its sender, and a user leaves the list when it is given the message. *)

LEMMA GotType ==
  ASSUME TypeOK, NEW u \in User
  PROVE  /\ heard[u] \in Seq(Message) /\ inbox[u] \in Seq(Message) /\ Got(u) \in Seq(Message)
         /\ DOMAIN Got(u) = 1..Len(Got(u)) /\ Len(Got(u)) \in Nat
         /\ \A i \in DOMAIN Got(u) : Got(u)[i] \in Message /\ Got(u)[i].num \in Nat
<1>1. heard[u] \in Seq(Message) /\ inbox[u] \in Seq(Message)
  BY DEF TypeOK
<1>2. Got(u) \in Seq(Message)
  BY <1>1, ConcatProperties DEF Got
<1>3. DOMAIN Got(u) = 1..Len(Got(u)) /\ Len(Got(u)) \in Nat
  BY <1>2, LenProperties
<1>4. \A i \in DOMAIN Got(u) : Got(u)[i] \in Message
  BY <1>2, <1>3, ElementOfSeq
<1> QED BY <1>1, <1>2, <1>3, <1>4 DEF Message

LEMMA DeliveryStep ==
  ASSUME TypeOK, Tokens, Order, Delivery, [Next]_vars
  PROVE  Delivery'
<1> SUFFICES ASSUME Calm', NEW v \in User
             PROVE  GotFromLog(v)' /\ GotInOrder(v)' /\ GotAll(v)' /\ GotBefore(v)'
  BY DEF Delivery
<1> DEFINE Goal == GotFromLog(v)' /\ GotInOrder(v)' /\ GotAll(v)' /\ GotBefore(v)'
<1>a. Calm /\ \A u \in User : ~Crash(u) /\ ~RemoveQueue(u) /\ ~TokenGone(u) /\ ~ReceiveFail(u)
  BY CalmStep
<1>b. log \in Seq(Message) /\ DOMAIN log = 1..Len(log) /\ Len(log) \in Nat
  BY DEF TypeOK
<1>c. GotFromLog(v) /\ GotInOrder(v) /\ GotAll(v) /\ GotBefore(v)
  BY <1>a DEF Delivery
<1>d. /\ Got(v) \in Seq(Message) /\ DOMAIN Got(v) = 1..Len(Got(v)) /\ Len(Got(v)) \in Nat
      /\ \A i \in DOMAIN Got(v) : Got(v)[i].num \in DOMAIN log
  BY <1>c, GotType DEF GotFromLog
<1>1. ASSUME Got(v)' = Got(v), log' = log, OnList(v)' <=> OnList(v)
      PROVE  Goal
  BY <1>1, <1>c DEF GotFromLog, GotInOrder, GotAll, GotBefore
<1>2. ASSUME UNCHANGED <<heard, inbox, log, todo>>, Holders' = Holders PROVE Goal
  BY <1>1, <1>2 DEF Got, OnList
<1>3. CASE UNCHANGED vars
  BY <1>2, <1>3 DEF vars, queue, sendVars, recvVars, Holders
<1>4. ASSUME NEW u \in User,
             \/ CheckIn(u) \/ Pass(u) \/ Inject(u) \/ KillReceiver(u) \/ EndOfInput(u)
             \/ \E t \in Text : Type(u, t)
      PROVE  Goal
  <2>1. PICK l \in Place \ {"send"} : pc' = [pc EXCEPT ![u] = l]
    BY <1>4 DEF CheckIn, Pass, Inject, KillReceiver, EndOfInput, Type, Place
  <2>2. pc[u] # "send" /\ UNCHANGED <<heard, inbox, log, todo>>
    BY <1>4 DEF CheckIn, Pass, Inject, KillReceiver, EndOfInput, Type, queue, recvVars
  <2>3. Holders' = Holders
    BY <2>1, <2>2, HoldersMove
  <2> QED BY <1>2, <2>2, <2>3
<1>5. ASSUME NEW u \in User, Receive(u) PROVE Goal
  <2>1. /\ inbox[u] # <<>> /\ heard' = [heard EXCEPT ![u] = Append(@, Head(inbox[u]))]
        /\ inbox' = [inbox EXCEPT ![u] = Tail(@)] /\ UNCHANGED <<pc, todo, log>>
    BY <1>5 DEF Receive, NextOf, sendVars
  <2>2. /\ heard'[v] = IF v = u THEN Append(heard[v], Head(inbox[v])) ELSE heard[v]
        /\ inbox'[v] = IF v = u THEN Tail(inbox[v]) ELSE inbox[v]
    BY <2>1 DEF TypeOK
  <2>3. Got(v)' = Got(v)
    <3>1. heard[v] \in Seq(Message) /\ inbox[v] \in Seq(Message)
      BY GotType
    <3>2. v = u => Append(heard[v], Head(inbox[v])) \o Tail(inbox[v]) = heard[v] \o inbox[v]
      BY <2>1, <3>1, TakeFromFront
    <3> QED BY <2>2, <3>2, Zenon DEF Got
  <2> QED BY <1>1, <2>1, <2>3 DEF OnList, Holders
<1>6. ASSUME NEW u \in User, TakeToken(u) PROVE Goal
  <2>1. /\ pc[u] = "want" /\ tokens # <<>> /\ pc' = [pc EXCEPT ![u] = "send"]
        /\ todo' = [todo EXCEPT ![u] = Recipients(u)] /\ UNCHANGED <<heard, inbox>>
        /\ log' = Append(log, [from |-> u, num |-> Head(tokens) + 1, text |-> sline[u]])
    BY <1>6 DEF TakeToken, recvVars
  <2>2. Holders = {} /\ Head(tokens) = Len(log)
    BY <1>a, <2>1, OneToken DEF Order
  <2>3. Holders' = {u}
    BY <2>1, <2>2, HoldersMove DEF Place
  <2>4. [from |-> u, num |-> Len(log) + 1, text |-> sline[u]] \in Message
    BY <1>b DEF Message, TypeOK
  <2>5. /\ Len(log') = Len(log) + 1 /\ DOMAIN log' = 1..(Len(log) + 1)
        /\ \A n \in DOMAIN log : log'[n] = log[n]
        /\ log'[Len(log) + 1] = [from |-> u, num |-> Len(log) + 1, text |-> sline[u]]
    BY <1>b, <2>1, <2>2, <2>4
  <2>6. Got(v)' = Got(v) /\ ~OnList(v)
    BY <2>1, <2>2 DEF Got, OnList
  <2>7. \A n \in DOMAIN log : n \in DOMAIN log' /\ n < Len(log')
    BY <1>b, <2>5
  <2>8. GotFromLog(v)' /\ GotInOrder(v)' /\ GotBefore(v)'
    BY <1>c, <1>d, <2>5, <2>6, <2>7 DEF GotFromLog, GotInOrder, GotBefore
  <2>9. v # u => OnList(v)'
    <3>1. todo'[u] = Recipients(u)
      BY <2>1 DEF TypeOK
    <3> QED BY <2>3, <3>1, Recipients_ DEF OnList
  <2>10. GotAll(v)'
    <3>1. \A n \in DOMAIN log : log[n].from # v => \E i \in DOMAIN Got(v) : Got(v)[i] = log[n]
      BY <1>c, <2>6 DEF GotAll
    <3>2. \A n \in DOMAIN log' : n \in DOMAIN log \/ n = Len(log')
      BY <1>b, <2>5
    <3>3. log'[Len(log')].from = u
      BY <2>5
    <3> QED BY <2>5, <2>6, <2>9, <3>1, <3>2, <3>3 DEF GotAll
  <2> QED BY <2>8, <2>10
<1>7. ASSUME NEW u \in User, SendTo(u) PROVE Goal
  <2> DEFINE m == log[Len(log)]
  <2>1. /\ u \in Holders /\ (\A w \in Holders : w = u) /\ Holders' = Holders
        /\ todo[u] \in Seq(User) /\ todo[u] # <<>> /\ todo' = [todo EXCEPT ![u] = Tail(todo[u])]
        /\ Head(todo[u]) \in User /\ Head(todo[u]) # u /\ ~Contains(Tail(todo[u]), Head(todo[u]))
        /\ m = [from |-> u, num |-> seq[u], text |-> sline[u]]
        /\ log # <<>> /\ seq[u] = Len(log)
        /\ inbox' = [inbox EXCEPT ![Head(todo[u])] = Append(@, m)]
    BY <1>a, <1>7, SendFacts
  <2>2. UNCHANGED <<heard, log>>
    BY <1>7 DEF SendTo, recvVars
  <2>3. todo'[u] = Tail(todo[u])
    BY <2>1 DEF TypeOK
  <2>4. OnList(v) <=> v = Head(todo[u]) \/ OnList(v)'
    <3>1. OnList(v) <=> Contains(todo[u], v)
      BY <2>1 DEF OnList
    <3>2. OnList(v)' <=> Contains(todo'[u], v)
      BY <2>1 DEF OnList
    <3> QED BY <2>1, <2>3, <3>1, <3>2, RestOfList
  <2>5. CASE v # Head(todo[u])
    <3>1. inbox'[v] = inbox[v]
      BY <2>1, <2>5 DEF TypeOK
    <3> QED BY <1>1, <2>2, <2>4, <2>5, <3>1 DEF Got
  <2>6. CASE v = Head(todo[u])
    <3>1. inbox'[v] = Append(inbox[v], m) /\ m \in Message /\ Len(log) \in DOMAIN log
      <4>1. Len(log) \in 1..Len(log)
        BY <1>b, <2>1
      <4>2. m \in Message
        BY <1>b, <4>1, ElementOfSeq
      <4> QED BY <1>b, <2>1, <2>6, <4>1, <4>2 DEF TypeOK
    <3>2. Got(v)' = Append(Got(v), m)
      <4>1. heard[v] \in Seq(Message) /\ inbox[v] \in Seq(Message)
        BY GotType
      <4>2. \A x \in Message : heard[v] \o Append(inbox[v], x) = Append(heard[v] \o inbox[v], x)
        BY <4>1, AddAtEnd, Zenon
      <4> HIDE DEF m
      <4> QED BY <2>2, <3>1, <4>2, Zenon DEF Got
    <3>3. /\ DOMAIN Got(v)' = 1..(Len(Got(v)) + 1)
          /\ \A i \in DOMAIN Got(v) : Got(v)'[i] = Got(v)[i]
          /\ Got(v)'[Len(Got(v)) + 1] = m
      <4> HIDE DEF m
      <4> QED BY <1>d, <3>1, <3>2
    <3>4. OnList(v) /\ ~OnList(v)'
      <4>1. OnList(v)' <=> Contains(todo'[u], v)
        BY <2>1 DEF OnList
      <4> QED BY <2>1, <2>3, <2>4, <2>6, <4>1
    <3>5. \A i \in DOMAIN Got(v)' : i \in DOMAIN Got(v) \/ i = Len(Got(v)) + 1
      BY <1>d, <3>3
    <3>6. m.from = u /\ m.num = Len(log)
      BY <2>1
    <3> HIDE DEF m
    <3>7. GotFromLog(v)'
      <4>1. log[m.num] = m /\ m.num \in DOMAIN log
        BY <3>1, <3>6 DEF m
      <4> QED BY <1>c, <2>1, <2>2, <2>6, <3>3, <3>5, <3>6, <4>1 DEF GotFromLog
    <3>8. GotInOrder(v)'
      <4>1. \A i \in DOMAIN Got(v) : Got(v)[i].num < m.num
        BY <1>c, <3>4, <3>6 DEF GotBefore
      <4> SUFFICES ASSUME NEW i \in DOMAIN Got(v)', NEW j \in DOMAIN Got(v)', i < j
                   PROVE  Got(v)'[i].num < Got(v)'[j].num
        BY DEF GotInOrder
      <4>2. i \in DOMAIN Got(v)
        BY <1>d, <3>3
      <4>3. CASE j \in DOMAIN Got(v)
        BY <1>c, <3>3, <4>2, <4>3 DEF GotInOrder
      <4>4. CASE j = Len(Got(v)) + 1
        BY <3>3, <4>1, <4>2, <4>4
      <4> QED BY <3>5, <4>3, <4>4
    <3>9. GotAll(v)'
      <4>1. \A n \in DOMAIN log : log[n].from # v =>
              (\E i \in DOMAIN Got(v) : Got(v)[i] = log[n]) \/ n = Len(log)
        BY <1>c DEF GotAll
      <4>2. \A i \in DOMAIN Got(v) : i \in DOMAIN Got(v)'
        BY <1>d, <3>3
      <4>3. Len(Got(v)) + 1 \in DOMAIN Got(v)' /\ Got(v)'[Len(Got(v)) + 1] = log[Len(log)]
        BY <1>d, <3>3 DEF m
      <4> QED BY <2>2, <3>3, <4>1, <4>2, <4>3 DEF GotAll
    <3>10. GotBefore(v)'
      BY <3>4 DEF GotBefore
    <3> QED BY <3>7, <3>8, <3>9, <3>10
  <2> QED BY <2>5, <2>6
<1>8. ASSUME NEW u \in User, ReturnToken(u) PROVE Goal
  <2>1. pc[u] = "send" /\ todo[u] = <<>> /\ UNCHANGED <<heard, inbox, todo, log>>
    BY <1>8 DEF ReturnToken, recvVars
  <2>2. PICK l \in {"kill", "idle"} : pc' = [pc EXCEPT ![u] = l]
    BY <1>8 DEF ReturnToken
  <2>3. u \in Holders /\ \A w \in Holders : w = u
    BY <1>a, <2>1, OneToken DEF Holders
  <2>4. Holders' = {}
    BY <2>1, <2>2, <2>3, HoldersMove DEF Place
  <2>5. ~OnList(v)
    BY <2>1, <2>3 DEF OnList, Contains
  <2>6. ~OnList(v)'
    BY <2>4 DEF OnList
  <2> QED BY <1>1, <2>1, <2>5, <2>6 DEF Got
<1> QED BY <1>a, <1>3, <1>4, <1>5, <1>6, <1>7, <1>8 DEF Next, MainStep, ReceiverStep

-----------------------------------------------------------------------------
LEMMA InitInv == Init => IInv
<1> SUFFICES ASSUME Init PROVE IInv
  OBVIOUS
<1>1. Waiting = {} /\ tokens = <<>> /\ \A u \in User : heard[u] = <<>> /\ inbox[u] = <<>>
  BY DEF Init, Waiting
<1>2. IsFiniteSet(Waiting) /\ Load = 0
  BY <1>1, FS_EmptySet DEF Load
<1>3. TypeOK
  <2>1. removed \in BOOLEAN
    BY Zenon DEF Init
  <2>2. /\ checkins \in Nat /\ tokens \in Seq(Nat) /\ inbox \in [User -> Seq(Message)]
        /\ heard \in [User -> Seq(Message)] /\ todo \in [User -> Seq(User)] /\ log \in Seq(Message)
    BY DEF Init
  <2>3. /\ pc \in [User -> Place] /\ rpc \in [User -> {"none", "recv", "done"}]
        /\ sline \in [User -> Text] /\ seq \in [User -> Nat]
    BY DEF Init, Place, Text
  <2>4. lines \in 0..MaxLines /\ crashes \in 0..MaxCrashes /\ Load <= QueueCap
    BY <1>2, TokenAssumption DEF Init
  <2> QED BY <2>1, <2>2, <2>3, <2>4 DEF TypeOK, Place
<1>4. Holders = {} /\ Owed = 1 /\ In = {}
  BY UserFinite DEF Init, Holders, Owed, Early, In
<1>5. Tokens
  BY <1>1, <1>4, FS_EmptySet DEF Init, Tokens
<1>6. Starting /\ Exact
  BY <1>1, <1>4, FS_EmptySet DEF Init, Starting, Exact
<1>7. Order
  BY <1>4 DEF Init, Order
<1>8. Delivery
  <2>1. \A u \in User : Got(u) = <<>>
    BY <1>1 DEF Got
  <2>2. DOMAIN log = {} /\ ~\E u \in User : OnList(u)
    BY <1>4 DEF Init, OnList
  <2> QED BY <2>1, <2>2 DEF Delivery, GotFromLog, GotInOrder, GotAll, GotBefore
<1> QED BY <1>2, <1>3, <1>5, <1>6, <1>7, <1>8 DEF IInv

LEMMA Invariance == Spec => []IInv
<1>1. IInv /\ [Next]_vars => IInv'
  BY TypeStep, LoadStep, TokensStep, ExactStep, StartingStep, OrderStep, DeliveryStep DEF IInv
<1> QED BY InitInv, <1>1, PTL DEF Spec

(* All variables keep their types, and the queue never holds more than the *)
(* kernel lets it (msgsnd of sender and of main).                          *)
THEOREM TypeCorrect == Spec => []TypeOK
<1>1. IInv => TypeOK
  BY DEF IInv
<1> QED BY Invariance, <1>1, PTL

(* There is one token at most, in the queue or with a sender, and one more *)
(* for each kill; with nobody killed it is never lost (the injection of    *)
(* main, the loop of sender).                                              *)
THEOREM TokenCorrect == Spec => []TokenUnique
<1>1. IInv => TokenUnique
  <2>1. Owed \in {0, 1} /\ Cardinality(Holders) \in Nat
    BY UserFinite DEF Owed
  <2>2. TypeOK => Len(tokens) \in Nat /\ crashes \in Nat
    BY TokenAssumption DEF TypeOK
  <2>3. pc[1] \notin {"out", "barrier", "inject"} => Owed = 0
    BY DEF Owed, Early
  <2> QED BY <2>1, <2>2, <2>3 DEF IInv, Tokens, Exact, Calm, TokenUnique
<1> QED BY Invariance, <1>1, PTL

(* Nobody gets past the barrier before all have checked in (the waiting    *)
(* loop of main), as long as nobody is killed.                             *)
THEOREM BarrierCorrect == Spec => []BarrierHolds
<1>1. IInv => BarrierHolds
  BY DEF IInv, Starting, BarrierHolds
<1> QED BY Invariance, <1>1, PTL

(* Each receiver is given the others' messages, all of them, once and in   *)
(* the order of the token, but for the one its sender is still sending     *)
(* (the broadcast of sender and the loop of receiver).                     *)
THEOREM DeliveryCorrect == Spec => []NothingLost
<1>1. ASSUME IInv PROVE NothingLost
  <2> SUFFICES ASSUME Calm, NEW u \in User
               PROVE  /\ GotFromLog(u) /\ GotInOrder(u)
                      /\ \A n \in DOMAIN log : log[n].from # u =>
                           \/ \E i \in DOMAIN Got(u) : Got(u)[i] = log[n]
                           \/ /\ n = Len(log) /\ log[n].from \in Holders
                              /\ Contains(todo[log[n].from], u)
    BY DEF NothingLost, Calm, GotFromLog, GotInOrder, Got
  <2>1. GotFromLog(u) /\ GotInOrder(u) /\ GotAll(u)
    BY <1>1 DEF IInv, Delivery
  <2>2. \A w \in Holders : log[Len(log)].from = w
    <3> SUFFICES ASSUME NEW w \in Holders PROVE log[Len(log)].from = w
      OBVIOUS
    <3>1. log[Len(log)] = [from |-> w, num |-> seq[w], text |-> sline[w]]
      BY <1>1 DEF IInv, Order
    <3> QED BY <3>1
  <2>3. ASSUME NEW n \in DOMAIN log, log[n].from # u, ~\E i \in DOMAIN Got(u) : Got(u)[i] = log[n]
        PROVE  n = Len(log) /\ log[n].from \in Holders /\ Contains(todo[log[n].from], u)
    <3>1. n = Len(log) /\ OnList(u)
      BY <2>1, <2>3 DEF GotAll
    <3>2. PICK w \in Holders : Contains(todo[w], u)
      BY <3>1 DEF OnList
    <3>3. log[n].from = w
      BY <2>2, <3>1
    <3> QED BY <3>1, <3>2, <3>3
  <2> QED BY <2>1, <2>3
<1> QED BY Invariance, <1>1, PTL

-----------------------------------------------------------------------------
(* The refinement of Broadcast.  Who is past the start has a receiver, so  *)
(* a receiver that starts has not been there before.                       *)
Ready == crashes = 0 =>
  \A u \in User : rpc[u] = "none" <=> pc[u] \in {"out", "barrier", "inject"}

LEMMA ReadyStep ==
  ASSUME TypeOK, Ready, [Next]_vars
  PROVE  Ready'
<1> SUFFICES ASSUME crashes' = 0, NEW v \in User
             PROVE  rpc'[v] = "none" <=> pc'[v] \in {"out", "barrier", "inject"}
  BY DEF Ready
<1> DEFINE Goal == rpc'[v] = "none" <=> pc'[v] \in {"out", "barrier", "inject"}
<1>a. \A u \in User : ~Crash(u)
  BY TokenAssumption DEF TypeOK, Crash
<1>b. crashes' = crashes
  BY <1>a DEF Next, MainStep, ReceiverStep, CheckIn, Pass, Inject, KillReceiver, RemoveQueue, TakeToken,
              TokenGone, SendTo, ReturnToken, Receive, ReceiveFail, Type, EndOfInput, vars, bounds
<1>1. rpc[v] = "none" <=> pc[v] \in {"out", "barrier", "inject"}
  BY <1>b DEF Ready
<1>2. CASE UNCHANGED <<pc, rpc>>
  BY <1>1, <1>2
<1>3. ASSUME NEW u \in User, CheckIn(u) \/ Pass(u) \/ Inject(u) \/ KillReceiver(u) PROVE Goal
  BY <1>1, <1>3 DEF CheckIn, Pass, Inject, KillReceiver, recvVars, TypeOK
<1>4. ASSUME NEW u \in User,
             \/ RemoveQueue(u) \/ TakeToken(u) \/ TokenGone(u) \/ ReturnToken(u) \/ EndOfInput(u)
             \/ \E t \in Text : Type(u, t)
      PROVE  Goal
  <2>1. pc[u] \notin {"out", "barrier", "inject"} /\ rpc' = rpc
    BY <1>4 DEF RemoveQueue, TakeToken, TokenGone, ReturnToken, EndOfInput, Type, recvVars
  <2>2. \E l \in Place \ {"out", "barrier", "inject"} : pc' = [pc EXCEPT ![u] = l]
    BY <1>4 DEF RemoveQueue, TakeToken, TokenGone, ReturnToken, EndOfInput, Type, Place
  <2> QED BY <1>1, <2>1, <2>2 DEF TypeOK
<1>5. ASSUME NEW u \in User, SendTo(u) PROVE Goal
  BY <1>2, <1>5 DEF SendTo, recvVars
<1>6. ASSUME NEW u \in User, Receive(u) \/ ReceiveFail(u) PROVE Goal
  <2>1. rpc[u] = "recv" /\ pc' = pc
    BY <1>6 DEF Receive, ReceiveFail, sendVars
  <2>2. \E l \in {"done", "recv"} : rpc' = [rpc EXCEPT ![u] = l]
    BY <1>6 DEF Receive, ReceiveFail
  <2> QED BY <1>1, <2>1, <2>2 DEF TypeOK
<1> QED BY <1>a, <1>2, <1>3, <1>4, <1>5, <1>6 DEF Next, MainStep, ReceiverStep, vars, sendVars, recvVars

LEMMA TalkUnchanged ==
  ASSUME Calm, Calm', UNCHANGED <<log, heard>>
  PROVE  /\ [u \in User |-> LastHeard(u).num]' = [u \in User |-> LastHeard(u).num]
         /\ [u \in User |-> LastHeard(u)]' = [u \in User |-> LastHeard(u)]
         /\ (crashes = 0 /\ ~removed)' = (crashes = 0 /\ ~removed)
<1>1. \A u \in User : LastHeard(u)' = LastHeard(u)
  BY DEF LastHeard
<1>2. (crashes = 0 /\ ~removed)' = (crashes = 0 /\ ~removed)
  BY Zenon DEF Calm
<1> QED BY <1>1, <1>2

LEMMA TalkInit == Init => Talk!Init
<1> SUFFICES ASSUME Init PROVE Talk!Init
  OBVIOUS
<1>1. \A u \in User : LastHeard(u) = NoMessage
  BY DEF Init, LastHeard
<1>2. (crashes = 0 /\ ~removed) = TRUE
  BY Zenon DEF Init
<1> QED BY <1>1, <1>2 DEF Talk!Init, Init, NoMessage

LEMMA Joined ==
  ASSUME NEW S, NEW a \in Seq(S), NEW b \in Seq(S), b # <<>>
  PROVE  /\ Len(a \o b) = Len(a) + Len(b) /\ (a \o b)[Len(a) + 1] = b[1]
         /\ \A i \in 1..Len(a) : (a \o b)[i] = a[i]
<1>1. Len(a) \in Nat /\ Len(b) \in Nat \ {0}
  OBVIOUS
<1>2. /\ Len(a \o b) = Len(a) + Len(b)
      /\ \A i \in 1..(Len(a) + Len(b)) :
           (a \o b)[i] = IF i <= Len(a) THEN a[i] ELSE b[i - Len(a)]
  BY ConcatProperties
<1>3. (a \o b)[Len(a) + 1] = b[1]
  <2>1. Len(a) + 1 \in 1..(Len(a) + Len(b)) /\ ~(Len(a) + 1 <= Len(a)) /\ (Len(a) + 1) - Len(a) = 1
    BY <1>1
  <2> QED BY <1>2, <2>1
<1>4. \A i \in 1..Len(a) : i \in 1..(Len(a) + Len(b)) /\ i <= Len(a)
  BY <1>1
<1> QED BY <1>2, <1>3, <1>4

(* What a receiver takes is the next message of the others after the one   *)
(* it took last.                                                           *)
LEMMA TakesNext ==
  ASSUME TypeOK, Order, Delivery, Calm, NEW u \in User, inbox[u] # <<>>,
         NEW m, m = Head(inbox[u])
  PROVE  /\ m \in Message /\ m.num \in 1..Len(log) /\ log[m.num] = m
         /\ m.num > LastHeard(u).num /\ m.from # u
         /\ \A k \in (LastHeard(u).num + 1)..(m.num - 1) : log[k].from = u
<1> DEFINE l == Len(heard[u])
<1>1. /\ heard[u] \in Seq(Message) /\ inbox[u] \in Seq(Message)
      /\ DOMAIN Got(u) = 1..Len(Got(u)) /\ Len(Got(u)) \in Nat
      /\ \A i \in DOMAIN Got(u) : Got(u)[i] \in Message /\ Got(u)[i].num \in Nat
  BY GotType
<1>2. GotFromLog(u) /\ GotInOrder(u) /\ GotAll(u)
  BY DEF Delivery
<1>3. /\ l \in Nat /\ l + 1 \in DOMAIN Got(u) /\ Got(u)[l + 1] = m
      /\ \A i \in 1..l : i \in DOMAIN Got(u) /\ Got(u)[i] = heard[u][i]
  <2>1. Len(inbox[u]) \in Nat \ {0} /\ Head(inbox[u]) = inbox[u][1] /\ l \in Nat
    BY <1>1
  <2>2. /\ Len(Got(u)) = l + Len(inbox[u]) /\ Got(u)[l + 1] = inbox[u][1]
        /\ \A i \in 1..l : Got(u)[i] = heard[u][i]
    BY <1>1, Joined DEF Got
  <2>3. l + 1 \in 1..Len(Got(u)) /\ \A i \in 1..l : i \in 1..Len(Got(u))
    <3> HIDE DEF l
    <3> QED BY <1>1, <2>1, <2>2
  <2> HIDE DEF l
  <2> QED BY <1>1, <2>1, <2>2, <2>3
<1> HIDE DEF l
<1>4. DOMAIN log = 1..Len(log) /\ Len(log) \in Nat
  BY DEF TypeOK
<1>5. m \in Message /\ m.num \in 1..Len(log) /\ log[m.num] = m /\ m.from # u
  BY <1>1, <1>2, <1>3, <1>4 DEF GotFromLog
<1>6. LastHeard(u).num \in Nat /\ \A i \in 1..l : Got(u)[i].num <= LastHeard(u).num
  <2>1. CASE l = 0
    <3>1. heard[u] = <<>>
      BY <1>1, <2>1 DEF l
    <3> QED BY <2>1, <3>1 DEF LastHeard, NoMessage
  <2>2. CASE l # 0
    <3>1. heard[u] # <<>> /\ l \in 1..l
      BY <1>1, <1>3, <2>2 DEF l
    <3>2. LastHeard(u) = Got(u)[l]
      BY <1>3, <3>1 DEF LastHeard, l
    <3>3. \A i \in 1..l : i # l => Got(u)[i].num < Got(u)[l].num
      BY <1>2, <1>3, <3>1 DEF GotInOrder
    <3> QED BY <1>1, <1>3, <3>1, <3>2, <3>3
  <2> QED BY <2>1, <2>2
<1>7. LastHeard(u).num < m.num
  <2>1. CASE l = 0
    <3>1. heard[u] = <<>>
      BY <1>1, <2>1 DEF l
    <3> QED BY <1>4, <1>5, <3>1 DEF LastHeard, NoMessage
  <2>2. CASE l # 0
    <3>1. heard[u] # <<>> /\ l \in 1..l
      BY <1>1, <1>3, <2>2 DEF l
    <3>2. LastHeard(u) = Got(u)[l]
      BY <1>3, <3>1 DEF LastHeard, l
    <3> QED BY <1>2, <1>3, <3>1, <3>2 DEF GotInOrder
  <2> QED BY <2>1, <2>2
<1>8. ASSUME NEW k \in (LastHeard(u).num + 1)..(m.num - 1), log[k].from # u PROVE FALSE
  <2>1. k \in DOMAIN log /\ k # Len(log) /\ k > LastHeard(u).num /\ k < m.num /\ m.num \in Nat
    <3> DEFINE a == LastHeard(u).num
               b == m.num
    <3>1. a \in Nat /\ k \in (a + 1)..(b - 1)
      BY <1>6
    <3>2. b \in Nat /\ b <= Len(log)
      BY <1>4, <1>5
    <3> HIDE DEF a, b
    <3>3. k \in 1..Len(log) /\ k # Len(log) /\ k > a /\ k < b
      <4> DEFINE c == Len(log)
      <4>1. c \in Nat /\ b <= c
        BY <1>4, <3>2
      <4> HIDE DEF c
      <4>2. k \in 1..c /\ k # c /\ k > a /\ k < b
        BY <3>1, <3>2, <4>1
      <4> QED BY <4>2 DEF c
    <3> QED BY <1>4, <3>2, <3>3 DEF a, b
  <2>2. PICK i \in DOMAIN Got(u) : Got(u)[i] = log[k]
    BY <1>2, <1>8, <2>1 DEF GotAll
  <2>3. Got(u)[i].num = k
    BY <2>1, <2>2 DEF Order
  <2>4. i \in Nat /\ i > l
    <3>1. i \in Nat /\ i >= 1
      BY <1>1
    <3>2. i \notin 1..l
      <4>1. k \in Int /\ k > LastHeard(u).num
        BY <1>6, <2>1
      <4> QED BY <1>6, <2>3, <4>1
    <3> QED BY <1>3, <3>1, <3>2
  <2>5. i >= l + 1
    BY <1>1, <1>3, <2>4
  <2>6. m.num <= Got(u)[i].num
    <3>1. CASE i = l + 1
      BY <1>3, <2>1, <3>1
    <3>2. CASE i # l + 1
      <4>1. l + 1 < i
        BY <1>1, <1>3, <2>5, <3>2
      <4>2. Got(u)[l + 1].num < Got(u)[i].num
        BY <1>2, <1>3, <4>1 DEF GotInOrder
      <4> QED BY <1>1, <1>3, <2>1, <4>2
    <3> QED BY <3>1, <3>2
  <2> QED BY <2>1, <2>3, <2>6
<1> QED BY <1>5, <1>6, <1>7, <1>8

LEMMA TalkStep ==
  IInv /\ Ready /\ [Next]_vars => [Talk!Next]_(Talk!vars)
<1> SUFFICES ASSUME IInv, Ready, [Next]_vars, Calm'
             PROVE  Talk!InOrder \/ UNCHANGED Talk!vars
  BY DEF Talk!Next, Calm
<1> USE DEF IInv
<1>a. Calm /\ \A u \in User : ~Crash(u) /\ ~RemoveQueue(u) /\ ~TokenGone(u) /\ ~ReceiveFail(u)
  BY CalmStep
<1>b. crashes = 0 /\ ~removed
  BY <1>a DEF Calm
<1>c. log \in Seq(Message) /\ DOMAIN log = 1..Len(log) /\ Len(log) \in Nat
  BY DEF TypeOK
<1>1. ASSUME UNCHANGED <<log, heard, rpc>> PROVE UNCHANGED Talk!vars
  BY <1>1, <1>a, TalkUnchanged DEF Talk!vars
<1>2. CASE UNCHANGED vars
  BY <1>1, <1>2 DEF vars, recvVars
<1>3. ASSUME NEW u \in User,
             \/ CheckIn(u) \/ SendTo(u) \/ ReturnToken(u) \/ EndOfInput(u)
             \/ \E t \in Text : Type(u, t)
      PROVE  UNCHANGED Talk!vars
  BY <1>1, <1>3 DEF CheckIn, SendTo, ReturnToken, EndOfInput, Type, recvVars
<1>4. ASSUME NEW u \in User, Pass(u) \/ Inject(u) PROVE Talk!Listen(u) \/ UNCHANGED Talk!vars
  <2>1. rpc[u] = "none"
    BY <1>4, <1>b DEF Ready, Pass, Inject
  <2>2. UNCHANGED <<log, heard>> /\ \E l \in {"none", "recv"} : rpc' = [rpc EXCEPT ![u] = l]
    BY <1>4 DEF Pass, Inject
  <2>3. CASE rpc' = [rpc EXCEPT ![u] = "recv"]
    BY <1>a, <2>1, <2>2, <2>3, TalkUnchanged DEF Talk!Listen
  <2>4. CASE rpc' = [rpc EXCEPT ![u] = "none"]
    <3>1. rpc' = rpc
      BY <2>1, <2>4 DEF TypeOK
    <3> QED BY <1>1, <2>2, <3>1
  <2> QED BY <2>2, <2>3, <2>4
<1>5. ASSUME NEW u \in User, KillReceiver(u) PROVE Talk!Stop(u) \/ UNCHANGED Talk!vars
  <2>1. pc[u] = "kill" /\ rpc' = [rpc EXCEPT ![u] = "done"] /\ UNCHANGED <<log, heard>>
    BY <1>5 DEF KillReceiver
  <2>2. rpc[u] # "none"
    BY <1>b, <2>1 DEF Ready
  <2>3. CASE rpc[u] = "recv"
    BY <1>a, <2>1, <2>3, TalkUnchanged DEF Talk!Stop
  <2>4. CASE rpc[u] = "done"
    <3>1. rpc' = rpc
      BY <2>1, <2>4 DEF TypeOK
    <3> QED BY <1>1, <2>1, <3>1
  <2> QED BY <2>2, <2>3, <2>4 DEF TypeOK
<1>6. ASSUME NEW u \in User, TakeToken(u) PROVE Talk!Post
  <2> DEFINE m == [from |-> u, num |-> Head(tokens) + 1, text |-> sline[u]]
  <2>1. log' = Append(log, m) /\ UNCHANGED <<rpc, heard>>
    BY <1>6 DEF TakeToken, recvVars
  <2>2. m \in Message
    BY SMTT(30), <1>6 DEF TakeToken, TypeOK, Message
  <2> HIDE DEF m
  <2>3. Len(log') = Len(log) + 1 /\ log'[Len(log')] = m
    BY <1>c, <2>1, <2>2
  <2>4. /\ [w \in User |-> LastHeard(w).num]' = [w \in User |-> LastHeard(w).num]
        /\ [w \in User |-> LastHeard(w)]' = [w \in User |-> LastHeard(w)]
    BY <2>1 DEF LastHeard
  <2> QED BY <2>1, <2>2, <2>3, <2>4 DEF Talk!Post
<1>7. ASSUME NEW u \in User, Receive(u) PROVE Talk!Hear(u)
  <2> DEFINE m == Head(inbox[u])
  <2>1. /\ rpc[u] = "recv" /\ inbox[u] # <<>> /\ log' = log
        /\ heard' = [heard EXCEPT ![u] = Append(heard[u], m)]
        /\ rpc' = [rpc EXCEPT ![u] = IF m.text = "talk_quit" THEN "done" ELSE "recv"]
    BY <1>7 DEF Receive, NextOf, Ends
  <2>2. /\ m \in Message /\ m.num \in 1..Len(log) /\ log[m.num] = m
        /\ m.num > LastHeard(u).num /\ m.from # u
        /\ \A k \in (LastHeard(u).num + 1)..(m.num - 1) : log[k].from = u
    BY <1>a, <2>1, TakesNext
  <2> HIDE DEF m
  <2>3. LastHeard(u)' = m
    <3>1. heard[u] \in Seq(Message) /\ heard'[u] = Append(heard[u], m)
      BY <2>1 DEF TypeOK
    <3>2. heard'[u] # <<>> /\ heard'[u][Len(heard'[u])] = m
      BY <2>2, <3>1
    <3> QED BY <3>2 DEF LastHeard
  <2>4. \A w \in User : w # u => LastHeard(w)' = LastHeard(w)
    BY <2>1 DEF LastHeard, TypeOK
  <2>5. /\ [w \in User |-> LastHeard(w)]' = [[w \in User |-> LastHeard(w)] EXCEPT ![u] = m]
        /\ [w \in User |-> LastHeard(w).num]' =
             [[w \in User |-> LastHeard(w).num] EXCEPT ![u] = m.num]
    BY <2>3, <2>4
  <2>6. m \in {x \in Message : x.text = "talk_quit"} <=> m.text = "talk_quit"
    BY <2>2
  <2>7. Talk!NextFor(u, m.num)
    BY <2>2 DEF Talk!NextFor
  <2> QED BY <2>1, <2>2, <2>5, <2>6, <2>7 DEF Talk!Hear
<1> QED BY <1>a, <1>b, <1>2, <1>3, <1>4, <1>5, <1>6, <1>7
        DEF Next, MainStep, ReceiverStep, Talk!InOrder

(* The talk implements Broadcast: as long as the queue is there and nobody *)
(* is killed, each receiver hears all messages of the others in the order  *)
(* of the token, from the first on however late it starts (the loops of    *)
(* sender and receiver), and stops for good at a talk_quit.                *)
THEOREM Implements == Spec => ImplementsBroadcast
<1>1. Init => Ready
  BY DEF Init, Ready
<1>2. IInv /\ Ready /\ [Next]_vars => Ready'
  BY ReadyStep DEF IInv
<1> QED BY Invariance, TalkInit, TalkStep, <1>1, <1>2, PTL DEF Spec, ImplementsBroadcast, Talk!Spec

-----------------------------------------------------------------------------
(* No deadlock.  What main and sender wait for, one predicate for each wait *)
(* that is over, and for a message that waits for a receiver.               *)
Starts(u) == (pc[u] = "barrier" /\ AllThere) \/ (pc[u] = "inject" /\ Room)
Sends(u) == (pc[u] = "want" /\ tokens # <<>>) \/ (pc[u] = "send" /\ Room)
Takes(u) == rpc[u] = "recv" /\ inbox[u] # <<>>

(* With nobody killed and the queue there, a user that is in the barrier or *)
(* has a line to send is never stuck for good with all the others: somebody *)
(* has yet to start, or can go on.  The one exception is a queue filled up  *)
(* with messages for users whose receivers have ended.                      *)
NoDeadlock == Calm /\ (\E u \in User : pc[u] \in {"barrier", "inject", "want", "send"}) =>
  \/ \E u \in User : pc[u] = "out" \/ Starts(u) \/ Sends(u) \/ Takes(u)
  \/ ~Room /\ \A u \in User : inbox[u] # <<>> => rpc[u] = "done"

LEMMA Unblocked ==
  ASSUME IInv, Ready
  PROVE  NoDeadlock
<1> SUFFICES ASSUME Calm, NEW v \in User, pc[v] \in {"barrier", "inject", "want", "send"},
                    \A u \in User : pc[u] # "out" /\ ~Starts(u) /\ ~Sends(u) /\ ~Takes(u)
             PROVE  ~Room /\ \A u \in User : inbox[u] # <<>> => rpc[u] = "done"
  BY Zenon DEF NoDeadlock
<1>0. /\ TypeOK /\ IsFiniteSet(Waiting) /\ Tokens /\ Exact /\ Order /\ Delivery /\ crashes = 0 /\ ~removed
      /\ Len(tokens) \in Nat /\ Cardinality(Waiting) \in Nat /\ Cardinality(Holders) \in Nat
  <2>1. TypeOK /\ IsFiniteSet(Waiting) /\ Tokens /\ Exact /\ Order /\ Delivery
    BY DEF IInv
  <2>2. IsFiniteSet(Holders) /\ Len(tokens) \in Nat
    BY <2>1, UserFinite, FS_Subset, LenProperties DEF Holders, TypeOK
  <2> QED BY <2>1, <2>2, FS_CardinalityType DEF Calm
<1>1. AllThere
  <2>1. In = User
    BY DEF In
  <2>2. checkins = N /\ N \in Nat
    BY <1>0, <2>1, UserFinite DEF Exact
  <2> QED BY <1>0, <2>2 DEF AllThere, Load
<1>2. \A u \in User : pc[u] # "barrier"
  BY <1>1 DEF Starts
<1>3. \A u \in User : pc[u] # "inject"
  <2> SUFFICES ASSUME NEW u \in User, pc[u] = "inject" PROVE FALSE
    OBVIOUS
  <2>1. Early /\ Owed = 1
    BY <1>0 DEF Tokens, Early, Owed
  <2>2. Len(tokens) = 0 /\ log = <<>>
    BY <1>0, <2>1 DEF Exact, Order
  <2>3. \A w \in User : inbox[w] = <<>>
    <3> SUFFICES ASSUME NEW w \in User, inbox[w] # <<>> PROVE FALSE
      OBVIOUS
    <3>1. Head(inbox[w]).num \in 1..Len(log)
      BY <1>0, TakesNext
    <3> QED BY <2>2, <3>1
  <2>4. Waiting = {}
    BY <2>3 DEF Waiting
  <2>5. Load = 0
    BY <2>2, <2>4, FS_EmptySet DEF Load
  <2> QED BY <2>5, TokenAssumption DEF Starts, Room
<1>4. \A u \in User : rpc[u] # "none"
  BY <1>0, <1>2, <1>3 DEF Ready
<1>5. \A u \in User : inbox[u] # <<>> => rpc[u] = "done"
  BY <1>0, <1>4 DEF Takes, TypeOK
<1>6. \A u \in User : pc[u] = "send" => ~Room
  BY DEF Sends
<1>7. CASE pc[v] = "want"
  <2>1. Len(tokens) = 0 /\ Owed = 0
    <3>1. tokens = <<>>
      BY <1>7 DEF Sends
    <3>2. ~Early
      BY <1>2, <1>3, UserFinite DEF Early
    <3> QED BY <3>1, <3>2 DEF Owed
  <2>2. Cardinality(Holders) = 1
    BY <1>0, <2>1 DEF Exact
  <2>3. PICK h : h \in Holders
    BY <2>2, FS_EmptySet
  <2> QED BY <1>5, <1>6, <2>3 DEF Holders
<1> QED BY <1>2, <1>3, <1>5, <1>6, <1>7

(* No deadlock in the barrier, in the wait for the token or in the         *)
(* broadcast (main and sender of hw3/5.c) but for a full queue nobody      *)
(* reads any more.                                                         *)
THEOREM DeadlockFree == Spec => []NoDeadlock
<1>1. Init => Ready
  BY DEF Init, Ready
<1>2. IInv /\ Ready /\ [Next]_vars => Ready'
  BY ReadyStep DEF IInv
<1> QED BY Invariance, Unblocked, <1>1, <1>2, PTL DEF Spec
=============================================================================
