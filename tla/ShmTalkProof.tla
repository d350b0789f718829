---------------------------- MODULE ShmTalkProof ----------------------------
(***************************************************************************)
(* Proofs about ShmTalk, for any users, any ring and any number of kills,  *)
(* when the users are started one after the other, as main assumes; only   *)
(* the barrier (Coming) does without that.  The inductive invariant has    *)
(* these parts:                                                            *)
(*   Entering   user_count against the users on their way in and out       *)
(*   LockSet    who holds the semaphore                                    *)
(*   Numbers    global_seq against the messages posted                     *)
(*   Quits      quit_flags against what the users do                       *)
(***************************************************************************)
EXTENDS ShmTalk, FiniteSetTheorems, SequenceTheorems, TLAPS

Place == {"out", "setval", "memset", "enter", "counting", "barrier", "talk", "send", "bump",
          "fill", "quit", "flag", "read", "check", "end", "leave", "remove", "done", "crashed"}
First == {"setval", "memset"}
Before(u) == pc[u] = "out" \/ Launching(u)
Inside(u) == ~Before(u) /\ pc[u] \notin {"remove", "done", "crashed"}
Started(u) == ~Before(u) /\ pc[u] \notin {"barrier", "crashed"}

(* The users not in yet and those in, as sets, for user_count.             *)
ToCome == {u \in User : Before(u)}
In == {u \in User : Inside(u)}

Entering ==
  /\ user_count \in Int
  /\ user_count + Cardinality(ToCome) <= N /\ Cardinality(In) <= user_count
  /\ \A u \in User : pc[u] = "counting" => count[u] = user_count
  /\ \A u, w \in User : Launching(u) /\ Launching(w) => u = w
  /\ \A u \in User : pc[u] \in First =>
       user_count = 0 /\ \A w \in User : w # u => pc[w] \in {"out", "crashed"}
  /\ \A u, w \in User : Started(u) => ~Before(w)
  /\ \A u, w \in User : pc[u] = "remove" /\ w # u => pc[w] \in {"done", "crashed"}
  /\ RemovedByLast

(* LockHeldByOne, and the semaphore is set once somebody has been counted. *)
LockSet ==
  /\ \A u, w \in User : InCS(u) /\ InCS(w) => u = w
  /\ \A u \in User : InCS(u) => sem = 0
  /\ (\A u \in User : ~InCS(u))
     /\ (user_count > 0 \/ \E u \in User : pc[u] \notin {"out", "setval", "crashed"})
       => sem = 1

Numbers ==
  /\ global_seq = Len(posted)
  /\ \A u \in User : pc[u] = "fill" => global_seq > 0 /\ posted[global_seq] = u
  /\ (\E u \in User : Before(u)) => global_seq = 0

Quits ==
  /\ \A u \in User : i_quit[u] = TRUE <=> quit_flags[u] = 1
  /\ \A u \in User : pc[u] \in {"send", "bump", "fill"} => ~i_quit[u]
  /\ \A u \in User : PastLoop(u) => AllQuit
  /\ (\E u \in User : Before(u)) => \A u \in User : ~i_quit[u]

IInv == TypeOK /\ Entering /\ LockSet /\ Numbers /\ RingIntegrity /\ Quits

-----------------------------------------------------------------------------
(* The two sets that user_count is compared with.                          *)
LEMMA SetsFinite ==
  /\ IsFiniteSet(ToCome) /\ Cardinality(ToCome) \in Nat
  /\ IsFiniteSet(In) /\ Cardinality(In) \in Nat
  /\ N \in Nat
<1>1. ToCome \subseteq User /\ In \subseteq User
  BY DEF ToCome, In
<1> QED BY <1>1, ShmAssumption, FS_Subset, FS_CardinalityType DEF N

(* Once user_count is N, nobody is still to come.                          *)
LEMMA AllInNobodyToCome ==
  ASSUME Entering, AllIn, NEW u \in User
  PROVE  ~Before(u)
<1>1. Cardinality(ToCome) = 0
  BY SetsFinite DEF Entering, AllIn
<1>2. ToCome = {}
  BY <1>1, SetsFinite, FS_EmptySet
<1> QED BY <1>2 DEF ToCome

(* A user inside is counted.                                               *)
LEMMA InsideCounted ==
  ASSUME Entering, NEW u \in User, Inside(u)
  PROVE  /\ user_count >= 1
         /\ \A w \in User : Inside(w) /\ w # u => user_count >= 2
<1>1. u \in In /\ Cardinality(In \ {u}) = Cardinality(In) - 1 /\ IsFiniteSet(In \ {u})
  BY SetsFinite, FS_RemoveElement DEF In
<1>2. Cardinality(In \ {u}) \in Nat
  BY <1>1, FS_CardinalityType
<1>3. ASSUME NEW w \in User, Inside(w), w # u PROVE Cardinality(In \ {u}) # 0
  <2>1. w \in In \ {u}
    BY <1>3 DEF In
  <2> QED BY <1>1, <2>1, FS_EmptySet
<1> QED BY <1>1, <1>2, <1>3, SetsFinite DEF Entering

LEMMA CountBound ==
  ASSUME Entering
  PROVE  user_count \in 0..N
BY SetsFinite DEF Entering

-----------------------------------------------------------------------------
LEMMA InitInv == Init => IInv
<1> SUFFICES ASSUME Init PROVE IInv
  OBVIOUS
<1>1. TypeOK
  <2>1. logs \in [0..(MaxLog-1) -> [sender : User \cup {0}, seq : Nat, text : Nat]]
    BY DEF Init, Blank
  <2>2. heard \in [User -> [sender : User \cup {0}, seq : Nat, text : Nat]]
    BY DEF Init, Blank
  <2>3. posted \in Seq(User) /\ lines \in 0..MaxLines
    BY ShmAssumption, EmptySeq DEF Init
  <2>4. count \in [User -> 0..N] /\ user_count \in 0..N
    BY SetsFinite DEF Init
  <2>5. pc \in [User -> Place]
    BY DEF Init, Place
  <2>6. /\ sem \in 0..1 /\ removed \in BOOLEAN /\ global_seq \in Nat
        /\ quit_flags \in [User -> {0, 1}] /\ local_seq \in [User -> Nat]
        /\ i_quit \in [User -> BOOLEAN]
    <3>1. sem \in 0..1 /\ global_seq \in Nat
      BY DEF Init
    <3>4. removed \in BOOLEAN
      BY Zenon DEF Init
    <3>2. quit_flags \in [User -> {0, 1}] /\ local_seq \in [User -> Nat]
      BY DEF Init
    <3>3. i_quit \in [User -> BOOLEAN]
      BY DEF Init
    <3> QED BY <3>1, <3>2, <3>3, <3>4
  <2> QED BY <2>1, <2>2, <2>3, <2>4, <2>5, <2>6, Zenon DEF TypeOK, Place
<1>2. Entering
  <2>1. ToCome = User /\ In = {}
    BY DEF Init, ToCome, In, Before, Inside
  <2>2. user_count + Cardinality(ToCome) <= N /\ Cardinality(In) <= user_count
    BY <2>1, SetsFinite, FS_EmptySet DEF Init, N
  <2> QED BY <2>2 DEF Init, Entering, Launching, Started, Before, First, RemovedByLast
<1>3. LockSet
  BY DEF Init, LockSet, InCS
<1>4. Numbers /\ RingIntegrity
  BY EmptySeq DEF Init, Numbers, RingIntegrity
<1>5. Quits
  BY DEF Init, Quits, PastLoop
<1> QED BY <1>1, <1>2, <1>3, <1>4, <1>5 DEF IInv

-----------------------------------------------------------------------------
(* Typing: only the reader takes something out of the ring.                *)
LEMMA SeenType ==
  ASSUME TypeOK, NEW i \in 0..(MaxLog-1)
  PROVE  Seen(i) \subseteq [sender : User \cup {0}, seq : Nat, text : Nat]
<1> DEFINE R == [sender : User \cup {0}, seq : Nat, text : Nat]
<1> SUFFICES ASSUME NEW s \in Seen(i) PROVE s \in R
  OBVIOUS
<1>1. logs[i] \in R
  BY DEF TypeOK
<1>2. CASE s = logs[i]
  BY <1>1, <1>2
<1>3. ASSUME NEW w \in User,
             s \in [sender : {logs[i].sender, w}, seq : {logs[i].seq, global_seq},
                   text : {logs[i].text, global_seq}]
      PROVE  s \in R
  BY <1>1, <1>3 DEF TypeOK
<1> QED BY <1>2, <1>3 DEF Seen

LEMMA RingIndex ==
  ASSUME NEW n \in Nat
  PROVE  n % MaxLog \in 0..(MaxLog-1)
BY ShmAssumption

LEMMA TypeStep ==
  ASSUME TypeOK, Entering, LockSet, [Next]_vars
  PROVE  TypeOK'
<1>1. CASE UNCHANGED vars
  BY <1>1 DEF TypeOK, vars, shm, own
<1>2. ASSUME NEW u \in User, Attach(u) PROVE TypeOK'
  BY <1>2 DEF TypeOK, Attach, Goto, shm, own
<1>3. ASSUME NEW u \in User, SetVal(u) PROVE TypeOK'
  BY <1>3 DEF TypeOK, SetVal, Goto, shm, own
<1>4. ASSUME NEW u \in User, Memset(u) PROVE TypeOK'
  BY <1>4, SetsFinite DEF TypeOK, Memset, Goto, Blank, own
<1>5. ASSUME NEW u \in User, LockEnter(u) PROVE TypeOK'
  BY <1>5 DEF TypeOK, LockEnter, Goto, P, shm, own
<1>6. ASSUME NEW u \in User, Enter(u) PROVE TypeOK'
  <2>1. sem = 0
    BY <1>6 DEF Enter, LockSet, InCS
  <2>2. u \in ToCome
    BY <1>6 DEF Enter, ToCome, Before, Launching
  <2>3. Cardinality(ToCome) # 0
    BY <2>2, SetsFinite, FS_EmptySet
  <2>4. count[u] = user_count /\ user_count + 1 <= N
    BY <1>6, <2>3, SetsFinite DEF Enter, Entering
  <2>5. user_count + 1 \in 0..N
    BY <2>4, SetsFinite DEF TypeOK
  <2> QED BY <1>6, <2>1, <2>4, <2>5 DEF TypeOK, Enter, Goto, V, own
<1>7. ASSUME NEW u \in User, Start(u) PROVE TypeOK'
  BY <1>7 DEF TypeOK, Start, Goto, shm
<1>8. ASSUME NEW u \in User, NEW l \in {"send", "quit"}, Type(u, l) PROVE TypeOK'
  <2>1. pc' \in [User -> Place]
    BY <1>8 DEF TypeOK, Type, Goto, Place
  <2>2. lines' \in 0..MaxLines
    BY <1>8, ShmAssumption DEF TypeOK, Type
  <2>3. UNCHANGED <<sem, removed, shm, count, own, posted>>
    BY <1>8 DEF Type
  <2> QED BY <2>1, <2>2, <2>3 DEF TypeOK, shm, own, Place
<1>9. ASSUME NEW u \in User, Timeout(u) \/ Check(u) \/ EndLoop(u) PROVE TypeOK'
  BY <1>9 DEF TypeOK, Timeout, Check, EndLoop, Goto, shm, own
<1>10. ASSUME NEW u \in User, LockSend(u) \/ LockQuit(u) \/ LockLeave(u) PROVE TypeOK'
  <2>1. PICK l \in {"bump", "flag", "leave"} : pc' = [pc EXCEPT ![u] = l]
    BY <1>10 DEF LockSend, LockQuit, LockLeave, Lock, Goto
  <2>2. pc' \in [User -> Place]
    BY <2>1 DEF TypeOK, Place
  <2>3. sem > 0 /\ sem' = sem - 1
    BY <1>10 DEF LockSend, LockQuit, LockLeave, Lock, P
  <2>4. UNCHANGED <<removed, shm, count, own, lines, posted>>
    BY <1>10 DEF LockSend, LockQuit, LockLeave, Lock
  <2>5. sem' \in 0..1
    BY <2>3 DEF TypeOK
  <2> QED BY <2>2, <2>4, <2>5 DEF TypeOK, shm, own, Place
<1>11. ASSUME NEW u \in User, Bump(u) PROVE TypeOK'
  <2>1. posted' \in Seq(User)
    BY <1>11, AppendProperties DEF TypeOK, Bump
  <2> QED BY <1>11, <2>1 DEF TypeOK, Bump, Goto, own
<1>12. ASSUME NEW u \in User, Fill(u) PROVE TypeOK'
  <2>1. sem = 0
    BY <1>12 DEF Fill, LockSet, InCS
  <2>2. Slot(u, global_seq) \in [sender : User \cup {0}, seq : Nat, text : Nat]
    BY DEF TypeOK, Slot
  <2>3. logs' \in [0..(MaxLog-1) -> [sender : User \cup {0}, seq : Nat, text : Nat]]
    BY <1>12, <2>2 DEF TypeOK, Fill
  <2>4. /\ pc' = [pc EXCEPT ![u] = "read"] /\ sem' = sem + 1
        /\ UNCHANGED <<removed, user_count, global_seq, quit_flags, count, own, lines, posted>>
    BY <1>12 DEF Fill, Goto, V
  <2> QED BY <2>1, <2>3, <2>4 DEF TypeOK, own
<1>13. ASSUME NEW u \in User, SetFlag(u) PROVE TypeOK'
  <2>1. sem = 0
    BY <1>13 DEF SetFlag, LockSet, InCS
  <2> QED BY <1>13, <2>1 DEF TypeOK, SetFlag, Goto, V
<1>14. ASSUME NEW u \in User, Read(u) PROVE TypeOK'
  <2>1. local_seq[u] + 1 \in Nat
    BY DEF TypeOK
  <2>2. Seen((local_seq[u] + 1) % MaxLog) \subseteq [sender : User \cup {0}, seq : Nat, text : Nat]
    BY <2>1, RingIndex, SeenType
  <2>3. heard' \in [User -> [sender : User \cup {0}, seq : Nat, text : Nat]]
    BY <1>14, <2>2 DEF TypeOK, Read
  <2> QED BY <1>14, <2>1, <2>3 DEF TypeOK, Read, shm
<1>15. ASSUME NEW u \in User, Leave(u) PROVE TypeOK'
  <2>1. sem = 0
    BY <1>15 DEF Leave, LockSet, InCS
  <2>2. user_count >= 1
    BY <1>15, InsideCounted DEF Leave, Inside, Before, Launching
  <2>3. user_count - 1 \in 0..N
    BY <2>2, SetsFinite DEF TypeOK
  <2> QED BY <1>15, <2>1, <2>3 DEF TypeOK, Leave, Goto, V, own
<1>16. ASSUME NEW u \in User, Remove(u) PROVE TypeOK'
  BY <1>16 DEF TypeOK, Remove, Goto, shm, own
<1>17. ASSUME NEW u \in User, Crash(u) PROVE TypeOK'
  <2>1. sem' \in 0..1
    <3>1. CASE InCS(u)
      BY <1>17, <3>1 DEF LockSet, Crash, Undo
    <3>2. CASE ~InCS(u)
      BY <1>17, <3>2 DEF TypeOK, Crash, Undo
    <3> QED BY <3>1, <3>2
  <2> QED BY <1>17, <2>1 DEF TypeOK, Crash, Goto, shm, own
<1> QED BY <1>1, <1>2, <1>3, <1>4, <1>5, <1>6, <1>7, <1>8, <1>9, <1>10, <1>11, <1>12,
           <1>13, <1>14, <1>15, <1>16, <1>17 DEF Next, Step
-----------------------------------------------------------------------------
(* The steps of a user before it is counted, in the talk, and out of it.   *)

TalkPlace == {"talk", "send", "bump", "fill", "quit", "flag", "read", "check", "end", "leave"}

LEMMA LaunchMove ==
  ASSUME TypeOK, Entering, NEW u \in User, Launching(u),
         NEW l \in {"memset", "enter", "counting"}, pc' = [pc EXCEPT ![u] = l],
         l \in First => pc[u] \in First, l = "counting" => count'[u] = user_count,
         UNCHANGED <<removed, user_count>>
  PROVE  Entering'
<1>1. \A w \in User : pc'[w] = IF w = u THEN l ELSE pc[w]
  BY DEF TypeOK
<1>2. ToCome' = ToCome /\ In' = In
  BY <1>1 DEF ToCome, In, Before, Inside, Launching
<1>3. \A w \in User : w # u => ~Launching(w)
  BY DEF Entering
<1>4. \A w \in User : (Launching(w)' => w = u) /\ ~(pc'[w] = "counting" /\ w # u)
  BY <1>1, <1>3 DEF Launching
<1>5. \A w \in User : ~Started(w) /\ ~Started(w)' /\ pc'[w] # "remove"
  <2>1. \A w \in User : ~Started(w)
    BY DEF Entering, Before
  <2>2. Launching(u)' /\ l # "remove"
    BY <1>1 DEF Launching
  <2>3. \A w \in User : w # u => (Started(w)' <=> Started(w)) /\ pc'[w] = pc[w]
    BY <1>1 DEF Started, Before, Launching
  <2>4. \A w \in User : pc[w] # "remove"
    BY <2>1 DEF Started, Before, Launching
  <2> QED BY <1>1, <2>1, <2>2, <2>3, <2>4 DEF Started, Before
<1>6. ~removed
  BY DEF Entering, RemovedByLast, Launching
<1>7. \A w \in User : pc'[w] \in First =>
        user_count = 0 /\ \A v \in User : v # w => pc'[v] \in {"out", "crashed"}
  BY <1>1, <1>3 DEF Entering, First, Launching
<1>8. \A v, w \in User : Launching(v)' /\ Launching(w)' => v = w
  BY <1>4
<1>9. \A w \in User : pc'[w] = "counting" => count'[w] = user_count
  BY <1>1, <1>4
<1>10. user_count' = user_count /\ user_count \in Int
       /\ user_count + Cardinality(ToCome) <= N /\ Cardinality(In) <= user_count
  BY DEF Entering
<1>11. /\ \A v, w \in User : Started(v)' => ~Before(w)'
       /\ \A v, w \in User : pc'[v] = "remove" /\ w # v => pc'[w] \in {"done", "crashed"}
       /\ RemovedByLast'
  BY <1>5, <1>6 DEF RemovedByLast
<1> QED BY <1>2, <1>7, <1>8, <1>9, <1>10, <1>11 DEF Entering

LEMMA InsideMove ==
  ASSUME TypeOK, Entering, NEW u \in User, Inside(u), NEW l \in TalkPlace,
         pc' = [pc EXCEPT ![u] = l], pc[u] = "barrier" => AllIn,
         UNCHANGED <<removed, user_count, count>>
  PROVE  Entering'
<1>1. \A w \in User : pc'[w] = IF w = u THEN l ELSE pc[w]
  BY DEF TypeOK
<1>2. ToCome' = ToCome /\ In' = In
  BY <1>1 DEF ToCome, In, Before, Inside, Launching, TalkPlace
<1>3. \A w \in User : ~Before(w)
  BY AllInNobodyToCome DEF Entering, Started, Inside
<1>4. \A w \in User : ~Before(w)'
  BY <1>1, <1>3 DEF Before, Launching, TalkPlace
<1>5. ~removed /\ \A w \in User : pc[w] # "remove"
  BY DEF Entering, RemovedByLast, Inside
<1>6. \A w \in User : pc'[w] # "remove"
  BY <1>1, <1>5 DEF TalkPlace
<1> QED BY <1>2, <1>4, <1>5, <1>6 DEF Entering, RemovedByLast, Before, Launching, First

LEMMA EnteringStep ==
  ASSUME OrderedLaunch, TypeOK, Entering, LockSet, [Next]_vars
  PROVE  Entering'
<1>1. CASE UNCHANGED <<pc, user_count, count, removed>>
  BY <1>1 DEF Entering, ToCome, In, Before, Inside, Launching, Started, RemovedByLast
<1>2. ASSUME NEW u \in User, Attach(u) PROVE Entering'
  <2>1. PICK l \in {"setval", "enter"} :
          pc' = [pc EXCEPT ![u] = l] /\ (l = "setval" => user_count = 0)
    BY <1>2 DEF Attach, Goto
  <2>2. /\ pc[u] = "out" /\ ~removed /\ \A w \in User : ~Launching(w)
        /\ UNCHANGED <<removed, user_count, count>>
    BY <1>2 DEF Attach, shm
  <2>3. \A w \in User : pc'[w] = IF w = u THEN l ELSE pc[w]
    BY <2>1 DEF TypeOK
  <2>4. ToCome' = ToCome /\ In' = In
    BY <2>2, <2>3 DEF ToCome, In, Before, Inside, Launching
  <2>5. \A w \in User : ~Started(w)
    BY <2>2 DEF Entering, Before
  <2>6. \A w \in User : ~Started(w)' /\ pc'[w] # "remove"
    BY <2>3, <2>5 DEF Started, Before, Launching
  <2>7. \A w \in User : (Launching(w)' => w = u) /\ pc'[w] # "counting"
    BY <2>2, <2>3 DEF Launching
  <2>8. ASSUME NEW w \in User, pc'[w] \in First, NEW v \in User, v # w
        PROVE  user_count' = 0 /\ pc'[v] \in {"out", "crashed"}
    <3>1. w = u /\ user_count = 0
      BY <2>1, <2>2, <2>3, <2>8 DEF First, Launching
    <3>2. ~Inside(v)
      BY <3>1, InsideCounted
    <3> QED BY <2>2, <2>3, <2>5, <2>8, <3>1, <3>2 DEF TypeOK, Inside, Started, Before
  <2>9. \A w \in User : pc'[w] \in First => user_count' = 0
    BY <2>1, <2>2, <2>3 DEF First, Launching
  <2> QED BY <2>2, <2>4, <2>6, <2>7, <2>8, <2>9 DEF Entering, RemovedByLast
<1>3. ASSUME NEW u \in User, SetVal(u) PROVE Entering'
  <2>1. pc[u] = "setval" /\ pc' = [pc EXCEPT ![u] = "memset"] /\ UNCHANGED <<removed, user_count>>
    BY <1>3 DEF SetVal, Goto, shm
  <2> QED BY <2>1, LaunchMove DEF Launching, First
<1>4. ASSUME NEW u \in User, Memset(u) PROVE Entering'
  <2>1. /\ pc[u] = "memset" /\ pc' = [pc EXCEPT ![u] = "enter"] /\ user_count' = 0
        /\ UNCHANGED removed
    BY <1>4 DEF Memset, Goto
  <2>2. user_count = 0
    BY <2>1 DEF Entering, First
  <2> QED BY <2>1, <2>2, LaunchMove DEF Launching, First
<1>5. ASSUME NEW u \in User, LockEnter(u) PROVE Entering'
  <2>1. /\ pc[u] = "enter" /\ pc' = [pc EXCEPT ![u] = "counting"]
        /\ count'[u] = user_count /\ UNCHANGED <<removed, user_count>>
    BY <1>5 DEF TypeOK, LockEnter, Goto, shm
  <2> QED BY <2>1, LaunchMove DEF Launching, First
<1>6. ASSUME NEW u \in User, Enter(u) PROVE Entering'
  <2>1. /\ pc[u] = "counting" /\ pc' = [pc EXCEPT ![u] = "barrier"]
        /\ user_count' = count[u] + 1 /\ UNCHANGED removed
    BY <1>6 DEF Enter, Goto
  <2>2. count[u] = user_count /\ user_count' = user_count + 1
    BY <2>1 DEF Entering
  <2>3. \A w \in User : pc'[w] = IF w = u THEN "barrier" ELSE pc[w]
    BY <2>1 DEF TypeOK
  <2>4. \A w \in User : ~Launching(w)'
    BY <2>1, <2>3 DEF Entering, Launching
  <2>5. ~removed /\ \A w \in User : ~Started(w) /\ ~Started(w)' /\ pc'[w] # "remove"
    BY <2>1, <2>3 DEF Entering, RemovedByLast, Started, Before, Launching
  <2>6. ToCome' = ToCome \ {u} /\ u \in ToCome /\ In' = In \cup {u} /\ u \notin In
    BY <2>1, <2>3 DEF ToCome, In, Before, Inside, Launching
  <2>7. /\ Cardinality(ToCome') = Cardinality(ToCome) - 1
        /\ Cardinality(In') = Cardinality(In) + 1
    BY <2>6, SetsFinite, FS_AddElement, FS_RemoveElement
  <2>8. /\ user_count' \in Int /\ user_count' + Cardinality(ToCome') <= N
        /\ Cardinality(In') <= user_count'
    BY <2>2, <2>7, SetsFinite DEF Entering
  <2> QED BY <2>1, <2>4, <2>5, <2>8 DEF Entering, RemovedByLast, Launching, First
<1>7. ASSUME NEW u \in User, Start(u) PROVE Entering'
  <2>1. pc[u] = "barrier" /\ pc' = [pc EXCEPT ![u] = "talk"] /\ AllIn
        /\ UNCHANGED <<removed, user_count, count>>
    BY <1>7 DEF Start, Goto, shm
  <2> QED BY <2>1, InsideMove DEF Inside, Before, Launching, TalkPlace
<1>8. ASSUME NEW u \in User, NEW l \in {"send", "quit"}, Type(u, l) PROVE Entering'
  <2>1. pc[u] = "talk" /\ pc' = [pc EXCEPT ![u] = l] /\ UNCHANGED <<removed, user_count, count>>
    BY <1>8 DEF Type, Goto, shm
  <2>2. l \in TalkPlace /\ Inside(u)
    BY <2>1 DEF TalkPlace, Inside, Before, Launching
  <2> QED BY <2>1, <2>2, InsideMove
<1>9. ASSUME NEW u \in User,
             \/ Timeout(u) \/ LockSend(u) \/ Bump(u) \/ Fill(u) \/ LockQuit(u) \/ SetFlag(u)
             \/ Check(u) \/ EndLoop(u) \/ LockLeave(u)
      PROVE  Entering'
  <2>1. PICK l \in {"read", "bump", "fill", "flag", "check", "end", "talk", "leave"} :
          pc' = [pc EXCEPT ![u] = l]
    BY <1>9 DEF Timeout, LockSend, Bump, Fill, LockQuit, SetFlag, Check, EndLoop, LockLeave,
                Lock, Goto
  <2>2. pc[u] \in {"talk", "send", "bump", "fill", "quit", "flag", "read", "check", "end"}
    BY <1>9 DEF Timeout, LockSend, Bump, Fill, LockQuit, SetFlag, Check, EndLoop, LockLeave, Lock
  <2>3. UNCHANGED <<removed, user_count, count>>
    BY <1>9 DEF Timeout, LockSend, Bump, Fill, LockQuit, SetFlag, Check, EndLoop, LockLeave,
                Lock, shm
  <2>4. l \in TalkPlace /\ Inside(u) /\ pc[u] # "barrier"
    BY <2>2 DEF TalkPlace, Inside, Before, Launching
  <2> QED BY <2>1, <2>3, <2>4, InsideMove
<1>10. ASSUME NEW u \in User, Leave(u) PROVE Entering'
  <2>1. PICK l \in {"remove", "done"} :
          pc' = [pc EXCEPT ![u] = l] /\ (l = "remove" => user_count = 1)
    BY <1>10 DEF Leave, LastOne, Goto
  <2>2. pc[u] = "leave" /\ user_count' = user_count - 1 /\ UNCHANGED <<removed, count>>
    BY <1>10 DEF Leave
  <2>3. \A w \in User : pc'[w] = IF w = u THEN l ELSE pc[w]
    BY <2>1 DEF TypeOK
  <2>4. \A w \in User : ~Before(w)
    BY <2>2 DEF Entering, Started, Before, Launching
  <2>5. \A w \in User : ~Before(w)'
    BY <2>3, <2>4 DEF Before, Launching
  <2>6. ToCome' = ToCome /\ In' = In \ {u} /\ u \in In
    BY <2>2, <2>3 DEF ToCome, In, Before, Inside, Launching
  <2>7. Cardinality(In') = Cardinality(In) - 1
    BY <2>6, SetsFinite, FS_RemoveElement
  <2>8. /\ user_count' \in Int /\ user_count' + Cardinality(ToCome') <= N
        /\ Cardinality(In') <= user_count'
    BY <2>2, <2>6, <2>7, SetsFinite DEF Entering
  <2>9. ~removed /\ \A w \in User : pc[w] # "remove"
    BY <2>2 DEF Entering, RemovedByLast
  <2>10. ASSUME NEW w \in User, pc'[w] = "remove", NEW v \in User, v # w
         PROVE  pc'[v] \in {"done", "crashed"}
    <3>1. w = u /\ user_count = 1
      BY <2>1, <2>3, <2>9, <2>10
    <3>2. ~Inside(v)
      BY <2>2, <2>10, <3>1, InsideCounted DEF Inside, Before, Launching
    <3> QED BY <2>3, <2>4, <2>9, <2>10, <3>1, <3>2 DEF Inside
  <2> QED BY <2>2, <2>5, <2>8, <2>9, <2>10 DEF Entering, RemovedByLast, Before, Launching, First
<1>11. ASSUME NEW u \in User, Remove(u) PROVE Entering'
  <2>1. pc[u] = "remove" /\ pc' = [pc EXCEPT ![u] = "done"] /\ UNCHANGED <<user_count, count>>
    BY <1>11 DEF Remove, Goto, shm
  <2>2. \A w \in User : pc'[w] = IF w = u THEN "done" ELSE pc[w]
    BY <2>1 DEF TypeOK
  <2>3. \A w \in User : pc'[w] \in {"done", "crashed"}
    BY <2>1, <2>2 DEF Entering
  <2>4. ToCome' = ToCome /\ In' = In
    BY <2>1, <2>2 DEF ToCome, In, Before, Inside, Launching
  <2> QED BY <2>1, <2>3, <2>4 DEF Entering, RemovedByLast, Before, Launching, First
<1>12. ASSUME NEW u \in User, Crash(u) PROVE Entering'
  <2>1. /\ pc[u] \notin {"out", "done", "crashed"} /\ pc' = [pc EXCEPT ![u] = "crashed"]
        /\ UNCHANGED <<removed, user_count, count>>
    BY <1>12 DEF Crash, Goto, shm
  <2>2. \A w \in User : pc'[w] = IF w = u THEN "crashed" ELSE pc[w]
    BY <2>1 DEF TypeOK
  <2>3. ToCome' \subseteq ToCome /\ In' \subseteq In
    BY <2>2 DEF ToCome, In, Before, Inside, Launching
  <2>4. /\ Cardinality(ToCome') <= Cardinality(ToCome) /\ Cardinality(ToCome') \in Nat
        /\ Cardinality(In') <= Cardinality(In) /\ Cardinality(In') \in Nat
    BY <2>3, SetsFinite, FS_Subset, FS_CardinalityType
  <2>5. user_count' + Cardinality(ToCome') <= N /\ Cardinality(In') <= user_count'
    BY <2>1, <2>4, SetsFinite DEF Entering
  <2>6. \A w \in User : (Before(w)' => Before(w)) /\ (Launching(w)' => Launching(w))
                        /\ (Started(w)' => Started(w))
    BY <2>2 DEF Started, Before, Launching
  <2> QED BY <2>1, <2>2, <2>5, <2>6 DEF Entering, RemovedByLast, First
<1>13. ASSUME NEW u \in User, Read(u) PROVE UNCHANGED <<pc, user_count, count, removed>>
  BY <1>13 DEF Read, shm
<1> QED BY <1>1, <1>2, <1>3, <1>4, <1>5, <1>6, <1>7, <1>8, <1>9, <1>10, <1>11, <1>12, <1>13
        DEF Next, Step, vars, shm
-----------------------------------------------------------------------------
(* The semaphore.  It is taken, given back or left alone.                  *)

LEMMA LockKept ==
  ASSUME LockSet, \A w \in User : InCS(w)' <=> InCS(w), UNCHANGED sem,
         (user_count' > 0 \/ \E w \in User : pc'[w] \notin {"out", "setval", "crashed"})
           => (user_count > 0 \/ \E w \in User : pc[w] \notin {"out", "setval", "crashed"})
  PROVE  LockSet'
BY DEF LockSet

LEMMA LockTaken ==
  ASSUME TypeOK, LockSet, NEW u \in User, P, \A w \in User : InCS(w)' <=> InCS(w) \/ w = u
  PROVE  LockSet'
<1>1. sem = 1 /\ sem' = 0
  BY DEF TypeOK, P
<1>2. \A w \in User : ~InCS(w)
  BY <1>1 DEF LockSet
<1> QED BY <1>1, <1>2 DEF LockSet

LEMMA LockGiven ==
  ASSUME LockSet, NEW u \in User, InCS(u), sem' = sem + 1,
         \A w \in User : InCS(w)' <=> InCS(w) /\ w # u
  PROVE  LockSet'
<1>1. sem' = 1 /\ \A w \in User : ~InCS(w)'
  BY DEF LockSet
<1> QED BY <1>1 DEF LockSet

LEMMA LockStep ==
  ASSUME TypeOK, Entering, LockSet, [Next]_vars
  PROVE  LockSet'
<1>1. CASE UNCHANGED <<sem, user_count, pc>>
  BY <1>1 DEF LockSet, InCS
<1>2. ASSUME NEW u \in User, Attach(u) PROVE LockSet'
  <2>1. PICK l \in {"setval", "enter"} :
          pc' = [pc EXCEPT ![u] = l] /\ (l = "enter" => user_count # 0)
    BY <1>2 DEF Attach, Goto
  <2>2. pc[u] = "out" /\ UNCHANGED <<sem, user_count>>
    BY <1>2 DEF Attach, shm
  <2>3. \A w \in User : pc'[w] = IF w = u THEN l ELSE pc[w]
    BY <2>1 DEF TypeOK
  <2>4. \A w \in User : InCS(w)' <=> InCS(w)
    BY <2>2, <2>3 DEF InCS
  <2>5. l = "enter" => user_count > 0
    BY <2>1 DEF TypeOK
  <2>6. (\E w \in User : pc'[w] \notin {"out", "setval", "crashed"})
          => (user_count > 0 \/ \E w \in User : pc[w] \notin {"out", "setval", "crashed"})
    BY <2>3, <2>5
  <2> QED BY <2>2, <2>4, <2>6, LockKept
<1>3. ASSUME NEW u \in User, SetVal(u) PROVE LockSet'
  <2>1. pc[u] = "setval" /\ pc' = [pc EXCEPT ![u] = "memset"] /\ sem' = 1
    BY <1>3 DEF SetVal, Goto
  <2>2. \A w \in User : w # u => pc[w] \in {"out", "crashed"}
    BY <2>1 DEF Entering, First
  <2>3. \A w \in User : ~InCS(w)'
    BY <2>1, <2>2 DEF TypeOK, InCS
  <2> QED BY <2>1, <2>3 DEF LockSet
<1>4. ASSUME NEW u \in User, Memset(u) PROVE LockSet'
  <2>1. pc[u] = "memset" /\ pc' = [pc EXCEPT ![u] = "enter"] /\ UNCHANGED sem
    BY <1>4 DEF Memset, Goto
  <2>2. \A w \in User : InCS(w)' <=> InCS(w)
    BY <2>1 DEF TypeOK, InCS
  <2> QED BY <2>1, <2>2, LockKept
<1>5. ASSUME NEW u \in User, LockEnter(u) \/ LockSend(u) \/ LockQuit(u) \/ LockLeave(u)
      PROVE  LockSet'
  <2>1. PICK l \in {"counting", "bump", "flag", "leave"} : pc' = [pc EXCEPT ![u] = l]
    BY <1>5 DEF LockEnter, LockSend, LockQuit, LockLeave, Lock, Goto
  <2>2. \A w \in User : InCS(w)' <=> InCS(w) \/ w = u
    BY <2>1 DEF TypeOK, InCS
  <2>3. P
    BY <1>5 DEF LockEnter, LockSend, LockQuit, LockLeave, Lock
  <2> QED BY <2>2, <2>3, LockTaken
<1>6. ASSUME NEW u \in User, Enter(u) \/ Fill(u) \/ SetFlag(u) \/ Leave(u) PROVE LockSet'
  <2>1. PICK l \in {"barrier", "read", "remove", "done"} : pc' = [pc EXCEPT ![u] = l]
    BY <1>6 DEF Enter, Fill, SetFlag, Leave, Goto
  <2>2. InCS(u) /\ sem' = sem + 1
    BY <1>6 DEF Enter, Fill, SetFlag, Leave, V, InCS
  <2>3. \A w \in User : InCS(w)' <=> InCS(w) /\ w # u
    BY <2>1 DEF TypeOK, InCS
  <2> QED BY <2>2, <2>3, LockGiven
<1>7. ASSUME NEW u \in User, NEW l \in {"send", "quit"}, Type(u, l) PROVE LockSet'
  <2>1. pc[u] = "talk" /\ pc' = [pc EXCEPT ![u] = l] /\ UNCHANGED <<sem, user_count>>
    BY <1>7 DEF Type, Goto, shm
  <2>2. \A w \in User : InCS(w)' <=> InCS(w)
    BY <2>1 DEF TypeOK, InCS
  <2> QED BY <2>1, <2>2, LockKept
<1>8. ASSUME NEW u \in User,
             Start(u) \/ Timeout(u) \/ Bump(u) \/ Check(u) \/ EndLoop(u) \/ Remove(u)
      PROVE  LockSet'
  <2>1. PICK l \in {"talk", "read", "fill", "check", "end", "done"} :
          pc' = [pc EXCEPT ![u] = l] /\ (l = "fill" <=> pc[u] = "bump")
    BY <1>8 DEF Start, Timeout, Bump, Check, EndLoop, Remove, Goto
  <2>2. /\ pc[u] \in {"barrier", "talk", "bump", "read", "check", "remove"}
        /\ UNCHANGED <<sem, user_count>>
    BY <1>8 DEF Start, Timeout, Bump, Check, EndLoop, Remove, shm
  <2>3. \A w \in User : InCS(w)' <=> InCS(w)
    BY <2>1, <2>2 DEF TypeOK, InCS
  <2> QED BY <2>2, <2>3, LockKept
<1>9. ASSUME NEW u \in User, Crash(u) PROVE LockSet'
  <2>1. pc' = [pc EXCEPT ![u] = "crashed"] /\ sem' = Undo(u) /\ UNCHANGED user_count
    BY <1>9 DEF Crash, Goto, shm
  <2>2. \A w \in User : pc'[w] = IF w = u THEN "crashed" ELSE pc[w]
    BY <2>1 DEF TypeOK
  <2>3. \A w \in User : InCS(w)' <=> InCS(w) /\ w # u
    BY <2>2 DEF InCS
  <2>4. CASE InCS(u)
    BY <2>1, <2>3, <2>4, LockGiven DEF Undo
  <2>5. CASE ~InCS(u)
    BY <2>1, <2>2, <2>3, <2>5, LockKept DEF Undo
  <2> QED BY <2>4, <2>5
<1>10. ASSUME NEW u \in User, Read(u) PROVE UNCHANGED <<sem, user_count, pc>>
  BY <1>10 DEF Read, shm
<1> QED BY <1>1, <1>2, <1>3, <1>4, <1>5, <1>6, <1>7, <1>8, <1>9, <1>10
        DEF Next, Step, vars, shm
-----------------------------------------------------------------------------
(* The messages.  A number is given inside the lock, and only after all    *)
(* have entered, so no memset falls between two of them.                   *)

LEMMA NumbersStep ==
  ASSUME TypeOK, Entering, LockSet, Numbers, [Next]_vars
  PROVE  Numbers'
<1>1. CASE UNCHANGED <<global_seq, posted, pc>>
  BY <1>1 DEF Numbers, Before, Launching
<1>2. ASSUME NEW u \in User, Bump(u) PROVE Numbers'
  <2>1. /\ pc[u] = "bump" /\ pc' = [pc EXCEPT ![u] = "fill"]
        /\ global_seq' = global_seq + 1 /\ posted' = Append(posted, u)
    BY <1>2 DEF Bump, Goto
  <2>2. \A w \in User : pc'[w] = IF w = u THEN "fill" ELSE pc[w]
    BY <2>1 DEF TypeOK
  <2>3. Len(posted') = Len(posted) + 1 /\ posted'[Len(posted) + 1] = u /\ Len(posted) \in Nat
    BY <2>1, AppendProperties, LenProperties DEF TypeOK
  <2>4. \A w \in User : pc'[w] = "fill" => w = u
    BY <2>1, <2>2 DEF LockSet, InCS
  <2>5. \A w \in User : ~Before(w)'
    BY <2>1, <2>2 DEF Entering, Started, Before, Launching
  <2> QED BY <2>1, <2>3, <2>4, <2>5 DEF Numbers
<1>3. ASSUME NEW u \in User, Memset(u) PROVE Numbers'
  <2>1. /\ pc[u] = "memset" /\ pc' = [pc EXCEPT ![u] = "enter"] /\ global_seq' = 0
        /\ UNCHANGED posted
    BY <1>3 DEF Memset, Goto
  <2>2. global_seq = 0
    BY <2>1 DEF Numbers, Before, Launching
  <2>3. \A w \in User : pc'[w] # "fill"
    BY <2>1 DEF TypeOK, Entering, First
  <2> QED BY <2>1, <2>2, <2>3 DEF Numbers
<1>4. ASSUME NEW u \in User, NEW l \in Place \ {"out", "setval", "memset", "enter", "counting", "fill"},
             pc' = [pc EXCEPT ![u] = l], UNCHANGED <<global_seq, posted>>
      PROVE  Numbers'
  <2>1. \A w \in User : pc'[w] = IF w = u THEN l ELSE pc[w]
    BY <1>4 DEF TypeOK
  <2>2. \A w \in User : (Before(w)' => Before(w)) /\ (pc'[w] = "fill" => pc[w] = "fill")
    BY <2>1 DEF Before, Launching
  <2> QED BY <1>4, <2>2 DEF Numbers
<1>5. ASSUME NEW u \in User, NEW l \in {"setval", "memset", "enter", "counting"}, Before(u),
             pc' = [pc EXCEPT ![u] = l], UNCHANGED <<global_seq, posted>>
      PROVE  Numbers'
  <2>1. \A w \in User : pc'[w] = IF w = u THEN l ELSE pc[w]
    BY <1>5 DEF TypeOK
  <2>2. \A w \in User : pc'[w] = "fill" => pc[w] = "fill"
    BY <2>1
  <2> QED BY <1>5, <2>2 DEF Numbers
<1>6. ASSUME NEW u \in User, Attach(u) \/ SetVal(u) \/ LockEnter(u) PROVE Numbers'
  <2>1. PICK l \in {"setval", "memset", "enter", "counting"} : pc' = [pc EXCEPT ![u] = l]
    BY <1>6 DEF Attach, SetVal, LockEnter, Goto
  <2>2. Before(u) /\ UNCHANGED <<global_seq, posted>>
    BY <1>6 DEF Attach, SetVal, LockEnter, Before, Launching, shm
  <2> QED BY <1>5, <2>1, <2>2
<1>7. ASSUME NEW u \in User,
             \/ Enter(u) \/ Start(u) \/ Timeout(u) \/ LockSend(u) \/ Fill(u) \/ LockQuit(u)
             \/ SetFlag(u) \/ Check(u) \/ EndLoop(u) \/ LockLeave(u) \/ Leave(u) \/ Remove(u)
             \/ Crash(u) \/ \E t \in {"send", "quit"} : Type(u, t)
      PROVE  Numbers'
  <2>1. PICK l \in Place \ {"out", "setval", "memset", "enter", "counting", "fill"} :
          pc' = [pc EXCEPT ![u] = l]
    BY <1>7 DEF Enter, Start, Timeout, LockSend, Fill, LockQuit, SetFlag, Check, EndLoop,
                LockLeave, Leave, Remove, Crash, Type, Lock, Goto, Place
  <2>2. UNCHANGED <<global_seq, posted>>
    BY <1>7 DEF Enter, Start, Timeout, LockSend, Fill, LockQuit, SetFlag, Check, EndLoop,
                LockLeave, Leave, Remove, Crash, Type, Lock, shm
  <2> QED BY <1>4, <2>1, <2>2
<1>8. ASSUME NEW u \in User, Read(u) PROVE UNCHANGED <<global_seq, posted, pc>>
  BY <1>8 DEF Read, shm
<1> QED BY <1>1, <1>2, <1>3, <1>6, <1>7, <1>8 DEF Next, Step, vars, shm

(* Two numbers less than a ring apart have different slots.                *)
LEMMA SlotsApart ==
  ASSUME NEW a \in Nat, NEW b \in Nat, a < b, b - a < MaxLog
  PROVE  a % MaxLog # b % MaxLog
<1>1. MaxLog \in Nat \ {0}
  BY ShmAssumption
<1> DEFINE k == (b \div MaxLog) - (a \div MaxLog)
<1>2. SUFFICES ASSUME a % MaxLog = b % MaxLog PROVE FALSE
  OBVIOUS
<1>3. b - a = MaxLog * k /\ k \in Int
  <2>1. /\ a = MaxLog * (a \div MaxLog) + (a % MaxLog) /\ a \div MaxLog \in Int
        /\ b = MaxLog * (b \div MaxLog) + (b % MaxLog) /\ b \div MaxLog \in Int
    BY <1>1
  <2> QED BY <1>1, <1>2, <2>1
<1> HIDE DEF k
<1>4. (k >= 1 => MaxLog * k >= MaxLog) /\ (k <= 0 => MaxLog * k <= 0)
  BY <1>1, <1>3
<1> QED BY <1>1, <1>3, <1>4

(* While a kill has left no slot half written, each of the last MaxLog     *)
(* numbers has its message in its slot.                                    *)
LEMMA RingStep ==
  ASSUME TypeOK, Entering, LockSet, Numbers, RingIntegrity, [Next]_vars
  PROVE  RingIntegrity'
<1> SUFFICES ASSUME NoCrash' PROVE RingIntegrity'
  BY DEF RingIntegrity
<1>1. CASE UNCHANGED <<global_seq, posted, logs, pc>>
  BY <1>1 DEF RingIntegrity, NoCrash
<1>2. ASSUME NEW u \in User, NEW l, pc' = [pc EXCEPT ![u] = l], pc[u] \notin {"fill", "crashed"},
             UNCHANGED <<global_seq, posted, logs>>
      PROVE  RingIntegrity'
  <2>1. \A w \in User : pc'[w] = IF w = u THEN l ELSE pc[w]
    BY <1>2 DEF TypeOK
  <2>2. NoCrash /\ \A w \in User : pc[w] = "fill" => pc'[w] = "fill"
    BY <1>2, <2>1 DEF NoCrash
  <2>3. \A n \in 1..global_seq : posted[n] \in User
    BY ElementOfSeq DEF TypeOK, Numbers
  <2> QED BY <1>2, <2>2, <2>3 DEF RingIntegrity
<1>3. ASSUME NEW u \in User, Memset(u) PROVE RingIntegrity'
  <2>1. global_seq' = 0 /\ UNCHANGED posted /\ global_seq = 0
    BY <1>3 DEF Memset, Numbers, Before, Launching
  <2> QED BY <2>1 DEF RingIntegrity, Numbers
<1>4. ASSUME NEW u \in User, Bump(u) PROVE RingIntegrity'
  <2>1. /\ pc[u] = "bump" /\ pc' = [pc EXCEPT ![u] = "fill"] /\ UNCHANGED logs
        /\ global_seq' = global_seq + 1 /\ posted' = Append(posted, u)
    BY <1>4 DEF Bump, Goto
  <2>2. \A w \in User : pc'[w] = IF w = u THEN "fill" ELSE pc[w]
    BY <2>1 DEF TypeOK
  <2>3. /\ global_seq = Len(posted) /\ global_seq \in Nat
        /\ \A n \in 1..global_seq : posted'[n] = posted[n] /\ posted[n] \in User
        /\ posted'[global_seq + 1] = u /\ Len(posted') = Len(posted) + 1
    BY <2>1, AppendProperties, LenProperties, ElementOfSeq DEF TypeOK, Numbers
  <2>4. NoCrash /\ \A w \in User : pc[w] # "fill"
    BY <2>1, <2>2 DEF NoCrash, LockSet, InCS
  <2>5. ASSUME NEW n \in 1..global_seq', n > global_seq' - MaxLog
        PROVE  \/ logs'[n % MaxLog] = Slot(posted'[n], n)
               \/ n = global_seq' /\ pc'[posted'[n]] = "fill"
    <3>1. CASE n = global_seq + 1
      BY <2>1, <2>2, <2>3, <3>1
    <3>2. CASE n # global_seq + 1
      <4>1. n \in 1..global_seq /\ n > global_seq - MaxLog
        BY <2>1, <2>3, <2>5, <3>2, ShmAssumption
      <4>2. logs[n % MaxLog] = Slot(posted[n], n)
        BY <2>3, <2>4, <4>1 DEF RingIntegrity
      <4> QED BY <2>1, <2>3, <4>1, <4>2
    <3> QED BY <3>1, <3>2
  <2> QED BY <2>1, <2>3, <2>5 DEF RingIntegrity
<1>5. ASSUME NEW u \in User, Fill(u) PROVE RingIntegrity'
  <2>1. /\ pc[u] = "fill" /\ pc' = [pc EXCEPT ![u] = "read"]
        /\ logs' = [logs EXCEPT ![global_seq % MaxLog] = Slot(u, global_seq)]
        /\ UNCHANGED <<global_seq, posted>>
    BY <1>5 DEF Fill, Goto, Index
  <2>2. NoCrash
    BY <2>1 DEF TypeOK, NoCrash
  <2>3. global_seq \in Nat /\ global_seq > 0 /\ posted[global_seq] = u
    BY <2>1 DEF TypeOK, Numbers
  <2>4. \A i \in 0..(MaxLog-1) : logs'[i] = IF i = global_seq % MaxLog THEN Slot(u, global_seq)
                                                                  ELSE logs[i]
    BY <2>1 DEF TypeOK
  <2>5. ASSUME NEW n \in 1..global_seq, n > global_seq - MaxLog
        PROVE  logs'[n % MaxLog] = Slot(posted[n], n)
    <3>1. n \in Nat /\ n % MaxLog \in 0..(MaxLog-1)
      BY <2>3, RingIndex
    <3>2. CASE n = global_seq
      BY <2>3, <2>4, <3>1, <3>2
    <3>3. CASE n # global_seq
      <4>1. logs[n % MaxLog] = Slot(posted[n], n)
        BY <2>2, <2>5, <3>3 DEF RingIntegrity
      <4>2. n < global_seq /\ global_seq - n < MaxLog
        BY <2>3, <2>5, <3>1, <3>3, ShmAssumption
      <4>3. n % MaxLog # global_seq % MaxLog
        BY <2>3, <3>1, <4>2, SlotsApart
      <4> QED BY <2>4, <3>1, <4>1, <4>3
    <3> QED BY <3>2, <3>3
  <2> QED BY <2>1, <2>2, <2>5 DEF RingIntegrity
<1>6. ASSUME NEW u \in User, Crash(u) PROVE FALSE
  <2>1. pc'[u] = "crashed"
    BY <1>6 DEF TypeOK, Crash, Goto
  <2> QED BY <2>1 DEF NoCrash
<1>7. ASSUME NEW u \in User,
             \/ Attach(u) \/ SetVal(u) \/ LockEnter(u) \/ Enter(u) \/ Start(u) \/ Timeout(u)
             \/ LockSend(u) \/ LockQuit(u) \/ SetFlag(u) \/ Check(u) \/ EndLoop(u)
             \/ LockLeave(u) \/ Leave(u) \/ Remove(u) \/ \E t \in {"send", "quit"} : Type(u, t)
      PROVE  RingIntegrity'
  <2>1. PICK l \in Place : pc' = [pc EXCEPT ![u] = l]
    BY <1>7 DEF Attach, SetVal, LockEnter, Enter, Start, Timeout, LockSend, LockQuit, SetFlag,
                Check, EndLoop, LockLeave, Leave, Remove, Type, Lock, Goto, Place
  <2>2. pc[u] \notin {"fill", "crashed"} /\ UNCHANGED <<global_seq, posted, logs>>
    BY <1>7 DEF Attach, SetVal, LockEnter, Enter, Start, Timeout, LockSend, LockQuit, SetFlag,
                Check, EndLoop, LockLeave, Leave, Remove, Type, Lock, shm
  <2> QED BY <1>2, <2>1, <2>2
<1>8. ASSUME NEW u \in User, Read(u) PROVE UNCHANGED <<global_seq, posted, logs, pc>>
  BY <1>8 DEF Read, shm
<1> QED BY <1>1, <1>3, <1>4, <1>5, <1>6, <1>7, <1>8 DEF Next, Step, vars, shm

-----------------------------------------------------------------------------
(* The quit flags: a user that has set its own sends no more, and nobody   *)
(* passes the loop before all have.                                        *)

LEMMA QuitsStep ==
  ASSUME TypeOK, Entering, Quits, [Next]_vars
  PROVE  Quits'
<1>1. CASE UNCHANGED <<quit_flags, i_quit, pc>>
  BY <1>1 DEF Quits, AllQuit, PastLoop, Before, Launching
<1>2. ASSUME NEW u \in User, NEW l \in Place, pc' = [pc EXCEPT ![u] = l],
             l \in {"send", "bump", "fill"} => ~i_quit[u],
             l \in {"end", "leave", "remove", "done"} => AllQuit,
             l \in {"out", "setval", "memset", "enter", "counting"} => Before(u),
             UNCHANGED <<quit_flags, i_quit>>
      PROVE  Quits'
  <2>1. \A w \in User : pc'[w] = IF w = u THEN l ELSE pc[w]
    BY <1>2 DEF TypeOK
  <2>2. \A w \in User : Before(w)' => Before(w)
    BY <1>2, <2>1 DEF Before, Launching
  <2>3. \A w \in User : PastLoop(w)' => AllQuit
    BY <1>2, <2>1 DEF Quits, PastLoop
  <2>4. \A w \in User : pc'[w] \in {"send", "bump", "fill"} => ~i_quit[w]
    BY <1>2, <2>1 DEF Quits
  <2> QED BY <1>2, <2>2, <2>3, <2>4 DEF Quits, AllQuit
<1>3. ASSUME NEW u \in User, Memset(u) PROVE Quits'
  <2>1. /\ pc[u] = "memset" /\ pc' = [pc EXCEPT ![u] = "enter"] /\ UNCHANGED i_quit
        /\ quit_flags' = [w \in User |-> 0]
    BY <1>3 DEF Memset, Goto, own
  <2>2. \A w \in User : pc'[w] = IF w = u THEN "enter" ELSE pc[w]
    BY <2>1 DEF TypeOK
  <2>3. \A w \in User : ~i_quit[w] /\ ~Started(w)
    BY <2>1 DEF Quits, Entering, Before, Launching
  <2>4. \A w \in User : ~PastLoop(w)' /\ (pc'[w] \in {"send", "bump", "fill"} => ~i_quit[w])
    BY <2>2, <2>3 DEF Started, PastLoop, Before, Launching
  <2>5. \A w \in User : i_quit'[w] = TRUE <=> quit_flags'[w] = 1
    BY <2>1, <2>3
  <2> QED BY <2>1, <2>3, <2>4, <2>5 DEF Quits
<1>4. ASSUME NEW u \in User, SetFlag(u) PROVE Quits'
  <2>1. /\ pc[u] = "flag" /\ pc' = [pc EXCEPT ![u] = "read"]
        /\ quit_flags' = [quit_flags EXCEPT ![u] = 1] /\ i_quit' = [i_quit EXCEPT ![u] = TRUE]
    BY <1>4 DEF SetFlag, Goto
  <2>2. \A w \in User : pc'[w] = IF w = u THEN "read" ELSE pc[w]
    BY <2>1 DEF TypeOK
  <2>3. \A w \in User : ~Before(w)'
    BY <2>1, <2>2 DEF Entering, Started, Before, Launching
  <2>4. \A w \in User : quit_flags'[w] = (IF w = u THEN 1 ELSE quit_flags[w])
                        /\ i_quit'[w] = (IF w = u THEN TRUE ELSE i_quit[w])
    BY <2>1 DEF TypeOK
  <2>5. AllQuit => AllQuit'
    <3>1. \A w \in User : quit_flags'[w] = (IF w = u THEN 1 ELSE quit_flags[w])
      BY <2>4
    <3> QED BY <3>1 DEF AllQuit
  <2>6. \A w \in User : PastLoop(w)' => PastLoop(w)
    BY <2>2 DEF PastLoop
  <2> QED BY <2>2, <2>3, <2>4, <2>5, <2>6 DEF Quits
<1>5. ASSUME NEW u \in User, Attach(u) \/ SetVal(u) \/ LockEnter(u) PROVE Quits'
  <2>1. PICK l \in {"setval", "memset", "enter", "counting"} : pc' = [pc EXCEPT ![u] = l]
    BY <1>5 DEF Attach, SetVal, LockEnter, Goto
  <2>2. Before(u) /\ UNCHANGED <<quit_flags, i_quit>>
    BY <1>5 DEF Attach, SetVal, LockEnter, Before, Launching, shm, own
  <2> QED BY <1>2, <2>1, <2>2 DEF Place
<1>6. ASSUME NEW u \in User, NEW t \in {"send", "quit"}, Type(u, t) PROVE Quits'
  <2>1. /\ pc' = [pc EXCEPT ![u] = t]
        /\ t = "send" => ~i_quit[u]
        /\ UNCHANGED <<quit_flags, i_quit>>
    BY <1>6 DEF Type, MaySend, Goto, shm, own
  <2>2. t \in Place /\ t \notin {"setval", "memset", "enter", "counting", "bump", "fill"}
        /\ t \notin {"end", "leave", "remove", "done"}
    BY DEF Place
  <2> QED BY <1>2, <2>1, <2>2
<1>7. ASSUME NEW u \in User, LockSend(u) \/ Bump(u) PROVE Quits'
  <2>1. PICK l \in {"bump", "fill"} : pc' = [pc EXCEPT ![u] = l]
    BY <1>7 DEF LockSend, Bump, Lock, Goto
  <2>2. pc[u] \in {"send", "bump"} /\ UNCHANGED <<quit_flags, i_quit>>
    BY <1>7 DEF LockSend, Bump, Lock, shm, own
  <2>3. ~i_quit[u]
    BY <2>2 DEF Quits
  <2> QED BY <1>2, <2>1, <2>2, <2>3 DEF Place
<1>8. ASSUME NEW u \in User, EndLoop(u) \/ LockLeave(u) \/ Leave(u) \/ Remove(u) PROVE Quits'
  <2>1. PICK l \in {"end", "talk", "leave", "remove", "done"} :
          pc' = [pc EXCEPT ![u] = l] /\ (l = "talk" \/ AllQuit \/ PastLoop(u))
    BY <1>8 DEF EndLoop, LockLeave, Leave, Remove, Lock, Goto, PastLoop
  <2>2. UNCHANGED <<quit_flags, i_quit>>
    BY <1>8 DEF EndLoop, LockLeave, Leave, Remove, Lock, shm, own
  <2>3. l # "talk" => AllQuit
    BY <2>1 DEF Quits
  <2> QED BY <1>2, <2>1, <2>2, <2>3 DEF Place
<1>9. ASSUME NEW u \in User,
             \/ Enter(u) \/ Start(u) \/ Timeout(u) \/ Fill(u) \/ LockQuit(u) \/ Check(u) \/ Crash(u)
      PROVE  Quits'
  <2>1. PICK l \in {"barrier", "talk", "read", "flag", "check", "crashed"} :
          pc' = [pc EXCEPT ![u] = l]
    BY <1>9 DEF Enter, Start, Timeout, Fill, LockQuit, Check, Crash, Lock, Goto
  <2>2. UNCHANGED <<quit_flags, i_quit>>
    BY <1>9 DEF Enter, Start, Timeout, Fill, LockQuit, Check, Crash, Lock, shm, own
  <2> QED BY <1>2, <2>1, <2>2 DEF Place
<1>10. ASSUME NEW u \in User, Read(u) PROVE UNCHANGED <<quit_flags, i_quit, pc>>
  BY <1>10 DEF Read, shm
<1> QED BY <1>1, <1>3, <1>4, <1>5, <1>6, <1>7, <1>8, <1>9, <1>10 DEF Next, Step, vars, shm, own

-----------------------------------------------------------------------------
LEMMA InvStep == ASSUME OrderedLaunch PROVE IInv /\ [Next]_vars => IInv'
<1> SUFFICES ASSUME IInv, [Next]_vars PROVE IInv'
  OBVIOUS
<1> USE DEF IInv
<1>1. TypeOK' /\ Entering' /\ LockSet'
  BY TypeStep, EnteringStep, LockStep
<1>2. Numbers' /\ RingIntegrity' /\ Quits'
  BY NumbersStep, RingStep, QuitsStep
<1> QED BY <1>1, <1>2

LEMMA Invariance == ASSUME OrderedLaunch PROVE Spec => []IInv
<1>1. IInv /\ [Next]_vars => IInv'
  BY InvStep
<1> QED BY InitInv, <1>1, PTL DEF Spec

(* Users started one after the other keep all variables in their types: in *)
(* particular user_count never leaves 0..N, whoever is killed.             *)
THEOREM TypeCorrect == ASSUME OrderedLaunch PROVE Spec => []TypeOK
<1>1. IInv => TypeOK
  BY DEF IInv
<1> QED BY Invariance, <1>1, PTL

(* Mutual exclusion: the semaphore is taken exactly when one user is       *)
(* between p and v, after any kills; a late memset or SETVAL cannot come   *)
(* between (p, v and the initialisation of main).                          *)
THEOREM LockCorrect == ASSUME OrderedLaunch PROVE Spec => []LockHeldByOne
<1>1. IInv => LockHeldByOne
  BY DEF IInv, LockSet, LockHeldByOne
<1> QED BY Invariance, <1>1, PTL

(* The ring holds the last MaxLog messages, each in its own slot, but for  *)
(* the one being written (the sending branch of main).                     *)
THEOREM RingCorrect == ASSUME OrderedLaunch PROVE Spec => []RingIntegrity
<1>1. IInv => RingIntegrity
  BY DEF IInv
<1> QED BY Invariance, <1>1, PTL

(* For the barrier the order of the launch does not matter: a user that    *)
(* loads user_count is itself still to come, so what it stores back, late  *)
(* as it may be, never counts one of the others that are.                  *)
Coming ==
  /\ user_count \in Int /\ count \in [User -> Int] /\ pc \in [User -> Place]
  /\ user_count + Cardinality(ToCome) <= N
  /\ \A u \in User : pc[u] = "counting" => count[u] + Cardinality(ToCome) <= N
  /\ \A u, w \in User : Started(u) => ~Before(w)

LEMMA ComingInit == Init => Coming
<1> SUFFICES ASSUME Init PROVE Coming
  OBVIOUS
<1>1. ToCome = User
  BY DEF Init, ToCome, Before
<1>2. user_count + Cardinality(ToCome) <= N
  BY <1>1, SetsFinite DEF Init, N
<1> QED BY <1>2 DEF Init, Coming, Place, Started, Before

(* A user that moves without counting.                                     *)
LEMMA ComingMove ==
  ASSUME Coming, NEW u \in User, NEW l \in Place, pc' = [pc EXCEPT ![u] = l],
         user_count' \in Int, user_count' <= user_count \/ user_count' = 0, UNCHANGED count,
         l = "out" => pc[u] = "out", l \in {"setval", "memset", "enter"} => Before(u),
         l # "counting",
         l \notin {"barrier", "crashed"} /\ ~(l = "out" \/ l \in {"setval", "memset", "enter"}) =>
           Started(u) \/ AllIn
  PROVE  Coming'
<1>1. pc' \in [User -> Place] /\ \A w \in User : pc'[w] = IF w = u THEN l ELSE pc[w]
  BY DEF Coming
<1>2. ToCome' \subseteq ToCome /\ \A w \in User : Before(w)' => Before(w)
  BY <1>1 DEF ToCome, Before, Launching
<1>3. Cardinality(ToCome') <= Cardinality(ToCome) /\ Cardinality(ToCome') \in Nat
  BY <1>2, SetsFinite, FS_Subset, FS_CardinalityType
<1>4. user_count' + Cardinality(ToCome)' <= N
  <2>1. Cardinality(ToCome)' = Cardinality(ToCome')
    OBVIOUS
  <2>2. Cardinality(ToCome) <= N
    <3>1. ToCome \subseteq User
      BY DEF ToCome
    <3> QED BY <3>1, ShmAssumption, FS_Subset DEF N
  <2> QED BY <1>3, <2>1, <2>2, SetsFinite DEF Coming
<1>5. ASSUME NEW w \in User, pc'[w] = "counting" PROVE count'[w] + Cardinality(ToCome)' <= N
  <2>1. pc[w] = "counting" /\ count'[w] = count[w] /\ count[w] \in Int
    BY <1>1, <1>5 DEF Coming
  <2> QED BY <1>3, <2>1, SetsFinite DEF Coming
<1>6. ASSUME NEW v \in User, Started(v)', NEW w \in User PROVE ~Before(w)'
  <2>1. (\E x \in User : Started(x)) \/ AllIn
    BY <1>1, <1>6 DEF Started, Before, Launching
  <2>2. ~Before(w)
    <3>1. CASE AllIn
      <4>1. Cardinality(ToCome) = 0
        BY <3>1, SetsFinite DEF AllIn, Coming
      <4> QED BY <4>1, SetsFinite, FS_EmptySet DEF ToCome
    <3> QED BY <2>1, <3>1 DEF Coming
  <2> QED BY <1>2, <2>2
<1> QED BY <1>1, <1>4, <1>5, <1>6 DEF Coming

LEMMA ComingStep == Coming /\ [Next]_vars => Coming'
<1> SUFFICES ASSUME Coming, [Next]_vars PROVE Coming'
  OBVIOUS
<1>1. CASE UNCHANGED <<pc, user_count, count>>
  BY <1>1 DEF Coming, ToCome, Before, Launching, Started
<1>2. ASSUME NEW u \in User, Attach(u) \/ SetVal(u) \/ Memset(u) PROVE Coming'
  <2>1. PICK l \in {"setval", "memset", "enter"} : pc' = [pc EXCEPT ![u] = l] /\ Before(u)
    BY <1>2 DEF Attach, SetVal, Memset, Goto, Before, Launching
  <2>2. UNCHANGED count /\ (user_count' = user_count \/ user_count' = 0)
    BY <1>2 DEF Attach, SetVal, Memset, shm
  <2>3. user_count' \in Int /\ (user_count' <= user_count \/ user_count' = 0)
    BY <2>2 DEF Coming
  <2> QED BY <2>1, <2>2, <2>3, ComingMove DEF Place
<1>3. ASSUME NEW u \in User, LockEnter(u) PROVE Coming'
  <2>1. /\ pc' = [pc EXCEPT ![u] = "counting"] /\ pc[u] = "enter"
        /\ count' = [count EXCEPT ![u] = user_count] /\ user_count' = user_count
    BY <1>3 DEF LockEnter, Goto, shm
  <2>2. \A w \in User : /\ pc'[w] = IF w = u THEN "counting" ELSE pc[w]
                        /\ count'[w] = IF w = u THEN user_count ELSE count[w]
    BY <2>1 DEF Coming
  <2>3. ToCome' = ToCome /\ \A w \in User : (Started(w)' <=> Started(w)) /\ (Before(w)' <=> Before(w))
    BY <2>1, <2>2 DEF ToCome, Before, Launching, Started
  <2>4. pc' \in [User -> Place] /\ count' \in [User -> Int]
    BY <2>1 DEF Coming, Place
  <2> QED BY <2>1, <2>2, <2>3, <2>4 DEF Coming
<1>4. ASSUME NEW u \in User, Enter(u) PROVE Coming'
  <2>1. /\ pc' = [pc EXCEPT ![u] = "barrier"] /\ pc[u] = "counting"
        /\ user_count' = count[u] + 1 /\ count' = count
    BY <1>4 DEF Enter, Goto
  <2>2. pc' \in [User -> Place] /\ \A w \in User : pc'[w] = IF w = u THEN "barrier" ELSE pc[w]
    BY <2>1 DEF Coming, Place
  <2>3. ToCome' = ToCome \ {u} /\ u \in ToCome
    BY <2>1, <2>2 DEF ToCome, Before, Launching
  <2>4. Cardinality(ToCome)' = Cardinality(ToCome) - 1
    BY <2>3, SetsFinite, FS_RemoveElement
  <2>5. count[u] + Cardinality(ToCome) <= N /\ count[u] \in Int
    BY <2>1 DEF Coming
  <2>6. user_count' \in Int /\ user_count' + Cardinality(ToCome)' <= N
    BY <2>1, <2>4, <2>5, SetsFinite
  <2>7. ASSUME NEW w \in User, pc'[w] = "counting" PROVE count'[w] + Cardinality(ToCome)' <= N
    <3>1. pc[w] = "counting" /\ count[w] \in Int
      BY <2>2, <2>7 DEF Coming
    <3> QED BY <2>1, <2>4, <3>1, SetsFinite DEF Coming
  <2>8. \A v, w \in User : Started(v)' => ~Before(w)'
    BY <2>2 DEF Coming, Started, Before, Launching
  <2>9. count' \in [User -> Int]
    BY <2>1 DEF Coming
  <2> QED BY <2>2, <2>6, <2>7, <2>8, <2>9 DEF Coming
<1>5. ASSUME NEW u \in User,
             \/ Start(u) \/ Timeout(u) \/ LockSend(u) \/ Bump(u) \/ Fill(u) \/ LockQuit(u)
             \/ SetFlag(u) \/ Check(u) \/ EndLoop(u) \/ LockLeave(u) \/ Leave(u) \/ Remove(u)
             \/ \E t \in {"send", "quit"} : Type(u, t)
      PROVE  Coming'
  <2>1. PICK l \in TalkPlace \cup {"remove", "done"} : pc' = [pc EXCEPT ![u] = l]
    BY <1>5 DEF Start, Timeout, LockSend, Bump, Fill, LockQuit, SetFlag, Check, EndLoop, LockLeave,
       Leave, Remove, Type, Lock, Goto, TalkPlace
  <2>2. AllIn \/ pc[u] \in TalkPlace \cup {"remove"}
    BY <1>5 DEF Start, Timeout, LockSend, Bump, Fill, LockQuit, SetFlag, Check, EndLoop, LockLeave,
       Leave, Remove, Type, Lock, TalkPlace
  <2>3. AllIn \/ Started(u)
    BY <2>2 DEF Started, Before, Launching, TalkPlace
  <2>4. UNCHANGED count /\ (user_count' = user_count \/ user_count' = user_count - 1)
    BY <1>5 DEF Start, Timeout, LockSend, Bump, Fill, LockQuit, SetFlag, Check, EndLoop, LockLeave,
       Leave, Remove, Type, Lock, shm
  <2>5. user_count' \in Int /\ user_count' <= user_count
    BY <2>4 DEF Coming
  <2> QED BY <2>1, <2>3, <2>4, <2>5, ComingMove DEF TalkPlace, Place
<1>6. ASSUME NEW u \in User, Crash(u) PROVE Coming'
  <2>1. pc' = [pc EXCEPT ![u] = "crashed"] /\ UNCHANGED <<user_count, count>>
    BY <1>6 DEF Crash, Goto, shm
  <2>2. user_count' \in Int /\ user_count' <= user_count
    BY <2>1 DEF Coming
  <2> QED BY <2>1, <2>2, ComingMove DEF Place
<1>7. ASSUME NEW u \in User, Read(u) PROVE UNCHANGED <<pc, user_count, count>>
  BY <1>7 DEF Read, shm
<1> QED BY <1>1, <1>2, <1>3, <1>4, <1>5, <1>6, <1>7 DEF Next, Step, vars, shm

(* Nobody talks before all have entered, in whatever order they start and  *)
(* whoever initialises the segment again or is killed (the barrier of      *)
(* main).                                                                  *)
THEOREM BarrierCorrect == Spec => []BarrierHolds
<1>1. Coming => BarrierHolds
  BY DEF Coming, Started, Before, Launching, BarrierHolds
<1> QED BY ComingInit, ComingStep, <1>1, PTL DEF Spec

(* The objects are removed when everybody has left or was killed, never    *)
(* under a user that still needs them (the end of main).                   *)
THEOREM RemovalCorrect == ASSUME OrderedLaunch PROVE Spec => []RemovedByLast
<1>1. IInv => RemovedByLast
  BY DEF IInv, Entering
<1> QED BY Invariance, <1>1, PTL

(* Once anybody is past the loop all have quit, and no number is given any *)
(* more: the talk ends at the same message for everyone.                   *)
THEOREM EndCorrect == ASSUME OrderedLaunch PROVE Spec => EndTogether
<1>1. ASSUME IInv, [Next]_vars, NEW v \in User, PastLoop(v)
      PROVE  AllQuit /\ global_seq' = global_seq
  <2>1. AllQuit /\ Started(v)
    BY <1>1 DEF IInv, Quits, PastLoop, Started, Before, Launching
  <2>2. \A u \in User : ~Bump(u) /\ ~Memset(u)
    BY <1>1, <2>1 DEF IInv, Quits, AllQuit, Bump, Memset, Entering, Before, Launching
  <2>3. CASE UNCHANGED vars
    BY <2>1, <2>3 DEF vars, shm
  <2>4. ASSUME NEW u \in User, Step(u) PROVE global_seq' = global_seq
    BY <2>2, <2>4 DEF Step, SetVal, LockEnter, Enter, Start, Timeout, LockSend, Fill, LockQuit,
                      SetFlag, Read, Check, EndLoop, LockLeave, Leave, Remove, Lock, shm
  <2>5. ASSUME NEW u \in User, Attach(u) \/ Crash(u) \/ \E t \in {"send", "quit"} : Type(u, t)
        PROVE  global_seq' = global_seq
    BY <2>5 DEF Attach, Crash, Type, shm
  <2> QED BY <1>1, <2>1, <2>3, <2>4, <2>5 DEF Next
<1>2. IInv /\ [Next]_vars
        => [(\E u \in User : PastLoop(u)) => AllQuit /\ global_seq' = global_seq]_vars
  BY <1>1
<1> QED BY Invariance, <1>2, PTL DEF Spec, EndTogether

-----------------------------------------------------------------------------
(* What a reader copies.  SameOrder does not hold; this is how much of the *)
(* order does: a reader that has not fallen a whole ring behind copies the *)
(* message with its number, whole, unless the number is that of the        *)
(* message a writer is filling in.                                         *)
ReadsRight == [][\A u \in User : LET n == local_seq[u] + 1 IN
  /\ Read(u) /\ NoCrash /\ n > global_seq - MaxLog
  /\ n < global_seq \/ \A w \in User : pc[w] # "fill"
  => heard'[u] = Slot(posted[n], n)]_vars

LEMMA CopiesSlot ==
  ASSUME IInv, NEW u \in User, Read(u), NoCrash,
         NEW n, n = local_seq[u] + 1, n > global_seq - MaxLog,
         n < global_seq \/ \A w \in User : pc[w] # "fill"
  PROVE  heard'[u] = Slot(posted[n], n)
<1>0. TypeOK /\ Numbers /\ RingIntegrity
  BY DEF IInv
<1>1. n \in Nat /\ n \in 1..global_seq /\ global_seq \in Nat /\ n % MaxLog \in 0..(MaxLog-1)
  <2>1. local_seq[u] \in Nat /\ global_seq \in Nat /\ local_seq[u] < global_seq
    BY <1>0 DEF Read, TypeOK
  <2>2. n \in Nat /\ n \in 1..global_seq
    BY <2>1
  <2> QED BY <2>1, <2>2, RingIndex
<1>2. PICK s \in Seen(n % MaxLog) : heard' = [heard EXCEPT ![u] = s]
  BY DEF Read
<1>3. s = logs[n % MaxLog]
  <2> SUFFICES ASSUME NEW w \in User, pc[w] = "fill", global_seq % MaxLog = n % MaxLog PROVE FALSE
    BY <1>2 DEF Seen
  <2>1. n < global_seq /\ global_seq - n < MaxLog
    BY <1>1, ShmAssumption
  <2> QED BY <1>1, <2>1, SlotsApart
<1>4. logs[n % MaxLog] = Slot(posted[n], n)
  <2>1. \A k \in 1..global_seq : posted[k] \in User
    BY <1>0, ElementOfSeq DEF TypeOK, Numbers
  <2> QED BY <1>0, <1>1, <2>1 DEF RingIntegrity
<1>5. heard'[u] = s
  BY <1>0, <1>2 DEF TypeOK
<1> QED BY <1>3, <1>4, <1>5

(* The order is the same for every reader that keeps up with the writers   *)
(* and does not read the message being written (the reading loop of main). *)
THEOREM ReadCorrect == ASSUME OrderedLaunch PROVE Spec => ReadsRight
<1>1. IInv /\ [Next]_vars => [\A u \in User : LET n == local_seq[u] + 1 IN
        /\ Read(u) /\ NoCrash /\ n > global_seq - MaxLog
        /\ n < global_seq \/ \A w \in User : pc[w] # "fill"
        => heard'[u] = Slot(posted[n], n)]_vars
  BY CopiesSlot
<1> QED BY Invariance, <1>1, PTL DEF Spec, ReadsRight

-----------------------------------------------------------------------------
(* With nobody killed user_count is exactly the number of the users in, so *)
(* the barrier opens for the last to come and the last to go is the last.  *)
Settled == NoCrash =>
  /\ user_count = Cardinality(In)
  /\ \A u \in User : Before(u) \/ pc[u] = "barrier" => ~i_quit[u]
  /\ (\A u \in User : pc[u] = "done") => removed

(* Nobody is left at the barrier, and nothing is left behind: when all     *)
(* have entered the barrier is open, and when all are gone the segment and *)
(* the semaphore are too.                                                  *)
SessionWhole == NoCrash =>
  /\ (\A w \in User : ~Before(w)) => \A u \in User : pc[u] = "barrier" => AllIn
  /\ (\A u \in User : pc[u] = "done") => removed

LEMMA SettledStep ==
  ASSUME IInv, Settled, [Next]_vars
  PROVE  Settled'
<1> DEFINE Goal == /\ user_count' = Cardinality(In')
                   /\ \A w \in User : Before(w)' \/ pc'[w] = "barrier" => ~i_quit'[w]
                   /\ (\A w \in User : pc'[w] = "done") => removed'
<1> SUFFICES ASSUME NoCrash' PROVE Goal
  BY DEF Settled
<1>0. TypeOK /\ Entering /\ Quits
  BY DEF IInv
<1>1. CASE UNCHANGED <<pc, user_count, i_quit, removed>>
  BY <1>1 DEF Settled, NoCrash, In, Inside, Before, Launching
<1>2. ASSUME NEW u \in User, NEW l \in Place, pc' = [pc EXCEPT ![u] = l], pc[u] # "crashed"
      PROVE  NoCrash /\ Settled /\ \A w \in User : pc'[w] = IF w = u THEN l ELSE pc[w]
  <2>1. \A w \in User : pc'[w] = IF w = u THEN l ELSE pc[w]
    BY <1>0, <1>2 DEF TypeOK
  <2> QED BY <1>2, <2>1 DEF NoCrash
<1>3. ASSUME NEW u \in User, NEW l \in Place \ {"done", "crashed"}, pc' = [pc EXCEPT ![u] = l],
             pc[u] # "crashed", UNCHANGED <<user_count, i_quit>>,
             (Before(u) /\ l \in {"setval", "memset", "enter", "counting"}) \/ (Inside(u) /\ l \in TalkPlace)
      PROVE  Goal
  <2>1. NoCrash /\ \A w \in User : pc'[w] = IF w = u THEN l ELSE pc[w]
    BY <1>2, <1>3
  <2>2. In' = In
    BY <1>3, <2>1 DEF In, Inside, Before, Launching, TalkPlace
  <2>3. \A w \in User : Before(w)' \/ pc'[w] = "barrier" => Before(w) \/ pc[w] = "barrier"
    BY <1>3, <2>1 DEF Before, Launching, TalkPlace
  <2> QED BY <1>3, <2>1, <2>2, <2>3 DEF Settled
<1>4. ASSUME NEW u \in User, Attach(u) \/ SetVal(u) \/ LockEnter(u) PROVE Goal
  <2>1. PICK l \in {"setval", "memset", "enter", "counting"} : pc' = [pc EXCEPT ![u] = l]
    BY <1>4 DEF Attach, SetVal, LockEnter, Goto
  <2>2. Before(u) /\ pc[u] # "crashed" /\ UNCHANGED <<user_count, i_quit>>
    BY <1>4 DEF Attach, SetVal, LockEnter, Before, Launching, shm, own
  <2> QED BY <1>3, <2>1, <2>2 DEF Place
<1>5. ASSUME NEW u \in User, Memset(u) PROVE Goal
  <2>1. pc[u] = "memset" /\ pc' = [pc EXCEPT ![u] = "enter"] /\ user_count' = 0 /\ i_quit' = i_quit
    BY <1>5 DEF Memset, Goto, own
  <2>2. user_count = 0
    BY <1>0, <2>1 DEF Entering, First
  <2> QED BY <1>3, <2>1, <2>2 DEF Place, Before, Launching
<1>6. ASSUME NEW u \in User, Enter(u) PROVE Goal
  <2>1. /\ pc[u] = "counting" /\ pc' = [pc EXCEPT ![u] = "barrier"]
        /\ user_count' = count[u] + 1 /\ UNCHANGED <<removed, i_quit>>
    BY <1>6 DEF Enter, Goto, own
  <2>2. user_count' = user_count + 1
    BY <1>0, <2>1 DEF Entering
  <2>3. NoCrash /\ \A w \in User : pc'[w] = IF w = u THEN "barrier" ELSE pc[w]
    BY <1>2, <2>1 DEF Place
  <2>4. In' = In \cup {u} /\ u \notin In
    BY <2>1, <2>3 DEF In, Inside, Before, Launching
  <2>5. Cardinality(In') = Cardinality(In) + 1
    BY <2>4, SetsFinite, FS_AddElement
  <2>6. \A w \in User : Before(w)' \/ pc'[w] = "barrier" => Before(w) \/ pc[w] = "barrier"
    BY <2>1, <2>3 DEF Before, Launching
  <2> QED BY <2>1, <2>2, <2>3, <2>5, <2>6 DEF Settled
<1>7. ASSUME NEW u \in User, NEW l \in {"send", "quit"}, Type(u, l) PROVE Goal
  <2>1. pc[u] = "talk" /\ pc' = [pc EXCEPT ![u] = l] /\ UNCHANGED <<user_count, i_quit>>
    BY <1>7 DEF Type, Goto, shm, own
  <2>2. l \in Place \ {"done", "crashed"} /\ l \in TalkPlace
    BY DEF Place, TalkPlace
  <2>3. Inside(u) /\ pc[u] # "crashed"
    BY <2>1 DEF Inside, Before, Launching
  <2> QED BY <1>3, <2>1, <2>2, <2>3
<1>8. ASSUME NEW u \in User,
             \/ Start(u) \/ Timeout(u) \/ LockSend(u) \/ Bump(u) \/ Fill(u) \/ LockQuit(u)
             \/ Check(u) \/ EndLoop(u) \/ LockLeave(u)
      PROVE  Goal
  <2>1. PICK l \in TalkPlace : pc' = [pc EXCEPT ![u] = l]
    BY <1>8 DEF Start, Timeout, LockSend, Bump, Fill, LockQuit, Check, EndLoop, LockLeave, Lock,
                Goto, TalkPlace
  <2>2. pc[u] \in {"barrier", "talk", "send", "bump", "fill", "quit", "read", "check", "end"}
    BY <1>8 DEF Start, Timeout, LockSend, Bump, Fill, LockQuit, Check, EndLoop, LockLeave, Lock
  <2>3. UNCHANGED <<user_count, i_quit>>
    BY <1>8 DEF Start, Timeout, LockSend, Bump, Fill, LockQuit, Check, EndLoop, LockLeave, Lock,
                shm, own
  <2>4. l \in Place \ {"done", "crashed"} /\ Inside(u) /\ pc[u] # "crashed"
    BY <2>2 DEF TalkPlace, Place, Inside, Before, Launching
  <2> QED BY <1>3, <2>1, <2>3, <2>4
<1>9. ASSUME NEW u \in User, SetFlag(u) PROVE Goal
  <2>1. /\ pc[u] = "flag" /\ pc' = [pc EXCEPT ![u] = "read"]
        /\ i_quit' = [i_quit EXCEPT ![u] = TRUE] /\ UNCHANGED <<user_count, removed>>
    BY <1>9 DEF SetFlag, Goto
  <2>2. NoCrash /\ \A w \in User : pc'[w] = IF w = u THEN "read" ELSE pc[w]
    BY <1>2, <2>1 DEF Place
  <2>3. In' = In
    BY <2>1, <2>2 DEF In, Inside, Before, Launching
  <2>4. \A w \in User : Before(w)' \/ pc'[w] = "barrier"
          => w # u /\ (Before(w) \/ pc[w] = "barrier")
    BY <2>2 DEF Before, Launching
  <2>5. \A w \in User : w # u => i_quit'[w] = i_quit[w]
    BY <1>0, <2>1 DEF TypeOK
  <2> QED BY <2>1, <2>2, <2>3, <2>4, <2>5 DEF Settled
<1>10. ASSUME NEW u \in User, Leave(u) PROVE Goal
  <2>1. PICK l \in {"remove", "done"} :
          pc' = [pc EXCEPT ![u] = l] /\ (l = "done" => user_count # 1)
    BY <1>10 DEF Leave, LastOne, Goto
  <2>2. pc[u] = "leave" /\ user_count' = user_count - 1 /\ i_quit' = i_quit
    BY <1>10 DEF Leave, own
  <2>3. NoCrash /\ Settled /\ \A w \in User : pc'[w] = IF w = u THEN l ELSE pc[w]
    <3>1. l \in Place /\ pc[u] # "crashed"
      BY <2>2 DEF Place
    <3> QED BY <1>2, <2>1, <3>1
  <2>4. In' = In \ {u} /\ u \in In
    BY <2>2, <2>3 DEF In, Inside, Before, Launching
  <2>5. Cardinality(In') = Cardinality(In) - 1 /\ Cardinality(In) \in Nat
    BY <2>4, SetsFinite, FS_RemoveElement
  <2>6. user_count' = Cardinality(In')
    BY <2>2, <2>3, <2>5 DEF Settled
  <2>7. ~\A w \in User : pc'[w] = "done"
    <3> SUFFICES ASSUME \A w \in User : pc'[w] = "done" PROVE FALSE
      OBVIOUS
    <3>1. In' = {}
      BY DEF In, Inside
    <3>2. user_count' = 0
      BY <2>6, <3>1, FS_EmptySet
    <3>3. user_count # 1
      BY <2>1, <2>3
    <3> QED BY <2>2, <3>2, <3>3, <1>0 DEF Entering
  <2>8. \A w \in User : Before(w)' \/ pc'[w] = "barrier" => Before(w) \/ pc[w] = "barrier"
    BY <2>3 DEF Before, Launching
  <2> QED BY <2>2, <2>3, <2>6, <2>7, <2>8 DEF Settled
<1>11. ASSUME NEW u \in User, Remove(u) PROVE Goal
  <2>1. /\ pc[u] = "remove" /\ pc' = [pc EXCEPT ![u] = "done"] /\ removed' = TRUE
        /\ UNCHANGED <<user_count, i_quit>>
    BY <1>11 DEF Remove, Goto, shm, own
  <2>2. NoCrash /\ \A w \in User : pc'[w] = IF w = u THEN "done" ELSE pc[w]
    BY <1>2, <2>1 DEF Place
  <2>3. In' = In
    BY <2>1, <2>2 DEF In, Inside, Before, Launching
  <2>4. \A w \in User : Before(w)' \/ pc'[w] = "barrier" => Before(w) \/ pc[w] = "barrier"
    BY <2>2 DEF Before, Launching
  <2> QED BY <2>1, <2>2, <2>3, <2>4 DEF Settled
<1>12. ASSUME NEW u \in User, Crash(u) PROVE FALSE
  <2>1. pc'[u] = "crashed"
    BY <1>0, <1>12 DEF TypeOK, Crash, Goto
  <2> QED BY <2>1 DEF NoCrash
<1>13. ASSUME NEW u \in User, Read(u) PROVE UNCHANGED <<pc, user_count, i_quit, removed>>
  BY <1>13 DEF Read, shm
<1> QED BY <1>1, <1>4, <1>5, <1>6, <1>7, <1>8, <1>9, <1>10, <1>11, <1>12, <1>13
        DEF Next, Step, vars, shm, own

(* Users started one after the other, none of them killed: the barrier     *)
(* opens when all have entered, and the last one out removes the objects   *)
(* (user_count in main).                                                   *)
THEOREM SessionCorrect == ASSUME OrderedLaunch PROVE Spec => []SessionWhole
<1>1. ASSUME Init PROVE Settled
  <2>1. In = {} /\ user_count = 0 /\ \A u \in User : pc[u] = "out" /\ ~i_quit[u]
    BY <1>1 DEF Init, In, Inside, Before
  <2>2. \E u \in User : pc[u] # "done"
    BY <2>1, ShmAssumption
  <2> QED BY <2>1, <2>2, FS_EmptySet DEF Settled
<1>2. IInv /\ Settled /\ [Next]_vars => Settled'
  BY SettledStep
<1>3. ASSUME IInv, Settled PROVE SessionWhole
  <2> SUFFICES ASSUME NoCrash, \A w \in User : ~Before(w), NEW u \in User, pc[u] = "barrier"
               PROVE  AllIn
    BY <1>3 DEF SessionWhole, Settled
  <2>1. ~AllQuit
    BY <1>3 DEF IInv, Quits, AllQuit, Settled
  <2>2. \A w \in User : Inside(w)
    BY <1>3, <2>1 DEF IInv, Quits, PastLoop, NoCrash, Inside
  <2>3. In = User
    BY <2>2 DEF In
  <2> QED BY <1>3, <2>3, SetsFinite DEF Settled, AllIn, N
<1> QED BY Invariance, <1>1, <1>2, <1>3, PTL DEF Spec
=============================================================================
