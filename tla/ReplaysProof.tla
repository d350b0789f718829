---------------------------- MODULE ReplaysProof ----------------------------
(***************************************************************************)
(* Proofs about Replays, for both versions of the library, any set of      *)
(* typed numbers, a log of any size and any number of Ctrl+C and kills.    *)
(*                                                                         *)
(* What is in the log is a matter of sums over the inputs so far, and how  *)
(* long an input is a matter of all inputs before it: both are recursive   *)
(* functions, so the proof begins with induction over sets of numbers.     *)
(* The inductive invariant:                                                *)
(*   Control   which places of parent, program and handler go together     *)
(*   Starting  a program that starts has read nothing                      *)
(*   Memory    what of the log a program has read back, or left behind     *)
(*   Faith     unless the log is torn: the inputs of this life and those   *)
(*             to be kept are what the test program can read, and the log  *)
(*             and the file hold those they are to hold at each place      *)
(***************************************************************************)
EXTENDS Replays, SequenceTheorems, WellFoundedInduction, TLAPS

(* The test program's loops, as a function of what it has read.            *)
Place == [phase : Nat, n : Nat, i : Nat]
Begin == [phase |-> 0, n |-> 0, i |-> 0]
Here == [phase |-> phase, n |-> n, i |-> i]
After(p, v) ==
  IF p.i = p.n THEN [phase |-> p.phase + 1, n |-> v, i |-> 0] ELSE [p EXCEPT !.i = @ + 1]
Places(s) ==
  LET place[k \in 0..Len(s)] == IF k = 0 THEN Begin ELSE After(place[k-1], s[k].val) IN place
PlaceOf(s) == Places(s)[Len(s)]
Wants(p, x) == ~(p.phase = 3 /\ p.i = p.n) /\ x.size = IF p.phase = 3 THEN 1 ELSE 4
Legal(s) == \A k \in DOMAIN s : Wants(Places(s)[k-1], s[k])

ShmPlaces == {"none", "born", "zero", "ask", "run", "cut", "stored", "clean", "left", "exited",
              "killed"}
FilePlaces == {"new", "installed", "attached", "header", "ask", "run", "cut", "stored", "clean",
               "left", "exited", "killed", "caught", "emptied", "headed", "written"}
Beginning == {"none", "born", "zero", "new", "installed", "attached", "header", "ask"}

Control ==
  /\ version = "shm" => pc \in ShmPlaces /\ (parent = "fork" => pc \in {"none", "killed"})
  /\ version = "file" => pc \in FilePlaces /\ parent = "fork"
  /\ Handling => masked
  /\ pc = "stored" => life # <<>> /\ ~Replaying
  /\ pc = "cut" => mode = 0

Starting == pc \in Beginning =>
  /\ Here = Begin /\ life = <<>>
  /\ nscanf_running = 0 /\ nscanf_target = 0 /\ nbytes_running = 0
  /\ mode = IF version = "file" /\ pc = "ask" THEN 1 ELSE 0

Memory ==
  /\ Len(log1.bytes) <= MemSize
  /\ \A b \in 0..(MemSize-1) : b < nbytes_total => data[b] \in Byte
  /\ pc \in {"new", "installed", "attached"} => nscanf_total = 0 /\ nbytes_total = 0
  /\ pc = "header" => log1.is = "head" /\ nscanf_total = log1.total /\ nbytes_total = 0
  /\ version = "file" /\ pc = "ask" =>
       /\ log1.is = "head" /\ nscanf_total = log1.total /\ nbytes_total = Len(log1.bytes)
       /\ \A b \in 0..(Len(log1.bytes) - 1) : data[b] = log1.bytes[b + 1]
  /\ version = "file" /\ pc \in {"attached", "header", "ask", "run", "cut", "stored", "clean"} =>
       ~removed
  /\ version = "file" /\ pc = "left" => removed
  /\ version = "file" /\ pc \in {"clean", "left", "exited"} => log1 = NoFile
  /\ pc = "zero" => nscanf_total = 0
  /\ version = "shm" /\ pc \in {"clean", "left"} => nscanf_total = 0
  /\ version = "shm" /\ pc = "left" => nbytes_total = 0

(* The log starts with these inputs; it ends with them.                    *)
InLog(s) == BytesOf(s) <= nbytes_total /\ Spelled(s, data)
IsLog(s) == BytesOf(s) = nbytes_total /\ Spelled(s, data)

Common ==
  /\ nscanf_target <= Len(life) /\ nscanf_target <= Len(prev)
  /\ \A k \in 1..nscanf_target : life[k] = prev[k]

Kept ==
  /\ pc \in {"none", "born"} \/ (version = "shm" /\ pc \in {"killed", "ask"}) =>
       nscanf_total = Len(prev) /\ InLog(prev) /\ (prev = <<>> => nbytes_total = 0)
  /\ pc \in {"emptied", "headed"} \/ (pc = "caught" /\ ~removed) =>
       nscanf_total = Len(prev) /\ InLog(prev)
  /\ pc = "caught" /\ removed => prev = <<>>

Replayed ==
  /\ Replaying => Len(life) <= Len(prev) /\ \A k \in 1..Len(life) : life[k] = prev[k]
  /\ pc = "run" /\ Replaying =>
       /\ nscanf_total = Len(prev) /\ InLog(prev) /\ nscanf_target <= Len(prev)
       /\ nscanf_running = Len(life) /\ nbytes_running = BytesOf(life)
  /\ pc = "cut" =>
       nscanf_target = Len(life) /\ nscanf_total = Len(prev) /\ Common /\ IsLog(life)
  /\ pc \in {"clean", "left"} => ~Replaying

Recorded ==
  /\ pc = "run" /\ ~Replaying => nscanf_total = Len(life) /\ Common /\ IsLog(life)
  /\ pc = "stored" =>
       nscanf_total = Len(life) - 1 /\ nscanf_target < Len(life) /\ Common /\ IsLog(life)
  /\ version = "file" /\ pc = "clean" => nscanf_total = Len(life) /\ IsLog(life)

Filed ==
  /\ version = "file" /\ pc \in {"new", "installed", "attached", "header", "ask", "run", "cut",
                                 "stored", "killed", "written"} =>
       IF log1.is = "head" THEN InFile(prev) ELSE prev = <<>>
  /\ pc = "headed" => log1.is = "head" /\ log1.total = nscanf_total

Readable == Legal(life) /\ Legal(prev) /\ Here = PlaceOf(life)

Faith == ~torn => Readable /\ Kept /\ Replayed /\ Recorded /\ Filed

IInv == TypeOK /\ Control /\ Starting /\ Memory /\ Faith
-----------------------------------------------------------------------------
(* Induction over a set of numbers, from the least number outside of it.   *)
LEMMA NatInSet ==
  ASSUME NEW S, 0 \in S, \A k \in Nat : k \in S => k + 1 \in S
  PROVE  Nat \subseteq S
<1> DEFINE T == Nat \ S
           R == {r \in Nat \X Nat : r[1] < r[2]}
<1>1. SUFFICES ASSUME T # {} PROVE FALSE
  OBVIOUS
<1>2. IsWellFoundedOn(R, Nat)
  BY Zenon, NatLessThanWellFounded DEF OpToRel
<1>3. PICK x \in T : \A y \in T : ~ (<<y, x>> \in R)
  <2>1. T \subseteq Nat
    OBVIOUS
  <2> HIDE DEF T, R
  <2> QED BY <1>1, <1>2, <2>1, WFMin
<1>4. x \in Nat /\ x # 0
  OBVIOUS
<1>5. x - 1 \in Nat /\ x - 1 < x /\ (x - 1) + 1 = x
  BY <1>4
<1>6. x - 1 \in T
  BY <1>4, <1>5
<1>7. <<x - 1, x>> \in R
  BY <1>4, <1>5
<1> QED BY <1>3, <1>6, <1>7

(* The same, up to a bound.                                                *)
LEMMA UpTo ==
  ASSUME NEW N \in Nat, NEW S, 0 \in S, \A k \in 0..(N-1) : k \in S => k + 1 \in S
  PROVE  \A k \in 0..N : k \in S
<1> DEFINE T == {k \in Nat : k <= N => k \in S}
<1>1. \A k \in Nat : k \in T => k + 1 \in T
  OBVIOUS
<1>2. Nat \subseteq T
  <2>1. 0 \in T
    OBVIOUS
  <2> HIDE DEF T
  <2> QED BY <1>1, <2>1, NatInSet
<1> QED BY <1>2

(* Two functions that start alike and go on alike are alike.               *)
GoAlike(N, f, g) == f[0] = g[0] /\ \A k \in 1..N : f[k-1] = g[k-1] => f[k] = g[k]
AreAlike(N, f, g) == \A k \in 0..N : f[k] = g[k]

LEMMA Alike ==
  ASSUME NEW N \in Nat, NEW f, NEW g, GoAlike(N, f, g)
  PROVE  AreAlike(N, f, g)
<1> USE DEF GoAlike, AreAlike
<1> DEFINE S == {k \in 0..N : f[k] = g[k]}
<1>1. 0 \in S
  OBVIOUS
<1>2. ASSUME NEW k \in 0..(N-1), k \in S PROVE k + 1 \in S
  <2>1. k + 1 \in 1..N /\ k + 1 \in 0..N /\ (k + 1) - 1 = k
    OBVIOUS
  <2>2. f[k] = g[k]
    BY <1>2
  <2> QED BY <2>1, <2>2
<1>3. \A k \in 0..N : k \in S
  <2> HIDE DEF S
  <2> QED BY <1>1, <1>2, UpTo
<1> QED BY <1>3

(* A recursive function on the first numbers exists.                       *)
Solves(f, N, X, x0, next) ==
  f \in [0..N -> X] /\ f[0] = x0 /\ \A k \in 1..N : f[k] = next[k][f[k-1]]
CanStep(N, X, next) == next \in [1..N -> [X -> X]]

LEMMA Recursion ==
  ASSUME NEW X, NEW x0 \in X, NEW N \in Nat, NEW next, CanStep(N, X, next)
  PROVE  \E f : Solves(f, N, X, x0, next)
<1> USE DEF Solves, CanStep
<1> DEFINE Is(m, f) == f[0] = x0 /\ \A k \in 1..m : f[k] = next[k][f[k-1]]
           S == {m \in 0..N : \E f \in [0..m -> X] : Is(m, f)}
<1>1. 0 \in S
  <2> DEFINE f == [k \in 0..0 |-> x0]
  <2>1. f \in [0..0 -> X] /\ Is(0, f)
    OBVIOUS
  <2> HIDE DEF f
  <2> QED BY <2>1
<1>2. ASSUME NEW m \in 0..(N-1), m \in S PROVE m + 1 \in S
  <2>1. PICK f \in [0..m -> X] : Is(m, f)
    BY <1>2
  <2>2. m + 1 \in 1..N /\ m + 1 \in 0..N
    OBVIOUS
  <2>3. f[m] \in X
    OBVIOUS
  <2>4. next[m+1][f[m]] \in X
    BY <2>2, <2>3
  <2> DEFINE g == [k \in 0..(m+1) |-> IF k = m + 1 THEN next[m+1][f[m]] ELSE f[k]]
  <2>5. g \in [0..(m+1) -> X]
    BY <2>4
  <2>6. g[0] = x0
    BY <2>1
  <2>7. ASSUME NEW k \in 1..(m+1) PROVE g[k] = next[k][g[k-1]]
    <3>1. CASE k = m + 1
      BY <3>1
    <3>2. CASE k # m + 1
      <4>1. k \in 1..m /\ k - 1 \in 0..m /\ k - 1 # m + 1 /\ k \in 0..(m+1) /\ k - 1 \in 0..(m+1)
        BY <3>2
      <4>2. g[k] = f[k] /\ g[k-1] = f[k-1]
        BY <3>2, <4>1
      <4> QED BY <2>1, <4>1, <4>2
    <3> QED BY <3>1, <3>2
  <2> HIDE DEF g
  <2> QED BY <2>2, <2>5, <2>6, <2>7
<1>3. N \in S
  <2>1. \A k \in 0..N : k \in S
    <3> HIDE DEF S
    <3> QED BY <1>1, <1>2, UpTo
  <2> QED BY <2>1
<1> QED BY <1>3
-----------------------------------------------------------------------------
(* Sums of bytes, and places of the test program.                          *)
LEMMA InputsAre ==
  ASSUME NEW s \in Seq(Input)
  PROVE  /\ Len(s) \in Nat /\ DOMAIN s = 1..Len(s)
         /\ \A k \in 1..Len(s) :
              s[k] \in Input /\ s[k].val \in Value /\ s[k].val \in Nat
              /\ s[k].size \in {1, 4} /\ s[k].size \in Nat
<1>1. \A x \in Input : x.val \in Value /\ x.size \in {1, 4}
  BY DEF Input
<1>2. Value \subseteq Nat
  BY ReplayAssumption
<1>3. Len(s) \in Nat /\ DOMAIN s = 1..Len(s) /\ \A k \in 1..Len(s) : s[k] \in Input
  BY LenProperties, ElementOfSeq
<1>4. \A k \in 1..Len(s) : s[k].val \in Value /\ s[k].val \in Nat /\ s[k].size \in {1, 4}
  BY <1>1, <1>2, <1>3
<1> QED BY <1>3, <1>4

LEMMA EndsAre ==
  ASSUME NEW s \in Seq(Input)
  PROVE  /\ Ends(s) \in [0..Len(s) -> Nat] /\ Ends(s)[0] = 0
         /\ \A k \in 1..Len(s) : Ends(s)[k] = Ends(s)[k-1] + s[k].size
<1> DEFINE N == Len(s)
           next == [k \in 1..N |-> [x \in Nat |-> x + s[k].size]]
           Is(e) == e = [k \in 0..N |-> IF k = 0 THEN 0 ELSE e[k-1] + s[k].size]
<1>1. N \in Nat /\ \A k \in 1..N : s[k] \in Input /\ s[k].size \in Nat
  BY InputsAre
<1>2. PICK f : Solves(f, N, Nat, 0, next)
  <2>1. next \in [1..N -> [Nat -> Nat]]
    BY <1>1
  <2>2. CanStep(N, Nat, next)
    BY <2>1 DEF CanStep
  <2>3. 0 \in Nat
    OBVIOUS
  <2> HIDE DEF next, N
  <2> QED BY <1>1, <2>2, <2>3, Recursion
<1>3. \A k \in 1..N : k - 1 \in 0..N /\ f[k-1] \in Nat /\ f[k] = f[k-1] + s[k].size
  <2>1. TAKE k \in 1..N
  <2>2. k - 1 \in 0..N /\ f \in [0..N -> Nat] /\ f[k] = next[k][f[k-1]]
    <3> HIDE DEF next, N
    <3> QED BY <1>1, <1>2 DEF Solves
  <2>3. f[k-1] \in Nat
    BY <2>2
  <2>4. next[k][f[k-1]] = f[k-1] + s[k].size
    BY <2>3
  <2> QED BY <2>2, <2>3, <2>4
<1>4. Is(f)
  <2> HIDE DEF next
  <2>1. \A k \in 0..N : f[k] = IF k = 0 THEN 0 ELSE f[k-1] + s[k].size
    BY <1>1, <1>2, <1>3 DEF Solves
  <2> QED BY <1>2, <2>1 DEF Solves
<1>5. Is(Ends(s))
  <2>1. Ends(s) = CHOOSE e : Is(e)
    BY Zenon DEF Ends
  <2> HIDE DEF Is
  <2> QED BY <1>4, <2>1
<1>6. Ends(s)[0] = 0 /\ \A k \in 1..N : Ends(s)[k] = Ends(s)[k-1] + s[k].size
  BY <1>1, <1>5
<1>7. \A k \in 0..N : f[k] = Ends(s)[k]
  <2>1. f[0] = Ends(s)[0] /\ \A k \in 1..N : f[k-1] = Ends(s)[k-1] => f[k] = Ends(s)[k]
    BY <1>2, <1>3, <1>6 DEF Solves
  <2>2. GoAlike(N, f, Ends(s))
    BY <2>1 DEF GoAlike
  <2>3. AreAlike(N, f, Ends(s))
    <3> HIDE DEF next, Is, N
    <3> QED BY <1>1, <2>2, Alike
  <2> QED BY <2>3 DEF AreAlike
<1>8. Ends(s) \in [0..N -> Nat]
  <2>1. DOMAIN Ends(s) = 0..N
    BY <1>5
  <2>2. Ends(s) = [k \in 0..N |-> Ends(s)[k]]
    BY <1>5, <2>1
  <2> QED BY <1>2, <1>7, <2>2 DEF Solves
<1> QED BY <1>6, <1>8

LEMMA PlacesAre ==
  ASSUME NEW s \in Seq(Input)
  PROVE  /\ Places(s) \in [0..Len(s) -> Place] /\ Places(s)[0] = Begin
         /\ \A k \in 1..Len(s) : Places(s)[k] = After(Places(s)[k-1], s[k].val)
<1> DEFINE N == Len(s)
           next == [k \in 1..N |-> [x \in Place |-> After(x, s[k].val)]]
           Is(e) == e = [k \in 0..N |-> IF k = 0 THEN Begin ELSE After(e[k-1], s[k].val)]
<1>1. N \in Nat /\ \A k \in 1..N : s[k] \in Input /\ s[k].val \in Nat
  BY InputsAre
<1>2. Begin \in Place /\ \A p \in Place, v \in Nat : After(p, v) \in Place
  BY DEF Begin, Place, After
<1>3. PICK f : Solves(f, N, Place, Begin, next)
  <2>1. next \in [1..N -> [Place -> Place]]
    BY <1>1, <1>2
  <2>2. CanStep(N, Place, next)
    BY <2>1 DEF CanStep
  <2> HIDE DEF next, N
  <2> QED BY <1>1, <1>2, <2>2, Recursion
<1>4. \A k \in 1..N : k - 1 \in 0..N /\ f[k-1] \in Place /\ f[k] = After(f[k-1], s[k].val)
  <2>1. TAKE k \in 1..N
  <2>2. k - 1 \in 0..N /\ f \in [0..N -> Place] /\ f[k] = next[k][f[k-1]]
    <3> HIDE DEF next, N
    <3> QED BY <1>1, <1>3 DEF Solves
  <2>3. f[k-1] \in Place
    BY <2>2
  <2>4. next[k][f[k-1]] = After(f[k-1], s[k].val)
    BY <2>3
  <2> QED BY <2>2, <2>3, <2>4
<1>5. Is(f)
  <2> HIDE DEF next
  <2>1. \A k \in 0..N : f[k] = IF k = 0 THEN Begin ELSE After(f[k-1], s[k].val)
    BY <1>1, <1>3, <1>4 DEF Solves
  <2> QED BY <1>3, <2>1 DEF Solves
<1>6. Is(Places(s))
  <2>1. Places(s) = CHOOSE e : Is(e)
    BY Zenon DEF Places
  <2> HIDE DEF Is
  <2> QED BY <1>5, <2>1
<1>7. Places(s)[0] = Begin /\ \A k \in 1..N : Places(s)[k] = After(Places(s)[k-1], s[k].val)
  BY <1>1, <1>6
<1>8. \A k \in 0..N : f[k] = Places(s)[k]
  <2>1. f[0] = Places(s)[0] /\ \A k \in 1..N : f[k-1] = Places(s)[k-1] => f[k] = Places(s)[k]
    BY <1>3, <1>4, <1>7 DEF Solves
  <2>2. GoAlike(N, f, Places(s))
    BY <2>1 DEF GoAlike
  <2>3. AreAlike(N, f, Places(s))
    <3> HIDE DEF next, Is, N
    <3> QED BY <1>1, <2>2, Alike
  <2> QED BY <2>3 DEF AreAlike
<1>9. Places(s) \in [0..N -> Place]
  <2>1. DOMAIN Places(s) = 0..N
    BY <1>6
  <2>2. Places(s) = [k \in 0..N |-> Places(s)[k]]
    BY <1>6, <2>1
  <2> QED BY <1>3, <1>8, <2>2 DEF Solves
<1> QED BY <1>7, <1>9

(* Sequences that begin alike have the same sums and places there.         *)
LEMMA SameBeginning ==
  ASSUME NEW s \in Seq(Input), NEW u \in Seq(Input), NEW m \in Nat,
         m <= Len(s), m <= Len(u), \A k \in 1..m : s[k] = u[k]
  PROVE  \A k \in 0..m : Ends(s)[k] = Ends(u)[k] /\ Places(s)[k] = Places(u)[k]
<1>1. \A k \in 1..m : k \in 1..Len(s) /\ k \in 1..Len(u)
  OBVIOUS
<1>2. \A k \in 0..m : Ends(s)[k] = Ends(u)[k]
  <2>1. Ends(s)[0] = Ends(u)[0] /\ \A k \in 1..m : Ends(s)[k-1] = Ends(u)[k-1] => Ends(s)[k] = Ends(u)[k]
    BY <1>1, EndsAre
  <2>2. GoAlike(m, Ends(s), Ends(u))
    BY <2>1 DEF GoAlike
  <2>3. AreAlike(m, Ends(s), Ends(u))
    BY <2>2, Alike
  <2> QED BY <2>3 DEF AreAlike
<1>3. \A k \in 0..m : Places(s)[k] = Places(u)[k]
  <2>1. /\ Places(s)[0] = Places(u)[0]
        /\ \A k \in 1..m : Places(s)[k-1] = Places(u)[k-1] => Places(s)[k] = Places(u)[k]
    BY <1>1, PlacesAre
  <2>2. GoAlike(m, Places(s), Places(u))
    BY <2>1 DEF GoAlike
  <2>3. AreAlike(m, Places(s), Places(u))
    BY <2>2, Alike
  <2> QED BY <2>3 DEF AreAlike
<1> QED BY <1>2, <1>3

(* Bytes are only added.                                                   *)
LEMMA EndsGrow ==
  ASSUME NEW s \in Seq(Input), NEW j \in 0..Len(s)
  PROVE  \A k \in j..Len(s) : Ends(s)[j] <= Ends(s)[k]
<1> DEFINE N == Len(s) - j
           S == {k \in 0..N : Ends(s)[j] <= Ends(s)[j + k]}
<1>1. N \in Nat /\ 0 \in S
  BY EndsAre
<1>2. ASSUME NEW k \in 0..(N-1), k \in S PROVE k + 1 \in S
  <2>1. j + k + 1 \in 1..Len(s) /\ (j + k + 1) - 1 = j + k /\ j + (k + 1) = j + k + 1 /\ k + 1 \in 0..N
    OBVIOUS
  <2>2. s[j + k + 1].size \in Nat
    BY <2>1, InputsAre
  <2>3. Ends(s)[j + k + 1] = Ends(s)[j + k] + s[j + k + 1].size
    BY <2>1, EndsAre
  <2>4. Ends(s)[j + k] \in Nat /\ Ends(s)[j] \in Nat
    <3>1. j + k \in 0..Len(s)
      OBVIOUS
    <3>2. Ends(s) \in [0..Len(s) -> Nat]
      BY EndsAre
    <3> QED BY <3>1, <3>2
  <2>5. Ends(s)[j] <= Ends(s)[j + k]
    BY <1>2
  <2>6. Ends(s)[j] <= Ends(s)[j + k + 1]
    BY <2>2, <2>3, <2>4, <2>5
  <2> QED BY <2>1, <2>6
<1>3. \A k \in 0..N : k \in S
  <2> HIDE DEF S, N
  <2> QED BY <1>1, <1>2, UpTo
<1>4. TAKE k \in j..Len(s)
<1>5. k - j \in 0..N /\ j + (k - j) = k
  OBVIOUS
<1> QED BY <1>3, <1>5
LEMMA EmptyIs ==
  /\ <<>> \in Seq(Input) /\ Len(<<>>) = 0
  /\ BytesOf(<<>>) = 0 /\ PlaceOf(<<>>) = Begin /\ Legal(<<>>)
  /\ \A bytes : Spelled(<<>>, bytes)
<1>1. <<>> \in Seq(Input) /\ Len(<<>>) = 0 /\ DOMAIN <<>> = {}
  OBVIOUS
<1>2. BytesOf(<<>>) = 0
  <2>1. Ends(<<>>)[0] = 0
    BY <1>1, EndsAre
  <2> QED BY <1>1, <2>1 DEF BytesOf
<1>3. PlaceOf(<<>>) = Begin
  <2>1. Places(<<>>)[0] = Begin
    BY <1>1, PlacesAre
  <2> QED BY <1>1, <2>1 DEF PlaceOf
<1> QED BY <1>1, <1>2, <1>3 DEF Legal, Spelled

(* The bytes of an input are below the sum of all up to it.                *)
LEMMA BytesBelow ==
  ASSUME NEW s \in Seq(Input), NEW k \in 1..Len(s), NEW b \in 0..(s[k].size - 1)
  PROVE  Ends(s)[k-1] + b \in 0..(BytesOf(s) - 1) /\ BytesOf(s) \in Nat
<1>1. Len(s) \in Nat /\ k - 1 \in 0..Len(s) /\ k \in 0..Len(s) /\ Len(s) \in 0..Len(s) /\ s[k].size \in Nat
  BY InputsAre
<1>2. Ends(s)[k-1] \in Nat /\ Ends(s)[k] \in Nat /\ Ends(s)[Len(s)] \in Nat
  <2>1. Ends(s) \in [0..Len(s) -> Nat]
    BY EndsAre
  <2> QED BY <1>1, <2>1
<1>3. Ends(s)[k] = Ends(s)[k-1] + s[k].size
  BY EndsAre
<1>4. Ends(s)[k] <= Ends(s)[Len(s)]
  <2>1. Len(s) \in k..Len(s)
    BY <1>1
  <2> QED BY <1>1, <2>1, EndsGrow
<1>5. \A e, f, g, z \in Nat : f = e + z /\ f <= g => \A c \in 0..(z-1) : e + c \in 0..(g-1)
  OBVIOUS
<1>6. BytesOf(s) = Ends(s)[Len(s)]
  BY DEF BytesOf
<1>7. Ends(s)[k-1] + b \in 0..(Ends(s)[Len(s)] - 1)
  BY <1>1, <1>2, <1>3, <1>4, <1>5
<1> QED BY <1>2, <1>6, <1>7

LEMMA SpelledSame ==
  ASSUME NEW s \in Seq(Input), NEW d, NEW e, Spelled(s, d),
         \A o \in 0..(BytesOf(s) - 1) : e[o] = d[o]
  PROVE  Spelled(s, e)
<1>1. DOMAIN s = 1..Len(s)
  BY InputsAre
<1>2. SUFFICES ASSUME NEW k \in 1..Len(s), NEW b \in 0..(s[k].size - 1)
               PROVE  e[Ends(s)[k-1] + b] = <<s[k].val, s[k].size, b>>
  BY <1>1 DEF Spelled
<1>3. Ends(s)[k-1] + b \in 0..(BytesOf(s) - 1)
  BY BytesBelow
<1>4. d[Ends(s)[k-1] + b] = <<s[k].val, s[k].size, b>>
  BY <1>1 DEF Spelled
<1> QED BY <1>3, <1>4

(* What holds of a sequence holds of its beginning.                        *)
LEMMA BeginningIs ==
  ASSUME NEW s \in Seq(Input), NEW u \in Seq(Input), Len(s) <= Len(u),
         \A k \in 1..Len(s) : s[k] = u[k]
  PROVE  /\ BytesOf(s) = Ends(u)[Len(s)] /\ BytesOf(s) \in Nat /\ BytesOf(s) <= BytesOf(u)
         /\ PlaceOf(s) = Places(u)[Len(s)]
         /\ Legal(u) => Legal(s)
         /\ \A d : Spelled(u, d) => Spelled(s, d)
<1>1. /\ Len(s) \in Nat /\ Len(u) \in Nat /\ DOMAIN s = 1..Len(s) /\ DOMAIN u = 1..Len(u)
      /\ \A k \in 1..Len(s) : k - 1 \in 0..Len(s) /\ k \in 1..Len(u)
      /\ Len(s) \in 0..Len(s) /\ Len(s) \in 0..Len(u) /\ Len(u) \in Len(s)..Len(u)
  BY InputsAre
<1>2. \A k \in 0..Len(s) : Ends(s)[k] = Ends(u)[k] /\ Places(s)[k] = Places(u)[k]
  <2>1. \A m \in Nat : m <= Len(s) /\ m <= Len(u) /\ (\A k \in 1..m : s[k] = u[k]) =>
          \A k \in 0..m : Ends(s)[k] = Ends(u)[k] /\ Places(s)[k] = Places(u)[k]
    BY SameBeginning
  <2>2. Len(s) <= Len(s)
    BY <1>1
  <2> QED BY <1>1, <2>1, <2>2
<1>3. BytesOf(s) = Ends(u)[Len(s)] /\ PlaceOf(s) = Places(u)[Len(s)]
  BY <1>1, <1>2 DEF BytesOf, PlaceOf
<1>4. BytesOf(s) \in Nat
  <2>1. Ends(u) \in [0..Len(u) -> Nat]
    BY EndsAre
  <2> QED BY <1>1, <1>3, <2>1
<1>5. BytesOf(s) <= BytesOf(u)
  <2>1. Ends(u)[Len(s)] <= Ends(u)[Len(u)]
    BY <1>1, EndsGrow
  <2> QED BY <1>3, <2>1 DEF BytesOf
<1>6. ASSUME Legal(u) PROVE Legal(s)
  BY <1>1, <1>2, <1>6 DEF Legal
<1>7. ASSUME NEW d, Spelled(u, d) PROVE Spelled(s, d)
  <2>1. SUFFICES ASSUME NEW k \in 1..Len(s), NEW b \in 0..(s[k].size - 1)
                 PROVE  d[Ends(s)[k-1] + b] = <<s[k].val, s[k].size, b>>
    BY <1>1 DEF Spelled
  <2>2. s[k] = u[k] /\ k \in DOMAIN u /\ Ends(s)[k-1] = Ends(u)[k-1]
    BY <1>1, <1>2
  <2> QED BY <1>7, <2>2 DEF Spelled
<1> QED BY <1>3, <1>4, <1>5, <1>6, <1>7

(* One more input.                                                         *)
LEMMA AppendIs ==
  ASSUME NEW s \in Seq(Input), NEW x \in Input
  PROVE  /\ Append(s, x) \in Seq(Input) /\ Len(Append(s, x)) = Len(s) + 1
         /\ \A k \in 1..Len(s) : Append(s, x)[k] = s[k]
         /\ Append(s, x)[Len(s) + 1] = x
         /\ BytesOf(s) \in Nat /\ BytesOf(Append(s, x)) = BytesOf(s) + x.size
         /\ PlaceOf(Append(s, x)) = After(PlaceOf(s), x.val)
         /\ Legal(s) /\ Wants(PlaceOf(s), x) => Legal(Append(s, x))
<1> DEFINE u == Append(s, x)
           m == Len(s)
<1>1. m \in Nat /\ DOMAIN s = 1..m
  BY InputsAre
<1>2. u \in Seq(Input) /\ Len(u) = m + 1 /\ (\A k \in 1..m : u[k] = s[k]) /\ u[m+1] = x
  BY <1>1, AppendProperties
<1> HIDE DEF u
<1>3. \A k \in 0..m : Ends(s)[k] = Ends(u)[k] /\ Places(s)[k] = Places(u)[k]
  BY SMTT(30), <1>1, <1>2, SameBeginning
<1>4. m + 1 \in 1..Len(u) /\ (m + 1) - 1 = m /\ m \in 0..m /\ DOMAIN u = 1..Len(u)
  BY <1>1, <1>2, InputsAre
<1>5. Ends(u)[m+1] = Ends(u)[m] + u[m+1].size /\ Places(u)[m+1] = After(Places(u)[m], u[m+1].val)
  BY <1>2, <1>4, EndsAre, PlacesAre
<1>6. Ends(s)[m] \in Nat
  <2>1. Ends(s) \in [0..m -> Nat]
    BY EndsAre
  <2> QED BY <1>4, <2>1
<1>7. BytesOf(s) \in Nat /\ BytesOf(u) = BytesOf(s) + x.size /\ BytesOf(s) = Ends(u)[m]
  BY <1>2, <1>3, <1>4, <1>5, <1>6 DEF BytesOf
<1>8. PlaceOf(u) = After(PlaceOf(s), x.val) /\ PlaceOf(s) = Places(u)[m]
  BY <1>2, <1>3, <1>4, <1>5 DEF PlaceOf
<1>9. ASSUME Legal(s), Wants(PlaceOf(s), x) PROVE Legal(u)
  <2>1. SUFFICES ASSUME NEW k \in 1..(m+1) PROVE Wants(Places(u)[k-1], u[k])
    BY <1>2, <1>4 DEF Legal
  <2>2. CASE k = m + 1
    BY <1>2, <1>4, <1>8, <1>9, <2>2
  <2>3. CASE k # m + 1
    <3>1. k \in 1..m /\ k - 1 \in 0..m
      BY <1>1, <2>3
    <3> QED BY <1>1, <1>2, <1>3, <1>9, <3>1 DEF Legal
  <2> QED BY <2>2, <2>3
<1>10. /\ u \in Seq(Input) /\ Len(u) = Len(s) + 1 /\ u[Len(s) + 1] = x
       /\ \A k \in 1..Len(s) : u[k] = s[k]
  BY <1>2
<1> QED BY <1>7, <1>8, <1>9, <1>10 DEF u
LEMMA AppendSpelled ==
  ASSUME NEW s \in Seq(Input), NEW x \in Input, NEW d, NEW e, Spelled(s, d),
         \A o \in 0..(BytesOf(s) - 1) : e[o] = d[o],
         \A b \in 0..(x.size - 1) : e[BytesOf(s) + b] = <<x.val, x.size, b>>
  PROVE  Spelled(Append(s, x), e)
<1> DEFINE u == Append(s, x)
           m == Len(s)
<1>1. m \in Nat /\ DOMAIN s = 1..m
  BY InputsAre
<1>2. u \in Seq(Input) /\ Len(u) = m + 1 /\ (\A k \in 1..m : u[k] = s[k]) /\ u[m+1] = x
  BY <1>1, AppendProperties
<1> HIDE DEF u
<1>3. \A k \in 0..m : Ends(s)[k] = Ends(u)[k]
  BY SMTT(30), <1>1, <1>2, SameBeginning
<1>4. (m + 1) - 1 = m /\ m \in 0..m /\ DOMAIN u = 1..Len(u)
  BY <1>1, <1>2, InputsAre
<1>5. BytesOf(s) = Ends(u)[m]
  BY <1>3, <1>4 DEF BytesOf
<1>6. Spelled(s, e)
  BY SpelledSame
<1>7. SUFFICES ASSUME NEW k \in 1..(m+1), NEW b \in 0..(u[k].size - 1)
               PROVE  e[Ends(u)[k-1] + b] = <<u[k].val, u[k].size, b>>
  BY <1>2, <1>4 DEF Spelled, u
<1>8. CASE k = m + 1
  BY <1>2, <1>4, <1>5, <1>8
<1>9. CASE k # m + 1
  <2>1. k \in 1..m /\ k - 1 \in 0..m
    BY <1>1, <1>9
  <2>2. u[k] = s[k] /\ Ends(u)[k-1] = Ends(s)[k-1]
    BY <1>2, <1>3, <2>1
  <2> QED BY <1>1, <1>6, <2>1, <2>2 DEF Spelled
<1> QED BY <1>8, <1>9

-----------------------------------------------------------------------------
(* Types, and the shape of the state whatever was torn.                    *)
Shape == TypeOK /\ Control /\ Starting /\ Memory

Flags == removed \in BOOLEAN /\ ignores \in BOOLEAN /\ deaf \in BOOLEAN /\ masked \in BOOLEAN
         /\ torn \in BOOLEAN
Log == /\ nscanf_total \in Nat /\ nbytes_total \in 0..MemSize
       /\ data \in [0..(MemSize-1) -> Byte \cup {Blank}]
Counts == /\ mode \in 0..1 /\ nscanf_running \in Nat /\ nscanf_target \in Nat
          /\ nbytes_running \in 0..MemSize
Loops == phase \in 0..3 /\ n \in Nat /\ i \in 0..n
File == log1 \in [is : {"none", "empty", "head"}, total : Nat, bytes : Seq(Byte)]
Inputs == life \in Seq(Input) /\ prev \in Seq(Input)
Where == /\ version \in {"shm", "file"} /\ parent \in {"fork", "forked", "wait", "done", "killed"}
         /\ pc \in ShmPlaces \cup FilePlaces /\ ints \in 0..(MaxInts + MaxKills)

LEMMA TypeParts ==
  TypeOK <=> Flags /\ Log /\ Counts /\ Loops /\ File /\ Inputs /\ Where
BY Zenon DEF TypeOK, Flags, Log, Counts, Loops, File, Inputs, Where, ShmPlaces, FilePlaces

LEMMA FlagsStep ==
  ASSUME Shape, [Next]_vars
  PROVE  Flags'
<1> USE DEF Shape, TypeOK, Flags, log, family, disk, statics, program, history, vars
<1>1. CASE Scanf
  BY Zenon, <1>1 DEF Scanf, Replay, ReplayLast, CutNumber, ReplayFails, CountInput
<1>2. CASE \E v \in Value : Type(v)
  BY Zenon, <1>2 DEF Type
<1>3. CASE ShmNext
  BY Zenon, <1>3 DEF ShmNext, ParentStep, Fork, Ignore, Restart, Finish, ChildStep, SetDefault,
     ZeroBytes, Cleanup, CleanBytes, Exit, Ask, CtrlC
<1>4. CASE FileNext
  BY Zenon, <1>4 DEF FileNext, FileStep, Install, Attach, ReadHeader, ReadData, Unlink, Detach, Return,
     OpenLog, WriteHeader, WriteData, ExecAgain, Launch, Exec, Caught, Killed, Choose
<1>5. CASE UNCHANGED vars
  BY Zenon, <1>5
<1> QED BY <1>1, <1>2, <1>3, <1>4, <1>5 DEF Next
(* What each place of the program steps to.                                *)
LEMMA WhereStep ==
  ASSUME Shape, [Next]_vars
  PROVE  Where'
<1> USE DEF Shape, TypeOK, Where, ShmPlaces, FilePlaces, log, family, disk, statics, program, history,
            vars
<1>1. CASE Scanf
  BY <1>1 DEF Scanf, Replay, ReplayLast, CutNumber, ReplayFails, CountInput
<1>2. CASE \E v \in Value : Type(v)
  BY <1>2 DEF Type
<1>3. CASE ShmNext
  <2>1. CASE ParentStep \/ ChildStep \/ \E t \in 0..nscanf_total : Ask(t)
    BY <1>3, <2>1 DEF ParentStep, Fork, Ignore, Restart, Finish, ChildStep, SetDefault,
       ZeroBytes, Cleanup, CleanBytes, Exit, Ask
  <2>2. CASE CtrlC
    BY <2>2, ReplayAssumption DEF CtrlC
  <2> QED BY <1>3, <2>1, <2>2 DEF ShmNext
<1>4. CASE FileNext
  <2>1. CASE FileStep \/ Launch \/ \E t \in 0..nscanf_total : Choose(t)
    BY <2>1 DEF FileStep, Install, Attach, ReadHeader, ReadData, Unlink, Detach, Return,
       OpenLog, WriteHeader, WriteData, ExecAgain, Launch, Exec, Choose
  <2>2. CASE Caught \/ Killed
    BY SMTT(30), <2>2, ReplayAssumption DEF Caught, Killed
  <2> QED BY <1>4, <2>1, <2>2 DEF FileNext
<1>5. CASE UNCHANGED vars
  BY <1>5
<1> QED BY <1>1, <1>2, <1>3, <1>4, <1>5 DEF Next

LEMMA CountsStep ==
  ASSUME Shape, [Next]_vars
  PROVE  Counts'
<1>0. Counts /\ nbytes_total \in 0..MemSize /\ nscanf_total \in Nat /\ MemSize \in Nat
  BY TypeParts, ReplayAssumption DEF Shape, Log
<1> USE DEF Counts, log, family, disk, statics, program, history, vars
<1>1. CASE Scanf
  <2>1. CASE Replay \/ ReplayLast
    BY <2>1, <1>0 DEF Replay, ReplayLast, TakeOne, Size
  <2>2. CASE CutNumber \/ ReplayFails \/ CountInput
    BY <2>2, <1>0 DEF CutNumber, ReplayFails, CountInput
  <2> QED BY <1>1, <2>1, <2>2 DEF Scanf
<1>2. CASE \E v \in Value : Type(v)
  BY <1>0, <1>2 DEF Type
<1>3. CASE ShmNext
  BY <1>0, <1>3 DEF ShmNext, ParentStep, Fork, Fresh, Ignore, Restart, Finish, ChildStep,
     SetDefault, ZeroBytes, Cleanup, CleanBytes, Exit, Ask, CtrlC
<1>4. CASE FileNext
  BY <1>0, <1>4 DEF FileNext, FileStep, Install, Attach, ReadHeader, ReadData, Unlink,
     Detach, Return, OpenLog, WriteHeader, WriteData, ExecAgain, Launch, Exec, Fresh, Caught, Killed,
     Choose
<1>5. CASE UNCHANGED vars
  BY <1>0, <1>5
<1> QED BY <1>1, <1>2, <1>3, <1>4, <1>5 DEF Next

LEMMA Advances ==
  ASSUME Loops, ~Over, NEW v \in Nat, Advance(v)
  PROVE  Loops' /\ Here' = After(Here, v)
<1>1. CASE WantsN
  BY <1>1 DEF Loops, Over, Advance, WantsN, Here, After
<1>2. CASE ~WantsN
  BY <1>2 DEF Loops, Over, Advance, WantsN, Here, After
<1> QED BY <1>1, <1>2

LEMMA LoopsStep ==
  ASSUME Shape, [Next]_vars
  PROVE  Loops'
<1>0. Loops /\ Value \subseteq Nat
  BY TypeParts, ReplayAssumption DEF Shape
<1> USE DEF log, family, disk, statics, program, history, vars
<1>1. CASE Scanf
  <2>1. CASE Replay \/ ReplayLast
    <3>1. PICK v \in ReadAt(nbytes_running, Size) : ~Over /\ Advance(v)
      BY <2>1 DEF Replay, ReplayLast, TakeOne
    <3>2. v \in Nat
      BY <1>0, <3>1 DEF ReadAt, Logged
    <3> QED BY <1>0, <3>1, <3>2, Advances
  <2>2. CASE ReplayFails
    <3>1. PICK v \in (IF WantsN /\ phase > 0 THEN {n} ELSE Value) : ~Over /\ Advance(v)
      BY <2>2 DEF ReplayFails
    <3>2. v \in Nat
      BY <1>0, <3>1 DEF Loops
    <3> QED BY <1>0, <3>1, <3>2, Advances
  <2>3. CASE CutNumber \/ CountInput
    BY <1>0, <2>3 DEF CutNumber, CountInput, Loops
  <2> QED BY <1>1, <2>1, <2>2, <2>3 DEF Scanf
<1>2. CASE \E v \in Value : Type(v)
  <2>1. PICK v \in Value : ~Over /\ Advance(v)
    BY <1>2 DEF Type
  <2> QED BY <1>0, <2>1, Advances
<1>3. CASE ShmNext
  BY <1>0, <1>3 DEF ShmNext, ParentStep, Fork, Fresh, Ignore, Restart, Finish, ChildStep,
     SetDefault, ZeroBytes, Cleanup, CleanBytes, Exit, Ask, CtrlC, Loops
<1>4. CASE FileNext
  BY <1>0, <1>4 DEF FileNext, FileStep, Install, Attach, ReadHeader, ReadData, Unlink,
     Detach, Return, OpenLog, WriteHeader, WriteData, ExecAgain, Launch, Exec, Fresh, Caught, Killed,
     Choose, Loops
<1>5. CASE UNCHANGED vars
  BY <1>0, <1>5 DEF Loops
<1> QED BY <1>1, <1>2, <1>3, <1>4, <1>5 DEF Next
LEMMA LogStep ==
  ASSUME Shape, [Next]_vars
  PROVE  Log'
<1>0. /\ Log /\ Counts /\ File /\ MemSize \in Nat /\ Value \subseteq Nat
      /\ Len(log1.bytes) <= MemSize
  BY TypeParts, ReplayAssumption DEF Shape, Memory
<1>a. NoBytes \in [0..(MemSize-1) -> Byte \cup {Blank}]
  BY DEF NoBytes
<1> USE DEF log, family, disk, statics, program, history, vars
<1>1. CASE Scanf
  <2>1. CASE ReplayLast
    <3>1. Size \in Nat
      BY DEF Size
    <3>2. nbytes_running + Size <= nbytes_total /\ nbytes_total' = nbytes_running + Size
          /\ UNCHANGED <<nscanf_total, data>>
      BY <2>1 DEF ReplayLast, TakeOne, Truncated
    <3> QED BY <1>0, <3>1, <3>2 DEF Log, Counts
  <2>2. CASE Replay \/ CutNumber \/ ReplayFails \/ CountInput
    BY <1>0, <2>2 DEF Replay, CutNumber, ReplayFails, CountInput, Log, Counts
  <2> QED BY <1>1, <2>1, <2>2 DEF Scanf
<1>2. CASE \E v \in Value : Type(v)
  <2>1. PICK v \in Value : Type(v)
    BY <1>2
  <2>2. Size \in {1, 4}
    BY DEF Size
  <2>3. nbytes_total + Size <= MemSize /\ nbytes_total' = nbytes_total + Size
        /\ nscanf_total' = nscanf_total
    BY <2>1 DEF Type
  <2>4. data' = [b \in 0..(MemSize-1) |->
                   IF b - nbytes_total \in 0..(Size-1) THEN <<v, Size, b - nbytes_total>>
                                                       ELSE data[b]]
    BY <2>1 DEF Type
  <2>5. \A b \in 0..(MemSize-1) : b - nbytes_total \in 0..(Size-1) =>
          <<v, Size, b - nbytes_total>> \in Byte
    <3>1. \A b \in 0..(MemSize-1) : b - nbytes_total \in 0..(Size-1) => b - nbytes_total \in 0..3
      BY <1>0, <2>2 DEF Log
    <3> QED BY <2>2, <3>1 DEF Byte
  <2>6. data' \in [0..(MemSize-1) -> Byte \cup {Blank}]
    BY <1>0, <2>4, <2>5 DEF Log
  <2> QED BY <1>0, <2>2, <2>3, <2>6 DEF Log
<1>3. CASE ShmNext
  BY <1>0, <1>a, <1>3 DEF ShmNext, ParentStep, Fork, Fresh, Ignore, Restart, Finish, ChildStep,
     SetDefault, ZeroBytes, Cleanup, CleanBytes, Exit, Ask, CtrlC, Log
<1>4. CASE FileNext
  <2>1. CASE ReadData
    <3>1. data' \in [0..(MemSize-1) -> Byte \cup {Blank}]
      BY <1>0, <2>1 DEF ReadData, Log, File
    <3>2. nbytes_total' = Len(log1.bytes) /\ nscanf_total' = nscanf_total
      BY <2>1 DEF ReadData
    <3>3. Len(log1.bytes) \in Nat
      BY <1>0 DEF File
    <3> QED BY <1>0, <3>1, <3>2, <3>3 DEF Log
  <2>2. CASE Install \/ Attach \/ ReadHeader \/ Unlink \/ Detach \/ Return
    BY <1>0, <1>a, <2>2 DEF Install, Attach, ReadHeader, Unlink, Detach, Return, Log, File
  <2>3. CASE OpenLog \/ WriteHeader \/ WriteData \/ ExecAgain
    BY <1>0, <1>a, <2>3 DEF OpenLog, WriteHeader, WriteData, ExecAgain, Exec, Log
  <2>4. CASE Launch \/ Caught \/ Killed \/ \E t \in 0..nscanf_total : Choose(t)
    BY <1>0, <1>a, <2>4 DEF Launch, Exec, Caught, Killed, Choose, Log
  <2> QED BY <1>4, <2>1, <2>2, <2>3, <2>4 DEF FileNext, FileStep
<1>5. CASE UNCHANGED vars
  BY <1>0, <1>5 DEF Log
<1> QED BY <1>1, <1>2, <1>3, <1>4, <1>5 DEF Next

LEMMA FileTyped ==
  ASSUME Shape, [Next]_vars
  PROVE  File' /\ Len(log1'.bytes) <= MemSize
<1>0. /\ Log /\ File /\ MemSize \in Nat
      /\ Len(log1.bytes) <= MemSize
      /\ \A b \in 0..(MemSize-1) : b < nbytes_total => data[b] \in Byte
  BY TypeParts, ReplayAssumption DEF Shape, Memory
<1> USE DEF log, family, disk, statics, program, history, vars
<1>1. CASE Scanf \/ \E v \in Value : Type(v)
  <2>1. UNCHANGED log1
    BY <1>1 DEF Scanf, Replay, ReplayLast, CutNumber, ReplayFails, CountInput, Type
  <2> QED BY <1>0, <2>1 DEF File
<1>2. CASE ShmNext
  <2>1. UNCHANGED log1
    BY <1>2 DEF ShmNext, ParentStep, Fork, Fresh, Ignore, Restart, Finish, ChildStep,
       SetDefault, ZeroBytes, Cleanup, CleanBytes, Exit, Ask, CtrlC
  <2> QED BY <1>0, <2>1 DEF File
<1>3. CASE FileNext
  <2>1. CASE Unlink \/ OpenLog \/ WriteHeader
    <3>1. \A x \in {"none", "empty", "head"}, y \in Nat :
            /\ [is |-> x, total |-> y, bytes |-> <<>>] \in
                 [is : {"none", "empty", "head"}, total : Nat, bytes : Seq(Byte)]
            /\ Len([is |-> x, total |-> y, bytes |-> <<>>].bytes) <= MemSize
      BY <1>0
    <3>2. \E x \in {"none", "empty", "head"}, y \in Nat :
            log1' = [is |-> x, total |-> y, bytes |-> <<>>]
      BY <1>0, <2>1 DEF Unlink, OpenLog, WriteHeader, Header, NoFile, EmptyFile, Log
    <3> QED BY <3>1, <3>2 DEF File
  <2>2. CASE WriteData
    <3> DEFINE new == [b \in 1..nbytes_total |-> data[b - 1]]
    <3>1. log1' = [log1 EXCEPT !.bytes = new]
      BY <2>2 DEF WriteData
    <3>2. \A b \in 1..nbytes_total : data[b - 1] \in Byte
      BY <1>0 DEF Log
    <3>3. new \in Seq(Byte) /\ Len(new) = nbytes_total
      <4>1. nbytes_total \in Nat
        BY <1>0 DEF Log
      <4> QED BY <3>2, <4>1, IsASeq
    <3> HIDE DEF new
    <3>4. nbytes_total <= MemSize
      BY <1>0 DEF Log
    <3> QED BY <1>0, <3>1, <3>3, <3>4 DEF File
  <2>3. CASE ~(Unlink \/ OpenLog \/ WriteHeader \/ WriteData)
    <3>1. UNCHANGED log1
      BY <1>3, <2>3 DEF FileNext, FileStep, Install, Attach, ReadHeader, ReadData, Detach, Return,
         ExecAgain, Launch, Exec, Caught, Killed, Choose
    <3> QED BY <1>0, <3>1 DEF File
  <2> QED BY <2>1, <2>2, <2>3
<1>4. CASE UNCHANGED vars
  BY <1>0, <1>4 DEF File
<1> QED BY <1>1, <1>2, <1>3, <1>4 DEF Next

LEMMA FrontIs ==
  ASSUME NEW s \in Seq(Input), s # <<>>
  PROVE  /\ Front(s) \in Seq(Input) /\ Len(Front(s)) = Len(s) - 1 /\ Len(s) \in Nat \ {0}
         /\ \A k \in 1..Len(Front(s)) : Front(s)[k] = s[k]
<1>1. Len(s) \in Nat /\ Len(s) # 0
  BY EmptySeq, LenProperties
<1> DEFINE z == Len(s) - 1
<1>2. z \in Nat /\ 1 \in Int /\ z \in Int /\ \A k \in 1..z : s[k] \in Input
  BY <1>1, InputsAre
<1>3. /\ SubSeq(s, 1, z) \in Seq(Input) /\ Len(SubSeq(s, 1, z)) = IF 1 <= z THEN z - 1 + 1 ELSE 0
      /\ \A k \in 1..(z - 1 + 1) : SubSeq(s, 1, z)[k] = s[1 + k - 1]
  <2> HIDE DEF z
  <2> QED BY <1>2, SubSeqProperties
<1>4. Len(SubSeq(s, 1, z)) = z /\ \A k \in 1..z : SubSeq(s, 1, z)[k] = s[k]
  <2> HIDE DEF z
  <2>1. \A k \in 1..z : 1 + k - 1 = k /\ k \in 1..(z - 1 + 1)
    BY <1>2
  <2> QED BY <1>2, <1>3, <2>1
<1>5. Front(s) = SubSeq(s, 1, z)
  BY DEF Front
<1> QED BY <1>1, <1>3, <1>4, <1>5

LEMMA InputsStep ==
  ASSUME Shape, [Next]_vars
  PROVE  Inputs'
<1>0. Inputs /\ (pc = "stored" => life # <<>>) /\ <<>> \in Seq(Input)
  BY TypeParts, EmptyIs DEF Shape, Control
<1> USE DEF log, family, disk, statics, program, history, vars
<1>a. \A v \in Value : [val |-> v, size |-> Size] \in Input
  BY DEF Input, Size
<1>1. CASE Scanf
  <2>1. CASE Replay \/ ReplayLast
    <3>1. PICK v \in ReadAt(nbytes_running, Size) : life' = Append(life, [val |-> v, size |-> Size])
      BY <2>1 DEF Replay, ReplayLast, TakeOne
    <3>2. v \in Value
      BY <3>1 DEF ReadAt, Logged
    <3>3. prev' = prev
      BY <2>1 DEF Replay, ReplayLast
    <3> QED BY <1>0, <1>a, <3>1, <3>2, <3>3, AppendProperties DEF Inputs
  <2>2. CASE CutNumber \/ ReplayFails \/ CountInput
    BY <1>0, <2>2 DEF CutNumber, ReplayFails, CountInput, Inputs
  <2> QED BY <1>1, <2>1, <2>2 DEF Scanf
<1>2. CASE \E v \in Value : Type(v)
  <2>1. PICK v \in Value : life' = Append(life, [val |-> v, size |-> Size]) /\ prev' = prev
    BY <1>2 DEF Type
  <2> QED BY <1>0, <1>a, <2>1, AppendProperties DEF Inputs
<1>b. ~Handling /\ pc # "exited" => ToKeep \in Seq(Input)
  BY <1>0, FrontIs DEF ToKeep, Inputs
<1>3. CASE ShmNext
  <2>1. CASE CtrlC
    <3>1. pc \in ShmPlaces
      BY <2>1 DEF CtrlC, Shape, Control
    <3> QED BY <1>0, <1>b, <2>1, <3>1 DEF CtrlC, Alive, Inputs, Handling, ShmPlaces
  <2>2. CASE ParentStep \/ ChildStep \/ \E t \in 0..nscanf_total : Ask(t)
    BY <1>0, <2>2 DEF ParentStep, Fork, Fresh, Ignore, Restart, Finish, ChildStep,
       SetDefault, ZeroBytes, Cleanup, CleanBytes, Exit, Ask, Inputs
  <2> QED BY <1>3, <2>1, <2>2 DEF ShmNext
<1>4. CASE FileNext
  <2>1. CASE Caught
    <3>1. ~Handling /\ pc # "exited"
      BY <2>1 DEF Caught, Shape, Control, Ended
    <3> QED BY <1>0, <1>b, <2>1, <3>1 DEF Caught, Inputs
  <2>2. CASE Killed
    BY <1>0, <2>2 DEF Killed, Inputs
  <2>3. CASE FileStep \/ Launch \/ \E t \in 0..nscanf_total : Choose(t)
    BY <1>0, <2>3 DEF FileStep, Install, Attach, ReadHeader, ReadData, Unlink,
     Detach, Return, OpenLog, WriteHeader, WriteData, ExecAgain, Launch, Exec, Fresh, Choose, Inputs
  <2> QED BY <1>4, <2>1, <2>2, <2>3 DEF FileNext
<1>5. CASE UNCHANGED vars
  BY <1>0, <1>5 DEF Inputs
<1> QED BY <1>1, <1>2, <1>3, <1>4, <1>5 DEF Next
LEMMA ControlStep ==
  ASSUME Shape, [Next]_vars
  PROVE  Control'
<1>0. Control /\ version \in {"shm", "file"} /\ life \in Seq(Input)
  BY DEF Shape, TypeOK
<1> USE DEF Control, ShmPlaces, FilePlaces, Handling, Replaying, log, family, disk, statics, program,
            history, vars
<1>1. CASE Scanf
  BY <1>0, <1>1 DEF Scanf, Replay, ReplayLast, TakeOne, CutNumber, ReplayFails, CountInput
<1>2. CASE \E v \in Value : Type(v)
  <2>1. PICK v \in Value : Type(v)
    BY <1>2
  <2>2. life' # <<>>
    <3>1. [val |-> v, size |-> Size] \in Input
      BY DEF Input, Size
    <3> QED BY <1>0, <2>1, <3>1, AppendProperties DEF Type
  <2> QED BY <1>0, <2>1, <2>2 DEF Type
<1>3. CASE ShmNext
  BY <1>0, <1>3 DEF ShmNext, ParentStep, Fork, Ignore, Restart, Finish, ChildStep, Fresh, Signaled,
     SetDefault, ZeroBytes, Cleanup, CleanBytes, Exit, Ask, CtrlC, Alive
<1>4. CASE FileNext
  BY <1>0, <1>4 DEF FileNext, FileStep, Install, Attach, ReadHeader, ReadData, Unlink, Ended,
     Detach, Return, OpenLog, WriteHeader, WriteData, ExecAgain, Launch, Exec, Fresh, Caught, Killed, Choose
<1>5. CASE UNCHANGED vars
  BY <1>0, <1>5
<1> QED BY <1>1, <1>2, <1>3, <1>4, <1>5 DEF Next

LEMMA StartingStep ==
  ASSUME Shape, [Next]_vars
  PROVE  Starting'
<1>0. Control /\ Starting /\ version \in {"shm", "file"}
  BY DEF Shape, TypeOK
<1> USE DEF Starting, Beginning, Here, Begin, log, family, disk, statics, program, history, vars
<1>1. CASE Scanf
  BY <1>0, <1>1 DEF Scanf, Replay, ReplayLast, TakeOne, CutNumber, ReplayFails, CountInput
<1>2. CASE \E v \in Value : Type(v)
  BY <1>0, <1>2 DEF Type
<1>3. CASE ShmNext
  <2>1. CASE ParentStep
    BY <1>0, <2>1 DEF ParentStep, Fork, Ignore, Restart, Finish, Fresh
  <2>2. CASE ChildStep
    BY <1>0, <2>2 DEF ChildStep, SetDefault, ZeroBytes, Cleanup, CleanBytes, Exit, Control, FilePlaces
  <2>3. CASE CtrlC \/ \E t \in 0..nscanf_total : Ask(t)
    BY <1>0, <2>3 DEF Ask, CtrlC
  <2> QED BY <1>3, <2>1, <2>2, <2>3 DEF ShmNext
<1>4. CASE FileNext
  BY <1>0, <1>4 DEF FileNext, FileStep, Install, Attach, ReadHeader, ReadData, Unlink,
     Detach, Return, OpenLog, WriteHeader, WriteData, ExecAgain, Launch, Exec, Fresh, Caught, Killed, Choose
<1>5. CASE UNCHANGED vars
  BY <1>0, <1>5
<1> QED BY <1>1, <1>2, <1>3, <1>4, <1>5 DEF Next

(* The bytes in use come from inputs.                                      *)
LEMMA BytesStep ==
  ASSUME Shape, [Next]_vars
  PROVE  (\A b \in 0..(MemSize-1) : b < nbytes_total => data[b] \in Byte)'
<1>0. /\ Log /\ Counts /\ File /\ Memory /\ MemSize \in Nat /\ Value \subseteq Nat
  BY TypeParts, ReplayAssumption DEF Shape
<1>a. \A b \in 0..(MemSize-1) : b < nbytes_total => data[b] \in Byte
  BY <1>0 DEF Memory
<1> USE DEF log, family, disk, statics, program, history, vars
<1>b. ASSUME nbytes_total' \in Int, nbytes_total' <= nbytes_total, data' = data
      PROVE  \A b \in 0..(MemSize-1) : b < nbytes_total' => data'[b] \in Byte
  BY <1>0, <1>a, <1>b DEF Log
<1>c. ASSUME nbytes_total' = 0
      PROVE  \A b \in 0..(MemSize-1) : b < nbytes_total' => data'[b] \in Byte
  BY <1>0, <1>c
<1>d. nbytes_total \in Int
  BY <1>0 DEF Log
<1>1. CASE Scanf
  <2>1. CASE ReplayLast
    <3>1. nbytes_running + Size <= nbytes_total /\ nbytes_total' = nbytes_running + Size
          /\ UNCHANGED data
      BY <2>1 DEF ReplayLast, TakeOne, Truncated
    <3>2. nbytes_running + Size \in Int
      BY <1>0 DEF Counts, Size
    <3> QED BY <1>b, <3>1, <3>2
  <2>2. CASE Replay \/ CutNumber \/ ReplayFails \/ CountInput
    BY <1>b, <1>d, <2>2 DEF Replay, CutNumber, ReplayFails, CountInput
  <2> QED BY <1>1, <2>1, <2>2 DEF Scanf
<1>2. CASE \E v \in Value : Type(v)
  <2>1. PICK v \in Value : Type(v)
    BY <1>2
  <2>2. Size \in {1, 4}
    BY DEF Size
  <2>3. nbytes_total' = nbytes_total + Size
    BY <2>1 DEF Type
  <2>4. data' = [b \in 0..(MemSize-1) |->
                   IF b - nbytes_total \in 0..(Size-1) THEN <<v, Size, b - nbytes_total>>
                                                       ELSE data[b]]
    BY <2>1 DEF Type
  <2>5. SUFFICES ASSUME NEW b \in 0..(MemSize-1), b < nbytes_total + Size
                 PROVE  data'[b] \in Byte
    BY <2>3
  <2>6. CASE b < nbytes_total
    <3>1. b - nbytes_total \notin 0..(Size-1)
      BY <1>d, <2>6
    <3> QED BY <1>a, <2>4, <2>6, <3>1
  <2>7. CASE ~(b < nbytes_total)
    <3>1. b - nbytes_total \in 0..(Size-1) /\ b - nbytes_total \in 0..3
      BY <1>d, <2>2, <2>5, <2>7
    <3>2. data'[b] = <<v, Size, b - nbytes_total>>
      BY <2>4, <3>1
    <3> QED BY <2>2, <3>1, <3>2 DEF Byte
  <2> QED BY <2>6, <2>7
<1>3. CASE ShmNext
  <2>1. CASE ParentStep \/ CtrlC \/ \E t \in 0..nscanf_total : Ask(t)
    BY <1>b, <1>d, <2>1 DEF ParentStep, Fork, Ignore, Restart, Finish, Ask, CtrlC
  <2>2. CASE ChildStep
    BY <1>b, <1>c, <1>d, <2>2 DEF ChildStep, SetDefault, ZeroBytes, Cleanup, CleanBytes, Exit
  <2> QED BY <1>3, <2>1, <2>2 DEF ShmNext
<1>4. CASE FileNext
  <2>1. CASE ReadData
    <3>1. DOMAIN data = 0..(MemSize-1) /\ Len(log1.bytes) \in Nat
          /\ \A k \in 1..Len(log1.bytes) : log1.bytes[k] \in Byte
      BY <1>0 DEF Log, File
    <3>2. nbytes_total' = Len(log1.bytes)
      BY <2>1 DEF ReadData
    <3>3. \A b \in 0..(MemSize-1) : b < Len(log1.bytes) => data'[b] = log1.bytes[b + 1]
      BY <2>1, <3>1 DEF ReadData
    <3>4. \A b \in 0..(MemSize-1) : b < Len(log1.bytes) => b + 1 \in 1..Len(log1.bytes)
      BY <3>1
    <3> QED BY <3>1, <3>2, <3>3, <3>4
  <2>2. CASE Launch \/ ExecAgain
    BY <1>c, <2>2 DEF Launch, ExecAgain, Exec
  <2>3. CASE ~(ReadData \/ Launch \/ ExecAgain)
    BY <1>b, <1>d, <1>4, <2>3 DEF FileNext, FileStep, Install, Attach, ReadHeader, Unlink,
     Detach, Return, OpenLog, WriteHeader, WriteData, Caught, Killed, Choose
  <2> QED BY <2>1, <2>2, <2>3
<1>5. CASE UNCHANGED vars
  BY <1>b, <1>d, <1>5
<1> QED BY <1>1, <1>2, <1>3, <1>4, <1>5 DEF Next
LEMMA MemoryStep ==
  ASSUME Shape, [Next]_vars
  PROVE  Memory'
<1>0. /\ Log /\ Control /\ Memory /\ version \in {"shm", "file"}
      /\ Len(log1'.bytes) <= MemSize
      /\ (\A b \in 0..(MemSize-1) : b < nbytes_total => data[b] \in Byte)'
  BY TypeParts, FileTyped, BytesStep DEF Shape, Where
<1> DEFINE M1 == pc \in {"new", "installed", "attached"} => nscanf_total = 0 /\ nbytes_total = 0
           M2 == pc = "header" => log1.is = "head" /\ nscanf_total = log1.total /\ nbytes_total = 0
           M3 == version = "file" /\ pc = "ask" =>
                   /\ log1.is = "head" /\ nscanf_total = log1.total /\ nbytes_total = Len(log1.bytes)
                   /\ \A b \in 0..(Len(log1.bytes) - 1) : data[b] = log1.bytes[b + 1]
           M4 == version = "file" /\ pc \in {"attached", "header", "ask", "run", "cut", "stored", "clean"} =>
                   ~removed
           M5 == version = "file" /\ pc \in {"clean", "left", "exited"} => log1 = NoFile
           M6 == pc = "zero" => nscanf_total = 0
           M7 == version = "shm" /\ pc \in {"clean", "left"} => nscanf_total = 0
           M8 == version = "shm" /\ pc = "left" => nbytes_total = 0
           M9 == version = "file" /\ pc = "left" => removed
           All == M1 /\ M2 /\ M3 /\ M4 /\ M5 /\ M6 /\ M7 /\ M8 /\ M9
<1>a. SUFFICES All'
  BY <1>0 DEF Memory
<1>b. All
  BY <1>0 DEF Memory
<1> USE DEF log, family, disk, statics, program, history, vars
<1>1. CASE Scanf
  BY <1>b, <1>1 DEF Scanf, Replay, ReplayLast, TakeOne, CutNumber, ReplayFails, CountInput
<1>2. CASE \E v \in Value : Type(v)
  BY <1>b, <1>2 DEF Type
<1>3. CASE ShmNext
  <2>1. CASE ParentStep
    BY <1>b, <2>1 DEF ParentStep, Fork, Ignore, Restart, Finish, Fresh
  <2>2. CASE ChildStep
    BY <1>0, <1>b, <2>2 DEF ChildStep, SetDefault, ZeroBytes, Cleanup, CleanBytes, Exit, Control,
       FilePlaces
  <2>3. CASE CtrlC \/ \E t \in 0..nscanf_total : Ask(t)
    BY <1>b, <2>3 DEF Ask, CtrlC
  <2> QED BY <1>3, <2>1, <2>2, <2>3 DEF ShmNext
<1>4. CASE FileNext
  <2>1. CASE ReadData
    <3>1. DOMAIN data = 0..(MemSize-1) /\ Len(log1.bytes) <= MemSize
      BY <1>0 DEF Log, Memory
    <3>2. Len(log1.bytes) \in Nat /\ MemSize \in Nat
      BY TypeParts, ReplayAssumption DEF Shape, File
    <3>3. \A b \in 0..(Len(log1.bytes) - 1) : data'[b] = log1.bytes[b + 1]
      BY <2>1, <3>1, <3>2 DEF ReadData
    <3>4. M1' /\ M2' /\ M4' /\ M5' /\ M6' /\ M7' /\ M8' /\ M9'
      BY <1>b, <2>1 DEF ReadData
    <3>5. pc' = "ask" /\ log1' = log1 /\ nscanf_total' = nscanf_total
          /\ nbytes_total' = Len(log1.bytes) /\ pc = "header"
      BY <2>1 DEF ReadData
    <3> QED BY <1>b, <3>3, <3>4, <3>5
  <2>2. CASE Install \/ Attach \/ ReadHeader \/ Unlink \/ Detach \/ Return
    BY <1>b, <2>2 DEF Install, Attach, ReadHeader, Unlink, Detach, Return
  <2>3. CASE OpenLog \/ WriteHeader \/ WriteData \/ ExecAgain \/ Launch
    BY <1>b, <2>3 DEF OpenLog, WriteHeader, WriteData, ExecAgain, Launch, Exec
  <2>4. CASE Caught \/ Killed \/ \E t \in 0..nscanf_total : Choose(t)
    BY <1>b, <2>4 DEF Caught, Killed, Choose
  <2> QED BY <1>4, <2>1, <2>2, <2>3, <2>4 DEF FileNext, FileStep
<1>5. CASE UNCHANGED vars
  BY <1>b, <1>5
<1> QED BY <1>1, <1>2, <1>3, <1>4, <1>5 DEF Next

LEMMA ShapeInit == Init => Shape
<1> SUFFICES ASSUME Init PROVE Shape
  OBVIOUS
<1>0. MemSize \in Nat /\ MaxInts \in Nat /\ MaxKills \in Nat
  BY ReplayAssumption
<1>1. NoBytes \in [0..(MemSize-1) -> Byte \cup {Blank}]
  BY DEF NoBytes
<1>2. NoFile \in [is : {"none", "empty", "head"}, total : Nat, bytes : Seq(Byte)]
      /\ Len(NoFile.bytes) = 0
  BY DEF NoFile
<1>3. TypeOK
  <2>1. Flags
    BY Zenon DEF Init, Flags
  <2>2. Log /\ Counts /\ Loops
    BY <1>0, <1>1 DEF Init, Log, Counts, Loops
  <2>3. File /\ Inputs
    BY <1>2, EmptyIs DEF Init, File, Inputs
  <2>4. Where
    BY <1>0 DEF Init, Where, ShmPlaces, FilePlaces
  <2> QED BY <2>1, <2>2, <2>3, <2>4, TypeParts
<1>4. Control /\ Starting
  BY DEF Init, Control, Starting, Beginning, ShmPlaces, FilePlaces, Handling, Here, Begin, Replaying
<1>5. Memory
  BY <1>0, <1>2 DEF Init, Memory
<1> QED BY <1>3, <1>4, <1>5 DEF Shape

LEMMA ShapeStep == Shape /\ [Next]_vars => Shape'
<1> SUFFICES ASSUME Shape, [Next]_vars PROVE Shape'
  OBVIOUS
<1>1. Flags' /\ Log' /\ Counts' /\ Loops' /\ File' /\ Inputs' /\ Where'
  BY FlagsStep, LogStep, CountsStep, LoopsStep, FileTyped, InputsStep, WhereStep
<1>2. TypeOK'
  <2>1. (Flags /\ Log /\ Counts /\ Loops /\ File /\ Inputs /\ Where => TypeOK)'
    BY Zenon DEF TypeOK, Flags, Log, Counts, Loops, File, Inputs, Where, ShmPlaces, FilePlaces
  <2> QED BY <1>1, <2>1
<1> QED BY <1>2, ControlStep, StartingStep, MemoryStep DEF Shape

(* Every variable keeps its type, however the program was killed and       *)
(* whatever became of the log.                                             *)
THEOREM TypeCorrect == Spec => []TypeOK
<1>1. Shape => TypeOK
  BY DEF Shape
<1> QED BY <1>1, ShapeInit, ShapeStep, PTL DEF Spec
-----------------------------------------------------------------------------
(* While the log is not torn, it holds what it is to hold.                 *)
Good == Readable /\ Kept /\ Replayed /\ Recorded /\ Filed

LEMMA ShapeTypes ==
  ASSUME Shape
  PROVE  /\ life \in Seq(Input) /\ prev \in Seq(Input)
         /\ Len(life) \in Nat /\ Len(prev) \in Nat
         /\ nscanf_total \in Nat /\ nbytes_total \in Nat /\ MemSize \in Nat
         /\ nscanf_running \in Nat /\ nscanf_target \in Nat
         /\ BytesOf(life) \in Nat /\ BytesOf(prev) \in Nat
         /\ version \in {"shm", "file"}
<1>1. life \in Seq(Input) /\ prev \in Seq(Input)
  BY DEF Shape, TypeOK
<1>2. \A s \in Seq(Input) : Len(s) \in Nat /\ BytesOf(s) \in Nat
  <2> TAKE s \in Seq(Input)
  <2>1. Len(s) \in Nat /\ Len(s) \in 0..Len(s)
    BY InputsAre
  <2>2. Ends(s) \in [0..Len(s) -> Nat]
    BY EndsAre
  <2> QED BY <2>1, <2>2 DEF BytesOf
<1>3. /\ nscanf_total \in Nat /\ nbytes_total \in Nat /\ MemSize \in Nat
      /\ nscanf_running \in Nat /\ nscanf_target \in Nat
  BY TypeParts, ReplayAssumption DEF Shape, Log, Counts
<1> QED BY <1>1, <1>2, <1>3 DEF Shape, TypeOK

(* The program has a next input to replay, and it is the next one kept.    *)
LEMMA NextReplayed ==
  ASSUME Shape, Good, pc = "run", Replaying,
         NEW x, x = prev[Len(life) + 1]
  PROVE  /\ x \in Input /\ x.size = Size /\ ~Over /\ Wants(PlaceOf(life), x)
         /\ Len(life) + 1 <= nscanf_target /\ Len(life) + 1 <= Len(prev)
         /\ nbytes_running + Size <= nbytes_total
         /\ ReadAt(nbytes_running, Size) = {x.val}
<1> DEFINE r == Len(life)
<1>0. /\ life \in Seq(Input) /\ prev \in Seq(Input) /\ r \in Nat /\ Len(prev) \in Nat
      /\ nscanf_running \in Nat /\ nscanf_target \in Nat /\ nbytes_total \in Nat
      /\ BytesOf(life) \in Nat /\ BytesOf(prev) \in Nat
  BY ShapeTypes
<1>1. /\ InLog(prev) /\ nscanf_target <= Len(prev)
      /\ nscanf_running = r /\ nbytes_running = BytesOf(life)
      /\ r <= Len(prev) /\ \A k \in 1..r : life[k] = prev[k]
  BY DEF Good, Replayed
<1>2. r + 1 <= nscanf_target /\ r + 1 <= Len(prev) /\ r + 1 \in 1..Len(prev) /\ (r + 1) - 1 = r
  BY <1>0, <1>1 DEF Replaying
<1>3. x \in Input /\ x.val \in Value /\ x.size \in {1, 4} /\ DOMAIN prev = 1..Len(prev)
  BY <1>0, <1>2, InputsAre
<1>4. BytesOf(life) = Ends(prev)[r] /\ PlaceOf(life) = Places(prev)[r]
  BY <1>0, <1>1, BeginningIs
<1>5. Wants(PlaceOf(life), x)
  BY <1>2, <1>3, <1>4 DEF Good, Readable, Legal
<1>6. PlaceOf(life) = Here
  BY DEF Good, Readable
<1>7. ~Over /\ x.size = Size
  BY <1>5, <1>6 DEF Wants, Here, Over, WantsN, Size
<1>8. \A b \in 0..(Size - 1) : data[nbytes_running + b] = <<x.val, Size, b>>
  <2>1. Spelled(prev, data)
    BY <1>1 DEF InLog
  <2>2. \A k \in DOMAIN prev : \A b \in 0..(prev[k].size - 1) :
          data[Ends(prev)[k-1] + b] = <<prev[k].val, prev[k].size, b>>
    BY <2>1 DEF Spelled
  <2>3. \A b \in 0..(x.size - 1) : data[Ends(prev)[r] + b] = <<x.val, x.size, b>>
    BY <1>2, <1>3, <2>2
  <2>4. Ends(prev)[r] = nbytes_running
    BY <1>1, <1>4
  <2> HIDE DEF r
  <2> QED BY <1>7, <2>3, <2>4
<1>9. nbytes_running + Size <= nbytes_total
  <2>1. Ends(prev)[r + 1] = Ends(prev)[r] + x.size
    BY <1>0, <1>2, EndsAre
  <2>2. Ends(prev)[r + 1] <= Ends(prev)[Len(prev)]
    <3>1. r + 1 \in 0..Len(prev) /\ Len(prev) \in (r + 1)..Len(prev)
      BY <1>0, <1>2
    <3> QED BY <1>0, <3>1, EndsGrow
  <2>3. BytesOf(prev) <= nbytes_total
    BY <1>1 DEF InLog
  <2>4. BytesOf(life) + Size <= BytesOf(prev)
    BY <1>4, <1>7, <2>1, <2>2 DEF BytesOf
  <2>5. BytesOf(life) + Size \in Nat
    BY <1>0, <1>3, <1>7
  <2> QED BY <1>0, <1>1, <2>3, <2>4, <2>5
<1>10. Logged(nbytes_running, Size) = {x.val}
  <2>1. ASSUME NEW v \in Logged(nbytes_running, Size) PROVE v = x.val
    <3>1. 0 \in 0..(Size - 1)
      BY <1>3, <1>7
    <3>2. data[nbytes_running + 0] = <<v, Size, 0>>
      BY <3>1 DEF Logged
    <3>3. data[nbytes_running + 0] = <<x.val, Size, 0>>
      BY <1>8, <3>1
    <3> QED BY <3>2, <3>3
  <2>2. x.val \in Logged(nbytes_running, Size)
    BY <1>3, <1>8 DEF Logged
  <2> QED BY <2>1, <2>2
<1>11. ReadAt(nbytes_running, Size) = {x.val}
  BY <1>10 DEF ReadAt
<1> QED BY <1>2, <1>3, <1>5, <1>7, <1>9, <1>11

(* Replaying one more input.                                               *)
LEMMA TookOne ==
  ASSUME Shape, Good, TakeOne
  PROVE  /\ life' \in Seq(Input) /\ Len(life') = Len(life) + 1 /\ Len(life') <= nscanf_target
         /\ Len(life') <= Len(prev) /\ \A k \in 1..Len(life') : life'[k] = prev[k]
         /\ BytesOf(life') = nbytes_running + Size
         /\ Legal(life') /\ Here' = PlaceOf(life') /\ Spelled(life', data)
<1>0. life \in Seq(Input) /\ prev \in Seq(Input) /\ Len(life) \in Nat /\ Value \subseteq Nat
  BY ShapeTypes, ReplayAssumption
<1>1. pc = "run" /\ Replaying
  BY DEF TakeOne
<1>2. PICK x : x = prev[Len(life) + 1]
  OBVIOUS
<1>3. /\ x \in Input /\ x.size = Size /\ ~Over /\ Wants(PlaceOf(life), x)
      /\ Len(life) + 1 <= nscanf_target /\ Len(life) + 1 <= Len(prev)
      /\ ReadAt(nbytes_running, Size) = {x.val}
  BY <1>1, <1>2, NextReplayed
<1>4. Advance(x.val) /\ life' = Append(life, [val |-> x.val, size |-> Size])
  BY <1>3 DEF TakeOne
<1>5. x.val \in Value /\ [val |-> x.val, size |-> Size] = x
  BY <1>3 DEF Input
<1>6. life' = Append(life, x)
  BY <1>4, <1>5
<1>7. /\ life' \in Seq(Input) /\ Len(life') = Len(life) + 1
      /\ \A k \in 1..Len(life) : life'[k] = life[k]
      /\ life'[Len(life) + 1] = x
      /\ BytesOf(life') = BytesOf(life) + x.size
      /\ PlaceOf(life') = After(PlaceOf(life), x.val)
      /\ Legal(life) /\ Wants(PlaceOf(life), x) => Legal(life')
  BY <1>0, <1>3, <1>6, AppendIs
<1>8. \A k \in 1..Len(life') : life'[k] = prev[k]
  <2>1. \A k \in 1..Len(life) : life[k] = prev[k]
    BY <1>1 DEF Good, Replayed
  <2> QED BY <1>0, <1>2, <1>7, <2>1
<1>9. BytesOf(life') = nbytes_running + Size
  BY <1>1, <1>3, <1>7 DEF Good, Replayed
<1>10. Legal(life') /\ Here' = PlaceOf(life')
  <2>1. Loops
    BY TypeParts DEF Shape
  <2>2. Here' = After(Here, x.val)
    BY <1>0, <1>3, <1>4, <1>5, <2>1, Advances
  <2> QED BY <1>3, <1>7, <2>2 DEF Good, Readable
<1>11. Spelled(life', data)
  <2>1. Spelled(prev, data)
    BY <1>1 DEF Good, Replayed, InLog
  <2> QED BY <1>0, <1>3, <1>7, <1>8, <2>1, BeginningIs
<1> QED BY <1>3, <1>7, <1>8, <1>9, <1>10, <1>11
LEMMA ReplayFaith ==
  ASSUME Shape, Good, Replay
  PROVE  Good'
<1> USE DEF log, family, disk
<1>0. /\ life \in Seq(Input) /\ Len(life) \in Nat /\ TakeOne
      /\ nscanf_running \in Nat /\ nscanf_target \in Nat
  BY ShapeTypes DEF Replay
<1>1. /\ pc = "run" /\ pc' = "run" /\ Replaying /\ UNCHANGED <<log, version, log1, prev>>
      /\ nscanf_running' = nscanf_running + 1 /\ nscanf_running' < nscanf_target'
      /\ nscanf_target' = nscanf_target /\ mode' = mode /\ nbytes_running' = nbytes_running + Size
  BY DEF Replay, TakeOne
<1>2. Replaying'
  BY <1>1 DEF Replaying
<1>3. Readable'
  BY <1>0, <1>1, TookOne DEF Good, Readable
<1>4. Kept' /\ Recorded'
  BY <1>1, <1>2 DEF Kept, Recorded
<1>5. Replayed'
  <2>1. InLog(prev)'
    BY <1>1 DEF Good, Replayed, InLog
  <2> QED BY <1>0, <1>1, <2>1, TookOne DEF Good, Replayed
<1>6. Filed'
  BY <1>1 DEF Good, Filed, InFile
<1> QED BY <1>3, <1>4, <1>5, <1>6 DEF Good

LEMMA ReplayLastFaith ==
  ASSUME Shape, Good, ReplayLast
  PROVE  Good'
<1> USE DEF log, family, disk
<1>0. /\ life \in Seq(Input) /\ Len(life) \in Nat /\ TakeOne
      /\ nscanf_running \in Nat /\ nscanf_target \in Nat
  BY ShapeTypes DEF ReplayLast
<1>1. /\ pc = "run" /\ pc' = "cut" /\ Replaying /\ UNCHANGED <<nscanf_total, data, version, log1, prev>>
      /\ nscanf_running + 1 >= nscanf_target /\ mode' = 0 /\ nscanf_target' = nscanf_target
      /\ nbytes_total' = nbytes_running + Size
  BY DEF ReplayLast, TakeOne, Truncated
<1>2. ~Replaying'
  BY <1>1 DEF Replaying
<1>3. Readable'
  BY <1>0, <1>1, TookOne DEF Good, Readable
<1>4. Kept' /\ Recorded'
  BY <1>1 DEF Kept, Recorded
<1>5. /\ nscanf_running = Len(life) /\ nscanf_total = Len(prev) /\ nscanf_target <= Len(prev)
  BY <1>1 DEF Good, Replayed
<1>6. nscanf_target = Len(life')
  BY <1>0, <1>1, <1>5, TookOne
<1>7. Common'
  BY <1>0, <1>1, <1>5, <1>6, TookOne DEF Common
<1>8. IsLog(life)'
  BY <1>0, <1>1, TookOne DEF IsLog
<1>9. Replayed'
  BY <1>1, <1>2, <1>5, <1>6, <1>7, <1>8 DEF Replayed
<1>10. Filed'
  BY <1>1 DEF Good, Filed, InFile
<1> QED BY <1>3, <1>4, <1>9, <1>10 DEF Good

LEMMA CountFaith ==
  ASSUME Shape, Good, CutNumber \/ ReplayFails \/ CountInput
  PROVE  Good'
<1> USE DEF log, family, disk, program, history, statics
<1>0. Len(life) \in Nat /\ nscanf_total \in Nat /\ nscanf_target \in Nat
  BY ShapeTypes
<1>1. CASE CutNumber
  <2>1. /\ pc = "cut" /\ pc' = "run" /\ nscanf_total' = nscanf_target /\ mode = 0
        /\ UNCHANGED <<nbytes_total, data, version, log1, mode, nscanf_target, life, prev, phase, n, i>>
    BY <1>1 DEF CutNumber, Shape, Control
  <2>2. ~Replaying' /\ ~Replaying
    BY <2>1 DEF Replaying
  <2>3. Readable' /\ Kept' /\ Replayed'
    BY <2>1, <2>2 DEF Good, Readable, Here, Kept, Replayed
  <2>4. Recorded'
    BY <2>1, <2>2 DEF Good, Replayed, Recorded, Common, IsLog
  <2>5. Filed'
    BY <2>1 DEF Good, Filed, InFile
  <2> QED BY <2>3, <2>4, <2>5 DEF Good
<1>2. CASE ReplayFails
  <2>1. pc = "run" /\ Replaying /\ nbytes_running + Size > nbytes_total
    BY <1>2 DEF ReplayFails
  <2>2. PICK x : x = prev[Len(life) + 1]
    OBVIOUS
  <2>3. nbytes_running + Size <= nbytes_total
    BY <2>1, <2>2, NextReplayed
  <2>4. nbytes_running + Size \in Nat /\ nbytes_total \in Nat
    BY TypeParts, ReplayAssumption DEF Shape, Counts, Log, Size
  <2> QED BY <2>1, <2>3, <2>4
<1>3. CASE CountInput
  <2>1. /\ pc = "stored" /\ pc' = "run" /\ nscanf_total' = nscanf_total + 1 /\ ~Replaying
        /\ UNCHANGED <<nbytes_total, data, version, log1, mode, nscanf_target, nscanf_running,
                       life, prev, phase, n, i>>
    BY <1>3 DEF CountInput, Shape, Control
  <2>2. ~Replaying'
    BY <2>1 DEF Replaying
  <2>3. Readable' /\ Kept' /\ Replayed'
    BY <2>1, <2>2 DEF Good, Readable, Here, Kept, Replayed
  <2>4. Recorded'
    BY <1>0, <2>1, <2>2 DEF Good, Recorded, Common, IsLog
  <2>5. Filed'
    BY <2>1 DEF Good, Filed, InFile
  <2> QED BY <2>3, <2>4, <2>5 DEF Good
<1> QED BY <1>1, <1>2, <1>3

LEMMA TypeFaith ==
  ASSUME Shape, Good, NEW v \in Value, Type(v)
  PROVE  Good'
<1> USE DEF log, family, disk, program, history, statics
<1>0. /\ life \in Seq(Input) /\ prev \in Seq(Input) /\ Len(life) \in Nat /\ Value \subseteq Nat
      /\ nbytes_total \in Nat /\ MemSize \in Nat /\ nscanf_total \in Nat /\ nscanf_target \in Nat
  BY ShapeTypes, ReplayAssumption
<1>1. /\ pc = "run" /\ ~Over /\ ~Replaying /\ pc' = "stored" /\ Advance(v)
      /\ nbytes_total + Size <= MemSize /\ nbytes_total' = nbytes_total + Size
      /\ UNCHANGED <<nscanf_total, version, log1, mode, nscanf_running, nscanf_target, prev>>
  BY DEF Type
<1>2. PICK x : x = [val |-> v, size |-> Size]
  OBVIOUS
<1>3. x \in Input /\ x.val = v /\ x.size = Size /\ Size \in {1, 4} /\ life' = Append(life, x)
  BY <1>2 DEF Type, Size, Input
<1>4. Readable /\ nscanf_total = Len(life) /\ Common /\ IsLog(life)
  BY <1>1 DEF Good, Recorded
<1>5. Wants(PlaceOf(life), x)
  BY <1>1, <1>3, <1>4 DEF Readable, Wants, Here, Over, WantsN, Size
<1>6. /\ life' \in Seq(Input) /\ Len(life') = Len(life) + 1
      /\ \A k \in 1..Len(life) : life'[k] = life[k]
      /\ BytesOf(life') = BytesOf(life) + x.size
      /\ PlaceOf(life') = After(PlaceOf(life), x.val)
      /\ Legal(life) /\ Wants(PlaceOf(life), x) => Legal(life')
  BY <1>0, <1>3, AppendIs
<1>7. Readable'
  <2>1. Loops
    BY TypeParts DEF Shape
  <2>2. Here' = After(Here, v)
    BY <1>0, <1>1, <2>1, Advances
  <2> QED BY <1>1, <1>3, <1>4, <1>5, <1>6, <2>2 DEF Readable
<1>8. Spelled(life', data')
  <2>1. data' = [b \in 0..(MemSize-1) |->
                   IF b - nbytes_total \in 0..(Size-1) THEN <<v, Size, b - nbytes_total>>
                                                       ELSE data[b]]
    BY DEF Type
  <2>2. \A o \in 0..(nbytes_total - 1) : o \in 0..(MemSize - 1) /\ o - nbytes_total \notin 0..(Size-1)
    BY <1>0, <1>1, <1>3
  <2>3. \A o \in 0..(nbytes_total - 1) : data'[o] = data[o]
    BY <2>1, <2>2
  <2>4. \A b \in 0..(Size - 1) : /\ nbytes_total + b \in 0..(MemSize - 1)
                                 /\ (nbytes_total + b) - nbytes_total = b
    BY <1>0, <1>1, <1>3
  <2>5. \A b \in 0..(Size - 1) : data'[nbytes_total + b] = <<v, Size, b>>
    BY <2>1, <2>4
  <2>6. BytesOf(life) = nbytes_total /\ Spelled(life, data)
    BY <1>4 DEF IsLog
  <2>7. /\ Spelled(life, data) /\ \A o \in 0..(BytesOf(life) - 1) : data'[o] = data[o]
        /\ \A b \in 0..(x.size - 1) : data'[BytesOf(life) + b] = <<x.val, x.size, b>>
    BY <1>3, <2>3, <2>5, <2>6
  <2>8. Spelled(Append(life, x), data')
    BY <1>0, <1>3, <2>7, AppendSpelled
  <2> QED BY <1>3, <2>8
<1>9. ~Replaying'
  BY <1>1 DEF Replaying
<1>10. Kept' /\ Replayed'
  BY <1>1, <1>9 DEF Kept, Replayed
<1>11. Common' /\ nscanf_target' < Len(life')
  BY <1>0, <1>1, <1>4, <1>6 DEF Common
<1>12. IsLog(life)'
  BY <1>1, <1>3, <1>4, <1>6, <1>8 DEF IsLog
<1>13. Recorded'
  <2>1. nscanf_total' = Len(life') - 1
    BY <1>0, <1>1, <1>4, <1>6
  <2> QED BY <1>1, <1>11, <1>12, <2>1 DEF Recorded
<1>14. Filed'
  BY <1>1 DEF Good, Filed, InFile
<1> QED BY <1>7, <1>10, <1>13, <1>14 DEF Good
(* The end of the test program is not reached while it replays.            *)
LEMMA OverIsOver ==
  ASSUME Shape, Good, pc = "run", Over
  PROVE  ~Replaying /\ nscanf_total = Len(life) /\ IsLog(life)
<1>1. ~Replaying
  <2>1. SUFFICES ASSUME Replaying PROVE FALSE
    OBVIOUS
  <2>2. PICK x : x = prev[Len(life) + 1]
    OBVIOUS
  <2> QED BY <2>1, <2>2, NextReplayed
<1> QED BY <1>1 DEF Good, Recorded

(* With nothing typed or kept there is nothing in the log.                 *)
LEMMA EmptyLog ==
  ASSUME prev' \in Seq(Input), nbytes_total' = 0, life' = <<>>, nscanf_target' = 0
  PROVE  IsLog(life)' /\ Common'
<1>1. IsLog(life)'
  BY EmptyIs DEF IsLog
<1>2. Len(life') = 0 /\ Len(prev') \in Nat
  BY EmptyIs, InputsAre
<1>3. \A k \in 1..nscanf_target' : FALSE
  OBVIOUS
<1> QED BY <1>1, <1>2, <1>3 DEF Common

LEMMA ShmFaith ==
  ASSUME Shape, Shape', Good, ParentStep \/ ChildStep \/ \E t \in 0..nscanf_total : Ask(t)
  PROVE  Good'
<1> USE DEF log, family, disk, program, history, statics
<1>0. /\ Control /\ Starting /\ Memory /\ Len(life) \in Nat /\ Len(prev) \in Nat /\ prev \in Seq(Input)
      /\ nscanf_total \in Nat /\ nbytes_total \in Nat
  BY ShapeTypes DEF Shape
<1>a. Readable /\ Kept /\ Replayed /\ Recorded /\ Filed
  BY DEF Good
<1>1. CASE Fork
  <2>1. /\ version = "shm" /\ pc \in {"none", "killed"} /\ pc' = "born" /\ life' = <<>> /\ mode' = 0
        /\ Here' = Begin /\ UNCHANGED <<version, nscanf_total, nbytes_total, data, prev>>
    BY <1>0, <1>1 DEF Fork, Fresh, Control, Here, Begin
  <2>2. Readable'
    BY <1>a, <2>1, EmptyIs DEF Readable
  <2>3. Kept'
    BY <1>a, <2>1 DEF Kept, InLog
  <2>4. Replayed' /\ Recorded' /\ Filed'
    BY <2>1 DEF Replayed, Recorded, Filed, Replaying
  <2> QED BY <2>2, <2>3, <2>4 DEF Good
<1>2. CASE Ignore \/ Restart \/ Finish
  <2>1. /\ pc' = pc /\ version = "shm"
        /\ UNCHANGED <<version, nscanf_total, nbytes_total, data, prev, life, phase, n, i, mode,
                       nscanf_running, nscanf_target, nbytes_running, log1>>
    BY <1>0, <1>2, ShapeTypes DEF Ignore, Restart, Finish, Control
  <2>2. Readable' /\ (Replaying' <=> Replaying)
    BY <1>a, <2>1 DEF Readable, Here, Replaying
  <2>3. pc \in ShmPlaces
    BY <1>0, <2>1 DEF Control
  <2>4. Kept'
    BY <1>a, <2>1, <2>3 DEF Kept, InLog, ShmPlaces
  <2>5. Replayed' /\ Recorded'
    BY <1>a, <2>1, <2>2 DEF Replayed, Recorded, InLog, IsLog, Common
  <2>6. Filed'
    BY <2>1, <2>3 DEF Filed, ShmPlaces
  <2> QED BY <2>2, <2>4, <2>5, <2>6 DEF Good
<1>3. CASE SetDefault
  <2>1. /\ pc = "born" /\ version = "shm" /\ pc' = IF nscanf_total > 0 THEN "ask" ELSE "run"
        /\ UNCHANGED <<version, nscanf_total, nbytes_total, data, prev, life, phase, n, i, mode,
                       nscanf_running, nscanf_target, nbytes_running>>
    BY <1>0, <1>3, ShapeTypes DEF SetDefault, Control, FilePlaces
  <2>2. life = <<>> /\ mode = 0 /\ nscanf_target = 0 /\ nscanf_running = 0
    BY <1>0, <2>1 DEF Starting, Beginning
  <2>3. nscanf_total = Len(prev) /\ InLog(prev) /\ (prev = <<>> => nbytes_total = 0)
    BY <1>a, <2>1 DEF Kept
  <2>4. Readable' /\ ~Replaying'
    BY <1>a, <2>1, <2>2 DEF Readable, Here, Replaying
  <2>5. Kept' /\ Replayed' /\ Filed'
    BY <2>1, <2>3, <2>4 DEF Kept, InLog, Replayed, Filed
  <2>6. CASE nscanf_total > 0
    BY <2>1, <2>4, <2>5, <2>6 DEF Good, Recorded
  <2>7. CASE ~(nscanf_total > 0)
    <3>1. nscanf_total = 0 /\ prev = <<>> /\ nbytes_total = 0
      BY <1>0, <2>3, <2>7, EmptySeq
    <3>2. nscanf_total' = 0 /\ nbytes_total' = 0 /\ life' = <<>> /\ nscanf_target' = 0
      BY <2>1, <2>2, <3>1
    <3>3. Recorded'
      BY <2>1, <2>7, <3>2, EmptyLog, EmptyIs DEF Recorded, Shape, TypeOK
    <3> QED BY <2>4, <2>5, <3>3 DEF Good
  <2> QED BY <2>6, <2>7
<1>4. CASE ZeroBytes
  <2>1. /\ pc = "zero" /\ version = "shm" /\ pc' = "run" /\ nbytes_total' = 0
        /\ UNCHANGED <<version, nscanf_total, data, prev, life, phase, n, i, mode,
                       nscanf_running, nscanf_target, nbytes_running>>
    BY <1>0, <1>4, ShapeTypes DEF ZeroBytes, Control, FilePlaces
  <2>2. life = <<>> /\ mode = 0 /\ nscanf_target = 0 /\ nscanf_total = 0
    BY <1>0, <2>1 DEF Starting, Beginning, Memory
  <2>3. Readable' /\ ~Replaying'
    BY <1>a, <2>1, <2>2 DEF Readable, Here, Replaying
  <2>4. nscanf_total' = 0 /\ nbytes_total' = 0 /\ life' = <<>> /\ nscanf_target' = 0
    BY <2>1, <2>2
  <2>5. Recorded'
    BY <2>1, <2>4, EmptyLog, EmptyIs DEF Recorded, Shape, TypeOK
  <2>6. Kept' /\ Replayed' /\ Filed'
    BY <2>1, <2>3 DEF Kept, Replayed, Filed
  <2> QED BY <2>3, <2>5, <2>6 DEF Good
<1>5. CASE Cleanup \/ CleanBytes \/ Exit
  <2>1. /\ version = "shm" /\ pc \in {"run", "clean", "left"} /\ pc' \in {"clean", "left", "exited"}
        /\ (pc = "run" => Over)
        /\ UNCHANGED <<version, prev, life, phase, n, i, mode, nscanf_running, nscanf_target>>
    BY <1>5 DEF Cleanup, CleanBytes, Exit
  <2>2. ~Replaying
    BY <1>a, <2>1, OverIsOver DEF Replayed
  <2>3. Readable' /\ ~Replaying'
    BY <1>a, <2>1, <2>2 DEF Readable, Here, Replaying
  <2>4. Kept' /\ Replayed' /\ Recorded' /\ Filed'
    BY <2>1, <2>3 DEF Kept, Replayed, Recorded, Filed
  <2> QED BY <2>3, <2>4 DEF Good
<1>6. ASSUME NEW t \in 0..nscanf_total, Ask(t) PROVE Good'
  <2>1. /\ version = "shm" /\ pc = "ask" /\ nscanf_target' = t
        /\ UNCHANGED <<version, nbytes_total, data, prev, life, phase, n, i, nscanf_running,
                       nbytes_running>>
    BY <1>6 DEF Ask
  <2>2. life = <<>> /\ nscanf_running = 0 /\ nbytes_running = 0 /\ Len(life) = 0 /\ BytesOf(life) = 0
    BY <1>0, <2>1, EmptyIs DEF Starting, Beginning
  <2>3. nscanf_total = Len(prev) /\ InLog(prev)
    BY <1>a, <2>1 DEF Kept
  <2>4. Readable'
    BY <1>a, <2>1 DEF Readable, Here
  <2>5. CASE t = 0
    <3>1. pc' = "zero" /\ mode' = 0
      BY <1>6, <2>5 DEF Ask
    <3> QED BY <2>1, <2>4, <3>1 DEF Good, Kept, Replayed, Recorded, Filed, Replaying
  <2>6. CASE t # 0
    <3>1. pc' = "run" /\ mode' = 1 /\ nscanf_total' = nscanf_total
      BY <1>6, <2>6 DEF Ask
    <3>2. Replaying'
      BY <2>1, <2>2, <2>6, <3>1 DEF Replaying
    <3>3. InLog(prev)'
      BY <2>1, <2>3 DEF InLog
    <3>4. Replayed'
      BY <1>0, <2>1, <2>2, <2>3, <3>1, <3>3 DEF Replayed
    <3> QED BY <2>1, <2>4, <3>1, <3>2, <3>4 DEF Good, Kept, Recorded, Filed
  <2> QED BY <2>5, <2>6
<1> QED BY <1>1, <1>2, <1>3, <1>4, <1>5, <1>6 DEF ParentStep, ChildStep
(* What the file holds is in memory once it is read.                       *)
LEMMA AskedFile ==
  ASSUME Shape, Good, version = "file", pc = "ask"
  PROVE  nscanf_total = Len(prev) /\ InLog(prev)
<1>0. prev \in Seq(Input) /\ Memory
  BY ShapeTypes DEF Shape
<1>1. /\ log1.is = "head" /\ nscanf_total = log1.total /\ nbytes_total = Len(log1.bytes)
      /\ \A b \in 0..(Len(log1.bytes) - 1) : data[b] = log1.bytes[b + 1]
  BY <1>0 DEF Memory
<1>2. InFile(prev)
  BY <1>1 DEF Good, Filed
<1> DEFINE image == [b \in 0..(Len(log1.bytes) - 1) |-> log1.bytes[b + 1]]
<1>3. log1.total = Len(prev) /\ BytesOf(prev) <= Len(log1.bytes) /\ Spelled(prev, image)
  BY <1>2 DEF InFile
<1>4. \A o \in 0..(BytesOf(prev) - 1) : data[o] = image[o]
  <2>1. Len(log1.bytes) \in Nat /\ BytesOf(prev) \in Nat
    BY ShapeTypes, TypeParts DEF Shape, File
  <2>2. \A o \in 0..(BytesOf(prev) - 1) : o \in 0..(Len(log1.bytes) - 1)
    BY <1>3, <2>1
  <2> QED BY <1>1, <2>2
<1>5. Spelled(prev, data)
  <2> HIDE DEF image
  <2> QED BY <1>0, <1>3, <1>4, SpelledSame
<1> QED BY <1>1, <1>3, <1>5 DEF InLog

(* What a kill is to keep is what the log holds.                           *)
LEMMA KeepsLog ==
  ASSUME Shape, Good, ~LeavesTorn, ~LosesLog, ~Handling,
         pc \notin {"none", "new", "exited", "killed"}
  PROVE  /\ Legal(ToKeep) /\ (Replaying => ToKeep = prev)
         /\ version = "file" /\ removed => ToKeep = <<>>
         /\ ~(version = "file" /\ pc = "left") => nscanf_total = Len(ToKeep) /\ InLog(ToKeep)
<1>0. /\ Control /\ Starting /\ Memory /\ Len(life) \in Nat /\ Len(prev) \in Nat
      /\ life \in Seq(Input) /\ prev \in Seq(Input) /\ version \in {"shm", "file"}
      /\ nscanf_total \in Nat /\ nbytes_total \in Nat /\ nscanf_target \in Nat
      /\ BytesOf(life) \in Nat /\ BytesOf(prev) \in Nat
  BY ShapeTypes DEF Shape
<1>a. Readable /\ Kept /\ Replayed /\ Recorded /\ Filed
  BY DEF Good
<1>b. Len(<<>>) = 0 /\ Legal(<<>>) /\ InLog(<<>>)
  BY <1>0, EmptyIs DEF InLog
<1>c. version = "file" /\ removed => pc \in {"installed", "left"}
  BY <1>0 DEF Memory, Control, FilePlaces, Handling
<1>d. \A s : IsLog(s) => InLog(s)
  BY <1>0 DEF IsLog, InLog
<1>1. CASE pc \in {"installed", "attached", "header"}
  <2>1. ToKeep = prev /\ version = "file"
    BY <1>0, <1>1 DEF ToKeep, Control, ShmPlaces
  <2>2. prev = <<>> /\ nscanf_total = 0
    <3>1. CASE pc \in {"installed", "attached"}
      BY <1>0, <3>1 DEF LosesLog, Memory
    <3>2. CASE pc = "header"
      <4>1. nscanf_total = 0 /\ log1.is = "head" /\ nscanf_total = log1.total
        BY <1>0, <3>2 DEF LosesLog, Memory
      <4>2. InFile(prev)
        BY <1>a, <2>1, <3>2, <4>1 DEF Filed
      <4>3. Len(prev) = 0
        BY <4>1, <4>2 DEF InFile
      <4> QED BY <1>0, <4>1, <4>3, EmptySeq
    <3> QED BY <1>1, <3>1, <3>2
  <2> QED BY <1>b, <2>1, <2>2
<1>2. CASE pc \in {"born", "ask"}
  <2>1. ToKeep = prev
    BY <1>2 DEF ToKeep
  <2>2. nscanf_total = Len(prev) /\ InLog(prev)
    <3>1. CASE version = "shm" \/ pc = "born"
      BY <1>a, <1>2, <3>1 DEF Kept
    <3>2. CASE version = "file" /\ pc = "ask"
      BY <3>2, AskedFile
    <3> QED BY <1>0, <1>2, <3>1, <3>2
  <2> QED BY <1>a, <1>c, <1>2, <2>1, <2>2 DEF Readable
<1>3. CASE pc = "run" /\ Replaying
  <2>1. ToKeep = prev
    BY <1>3 DEF ToKeep
  <2>2. nscanf_total = Len(prev) /\ InLog(prev)
    BY <1>a, <1>3 DEF Replayed
  <2> QED BY <1>a, <1>c, <1>3, <2>1, <2>2 DEF Readable
<1>4. CASE pc = "run" /\ ~Replaying
  <2>1. ToKeep = life
    BY <1>4 DEF ToKeep
  <2>2. nscanf_total = Len(life) /\ IsLog(life)
    BY <1>a, <1>4 DEF Recorded
  <2> QED BY <1>a, <1>c, <1>d, <1>4, <2>1, <2>2 DEF Readable
<1>5. CASE pc = "cut"
  <2>1. ~Replaying
    BY <1>0, <1>5 DEF Control, Replaying
  <2>2. ToKeep = life
    BY <1>5, <2>1 DEF ToKeep
  <2>3. nscanf_target = Len(life) /\ nscanf_total = Len(prev) /\ nscanf_target <= Len(prev)
        /\ IsLog(life)
    BY <1>a, <1>5 DEF Replayed, Common
  <2>4. nscanf_total = Len(life)
    BY <1>0, <1>5, <2>3 DEF LeavesTorn
  <2> QED BY <1>a, <1>c, <1>d, <1>5, <2>1, <2>2, <2>3, <2>4 DEF Readable
<1>6. CASE pc = "stored"
  <2>1. ~Replaying /\ life # <<>>
    BY <1>0, <1>6 DEF Control
  <2>2. ToKeep = Front(life)
    BY <1>6, <2>1 DEF ToKeep
  <2>3. /\ Front(life) \in Seq(Input) /\ Len(Front(life)) = Len(life) - 1
        /\ \A k \in 1..Len(Front(life)) : Front(life)[k] = life[k]
    BY <1>0, <2>1, FrontIs
  <2>4. nscanf_total = Len(life) - 1 /\ IsLog(life)
    BY <1>a, <1>6 DEF Recorded
  <2>5. /\ BytesOf(Front(life)) \in Nat /\ BytesOf(Front(life)) <= BytesOf(life)
        /\ (Legal(life) => Legal(Front(life)))
        /\ \A d : Spelled(life, d) => Spelled(Front(life), d)
    <3>1. Len(Front(life)) <= Len(life)
      BY <1>0, <2>3
    <3> QED BY <1>0, <2>3, <3>1, BeginningIs
  <2>6. InLog(Front(life))
    BY <1>0, <2>4, <2>5 DEF IsLog, InLog
  <2>7. Legal(Front(life))
    BY <1>a, <2>5 DEF Readable
  <2> QED BY <1>c, <1>6, <2>1, <2>2, <2>3, <2>4, <2>6, <2>7
<1>7. CASE pc = "zero"
  <2>1. life = <<>> /\ mode = 0 /\ nscanf_total = 0
    BY <1>0, <1>7 DEF Starting, Beginning, Memory
  <2>2. ToKeep = <<>> /\ ~Replaying
    BY <1>7, <2>1 DEF ToKeep, Replaying
  <2> QED BY <1>b, <2>1, <2>2
<1>8. CASE pc = "left" \/ (version = "shm" /\ pc = "clean")
  <2>1. ~Replaying
    BY <1>a, <1>8 DEF Replayed
  <2>2. ToKeep = <<>>
    BY <1>8, <2>1 DEF ToKeep
  <2>3. version = "shm" => nscanf_total = 0
    BY <1>0, <1>8 DEF Memory
  <2> QED BY <1>0, <1>b, <1>8, <2>1, <2>2, <2>3
<1>9. CASE version = "file" /\ pc = "clean"
  <2>1. ~Replaying
    BY <1>a, <1>9 DEF Replayed
  <2>2. ToKeep = life
    BY <1>9, <2>1 DEF ToKeep
  <2>3. nscanf_total = Len(life) /\ IsLog(life)
    BY <1>a, <1>9 DEF Recorded
  <2> QED BY <1>a, <1>c, <1>d, <1>9, <2>1, <2>2, <2>3 DEF Readable
<1>10. pc \in ShmPlaces \cup FilePlaces
  BY <1>0 DEF Control
<1> QED BY <1>0, <1>1, <1>2, <1>3, <1>4, <1>5, <1>6, <1>7, <1>8, <1>9, <1>10
        DEF ShmPlaces, FilePlaces, Handling

LEMMA CtrlCFaith ==
  ASSUME Shape, Good, CtrlC, ~torn'
  PROVE  Good'
<1> USE DEF log, family, disk, program, history, statics
<1>0. /\ Control /\ nscanf_total \in Nat /\ nbytes_total \in Nat /\ Len(prev) \in Nat
      /\ Len(life) \in Nat
  BY ShapeTypes DEF Shape
<1>a. Readable /\ Kept /\ Replayed /\ Recorded /\ Filed
  BY DEF Good
<1>1. /\ version = "shm" /\ pc \in ShmPlaces
      /\ UNCHANGED <<version, nscanf_total, nbytes_total, data, log1, life, phase, n, i, mode,
                     nscanf_running, nscanf_target, nbytes_running, removed>>
  BY <1>0 DEF CtrlC, Control
<1>2. Replaying' <=> Replaying
  BY <1>1 DEF Replaying
<1>3. CASE Alive /\ ~deaf
  <2>1. pc' = "killed" /\ prev' = ToKeep /\ ~LeavesTorn
    BY <1>3 DEF CtrlC
  <2>2. pc \notin {"none", "new", "exited", "killed"} /\ ~LosesLog /\ ~Handling
    BY <1>1, <1>3 DEF Alive, LosesLog, Handling, ShmPlaces
  <2>3. /\ Legal(ToKeep) /\ (Replaying => ToKeep = prev)
        /\ nscanf_total = Len(ToKeep) /\ InLog(ToKeep)
    BY <1>1, <2>1, <2>2, KeepsLog
  <2>4. Readable'
    BY <1>a, <1>1, <2>1, <2>3 DEF Readable, Here
  <2>5. prev' = <<>> => nbytes_total = 0
    <3>1. prev' = <<>> => nscanf_total = 0
      BY <2>1, <2>3, EmptyIs
    <3> QED BY <1>0, <2>1, <3>1 DEF LeavesTorn
  <2>6. Kept'
    BY <1>1, <2>1, <2>3, <2>5 DEF Kept, InLog
  <2>7. Replayed'
    BY <1>a, <1>1, <1>2, <2>1, <2>3 DEF Replayed
  <2> QED BY <1>1, <2>1, <2>4, <2>6, <2>7 DEF Good, Recorded, Filed
<1>4. CASE ~(Alive /\ ~deaf)
  <2>1. UNCHANGED <<pc, prev>>
    BY <1>4 DEF CtrlC
  <2>2. Readable'
    BY <1>a, <1>1, <2>1 DEF Readable, Here
  <2>3. Kept'
    BY <1>a, <1>1, <2>1 DEF Kept, InLog
  <2>4. Replayed' /\ Recorded'
    BY <1>a, <1>1, <1>2, <2>1 DEF Replayed, Recorded, InLog, IsLog, Common
  <2>5. Filed'
    BY <1>1, <2>1 DEF Filed, ShmPlaces
  <2> QED BY <2>2, <2>3, <2>4, <2>5 DEF Good
<1> QED BY <1>3, <1>4
LEMMA StartFaith ==
  ASSUME Shape, Shape', Good,
         Install \/ Attach \/ ReadHeader \/ ReadData \/ ExecAgain \/ Launch
  PROVE  Good'
<1> USE DEF log, family, disk, program, history, statics
<1>0. /\ Control /\ Starting /\ Memory /\ Len(life) \in Nat /\ Len(prev) \in Nat
      /\ life \in Seq(Input) /\ prev \in Seq(Input) /\ prev' \in Seq(Input)
      /\ nscanf_total \in Nat /\ nbytes_total \in Nat
  BY ShapeTypes DEF Shape, TypeOK
<1>a. Readable /\ Kept /\ Replayed /\ Recorded /\ Filed
  BY DEF Good
<1>1. CASE Install \/ Attach \/ ReadData
  <2>1. /\ version = "file" /\ pc \in {"new", "installed", "header"}
        /\ pc' \in {"installed", "attached", "ask"}
        /\ UNCHANGED <<version, log1, prev, life, phase, n, i, nscanf_running, nscanf_target>>
    BY <1>1 DEF Install, Attach, ReadData
  <2>2. nscanf_running = 0 /\ nscanf_target = 0
    BY <1>0, <2>1 DEF Starting, Beginning
  <2>3. ~Replaying'
    BY <2>1, <2>2 DEF Replaying
  <2>4. Readable'
    BY <1>a, <2>1 DEF Readable, Here
  <2>5. Kept' /\ Replayed' /\ Recorded'
    BY <2>1, <2>3 DEF Kept, Replayed, Recorded
  <2>6. Filed'
    BY <1>a, <2>1 DEF Filed, InFile
  <2> QED BY <2>4, <2>5, <2>6 DEF Good
<1>2. CASE ReadHeader
  <2>1. /\ version = "file" /\ pc = "attached"
        /\ UNCHANGED <<version, log1, prev, life, phase, n, i, nscanf_running, nscanf_target, mode,
                       nbytes_total>>
    BY <1>2 DEF ReadHeader
  <2>2. nscanf_running = 0 /\ nscanf_target = 0 /\ life = <<>> /\ nbytes_total = 0 /\ mode = 0
    BY <1>0, <2>1 DEF Starting, Beginning, Memory
  <2>3. Readable' /\ ~Replaying'
    BY <1>a, <2>1, <2>2 DEF Readable, Here, Replaying
  <2>4. Filed'
    BY <1>a, <1>2, <2>1 DEF Filed, InFile, ReadHeader
  <2>5. CASE log1.is = "head"
    <3>1. pc' = "header"
      BY <1>2, <2>5 DEF ReadHeader
    <3> QED BY <2>1, <2>3, <2>4, <3>1 DEF Good, Kept, Replayed, Recorded
  <2>6. CASE log1.is # "head"
    <3>1. pc' = "run" /\ nscanf_total' = 0
      BY <1>2, <2>6 DEF ReadHeader
    <3>2. IsLog(life)' /\ Common'
      BY <1>0, <2>1, <2>2, EmptyLog
    <3>3. nscanf_total' = Len(life')
      BY <2>1, <2>2, <3>1, EmptyIs
    <3> QED BY <2>1, <2>3, <2>4, <3>1, <3>2, <3>3 DEF Good, Kept, Replayed, Recorded
  <2> QED BY <2>5, <2>6
<1>3. CASE ExecAgain \/ Launch
  <2>1. /\ version = "file" /\ pc \in {"written", "killed"} /\ pc' = "new" /\ mode' = 0
        /\ life' = <<>> /\ Here' = Begin /\ UNCHANGED <<version, log1, prev>>
    BY <1>3 DEF ExecAgain, Launch, Exec, Fresh, Here, Begin
  <2>2. Readable' /\ ~Replaying'
    BY <1>a, <2>1, EmptyIs DEF Readable, Replaying
  <2>3. Filed'
    BY <1>a, <2>1 DEF Filed, InFile
  <2> QED BY <2>1, <2>2, <2>3 DEF Good, Kept, Replayed, Recorded
<1> QED BY <1>1, <1>2, <1>3

LEMMA ChooseFaith ==
  ASSUME Shape, Shape', Good, NEW t \in 0..nscanf_total, Choose(t), ~torn'
  PROVE  Good'
<1> USE DEF log, family, disk, program, history, statics
<1>0. /\ Starting /\ Len(prev) \in Nat /\ prev' \in Seq(Input)
      /\ nscanf_total \in Nat /\ nbytes_total \in Nat
  BY ShapeTypes DEF Shape, TypeOK
<1>a. Readable /\ Kept /\ Replayed /\ Recorded /\ Filed
  BY DEF Good
<1>1. /\ version = "file" /\ pc = "ask" /\ pc' = "run" /\ nscanf_target' = t
      /\ (t = 0 => nscanf_total + nbytes_total <= 0)
      /\ UNCHANGED <<version, log1, prev, life, phase, n, i, nscanf_running, mode, nscanf_total,
                     nbytes_total, data, nbytes_running>>
  <2>1. ~(t = 0 /\ nscanf_total + nbytes_total > 0)
    BY Zenon DEF Choose
  <2>2. nscanf_total + nbytes_total \in Int
    BY <1>0
  <2>3. t = 0 => nscanf_total + nbytes_total <= 0
    BY <2>1, <2>2
  <2> QED BY <2>3 DEF Choose
<1>2. /\ nscanf_running = 0 /\ nbytes_running = 0 /\ life = <<>> /\ mode = 1
      /\ Len(life) = 0 /\ BytesOf(life) = 0
  BY <1>0, <1>1, EmptyIs DEF Starting, Beginning
<1>3. nscanf_total = Len(prev) /\ InLog(prev)
  BY <1>1, AskedFile
<1>4. Readable'
  BY <1>a, <1>1 DEF Readable, Here
<1>5. Filed'
  BY <1>a, <1>1 DEF Filed, InFile
<1>6. CASE t = 0
  <2>1. nscanf_total' = 0 /\ nbytes_total' = 0 /\ life' = <<>> /\ nscanf_target' = 0
    BY <1>0, <1>1, <1>2, <1>6
  <2>2. IsLog(life)' /\ Common'
    BY <1>0, <2>1, EmptyLog
  <2>3. ~Replaying'
    BY <1>1, <1>2, <1>6 DEF Replaying
  <2>4. nscanf_total' = Len(life')
    BY <1>1, <1>2, <2>1
  <2> QED BY <1>1, <1>4, <1>5, <2>2, <2>3, <2>4 DEF Good, Kept, Replayed, Recorded
<1>7. CASE t # 0
  <2>1. Replaying'
    BY <1>1, <1>2, <1>7 DEF Replaying
  <2>2. InLog(prev)'
    BY <1>1, <1>3 DEF InLog
  <2>3. Replayed'
    BY <1>0, <1>1, <1>2, <1>3, <2>2 DEF Replayed
  <2> QED BY <1>1, <1>4, <1>5, <2>1, <2>3 DEF Good, Kept, Recorded
<1> QED BY <1>6, <1>7

LEMMA EndFaith ==
  ASSUME Shape, Good, Unlink \/ Detach \/ Return
  PROVE  Good'
<1> USE DEF log, family, disk, program, history, statics
<1>a. Readable /\ Kept /\ Replayed /\ Recorded /\ Filed
  BY DEF Good
<1>1. /\ version = "file" /\ pc \in {"run", "clean", "left"} /\ pc' \in {"clean", "left", "exited"}
      /\ (pc = "run" => Over) /\ (pc' = "clean" => pc = "run")
      /\ UNCHANGED <<version, prev, life, phase, n, i, mode, nscanf_running, nscanf_target,
                     nscanf_total, nbytes_total, data>>
  BY DEF Unlink, Detach, Return
<1>2. ~Replaying /\ (pc = "run" => nscanf_total = Len(life) /\ IsLog(life))
  BY <1>a, <1>1, OverIsOver DEF Replayed
<1>3. Readable' /\ ~Replaying'
  BY <1>a, <1>1, <1>2 DEF Readable, Here, Replaying
<1>4. Kept' /\ Replayed' /\ Filed'
  BY <1>1, <1>3 DEF Kept, Replayed, Filed
<1>5. Recorded'
  BY <1>1, <1>2 DEF Recorded, IsLog
<1> QED BY <1>3, <1>4, <1>5 DEF Good

LEMMA HandlerFaith ==
  ASSUME Shape, Shape', Good, OpenLog \/ WriteHeader \/ WriteData
  PROVE  Good'
<1> USE DEF log, family, disk, program, history, statics
<1>0. /\ Len(prev) \in Nat /\ prev \in Seq(Input) /\ nbytes_total \in Nat /\ BytesOf(prev) \in Nat
      /\ nscanf_total \in Nat /\ File
  BY ShapeTypes, TypeParts DEF Shape
<1>a. Readable /\ Kept /\ Replayed /\ Recorded /\ Filed
  BY DEF Good
<1>1. /\ version = "file" /\ pc \in {"caught", "emptied", "headed"}
      /\ pc' \in {"emptied", "headed", "written"}
      /\ UNCHANGED <<version, removed, prev, life, phase, n, i, mode, nscanf_running, nscanf_target,
                     nscanf_total, nbytes_total, data>>
  BY DEF OpenLog, WriteHeader, WriteData
<1>2. Readable' /\ (Replaying' <=> Replaying)
  BY <1>a, <1>1 DEF Readable, Here, Replaying
<1>3. Replayed' /\ Recorded'
  BY <1>a, <1>1, <1>2 DEF Replayed, Recorded
<1>4. CASE OpenLog
  <2>1. pc = "caught" /\ log1'.is = "empty" /\ pc' = IF removed THEN "written" ELSE "emptied"
    BY <1>4 DEF OpenLog, EmptyFile, NoFile
  <2>2. Kept' /\ Filed'
    BY <1>a, <1>1, <2>1 DEF Kept, Filed, InLog
  <2> QED BY <1>2, <1>3, <2>2 DEF Good
<1>5. CASE WriteHeader
  <2>1. pc = "emptied" /\ pc' = "headed" /\ log1'.is = "head" /\ log1'.total = nscanf_total
    BY <1>5 DEF WriteHeader, Header
  <2>2. Kept' /\ Filed'
    BY <1>a, <1>1, <2>1 DEF Kept, Filed, InLog
  <2> QED BY <1>2, <1>3, <2>2 DEF Good
<1>6. CASE WriteData
  <2> DEFINE new == [b \in 1..nbytes_total |-> data[b - 1]]
             image == [b \in 0..(nbytes_total - 1) |-> new[b + 1]]
  <2>1. pc = "headed" /\ pc' = "written" /\ log1' = [log1 EXCEPT !.bytes = new]
    BY <1>6 DEF WriteData
  <2>2. log1'.is = "head" /\ log1'.total = nscanf_total /\ log1'.bytes = new
    BY <1>0, <1>a, <2>1 DEF File, Filed
  <2>3. Len(new) = nbytes_total
    <3>1. DOMAIN new = 1..nbytes_total /\ new \in Seq(Byte)
      <4>1. File'
        BY TypeParts DEF Shape, File, TypeOK
      <4> QED BY <2>2, <4>1 DEF File
    <3> HIDE DEF new
    <3> QED BY <1>0, <3>1, LenProperties
  <2>4. nscanf_total = Len(prev) /\ BytesOf(prev) <= nbytes_total /\ Spelled(prev, data)
    BY <1>a, <2>1 DEF Kept, InLog
  <2>5. \A o \in 0..(BytesOf(prev) - 1) : image[o] = data[o]
    <3>1. \A o \in 0..(nbytes_total - 1) : o + 1 \in 1..nbytes_total /\ (o + 1) - 1 = o
      BY <1>0
    <3>2. \A o \in 0..(BytesOf(prev) - 1) : o \in 0..(nbytes_total - 1)
      BY <1>0, <2>4
    <3> QED BY <3>1, <3>2
  <2>6. Spelled(prev, image)
    <3> HIDE DEF image
    <3> QED BY <1>0, <2>4, <2>5, SpelledSame
  <2>7. [b \in 0..(Len(log1'.bytes) - 1) |-> log1'.bytes[b + 1]] = image
    BY <2>2, <2>3
  <2>8. InFile(prev)'
    <3> HIDE DEF new, image
    <3> QED BY <1>1, <2>2, <2>3, <2>4, <2>6, <2>7 DEF InFile
  <2>9. Kept' /\ Filed'
    BY <2>1, <2>2, <2>8 DEF Kept, Filed
  <2> QED BY <1>2, <1>3, <2>9 DEF Good
<1> QED BY <1>4, <1>5, <1>6

LEMMA SignalFaith ==
  ASSUME Shape, Good, Caught \/ Killed, ~torn'
  PROVE  Good'
<1> USE DEF log, family, disk, program, history, statics
<1>0. /\ Control /\ Memory /\ Len(prev) \in Nat /\ Len(life) \in Nat
  BY ShapeTypes DEF Shape
<1>a. Readable /\ Kept /\ Replayed /\ Recorded /\ Filed
  BY DEF Good
<1>1. /\ version = "file" /\ pc \in FilePlaces /\ pc \notin {"killed", "exited"}
      /\ UNCHANGED <<version, removed, log1, life, phase, n, i, mode, nscanf_running, nscanf_target,
                     nscanf_total, nbytes_total, data>>
  BY <1>0 DEF Caught, Killed, Control, Ended
<1>2. Replaying' <=> Replaying
  BY <1>1 DEF Replaying
<1>3. CASE Caught
  <2>1. pc' = "caught" /\ prev' = ToKeep /\ ~LeavesTorn /\ ~LosesLog /\ pc # "new" /\ ~masked
    BY <1>3 DEF Caught
  <2>2. ~Handling /\ pc \notin {"none", "new", "exited", "killed"}
    BY <1>0, <1>1, <2>1 DEF Control, FilePlaces
  <2>3. /\ Legal(ToKeep) /\ (Replaying => ToKeep = prev)
        /\ removed => ToKeep = <<>>
        /\ pc # "left" => nscanf_total = Len(ToKeep) /\ InLog(ToKeep)
    BY <1>1, <2>1, <2>2, KeepsLog
  <2>4. Readable'
    BY <1>a, <1>1, <2>1, <2>3 DEF Readable, Here
  <2>5. Kept'
    <3>1. pc = "left" => removed
      BY <1>0, <1>1 DEF Memory
    <3> QED BY <1>1, <2>1, <2>3, <3>1 DEF Kept, InLog
  <2>6. Replayed'
    BY <1>a, <1>1, <1>2, <2>1, <2>3 DEF Replayed
  <2> QED BY <2>1, <2>4, <2>5, <2>6 DEF Good, Recorded, Filed
<1>4. CASE Killed
  <2>1. /\ pc' = "killed" /\ prev' = IF pc \in {"clean", "left"} THEN <<>> ELSE prev
        /\ (Handling => pc = "written")
    BY <1>4 DEF Killed
  <2>2. Readable'
    BY <1>a, <1>1, <2>1, EmptyIs DEF Readable, Here
  <2>3. Kept' /\ Recorded'
    BY <1>1, <2>1 DEF Kept, Recorded
  <2>4. Replayed'
    BY <1>a, <1>1, <1>2, <2>1 DEF Replayed
  <2>5. Filed'
    <3>1. CASE pc \in {"clean", "left"}
      <4>1. log1.is # "head"
        BY <1>0, <1>1, <3>1 DEF Memory, NoFile
      <4> QED BY <1>1, <2>1, <3>1, <4>1 DEF Filed
    <3>2. CASE pc \notin {"clean", "left"}
      <4>1. pc \in {"new", "installed", "attached", "header", "ask", "run", "cut", "stored", "killed",
                    "written"}
        BY <1>1, <2>1, <3>2 DEF FilePlaces, Handling
      <4> QED BY <1>a, <1>1, <2>1, <3>2, <4>1 DEF Filed, InFile
    <3> QED BY <3>1, <3>2
  <2> QED BY <2>2, <2>3, <2>4, <2>5 DEF Good
<1> QED BY <1>3, <1>4

LEMMA FaithInit == Init => Faith
<1> SUFFICES ASSUME Init PROVE Good
  BY DEF Faith, Good
<1>1. /\ life = <<>> /\ prev = <<>> /\ nscanf_total = 0 /\ nbytes_total = 0 /\ nscanf_target = 0
      /\ mode = 0 /\ log1.is = "none" /\ Here = Begin /\ pc \in {"none", "new"}
  BY DEF Init, Here, Begin, NoFile
<1>2. Len(<<>>) = 0 /\ BytesOf(<<>>) = 0 /\ Legal(<<>>) /\ PlaceOf(<<>>) = Begin /\ Spelled(<<>>, data)
  BY EmptyIs
<1>3. Readable
  BY <1>1, <1>2 DEF Readable
<1>4. Kept
  BY <1>1, <1>2 DEF Kept, InLog
<1>5. Replayed /\ Recorded
  BY <1>1 DEF Replayed, Recorded, Replaying
<1>6. Filed
  BY <1>1 DEF Filed
<1> QED BY <1>3, <1>4, <1>5, <1>6 DEF Good

(* A torn log stays torn.                                                  *)
LEMMA TornStays ==
  ASSUME TypeOK, [Next]_vars, torn
  PROVE  torn'
<1> USE DEF log, family, disk, statics, program, history, vars
<1>1. CASE Scanf
  BY <1>1 DEF Scanf, Replay, ReplayLast, CutNumber, ReplayFails, CountInput, TakeOne
<1>2. CASE \E v \in Value : Type(v)
  BY <1>2 DEF Type
<1>3. CASE ParentStep \/ ChildStep \/ \E t \in 0..nscanf_total : Ask(t)
  BY <1>3 DEF ParentStep, Fork, Ignore, Restart, Finish, ChildStep, SetDefault, ZeroBytes, Cleanup,
     CleanBytes, Exit, Ask
<1>4. CASE FileStep \/ Launch
  BY <1>4 DEF FileStep, Install, Attach, ReadHeader, ReadData, Unlink, Detach, Return, OpenLog,
     WriteHeader, WriteData, ExecAgain, Launch, Exec
<1>5. CASE CtrlC \/ Caught \/ Killed \/ \E t \in 0..nscanf_total : Choose(t)
  BY Zenon, <1>5 DEF CtrlC, Caught, Killed, Choose
<1>6. CASE UNCHANGED vars
  BY <1>6
<1> QED BY <1>1, <1>2, <1>3, <1>4, <1>5, <1>6 DEF Next, ShmNext, FileNext

LEMMA FaithStep ==
  ASSUME Shape, Faith, [Next]_vars
  PROVE  Faith'
<1> SUFFICES ASSUME ~torn' PROVE Good'
  BY DEF Faith, Good
<1>1. Shape' /\ TypeOK
  BY ShapeStep DEF Shape
<1>2. Good
  BY <1>1, TornStays DEF Faith, Good
<1>3. CASE Scanf
  BY <1>2, <1>3, ReplayFaith, ReplayLastFaith, CountFaith DEF Scanf
<1>4. CASE \E v \in Value : Type(v)
  BY <1>2, <1>4, TypeFaith
<1>5. CASE ParentStep \/ ChildStep \/ \E t \in 0..nscanf_total : Ask(t)
  BY <1>1, <1>2, <1>5, ShmFaith
<1>6. CASE CtrlC
  BY <1>2, <1>6, CtrlCFaith
<1>7. CASE Install \/ Attach \/ ReadHeader \/ ReadData \/ ExecAgain \/ Launch
  BY <1>1, <1>2, <1>7, StartFaith
<1>8. CASE Unlink \/ Detach \/ Return
  BY <1>2, <1>8, EndFaith
<1>9. CASE OpenLog \/ WriteHeader \/ WriteData
  BY <1>1, <1>2, <1>9, HandlerFaith
<1>10. CASE Caught \/ Killed
  BY <1>2, <1>10, SignalFaith
<1>11. CASE \E t \in 0..nscanf_total : Choose(t)
  BY <1>1, <1>2, <1>11, ChooseFaith
<1>12. CASE UNCHANGED vars
  BY <1>2, <1>12 DEF vars, log, family, disk, statics, program, history, Good, Readable, Kept,
     Replayed, Recorded, Filed, Here, InLog, IsLog, Common, InFile, Replaying
<1> QED BY <1>3, <1>4, <1>5, <1>6, <1>7, <1>8, <1>9, <1>10, <1>11, <1>12
        DEF Next, ShmNext, FileNext, FileStep

(* The invariant holds in every state.                                     *)
LEMMA Inductive == Spec => []IInv
<1>1. Init => IInv
  BY ShapeInit, FaithInit DEF Shape, IInv
<1>2. IInv /\ [Next]_vars => IInv'
  BY ShapeStep, FaithStep DEF Shape, IInv
<1> QED BY <1>1, <1>2, PTL DEF Spec

(* The log is what the program was given, input by input and byte by byte, *)
(* whenever it waits for another input and is not replaying, however often *)
(* it was killed and cut before (r_scanf).                                 *)
THEOREM LogCorrect == Spec => []LogHolds
<1>1. IInv => LogHolds
  BY DEF IInv, Faith, Recorded, IsLog, LogHolds
<1> QED BY <1>1, Inductive, PTL

(* The first k elements, when they are the same.                           *)
LEMMA SameFirst ==
  ASSUME NEW s \in Seq(Input), NEW t \in Seq(Input), NEW k \in Nat, k <= Len(s), k <= Len(t),
         \A j \in 1..k : s[j] = t[j]
  PROVE  SubSeq(s, 1, k) = SubSeq(t, 1, k)
<1>1. /\ SubSeq(s, 1, k) = [j \in 1..k |-> s[j]]
      /\ SubSeq(t, 1, k) = [j \in 1..k |-> t[j]]
  BY SMT
<1>2. [j \in 1..k |-> s[j]] = [j \in 1..k |-> t[j]]
  BY SMT
<1> QED BY <1>1, <1>2

(* A program that finds a log replays from it exactly what the one before  *)
(* it was given, whichever process wrote it and wherever it was killed     *)
(* (r_init, r_scanf).                                                      *)
THEOREM ReplayCorrect == Spec => []ReplayFaithful
<1>1. ASSUME IInv PROVE ReplayFaithful
  <2>1. SUFFICES ASSUME ~torn
                 PROVE  /\ pc = "ask" => nscanf_total = Len(prev)
                        /\ Replaying => IsPrefix(life, prev)
                        /\ pc \in {"cut", "run"} /\ ~Replaying =>
                             SubSeq(life, 1, nscanf_target) = SubSeq(prev, 1, nscanf_target)
    BY DEF ReplayFaithful
  <2>2. Shape /\ Good
    BY <1>1, <2>1 DEF IInv, Shape, Faith, Good
  <2>3. /\ life \in Seq(Input) /\ prev \in Seq(Input) /\ Len(life) \in Nat /\ Len(prev) \in Nat
        /\ nscanf_target \in Nat /\ version \in {"shm", "file"}
    BY <2>2, ShapeTypes
  <2>4. pc = "ask" => nscanf_total = Len(prev)
    BY <2>2, <2>3, AskedFile DEF Good, Kept
  <2>5. ASSUME Replaying PROVE IsPrefix(life, prev)
    <3>1. Len(life) <= Len(prev) /\ \A k \in 1..Len(life) : life[k] = prev[k]
      BY <2>2, <2>5 DEF Good, Replayed
    <3>2. SubSeq(life, 1, Len(life)) = SubSeq(prev, 1, Len(life))
      BY <2>3, <3>1, SameFirst
    <3> QED BY <2>3, <3>1, <3>2 DEF IsPrefix
  <2>6. ASSUME pc \in {"cut", "run"}, ~Replaying
        PROVE  SubSeq(life, 1, nscanf_target) = SubSeq(prev, 1, nscanf_target)
    <3>1. Common
      BY <2>2, <2>6 DEF Good, Replayed, Recorded
    <3> QED BY <2>3, <3>1, SameFirst DEF Common
  <2> QED BY <2>4, <2>5, <2>6
<1> QED BY <1>1, Inductive, PTL

(* Between two processes LOG1 holds the inputs of the one that ended with  *)
(* Ctrl+C, or of an earlier one if nothing was written since, and none     *)
(* after a normal end (handle_sigint, r_cleanup of myio3.h).               *)
THEOREM SurvivalCorrect == Spec => []LogSurvives
<1>1. ASSUME IInv PROVE LogSurvives
  <2>1. version = "file" /\ pc = "exited" => log1 = NoFile
    BY <1>1 DEF IInv, Memory
  <2>2. ASSUME version = "file", ~torn, pc \in {"new", "installed", "attached", "killed"}
        PROVE  IF log1.is = "head" THEN InFile(prev) ELSE prev = <<>>
    BY <1>1, <2>2 DEF IInv, Faith, Filed
  <2> QED BY <2>1, <2>2 DEF LogSurvives
<1> QED BY <1>1, Inductive, PTL
=============================================================================
