-------------------------------- MODULE Labs --------------------------------
(***************************************************************************)
(* The exercises in which processes meet: signals and pause, a buffer      *)
(* handed over by signals or by a semaphore, FIFOs, a message queue with a *)
(* server, pipes, record locks, a shared file offset.                      *)
(*                                                                         *)
(* A program is the list of the calls that each of its processes makes,    *)
(* and each call is an action on the kernel's objects; prog is the program *)
(* that runs.  Process 0 is main, or the program of the first terminal.    *)
(***************************************************************************)
EXTENDS Integers, FiniteSets, SequencesExt

CONSTANTS
  Rounds,    \* turns of the loops that the code takes 4, 5 or 10 times
  MaxLines   \* bound: lines a process prints, and inputs it takes

ASSUME LabsAssumption == Rounds \in Nat \ {0} /\ MaxLines \in Nat

VARIABLES
  prog,                    \* the program
  pc, dead, reaped,        \* next call of each process, 0 before its fork; who has ended; waits
  in, mtype,               \* per process: the int it works on, the type of its message
  typed, out,              \* history: what each process was given and has printed
  handled, paused, woken,  \* handler installed; in pause; pause is to return
  mem, off, removed,       \* shared memory or file, by slots; its offset; objects removed
  sem, owner,              \* semaphore; owner of the record lock
  buffer, ends, met,       \* bytes of each pipe; who has which end; FIFOs opened at both ends
  queue,                   \* the message queue
  excuse                   \* history: what the program has no provision for

procs == <<pc, dead, reaped>>
locals == <<in, mtype>>
screen == <<typed, out>>
signals == <<handled, paused, woken>>
store == <<mem, off, removed>>
locks == <<sem, owner>>
channels == <<buffer, ends, met, queue>>
vars == <<prog, procs, locals, screen, signals, store, locks, channels, excuse>>

Proc == 0..5
Pipe == 1..3
Slot == 0..(Rounds + 3)
Nothing == 0
NoSem == -1

-----------------------------------------------------------------------------
(* The calls.                                                              *)

fork(k) == <<"fork", k>>
wait == <<"wait">>
sigaction == <<"sigaction">>
pause == <<"pause">>
kill(k) == <<"kill", k>>
scanf(slot) == <<"scanf", slot>>    \* slot 0: into the variable
printf == <<"printf">>
print_rest == <<"printRest">>
strlen == <<"strlen">>
set(v) == <<"set", v>>
add(v) == <<"add", v>>
load(slot) == <<"load", slot>>
exit_if(v) == <<"exitIf", v>>
goto(l) == <<"goto", l>>    \* no step of its own
await_pid == <<"awaitPid">>
set_pid == <<"setPid">>
remove == <<"remove">>
semget == <<"semget">>
setval == <<"setval">>
P == <<"P">>
V == <<"V">>
open(c, m) == <<"open", c, m>>
pipe(cs) == <<"pipe", cs>>
close(cs, ms) == <<"close", cs, ms>>    \* the ends ms of the pipes cs
read(c) == <<"read", c>>
write(c) == <<"write", c>>
select == <<"select">>
msgsnd(type) == <<"msgsnd", type>>
reply(d) == <<"reply", d>>    \* of the type received plus d
msgrcv(types) == <<"msgrcv", types>>
lock == <<"lock">>
unlock == <<"unlock">>
lseek == <<"lseek">>
fread == <<"fread">>
fwrite == <<"fwrite">>

For(n, body(_)) == FlattenSeq([k \in 1..n |-> body(k)])
Repeat(n, body) == For(n, LAMBDA k : body)
Forks(n) == For(n, LAMBDA k : <<fork(k)>>)
Waits(n) == Repeat(n, <<wait>>)

-----------------------------------------------------------------------------
(* Signals.  chain: each child waits for the next one's signal and passes  *)
(* it on; sleepers: main signals its children in turn.                     *)

Chain == [p \in Proc |->
  CASE p = 0 -> Forks(5) \o Waits(5)
    [] p = 1 -> <<sigaction, pause>>
    [] p \in 2..4 -> <<sigaction, pause, kill(p - 1)>>
    [] p = 5 -> <<sigaction, kill(4)>>]

Sleepers == [p \in 0..3 |->
  IF p = 0 THEN Forks(3) \o For(3, LAMBDA k : <<kill(k)>>) \o Waits(3)
           ELSE <<sigaction, pause>>]

(* A buffer filled by 0 and read by 1.  pidshm: 1 leaves its pid in shared *)
(* memory and is signalled for each int; pidmap: the same with text in a   *)
(* mapped file, printed from where it ended before; semaphore: with P, V.  *)
ShmWriter == <<await_pid>> \o For(Rounds, LAMBDA k : <<scanf(k), kill(1)>>)
ShmReader == <<sigaction, set_pid>> \o For(Rounds, LAMBDA k : <<pause, load(k), printf>>)
             \o <<remove>>
PidShm == [p \in 0..1 |-> IF p = 0 THEN ShmWriter ELSE ShmReader]

MapWriter == <<await_pid>> \o For(3, LAMBDA k : <<scanf(k), kill(1)>>) \o <<remove>>
MapReader == <<sigaction, set_pid>> \o Repeat(3, <<pause, print_rest, strlen>>) \o <<remove>>
PidMap == [p \in 0..1 |-> IF p = 0 THEN MapWriter ELSE MapReader]

ReadFirst(k) == <<load(k), P, printf>>    \* mutant
ReadNext(k) == <<P, load(k), printf>>
SemWriter == <<semget, setval>> \o For(Rounds, LAMBDA k : <<scanf(k), V>>)
SemReaderKeeps == <<semget, setval>> \o For(Rounds, ReadNext)    \* mutant
SemReader == <<semget, setval>> \o For(Rounds, ReadNext) \o <<remove>>
Semaphore == [p \in 0..1 |-> IF p = 0 THEN SemWriter ELSE SemReader]

-----------------------------------------------------------------------------
(* Channels.  fifo: 0 asks and 1 answers until -1; server: 0 answers three *)
(* clients through one queue, with the type of the request plus 3.         *)

FifoAsk ==
  <<open(1, "w"), open(2, "r"), scanf(0), write(1), exit_if(-1), read(2), printf, goto(3)>>
FifoCrossed ==    \* mutant
  <<open(2, "w"), open(1, "r"), read(1), printf, exit_if(-1), add(8), write(2), goto(3)>>
FifoAnswer ==
  <<open(1, "r"), open(2, "w"), read(1), printf, exit_if(-1), add(8), write(2), goto(3)>>
Fifo == [p \in 0..1 |-> IF p = 0 THEN FifoAsk ELSE FifoAnswer]

Serve == <<msgrcv(1..3), add(8), reply(3)>>
Client(id) == <<scanf(0), msgsnd(id), msgrcv({id + 3}), printf>>
Server == [p \in 0..3 |->
  IF p = 0 THEN Repeat(3 * Rounds, Serve) ELSE Repeat(Rounds, Client(p))]

(* pipes: main deals its input to three children and ends them with -1;    *)
(* select: main prints what three children write; poll: main looks again   *)
(* and again for what its child writes, and looking in vain changes        *)
(* nothing.                                                                *)
Deal == <<pipe(Pipe)>> \o Forks(3) \o <<close(Pipe, {"r"})>>
        \o Repeat(Rounds, For(3, LAMBDA k : <<scanf(0), write(k)>>))
        \o <<set(-1)>> \o For(3, LAMBDA k : <<write(k)>>) \o Waits(3)
PrintDealt(p) ==
  <<close(Pipe, {"w"}), close(Pipe \ {p}, {"r"}), read(p), exit_if(-1), printf, goto(3)>>
Pipes == [p \in 0..3 |-> IF p = 0 THEN Deal ELSE PrintDealt(p)]

hello == 1
bye == 2
Child(p) == <<close({p}, {"r"}), set(hello), write(p), write(p), set(bye), write(p)>>
Parent == <<close(Pipe, {"w"}), select>>
Select == [p \in 0..3 |->
  IF p = 0 THEN For(3, LAMBDA k : <<pipe({k}), fork(k)>>) \o Parent \o Waits(3)
           ELSE Child(p)]

Poll == [p \in 0..1 |->
  IF p = 0 THEN <<pipe({1}), fork(1), close({1}, {"w"}), read(1), printf>>
           ELSE <<close({1}, {"r"}), set(hello), write(1)>>]

-----------------------------------------------------------------------------
(* One open file.  locks: three children add 10 to its number under a      *)
(* record lock; offset: each child prints the next two bytes.              *)

AddUnlocked ==    \* mutant
  <<lseek, fread, printf, add(10), lseek, fwrite, printf>>
AddTen == <<lock, lseek, fread, printf, add(10), lseek, fwrite, printf, unlock>>
Locks == [p \in 0..3 |->
  IF p = 0 THEN <<scanf(0), fwrite>> \o Forks(3) \o Waits(3) \o <<lseek, fread, printf>>
           ELSE AddTen]

Offset == [p \in 0..3 |-> IF p = 0 THEN Forks(3) \o Waits(3) ELSE <<fread, printf>>]

Program ==
  [chain |-> Chain, sleepers |-> Sleepers, pidshm |-> PidShm, pidmap |-> PidMap,
   semaphore |-> Semaphore, fifo |-> Fifo, server |-> Server, pipes |-> Pipes,
   select |-> Select, poll |-> Poll, locks |-> Locks, offset |-> Offset]

(* The processes started from a terminal each.                             *)
Started ==
  CASE prog = "server" -> 0..3
    [] prog \in {"pidshm", "pidmap", "semaphore", "fifo"} -> 0..1
    [] OTHER -> {0}

Init ==
  /\ prog \in DOMAIN Program
  /\ pc = [p \in Proc |-> IF p \in Started THEN 1 ELSE 0] /\ dead = {} /\ reaped = 0
  /\ in = [p \in Proc |-> 0] /\ mtype = [p \in Proc |-> 0]
  /\ typed = [p \in Proc |-> <<>>] /\ out = [p \in Proc |-> <<>>]
  /\ handled = {} /\ paused = {} /\ woken = {}
  /\ mem = [s \in Slot |-> IF prog = "offset" /\ s \in 1..3 THEN s ELSE Nothing]
  /\ off = 0 /\ removed = FALSE /\ sem = NoSem /\ owner = {}
  /\ buffer = [c \in Pipe |-> <<>>] /\ ends = {} /\ met = {} /\ queue = <<>>
  /\ excuse = {}

-----------------------------------------------------------------------------
(* What each call does.                                                    *)

Script(p) == Program[prog][p]
Running == {p \in Proc : pc[p] > 0} \ dead
Call(p) == Script(p)[pc[p]]
At(p, name) == p \in Running /\ pc[p] <= Len(Script(p)) /\ Call(p)[1] = name
Arg(p) == Call(p)[2]
Jump(p, l) == IF l \in DOMAIN Script(p) /\ Script(p)[l][1] = "goto" THEN Script(p)[l][2] ELSE l
Goto(p, l) == pc' = [pc EXCEPT ![p] = Jump(p, l)] /\ UNCHANGED <<prog, dead, reaped>>
Return(p) == Goto(p, pc[p] + 1)

(* The end of a process closes what it has open and frees its lock.        *)
End(D) ==
  /\ dead' = dead \cup D
  /\ ends' = {e \in ends : e[1] \notin D} /\ owner' = owner \ D
  /\ UNCHANGED <<prog, reaped, sem, buffer, met, queue>>

Exit(p) ==
  /\ p \in Running /\ pc[p] > Len(Script(p))
  /\ End({p})
  /\ UNCHANGED <<pc, locals, screen, signals, store, excuse>>

ExitIf(p) ==
  /\ At(p, "exitIf")
  /\ IF in[p] = Arg(p) THEN End({p}) /\ UNCHANGED pc
                       ELSE Return(p) /\ UNCHANGED <<locks, channels>>
  /\ UNCHANGED <<locals, screen, signals, store, excuse>>

(* The child has what its parent has open.                                 *)
Fork(p) ==
  /\ At(p, "fork")
  /\ pc' = [pc EXCEPT ![p] = @ + 1, ![Arg(p)] = 1]
  /\ ends' = ends \cup {<<Arg(p), e[2], e[3]>> : e \in {x \in ends : x[1] = p}}
  /\ UNCHANGED <<prog, dead, reaped, locals, screen, signals, store, locks, buffer, met,
                 queue, excuse>>

Wait(p) ==
  /\ At(p, "wait") /\ reaped < Cardinality(dead)
  /\ pc' = [pc EXCEPT ![p] = @ + 1] /\ reaped' = reaped + 1
  /\ UNCHANGED <<prog, dead, locals, screen, signals, store, locks, channels, excuse>>

(* Inputs that differ, and the end mark where a program looks for it (at    *)
(* most once).                                                             *)
Typable(p) ==
  {10 * p + Len(typed[p]) + 1}
  \cup {v \in {-1} : prog \in {"fifo", "pipes"} /\ excuse = {}}

Scanf(p) ==
  /\ At(p, "scanf") /\ Len(typed[p]) < MaxLines /\ Return(p)
  /\ \E v \in Typable(p) :
       /\ typed' = [typed EXCEPT ![p] = Append(@, v)]
       /\ IF Arg(p) = 0 THEN in' = [in EXCEPT ![p] = v] /\ UNCHANGED mem
                        ELSE mem' = [mem EXCEPT ![Arg(p)] = v] /\ UNCHANGED in
       /\ excuse' = IF prog = "pipes" /\ v = -1 THEN excuse \cup {"mark"} ELSE excuse
  /\ UNCHANGED <<mtype, out, signals, off, removed, locks, channels>>

Shows(p, s) ==
  /\ Return(p) /\ Len(out[p]) < MaxLines
  /\ out' = [out EXCEPT ![p] = @ \o s]
  /\ UNCHANGED <<locals, typed, signals, store, locks, channels, excuse>>

Printf(p) == At(p, "printf") /\ Shows(p, <<in[p]>>)

(* The text that has come since the last strlen.                           *)
Text == SelectSeq([s \in 1..3 |-> mem[s]], LAMBDA v : v # Nothing)
PrintRest(p) == At(p, "printRest") /\ Shows(p, SubSeq(Text, in[p] + 1, Len(Text)))

Becomes(p, v) ==
  /\ Return(p) /\ in' = [in EXCEPT ![p] = v]
  /\ UNCHANGED <<mtype, screen, signals, store, locks, channels, excuse>>

Compute(p) ==
  \/ At(p, "set") /\ Becomes(p, Arg(p))
  \/ At(p, "add") /\ Becomes(p, in[p] + Arg(p))
  \/ At(p, "load") /\ Becomes(p, mem[Arg(p)])
  \/ At(p, "strlen") /\ Becomes(p, Len(Text))

-----------------------------------------------------------------------------
(* Signals.  pause returns for a signal that comes while it waits, and     *)
(* once for several; one that comes earlier is handled and gone, or kills  *)
(* a process that has no handler yet.                                      *)

Sigaction(p) ==
  /\ At(p, "sigaction") /\ Return(p) /\ handled' = handled \cup {p}
  /\ UNCHANGED <<locals, screen, paused, woken, store, locks, channels, excuse>>

Pause(p) ==
  /\ At(p, "pause") /\ p \notin paused /\ paused' = paused \cup {p}
  /\ UNCHANGED <<prog, procs, locals, screen, handled, woken, store, locks, channels, excuse>>

Resume(p) ==
  /\ At(p, "pause") /\ p \in woken /\ Return(p)
  /\ paused' = paused \ {p} /\ woken' = woken \ {p}
  /\ UNCHANGED <<locals, screen, handled, store, locks, channels, excuse>>

Kill(p) == LET t == Arg(p) IN
  /\ At(p, "kill")
  /\ pc' = [pc EXCEPT ![p] = @ + 1]
  /\ woken' = IF t \in paused THEN woken \cup {t} ELSE woken
  /\ IF t \in Running \ handled
       THEN End({t}) ELSE UNCHANGED <<prog, dead, reaped, locks, channels>>
  /\ excuse' = IF t \in Running \ (paused \ woken) THEN excuse \cup {"missed"} ELSE excuse
  /\ UNCHANGED <<locals, screen, handled, paused, store>>

AwaitPid(p) ==
  /\ At(p, "awaitPid") /\ mem[0] # Nothing /\ Return(p)
  /\ UNCHANGED <<locals, screen, signals, store, locks, channels, excuse>>

SetPid(p) ==
  /\ At(p, "setPid") /\ Return(p) /\ mem' = [mem EXCEPT ![0] = p]
  /\ UNCHANGED <<locals, screen, signals, off, removed, locks, channels, excuse>>

RemoveObject(p) ==
  /\ At(p, "remove") /\ Return(p) /\ removed' = TRUE
  /\ UNCHANGED <<locals, screen, signals, mem, off, locks, channels, excuse>>

-----------------------------------------------------------------------------
(* The semaphore, which whoever finds it missing sets to 0 after making    *)
(* it; the other may have increased it by then.                            *)

Semget(p) ==
  /\ At(p, "semget")
  /\ Goto(p, IF sem = NoSem THEN pc[p] + 1 ELSE pc[p] + 2)
  /\ sem' = IF sem = NoSem THEN 0 ELSE sem
  /\ UNCHANGED <<locals, screen, signals, store, owner, channels, excuse>>

Setval(p) ==
  /\ At(p, "setval") /\ Return(p) /\ sem' = 0
  /\ excuse' = IF sem > 0 THEN excuse \cup {"wiped"} ELSE excuse
  /\ UNCHANGED <<locals, screen, signals, store, owner, channels>>

Semop(p) ==
  /\ \/ At(p, "P") /\ sem > 0 /\ sem' = sem - 1
     \/ At(p, "V") /\ sem' = sem + 1
  /\ Return(p)
  /\ UNCHANGED <<locals, screen, signals, store, owner, channels, excuse>>

(* The record lock, and the offset that all who inherited the file share.  *)
LockFile(p) ==
  /\ At(p, "lock") /\ owner = {} /\ Return(p) /\ owner' = {p}
  /\ UNCHANGED <<locals, screen, signals, store, sem, channels, excuse>>

UnlockFile(p) ==
  /\ At(p, "unlock") /\ Return(p) /\ owner' = owner \ {p}
  /\ UNCHANGED <<locals, screen, signals, store, sem, channels, excuse>>

Lseek(p) ==
  /\ At(p, "lseek") /\ Return(p) /\ off' = 0
  /\ UNCHANGED <<locals, screen, signals, mem, removed, locks, channels, excuse>>

(* At the end of the file there is nothing to read.                        *)
ReadFile(p) ==
  /\ At(p, "fread") /\ Return(p)
  /\ IF mem[off + 1] = Nothing THEN UNCHANGED <<in, off>>
     ELSE in' = [in EXCEPT ![p] = mem[off + 1]] /\ off' = off + 1
  /\ UNCHANGED <<mtype, screen, signals, mem, removed, locks, channels, excuse>>

WriteFile(p) ==
  /\ At(p, "fwrite") /\ Return(p)
  /\ mem' = [mem EXCEPT ![off + 1] = in[p]] /\ off' = off + 1
  /\ UNCHANGED <<locals, screen, signals, removed, locks, channels, excuse>>

-----------------------------------------------------------------------------
(* Pipes and FIFOs.  The open of a FIFO waits for that of the other end.   *)

Opening(p) == LET e == <<p, Call(p)[2], Call(p)[3]>> IN
  /\ At(p, "open") /\ e \notin ends /\ ends' = ends \cup {e}
  /\ met' = IF \E x \in ends : x[2] = e[2] THEN met \cup {e[2]} ELSE met
  /\ UNCHANGED <<prog, procs, locals, screen, signals, store, locks, buffer, queue, excuse>>

Open(p) ==
  /\ At(p, "open") /\ <<p, Call(p)[2], Call(p)[3]>> \in ends
  /\ Call(p)[2] \in met /\ Return(p)
  /\ UNCHANGED <<locals, screen, signals, store, locks, channels, excuse>>

MakePipe(p) ==
  /\ At(p, "pipe") /\ Return(p) /\ ends' = ends \cup {p} \X Arg(p) \X {"r", "w"}
  /\ UNCHANGED <<locals, screen, signals, store, locks, buffer, met, queue, excuse>>

Close(p) ==
  /\ At(p, "close") /\ Return(p) /\ ends' = ends \ ({p} \X Arg(p) \X Call(p)[3])
  /\ UNCHANGED <<locals, screen, signals, store, locks, buffer, met, queue, excuse>>

Has(c, m) == \E e \in ends : e[2] = c /\ e[3] = m

Read(p) ==
  /\ At(p, "read") /\ buffer[Arg(p)] # <<>> /\ Return(p)
  /\ in' = [in EXCEPT ![p] = Head(buffer[Arg(p)])]
  /\ buffer' = [buffer EXCEPT ![Arg(p)] = Tail(@)]
  /\ UNCHANGED <<mtype, screen, signals, store, locks, ends, met, queue, excuse>>

(* The end of the data is not looked at: the variable stays as it is.      *)
ReadEnd(p) ==
  /\ At(p, "read") /\ buffer[Arg(p)] = <<>> /\ ~Has(Arg(p), "w") /\ Return(p)
  /\ UNCHANGED <<locals, screen, signals, store, locks, channels, excuse>>

(* Without a reader the writer is killed by SIGPIPE.                       *)
Write(p) ==
  /\ At(p, "write")
  /\ IF Has(Arg(p), "r")
       THEN /\ Return(p) /\ buffer' = [buffer EXCEPT ![Arg(p)] = Append(@, in[p])]
            /\ UNCHANGED <<ends, met, queue, locks>>
       ELSE End({p}) /\ UNCHANGED pc
  /\ UNCHANGED <<locals, screen, signals, store, excuse>>

(* One turn for one pipe of those that select finds readable, in any order; *)
(* a pipe at its end is closed and no longer looked at.  What main prints  *)
(* of child c is kept at c.                                                *)
Selectable(p) == {c \in Pipe : <<p, c, "r">> \in ends /\ (buffer[c] # <<>> \/ ~Has(c, "w"))}
SelectOne(p) ==
  /\ At(p, "select")
  /\ \E c \in Selectable(p) :
       IF buffer[c] # <<>>
         THEN /\ out' = [out EXCEPT ![c] = Append(@, Head(buffer[c]))]
              /\ buffer' = [buffer EXCEPT ![c] = Tail(@)] /\ UNCHANGED ends
         ELSE ends' = ends \ {<<p, c, "r">>} /\ UNCHANGED <<out, buffer>>
  /\ UNCHANGED <<prog, procs, locals, typed, signals, store, locks, met, queue, excuse>>

SelectTimeout(p) ==
  /\ At(p, "select") /\ Selectable(p) = {} /\ Return(p)
  /\ excuse' = IF \E c \in Pipe : Has(c, "w") THEN excuse \cup {"early"} ELSE excuse
  /\ UNCHANGED <<locals, screen, signals, store, locks, channels>>

-----------------------------------------------------------------------------
(* The message queue.                                                      *)

Sends(p, type) ==
  /\ Return(p) /\ queue' = Append(queue, [type |-> type, data |-> in[p]])
  /\ UNCHANGED <<locals, screen, signals, store, locks, buffer, ends, met, excuse>>
Msgsnd(p) == At(p, "msgsnd") /\ Sends(p, Arg(p))
Reply(p) == At(p, "reply") /\ Sends(p, mtype[p] + Arg(p))

(* The first message of the lowest type among those asked for.             *)
Msgrcv(p) == LET Asked == {k \in DOMAIN queue : queue[k].type \in Arg(p)} IN
  /\ At(p, "msgrcv") /\ Return(p)
  /\ \E k \in Asked :
       /\ \A j \in Asked : \/ queue[k].type < queue[j].type
                           \/ queue[k].type = queue[j].type /\ k <= j
       /\ in' = [in EXCEPT ![p] = queue[k].data]
       /\ mtype' = [mtype EXCEPT ![p] = queue[k].type]
       /\ queue' = RemoveAt(queue, k)
  /\ UNCHANGED <<screen, signals, store, locks, buffer, ends, met, excuse>>

-----------------------------------------------------------------------------

Step(p) ==
  \/ Exit(p) \/ ExitIf(p) \/ Fork(p) \/ Wait(p) \/ Printf(p) \/ PrintRest(p)
  \/ Compute(p)
  \/ Sigaction(p) \/ Pause(p) \/ Resume(p) \/ Kill(p) \/ AwaitPid(p) \/ SetPid(p)
  \/ RemoveObject(p) \/ Semget(p) \/ Setval(p) \/ Semop(p)
  \/ LockFile(p) \/ UnlockFile(p) \/ Lseek(p) \/ ReadFile(p) \/ WriteFile(p)
  \/ Opening(p) \/ Open(p) \/ MakePipe(p) \/ Close(p) \/ Read(p) \/ ReadEnd(p) \/ Write(p)
  \/ SelectOne(p) \/ SelectTimeout(p) \/ Msgsnd(p) \/ Reply(p) \/ Msgrcv(p)

Next == \E p \in Proc : Step(p) \/ Scanf(p)

Spec == Init /\ [][Next]_vars

(* Some process that can run runs; nobody has to type.                     *)
FairSpec == Spec /\ WF_vars(\E p \in Proc : Step(p))

-----------------------------------------------------------------------------
AllDead == \A p \in Proc : pc[p] > 0 => p \in dead
AtKeyboard == \E p \in Proc : At(p, "scanf")
Plus(s, d) == [k \in DOMAIN s |-> s[k] + d]

(* The reader of a buffer prints what was written, in order, each slot     *)
(* after it was written, even if it missed signals or increments.  Text    *)
(* that comes between a write and the strlen after it is never shown, but  *)
(* none is shown twice (LAB10-29, LAB11-10, LAB11-26).                      *)
HandedOver ==
  /\ prog \in {"pidshm", "semaphore"} => IsPrefix(out[1], typed[0])
  /\ prog = "pidmap" => \A k \in DOMAIN out[1] :
       /\ \E j \in DOMAIN typed[0] : typed[0][j] = out[1][k]
       /\ k > 1 => out[1][k - 1] < out[1][k]

(* Whoever asks gets the answer to its own question, although all answers  *)
(* come through one queue (LAB11-05).                                      *)
Answered ==
  /\ prog = "fifo" => IsPrefix(out[1], typed[0]) /\ IsPrefix(out[0], Plus(typed[0], 8))
  /\ prog = "server" => \A p \in 1..3 : IsPrefix(out[p], Plus(typed[p], 8))

(* Each child prints its share of the input, and the parent what each      *)
(* child wrote, all of it unless it gave up too early (LAB11-03, lab/pi.c). *)
Share(p) == LET mine == {j \in DOMAIN typed[0] : j % 3 = p % 3} IN
  [k \in 1..Cardinality(mine) |-> typed[0][3 * (k - 1) + p]]
Written == <<hello, hello, bye>>
Delivered ==
  /\ prog = "pipes" /\ "mark" \notin excuse => \A p \in 1..3 : IsPrefix(out[p], Share(p))
  /\ prog = "select" => \A c \in 1..3 :
       /\ IsPrefix(out[c], Written)
       /\ At(0, "wait") /\ excuse = {} => out[c] = Written
  /\ prog = "poll" => IsPrefix(out[0], <<hello>>)

(* No addition is lost and no child reads what another is changing; no two *)
(* children read the same bytes (LAB12-01, LAB09-22).                      *)
OneAtATime ==
  /\ Cardinality(owner) <= 1
  /\ prog = "locks" =>
       /\ out[0] # <<>> => out[0] = Plus(typed[0], 30)
       /\ \A p, q \in 1..3 : p # q /\ out[p] # <<>> /\ out[q] # <<>> => out[p][1] # out[q][1]
  /\ prog = "offset" => \A p, q \in 1..3 :
       p # q /\ out[p] # <<>> /\ out[q] # <<>> => out[p] # out[q]

(* What processes print is what was meant for them, once and in order, in  *)
(* all twelve programs, whichever way it came to them.                     *)
PrintsRight == HandedOver /\ Answered /\ Delivered /\ OneAtATime

(* A program that has ended leaves nothing behind that its next run would  *)
(* find: no message, no byte, no object.                                   *)
NothingLeft == AllDead /\ excuse = {} =>
  /\ queue = <<>> /\ \A c \in Pipe : buffer[c] = <<>>
  /\ prog \in {"pidshm", "pidmap", "semaphore"} => removed
  /\ prog = "semaphore" => sem = 0

(* Every process ends, unless it waits for somebody to type, a signal came *)
(* to one that was not in pause, a late SETVAL took increments back, or    *)
(* the end mark was typed where it is not expected.                        *)
EveryoneEnds == <>[](AllDead \/ AtKeyboard \/ excuse # {})
=============================================================================
