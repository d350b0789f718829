---------------------------- MODULE ReplayScanf ----------------------------
(***************************************************************************)
(* Replay of typed input: what two versions of the library have in common, *)
(* which is r_scanf and the test program that calls it.  The inputs are    *)
(* logged; after Ctrl+C the program starts again, asks how many of them to *)
(* replay and takes new input after those.                                 *)
(*                                                                         *)
(* version "shm" is hw2/a/myio4.h (module Replay), where a parent starts a *)
(* new child on the same shared memory; version "file" is hw2/myio3.h      *)
(* (module ReplayFile), where a signal handler writes the log to a file    *)
(* and executes the program again.                                         *)
(*                                                                         *)
(* The log is the bytes of the inputs, with the number of inputs and of    *)
(* bytes written one after the other: a kill can fall between the two.     *)
(***************************************************************************)
EXTENDS Integers, SequencesExt

CONSTANTS
  Value,    \* what is typed; a number of inputs to come as well
  MemSize,  \* bound: bytes of the log in use, 65528 in the code and unchecked there
  MaxInts,  \* bound: Ctrl+C presses, version shm
  MaxKills  \* bound: Ctrl+C presses and other kills, version file

ASSUME ReplayAssumption ==
  /\ Value \subseteq Nat /\ Value # {} /\ MemSize \in Nat
  /\ MaxInts \in Nat /\ MaxKills \in Nat

VARIABLES
  version,                           \* which of the two
  nscanf_total, nbytes_total, data,  \* the log: numbers of inputs and bytes, the bytes
  removed,                           \* the shared memory is removed, or not there yet
  parent, ignores,   \* shm: place of the parent; it ignores SIGINT
  log1, masked,      \* file: the file; SIGINT is blocked
  pc, deaf,          \* place of the program; shm: it ignores SIGINT
  mode, nscanf_running, nscanf_target, nbytes_running,  \* its statics
  phase, n, i,       \* the program: which of its three loops, its N, its i
  life, prev,        \* history: this life's inputs; those the log is to hold
  torn,              \* history: a kill, or the answer 0, left the log wrong for good
  ints               \* kills so far

log == <<nscanf_total, nbytes_total, data>>
family == <<version, removed, parent, ignores>>
disk == <<log1, masked>>
statics == <<mode, nscanf_running, nscanf_target, nbytes_running>>
program == <<phase, n, i>>
history == <<life, prev, torn>>
vars == <<log, family, disk, pc, deaf, statics, program, history, ints>>

Byte == Value \X {1, 4} \X (0..3)
Blank == <<0, 0, 0>>
Input == [val : Value, size : {1, 4}]
NoBytes == [b \in 0..(MemSize-1) |-> Blank]

NoFile == [is |-> "none", total |-> 0, bytes |-> <<>>]
EmptyFile == [NoFile EXCEPT !.is = "empty"]

(* test.c: N and N integers, N and N floats, N and N characters.           *)
OneMore == i > n    \* mutant
WantsN == i = n
Over == phase = 3 /\ WantsN
Size == IF phase = 3 THEN 1 ELSE 4
Advance(v) ==
  IF WantsN THEN phase' = phase + 1 /\ n' = v /\ i' = 0
            ELSE i' = i + 1 /\ UNCHANGED <<phase, n>>

(* A program that starts.                                                  *)
Fresh ==
  /\ mode' = 0 /\ nscanf_running' = 0 /\ nscanf_target' = 0 /\ nbytes_running' = 0
  /\ phase' = 0 /\ n' = 0 /\ i' = 0 /\ life' = <<>>

Init ==
  /\ version \in {"shm", "file"}
  /\ nscanf_total = 0 /\ nbytes_total = 0 /\ data = NoBytes
  /\ removed = (version = "file") /\ parent = "fork" /\ ignores = FALSE
  /\ log1 = NoFile /\ masked = FALSE
  /\ pc = (IF version = "shm" THEN "none" ELSE "new") /\ deaf = FALSE
  /\ mode = 0 /\ nscanf_running = 0 /\ nscanf_target = 0 /\ nbytes_running = 0
  /\ phase = 0 /\ n = 0 /\ i = 0
  /\ life = <<>> /\ prev = <<>> /\ torn = FALSE /\ ints = 0

-----------------------------------------------------------------------------
(* r_scanf *)

Replaying == mode = 1 /\ nscanf_running < nscanf_target

Logged(o, s) == {v \in Value : \A b \in 0..(s-1) : data[o + b] = <<v, s, b>>}
FirstAt(o, s) == IF Logged(0, s) = {} THEN Value ELSE Logged(0, s)    \* mutant
(* Bytes of different inputs together can be any value.                    *)
ReadAt(o, s) == IF Logged(o, s) = {} THEN Value ELSE Logged(o, s)

KeptBytes == nbytes_total    \* mutant
Truncated == nbytes_running'

TakeOne ==
  /\ pc = "run" /\ ~Over /\ Replaying
  /\ nbytes_running + Size <= nbytes_total
  /\ \E v \in ReadAt(nbytes_running, Size) :
       Advance(v) /\ life' = Append(life, [val |-> v, size |-> Size])

Replay ==
  /\ TakeOne /\ nscanf_running + 1 < nscanf_target
  /\ nbytes_running' = nbytes_running + Size /\ nscanf_running' = nscanf_running + 1
  /\ UNCHANGED <<log, family, disk, pc, deaf, mode, nscanf_target, prev, torn, ints>>

(* The last one replayed cuts the log: its bytes first, then its number.   *)
ReplayLast ==
  /\ TakeOne /\ nscanf_running + 1 >= nscanf_target
  /\ nbytes_running' = nbytes_running + Size
  /\ nscanf_running' = IF version = "shm" THEN 0 ELSE nscanf_running + 1
  /\ mode' = 0 /\ pc' = "cut"
  /\ nbytes_total' = Truncated
  /\ UNCHANGED <<nscanf_total, data, family, disk, deaf, nscanf_target, prev, torn, ints>>

CutNumber ==
  /\ pc = "cut" /\ pc' = "run"
  /\ nbytes_running' = 0 /\ nscanf_total' = nscanf_target
  /\ UNCHANGED <<nbytes_total, data, family, disk, deaf, mode, nscanf_running, nscanf_target,
                 program, history, ints>>

(* The log ends too early: r_scanf returns 0 and leaves the variable as it *)
(* is, which the program does not look at; the first N has no value yet.   *)
ReplayFails ==
  /\ pc = "run" /\ ~Over /\ Replaying
  /\ nbytes_running + Size > nbytes_total
  /\ \E v \in IF WantsN /\ phase > 0 THEN {n} ELSE Value : Advance(v)
  /\ UNCHANGED <<log, family, disk, pc, deaf, statics, history, ints>>

(* Typed input.  The bytes beyond nbytes_total are nobody's, so writing    *)
(* them and counting them is one step; counting the input is another.      *)
Type(v) ==
  /\ pc = "run" /\ ~Over /\ ~Replaying
  /\ nbytes_total + Size <= MemSize
  /\ data' = [b \in 0..(MemSize-1) |->
                IF b - nbytes_total \in 0..(Size-1) THEN <<v, Size, b - nbytes_total>>
                                                    ELSE data[b]]
  /\ nbytes_total' = nbytes_total + Size
  /\ pc' = "stored" /\ Advance(v) /\ life' = Append(life, [val |-> v, size |-> Size])
  /\ UNCHANGED <<nscanf_total, family, disk, deaf, statics, prev, torn, ints>>

CountInput ==
  /\ pc = "stored" /\ pc' = "run"
  /\ nscanf_total' = nscanf_total + 1
  /\ UNCHANGED <<nbytes_total, data, family, disk, deaf, statics, program, history, ints>>

Scanf == Replay \/ ReplayLast \/ CutNumber \/ ReplayFails \/ CountInput

-----------------------------------------------------------------------------
(* What the log is to hold after a kill: the inputs counted in this life,  *)
(* or still those of the earlier ones while it starts, asks for a number   *)
(* or has not replayed all it is to.                                       *)
ToKeep ==
  CASE pc \in {"born", "installed", "attached", "header", "ask"} \/ Replaying -> prev
    [] pc = "stored" -> Front(life)
    [] pc = "left" \/ (pc = "clean" /\ version = "shm") -> <<>>
    [] OTHER -> life

(* Nothing mends these: bytes that belong to no input, or a number of      *)
(* inputs that the bytes are too few for.                                  *)
LeavesTorn ==
  \/ nscanf_total = 0 /\ nbytes_total > 0
  \/ pc = "cut" /\ nscanf_total > nscanf_target

(* Where the bytes of an input end when those of s are one after the other; *)
(* how many they are; that these are the bytes, by their offset.           *)
Ends(s) ==
  LET end[k \in 0..Len(s)] == IF k = 0 THEN 0 ELSE end[k-1] + s[k].size IN end
BytesOf(s) == Ends(s)[Len(s)]
Spelled(s, bytes) ==
  \A k \in DOMAIN s : \A b \in 0..(s[k].size - 1) :
    bytes[Ends(s)[k-1] + b] = <<s[k].val, s[k].size, b>>
=============================================================================
