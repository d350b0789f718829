# Verification of the talk programs and the FTP pair

This directory holds TLA+ specifications of the concurrent programs of this
repository, TLC configurations that check them on small instances, and TLAPS
proofs about the six systems that are more than an exercise.  `PROJECT.json` lists the components, the
runs, the mutants (small plausible bugs, each of which breaks one property),
the lines of code behind every definition, the findings and the hazards.

Run a check with `tlc -config MCFinalTalk_safety.cfg MCFinalTalk`, a proof
with `tlapm FinalTalkProof.tla`.

## 1. Inventory

The repository is a collection of Linux system programs.  Its core logic is in
six systems of communicating processes (two of them versions of one library),
and in some twelve exercises where processes meet; the rest runs alone.

| Component | Code | State it keeps | Operations | Interaction | Module |
|---|---|---|---|---|---|
| Multi-user talk | `final/5.c` | shared `total`, `msgn`, `ids`; a semaphore; one message queue; per receiver `local_msgn` | log in, reject, send a numbered line once per user, receive by number, quit, log out, remove | shared memory under the semaphore; the queue outside it | `FinalTalk` |
| Talk over shared memory | `hw3/talk.c` | `user_count`, `global_seq`, `quit_flags`, ring `logs`; a semaphore; per user `local_seq`, `i_quit` | initialise, enter, wait for three, post, read, quit, leave, remove | shared memory; writers lock, readers do not | `ShmTalk` |
| Talk with a token | `hw3/5.c` | one message queue: check-ins, token, messages per user | check in, wait for three, inject the token, take it, broadcast, return it, receive, remove the queue | the queue only | `TokenTalk` |
| Chat room | `hw3/3-3/5.c` | `msg_seq`, `user_count`, `users[]`; a semaphore; a private queue per user; signal handler | log in, reject, broadcast under the lock, receive, Ctrl+C, Ctrl+D, clean up, remove | shared memory, queues, `SIGINT` to the process group, `SIGKILL` to children | `ChatRoom` |
| FTP pair | `com/ftp_server.c`, `com/ftp_client.c` | control stream each way, data listener, data connection | log in, PASV, LIST, RETR, QUIT | TCP | `Ftp` |
| Input replay | `hw2/a/myio4.h`, `hw2/a/test.c` | log of typed inputs in shared memory: bytes, their number, the number of inputs; position of the replay | record, Ctrl+C, restart, ask, replay, cut, clean up | fork, `SIGINT`, shared memory that outlives a child | `ReplayScanf`, `Replay` |
| Input replay in a file | `hw2/myio3.h`, `hw2/test.c` | the same log, written to `LOG1`; the blocked `SIGINT` | handler that writes it, exec, read back | signals, exec, a file | `ReplayScanf`, `ReplayFile` |
| Signal exercises | `LAB10-22`, `LAB10-29`, `LAB11-10` | handlers, a pid and a buffer both processes see | fork, signal, pause, read the next slot | signals, shared memory, a mapped file | `Labs` |
| Hand-off exercises | `LAB11-03`, `LAB11-05`, `LAB11-26`, `LAB12-01`, `LAB09-22`, `lab/pi.c` | a semaphore, FIFOs, a message queue, pipes, a record lock, a file offset | post, wait, ask, answer, deal, select, lock | the kernel's objects | `Labs` |
| Process exercises, shells, file utilities | `LAB09-*`, `10.c`, `main.c`, `mcp.c`, ... | files | fork, exec, copy, list | none that is concurrent | not modelled |

What makes each correct, and hard:

- *final/5.c*: every user prints the same messages in the same order, and a
  user who types `talk_quit` gets out.  Copies are sent outside the lock by
  several senders at once; users come and go meanwhile; ids are reused;
  numbers wrap; the queue is finite; any terminal can be killed; the last user
  removes the objects while another may be on its way in.
- *hw3/talk.c*: joint start, one order, joint end.  Initialisation is outside
  the lock; a number is published before its message; readers take no lock; the
  ring is reused.
- *hw3/5.c*: one token, no loss, joint start and end.  The barrier counts any
  message; a full queue blocks the holder of the token; a relaunch meets the
  queue of an earlier life.
- *hw3/3-3/5.c*: the table matches the users, each queue is in order, a user
  whose input ends leaves.  The handler is inherited by the children; cleanup
  kills a process that may hold the lock; a full queue blocks a sender that
  holds it; the decision to remove is taken after the lock is released.
- *ftp*: the two programs stay in step on a stream without boundaries, and a
  finished transfer is whole.
- *replay*: a child replays what the one before it was given.  It can be killed
  between any two writes; the log is cut and grown again; parent and child both
  get the signal; with the file, the handler that saves the log can itself be
  killed, and runs when the log has not been read yet.
- *exercises*: what one process hands over arrives once, in order, at the right
  process, and everyone ends.  Signals can come before the handler or the
  pause; a semaphore is created and set in two calls; both ends of a FIFO wait
  for each other; one queue carries both directions; children inherit open
  ends, offsets, but not locks.

## 2. Plan

Done, in this order: `FinalTalk` with its abstract specification `TotalOrder`;
`ShmTalk`; `TokenTalk`, later with its `Broadcast`; `ChatRoom`; `Ftp`; `Replay`; the proofs about
`FinalTalk`; `ReplayFile` beside `Replay` on the common `ReplayScanf`; `Labs`;
the proofs about `ShmTalk`, `TokenTalk`, `ChatRoom`, `Ftp` and `Replays`, which
now state every invariant that a run checks of these modules; the absence of
deadlock in `FinalTalk`, `TokenTalk`, `ChatRoom` and `Ftp`; what is true of the
order in `ShmTalk`, and of the table of `ChatRoom` after Ctrl+C.

Next, the most important first:

1. Abstract specifications, with their refinements proved: for `Replays` a
   sequence that grows at its end and is cut to a prefix; for `ShmTalk`
   a talk with start, one order and end, where the findings allow it.
2. `FinalRooms`: several generations of the three IPC objects of `final/5.c`
   (creation, removal one after the other, stale handles), on top of the lock
   protocol of `FinalTalk`.
3. How far the table of `ChatRoom` can drift for a given number of interrupts;
   `RejectCorrect` says in which direction.
4. Proofs about `Labs`.  Its programs are sequences of calls that an interpreter
   walks through, so each needs its own statement of where its processes are.

## 3. The modules

Conventions.  A program counter per process names the place between two steps;
an action is the code from one place where another process can see or change
something to the next.  Code inside a critical section is one action when
nobody outside the lock looks at what it writes; it is split where somebody
does, or where a kill in the middle leaves a trace.  A semaphore operation with
`SEM_UNDO` is `P`, `V`, and `Undo` at a process's end.  Formatting, printing
and the text of messages are left out; a text is `"hello"` or `"talk_quit"`,
which the code tells apart.  History variables (`log`, `posted`, `heard` in
`TokenTalk`, `last` in `ChatRoom`, `size` in `Ftp`, `life`,
`prev` and `torn` in `ReplayScanf`, `typed`, `out` and `excuse` in `Labs`) steer
nothing the code does: only the bounds on input and output look at them.
Definitions marked `\* mutant` stand beside the one they distort and are used
by the mutants only.

**FinalTalk** (`final/5.c`).  `mpc`, `rpc`, `spc` are the places of main,
receiver and sender of each user.  `SemGet`, `SetVal`, `LockLogin`, `Reject`,
`CountLogin`, `Login` are main up to the forks (lines 51-94), `LockLeave`,
`CountLeave`, `Leave` its end (97-115).  A login writes `total` and then `ids`,
so it is two actions: a kill between them (`"torn"`) leaves them apart.
`StartReceiver` reads `msgn` without the lock (157); `Receive` is one turn of
the loop (159-173): counting up, `msgrcv` of that number with its rule for type
0 (`IsFirst`), and the test for the own `talk_quit`.  `Type`, `LockSend`,
`Number`, `SendCopy`, `EndSend` are the sender; each `msgsnd` is a step of its
own, blocks on a full queue, and fails on a removed queue and for type 0.
`Crash` kills all processes of a user anywhere.  The model covers one lifetime
of the room: after the removal nobody starts the program anew.

**TotalOrder** is what the talk promises: a growing sequence of posts, and
readers that start anywhere in it and hear every post from there on, one after
the other.  `FinalTalk` implements it until the room is removed or the numbers
are used up (`NoWrap`); the mapping is at the end of the module.

**ShmTalk** (`hw3/talk.c`).  `Attach`, `SetVal`, `Memset`, `LockEnter`, `Enter`,
`Start` are lines 63-131; `user_count++` is a load and a store, because a
`memset` outside the lock can fall between them.  `Bump` publishes the number
and `Fill` writes the slot; a reader that copies the slot meanwhile may see any
mixture of old and new fields (`Seen`), as the data race allows.
`OrderedLaunch` is the assumption of the comment in lines 95-96 that the users
are started one after the other.  `Timeout` is a `select` without input; the exit
from the loop when `select` fails (148-151) is left out, because it cannot with
these arguments in a program that handles no signal.

**TokenTalk** (`hw3/5.c`).  The queue is one sequence per `mtype` (`checkins`,
`tokens`, `inbox`) under one capacity; check-ins have no body and take none of
it.  A user that is killed may start again and finds the queue as it was left.
`Waiting` is the set of messages in the inboxes, and `Load` what all of them
take of the capacity.  `Pass` counts all messages, as the code does.  `TokenGone` has both ways a
wait for the token can end when the queue is removed.

**Broadcast** is what that talk promises: one sequence of posts, and readers
that hear the posts of the others one after the other, from the very first on
however late they start, none left out and none twice, until one that ends the
talk.  `TokenTalk` implements it until the queue is removed or somebody is
killed.  It differs from `TotalOrder` where the programs do: there a reader
starts in the middle and hears its own messages too.

**ChatRoom** (`hw3/3-3/5.c`).  Three processes per user with their own place.
`CtrlC` makes the signal pending in every living process of the user, `Deliver`
starts `cleanup` in one of them, and `Kill`, `LockLeave`, `Leave`, `LastUser`,
`RemoveAll` are `cleanup`, in whichever process runs it.  `Known(p)` are the
children whose process ids the process has.  `HasRoom` is the test of the count
(191) together with the search for a slot (199-204): after Ctrl+C the count can
be too low and the search fail, and a user with `my_id` -1 that writes its entry
in front of the segment ends there, which `Reject` covers with the rejection.  `SettledLaunch` says that nobody
starts while the creator still initialises.

**Ftp** (`com/ftp_server.c`, `com/ftp_client.c`).  `cmds` and `replies` are the
control stream each way; with `Coalesce` a read may return several replies, of
which the client looks at the first.  `conn` is the data connection (`queued`,
`open`, `closed` by the server, `dropped` by the client).

**ReplayScanf** is what two versions of the replay library share: `r_scanf`
(`Replay`, `ReplayLast`, `CutNumber`, `ReplayFails`, `Type`, `CountInput`) and the
test program, whose next input depends on those it has read (`test.c`, the same
in both).  Each write to the log that a kill could separate from the next is an
action.  The log is bytes that know which input and which part of it they are;
bytes of different inputs read together give any value.  `Ends(s)` are the
offsets at which the inputs of `s` end, and `Spelled(s, bytes)` says that `bytes`
are those of `s`, input by input and byte by byte.  `prev` is what the log
is to hold since the last kill, and `torn` says that something left it wrong for
good (section 7).

**Replay** (`hw2/a/myio4.h`).  `Fork`, `Ignore`, `Restart`, `Finish` are the
parent in `r_init`, `SetDefault`, `Ask`, `ZeroBytes` the child in it, and
`Cleanup`, `CleanBytes`, `Exit` the end.

**ReplayFile** (`hw2/myio3.h`).  `Install`, `Attach`, `ReadHeader`, `ReadData`,
`Choose` are `r_init` (50-103), `Unlink` and `Detach` `r_cleanup` (168-177).
`Caught` starts the handler at any step, `OpenLog`, `WriteHeader`, `WriteData` and
`ExecAgain` are its calls (33-47); `Exec` makes a new process image, in which
`SIGINT` stays blocked when the handler made it.  `Killed` is any other kill, in
the handler too, and `Launch` the user who starts the program again.

**Replays** puts the two side by side: `version` says which one runs, and the
properties are the same for both.

**Labs** (`LAB09-22`, `LAB10-22`, `LAB10-29`, `LAB11-*`, `LAB12-01`, `lab/pi.c`).
These programs are short lists of system calls, and that is how they are
written down: `Chain`, `ShmReader`, `FifoAsk`, `Serve`, `PrintDealt`, `AddTen`
and so on are the calls of one process each, in the order of the source, with
its loops unrolled.  The actions below them are what the calls do to the
kernel's objects and to the caller, one call at a time.

| `prog` | Code | Processes |
|---|---|---|
| `chain` | `LAB10-22/test1022_2.c` | main and five children, each signalled by the next |
| `sleepers` | `LAB10-22/21010483-2.c` | main signals three children |
| `pidshm` | `LAB11-10/test1110_1_a.c`, `_b.c` | buffer in shared memory, a signal per int |
| `pidmap` | `LAB10-29/test1029_3_a.c`, `_b.c` | text in a mapped file, a signal per line |
| `semaphore` | `LAB11-26/test1126_1_a.c`, `_b.c` | buffer in shared memory, a semaphore |
| `fifo` | `LAB11-05/test1105_1_a.c`, `_b.c` | question and answer over two FIFOs |
| `server` | `LAB11-05/test1105_2_a.c`, `_b.c` | a server and three clients on one queue |
| `pipes` | `LAB11-03/test1103_1.c` | main deals its input to three children |
| `select` | `LAB11-03/21010483-3.c` | main selects from three children |
| `poll` | `lab/pi.c` | main polls a child |
| `locks` | `LAB12-01/test1201_1.c` | three children add to one number in a file |
| `offset` | `LAB09-22/test0922_2.c` | three children read from one file |

`sleep` is left out, so that any order it only makes likely can turn round;
`excuse` is the history of what the programs have no provision for: `missed`, a
signal whose target was not in pause; `wiped`, a `SETVAL` that took increments
back; `mark`, a `-1` dealt before its time; `early`, a select that gave up
before its children.

## 4. The runs

Passing runs; each property has a mutant that breaks it in the same run.

| Run | Instance | What it shows |
|---|---|---|
| `finaltalk_safety` | 3 users, 2 seats, numbers to 4, queue of 3, 3 lines, 1 kill | `TypeOK`, `LockHeldByOne`, `SlotsAgree`, `NoStarve`, `AgreedOrder`, `OwnQuitOnly`, `ImplementsTotalOrder` |
| `finaltalk_live` | 2 users, queue of 2, 3 lines, fair | `QuitLeaves`: only a queue that stays full keeps a quitting user in |
| `shmtalk_talk` | 2 users, ring of 2, 4 lines, 1 kill, fair | `TypeOK`, `LockHeldByOne`, `RingIntegrity`, `BarrierHolds`, `RemovedByLast`, `EndTogether`, `EveryoneStarts`, `QuitEnds` |
| `tokentalk_talk` | 3 users, queue of 3, 2 lines, 1 kill and restart, fair | `TypeOK`, `TokenUnique`, `NothingLost`, `BarrierHolds`, `ImplementsBroadcast`, `LineSent`, `ReceiversEnd` |
| `chatroom_room` | 4 users with 1 line, 3 with 2 lines, 2 with 1 Ctrl+C; 3 slots, queues of 1 | `TypeOK`, `LockHeldByOne`, `TableAgrees`, `Delivery` |
| `chatroom_live` | 2 users, 2 slots, queues of 1, 3 lines, no Ctrl+C, fair | `LeavesOrHeldUp`: only a broadcast before the full queue of a user that waits for the lock keeps in a user whose input ended |
| `ftp_dialogue` | 2 sessions, 3 commands, 3 blocks, all failures, fair | `TypeOK`, `InStep`, `WholeTransfer`, `CommandEndsOrWaits` |
| `replay_restart` | both versions, inputs 0 and 1, a log of 22 bytes, 2 Ctrl+C or 3 kills, fair | `TypeOK`, `LogHolds`, `ReplayFaithful`, `LogSurvives`, `Supervised` |
| `labs_programs` | the twelve programs, loops of 2 turns, fair | `PrintsRight`, `NothingLeft`, `EveryoneEnds` |

Runs that find the code to disagree with its own comments (`PROJECT.json`,
"findings", quotes them):

| Run | Property | What happens |
|---|---|---|
| `finaltalk_wrap` | `WaitsForItsNumber` | after the last number the receiver asks for type 0 and gets any message |
| `shmtalk_order` | `SameOrder` | a reader copies a slot before or while it is written |
| `chatroom_stuck` | `LeavesAfterEnd` | a blocked broadcast holds the lock its reader needs to leave |

*Bounds.*  `MaxLines`, `MaxCrashes`, `MaxInts`, `MaxKills`, `MaxBlocks`, `MaxCommands`,
`MaxSessions` and `MemSize` bound what users and the environment do; they are guards of
`Type`, `Crash`, `CtrlC`, `ServeList` and so on.  `MaxMsgn` (99999 in the
code), `MaxUsers` (5 in `final/5.c`, 10 in `hw3/3-3/5.c`), `MaxLog` (100), `QueueCap` (the kernel's limit) are
parameters of the programs and made small so that the wrap, the rejection, the
lap of the ring and the full queue happen: two seats for three users give a
rejection and the reuse of an id, three lines from two senders overtake each
other in a queue of three, four lines lap a ring of two, a log of 22 bytes holds
all inputs of the test program when each of its loops runs once (21 bytes), and
two Ctrl+C hit a child that replays what one hit before it has logged.  In
`chatroom_room` each queue holds one message and its receiver another, which is
enough for two senders to deliver in the wrong order, did they not wait for each
other.  Its state constraint `Explored` keeps the three questions apart that
would be too many states together: four users for three slots, with one line, for
the rejection and the slot that is given again; three users and two lines for two
senders and a receiver, all slots taken, with logins and logouts in between; two
users and a Ctrl+C for every place it can find the processes of one of them at
while the other uses the room.  In `chatroom_live` a second message meets a full queue, and
a third one a queue that was full and has room again.  With the
file the third kill matters: the program a handler executes has `SIGINT`
blocked, so that a log that exists meets a Ctrl+C again only in a program the
user started after another kill.  In `labs_programs`, `Rounds` stands for the 4, 5
and 10 turns of the loops: two let a second turn meet what the first left, three
clients and children are as in the code, and inputs differ by process and turn;
9 lines are more than any of the programs prints with it, except one that was
misled (`mark`) and prints for ever.  What Ctrl+C does to the table of
`chatroom_room` is in section 7.
`N` in `TokenTalk` and the size of `User` in `ShmTalk` are the code's 3, or 2
where nothing depends on a third user.  Users are interchangeable in
`finaltalk_safety` and `chatroom_room`, which use symmetry;
no run with a liveness property does, nor has one a state constraint.  Deadlock is not checked: a talk in which
nobody types any more, or everybody is gone, really stops.  Where a stop would be
a deadlock is the subject of the `DeadlockFree` theorems (section 5).

*Assumptions on the launch.*  `OrderedLaunch` in `ShmTalk` (the comment in lines
95-96 of the code has the users started one after the other) and
`SettledLaunch` in `ChatRoom` (nobody starts while the creator initialises) are
TRUE in the runs; section 7 says what happens without them.

*Fairness.*  Every process that can go on again and again does (`SF` where it
waits for a semaphore or for room in a queue, which the kernel grants in the
order of arrival; `WF` for the receivers, which nothing disables once a message
for them is there, for the two FTP programs, for parent and child of `Replay`,
and for the program and its handler in `ReplayFile`).  In `Labs` only this much is
assumed: some process that can run runs.  Starting the program,
typing, giving an FTP command, Ctrl+C and kills are not fair: nobody has to do
them.  `QuitLeaves` is about runs without kills and `LeavesOrHeldUp` about
runs without Ctrl+C, as their runs are; `EveryoneStarts`, `QuitEnds`,
`LineSent` and `ReceiversEnd` say in themselves that nobody is killed, since a
dead user is one the others wait for.

## 5. What is proved

Each theorem holds for every value of the module's constants that its named
assumption allows, not just the runs' instances: any finite set of users, any
queue, ring, table or log, any number of lines, kills and interrupts.

| Module | Theorem | States `Spec =>` | Hypothesis |
|---|---|---|---|
| `FinalTalkProof` | `TypeCorrect` | `[]TypeOK` | |
| | `LockCorrect` | `[]LockHeldByOne` | |
| | `SlotsCorrect` | `[]SlotsAgree` | |
| `FinalOrderProof` | `AgreedOrderCorrect` | `[]AgreedOrder` | |
| | `Implements` | `ImplementsTotalOrder` | |
| | `OwnQuitCorrect` | `[]OwnQuitOnly` | |
| `FinalCopiesProof` | `NoStarveCorrect` | `[]NoStarve` | |
| | `DeadlockFree` | `[]NoDeadlock` | |
| `ShmTalkProof` | `TypeCorrect` | `[]TypeOK` | `OrderedLaunch` |
| | `LockCorrect` | `[]LockHeldByOne` | `OrderedLaunch` |
| | `RingCorrect` | `[]RingIntegrity` | `OrderedLaunch` |
| | `BarrierCorrect` | `[]BarrierHolds` | |
| | `RemovalCorrect` | `[]RemovedByLast` | `OrderedLaunch` |
| | `EndCorrect` | `EndTogether` | `OrderedLaunch` |
| | `ReadCorrect` | `ReadsRight` | `OrderedLaunch` |
| | `SessionCorrect` | `[]SessionWhole` | `OrderedLaunch` |
| `TokenTalkProof` | `TypeCorrect` | `[]TypeOK` | |
| | `TokenCorrect` | `[]TokenUnique` | |
| | `BarrierCorrect` | `[]BarrierHolds` | |
| | `DeliveryCorrect` | `[]NothingLost` | |
| | `Implements` | `ImplementsBroadcast` | |
| | `DeadlockFree` | `[]NoDeadlock` | |
| `ChatRoomProof` | `TypeCorrect` | `[]TypeOK` | |
| | `LockCorrect` | `[]LockHeldByOne` | |
| | `TableCorrect` | `[]TableAgrees` | `SettledLaunch` |
| | `DeliveryCorrect` | `[]Delivery` | `SettledLaunch` |
| | `RejectCorrect` | `[][TurnedAwayFull]_vars` | `SettledLaunch` |
| | `DeadlockFree` | `[]NoDeadlock` | `SettledLaunch` |
| `FtpProof` | `TypeCorrect` | `[]TypeOK` | |
| | `StepCorrect` | `[]InStep` | |
| | `TransferCorrect` | `[]WholeTransfer` | |
| | `DeadlockFree` | `[]NoDeadlock` | |
| `ReplaysProof` | `TypeCorrect` | `[]TypeOK` | |
| | `LogCorrect` | `[]LogHolds` | |
| | `ReplayCorrect` | `[]ReplayFaithful` | |
| | `SurvivalCorrect` | `[]LogSurvives` | |

*Assumptions.*  The two hypotheses are the runs' own (section 4): the code leaves
its initialisation outside the lock and relies on the users for its order.
Without them TLC finds `TypeOK`, `LockHeldByOne` and `RingIntegrity` of `ShmTalk`,
`TableAgrees` and `Delivery` of `ChatRoom` violated (section 7), and the steps
that the lock makes one in the model are no longer one in the code.  The mutual exclusion of
`ChatRoom` needs none, since a late `memset` does not touch the semaphore and
nobody is inside before `SETVAL`.  `ChatAssumption` has `0 \notin User`, because
0 marks an empty slot of the table; process ids, which the code stores there,
are positive.  The other assumptions say which constants are numbers and that
sets of users are finite.

### Deadlock

The liveness properties need fairness, which the prover does not have.  Half of
each is safety: no reachable state is one in which somebody is in the middle of
something and nobody can go on.  `NoDeadlock` says that, in each proof module for
its own program.  It names what each process waits for as a predicate on the
state (`Can`, `ClientCan`, `ServerCan`, `Starts`, `Sends`, `Takes`), the guard of its
next action in place of `ENABLED`, and it names the exceptions, which are the
deadlocks the programs have:

| Program | Who is busy | The exceptions |
|---|---|---|
| `FinalTalk` | anybody between the keyboard and the end of a broadcast, in a login or a logout, or with a numbered message not heard yet | a sender before a full queue; kills; numbers used up |
| `TokenTalk` | anybody at the barrier, injecting, waiting for the token or sending | a full queue whose messages are all for receivers that have ended; kills |
| `ChatRoom` | anybody not at the keyboard, not waiting for a message or a child, not gone | a sender that holds the lock before the full queue of a user in cleanup, as in `chatroom_stuck`; Ctrl+C |
| `Ftp` | the client, when it is not at its prompt | `ReplyMissing` |

`ReceiversEnd`, `QuitLeaves`, `LeavesOrHeldUp` and `CommandEndsOrWaits`, the other
half, are checked by TLC.  The exception of the room, `HeldUp`, is one predicate
for both halves: `DeadlockFree` shows that nothing else stops everybody,
`LeavesOrHeldUp` that nothing else keeps anybody in.

### FinalTalk

None of these invariants is inductive alone.  The argument is built in layers,
each an invariant that may use the ones below:

1. *Types and control* (`TypeOK`, `Control`): which places of main, receiver and
   sender go together; a user has an id exactly between login and logout.
2. *Setup*: the semaphore is created, then set, once; only its creator is
   between the two.
3. *The lock* (`LockHeldByOne`).  It needs `Setup`, because before `SETVAL` the
   value 0 does not mean that somebody is inside; the undo of a kill is its
   only case that is not a `P` or a `V`.
4. *The slots* (`Slots`, `IdsAgree`).  `total` counts those between the two
   writes of a login already, and not those between the two of a logout; with
   the lock at most one user is there, which makes the two writes act as one
   for everybody else.  That a free id exists at a login is a count: fewer
   users hold an id than there are ids.
5. *The order* (`Ordered`): while the numbers last, `msgn` is the length of
   `log`, and every copy in the queue or still to be sent is the entry of `log`
   with its number.  So whatever `msgrcv` returns for a number is that entry,
   although the copies overtake each other.  `AgreedOrder` and the refinement
   follow.
6. *Own messages* (`OwnAhead`, `QuitOwn`): a message with the id of a user that
   lies ahead of the user's receiver was typed by that user and not by an
   earlier owner of the id, because the receiver started at or after
   everything the earlier owner sent.
7. *The copies* (`EnoughStep`): for each number, copies in the queue plus copies
   unsent against the receivers that have not passed it.  The count starts at
   `total`, which is at least the number of receivers by layer 4; a send moves
   one copy from one summand to the other; a receive takes one copy and one
   waiting receiver; a receiver that starts is past every number given out.
8. *No deadlock*.  A receiver that has not heard a number is counted by layer 7,
   so there is a copy of it in the queue, and the first one is the one `msgrcv`
   takes, or its sender has still to send one.  Whoever waits for the lock waits
   for a process inside, where only layer 4 is needed to see that a login finds
   its id, or for `SETVAL`, whose process is there unless killed (`Creator`).
   `CopiesLeft` says that no broadcast counts below 0, where it would never end.

### ShmTalk

`user_count` is the hard part: main loads and stores it in two steps, it is
counted down on the way out, and a killed user never counts itself out.
`Entering` bounds it from both sides: with those still to come it is at most
`N`, so it reaches `N` only when nobody is; and it is at least the number of
users inside, so it reaches 0 only when nobody else is.  The removal follows.
`BarrierHolds` alone needs less, and no order of the launch (`Coming`): a user
that loads `user_count` is itself still to come, so its late store counts none
of the others.  `Entering` needs `LockSet`, since a load and its store are one
step for everybody else only under the lock, and `LockSet` needs it in turn,
since `SETVAL` and `memset` come only when `user_count` is 0.  `Numbers` ties
`global_seq` to the history and the writer inside the lock to the last message;
with it `RingIntegrity` is inductive, and gives `ReadsRight`: `SameOrder` is false
in the two cases `ReadsRight` leaves out, the message that is being written and the
reader a whole ring behind, and in no other.  `Quits` says which flag belongs to which
place; that a user past its loop has seen all flags set gives `EndTogether`.  `Settled`
makes the two bounds of `Entering` one number while nobody is killed, so that the
barrier does open and the last one out does remove the objects.

### TokenTalk

`Tokens` counts with the tokens in the queue and in senders' hands the one that
user 1 has still to inject (`Owed`), or the injection would break the bound.
`Exact` makes the bound an equality while nobody is killed: the token is never
lost, which the wait for it rests on, and the barrier counts all who came.
`Starting` compares the check-ins in the queue with the users that have checked
in: while somebody is out there is nothing but check-ins in the queue, so the
count the barrier makes is theirs.  `Order` says that the token at the head
carries the length of the history, and its holder the last entry.  `Delivery` is
`NothingLost` and one fact more: a receiver that is still on the holder's list
has only earlier numbers, which keeps its own in order when the copy comes.

For the refinement `TakesNext` derives from `Order` and `Delivery` that the head
of an inbox is the next message of the others after the one heard last: one in
between would be among those given, with its own number, and the numbers rise.
`Ready` adds that a user has a receiver as soon as it is past the start, so that
a receiver begins only once, and one that has stopped does not begin again.

### ChatRoom

`Base` (`TypeOK`, `LockSet`, `Ids`) is inductive for any launch and any Ctrl+C:
each action is one of a few moves of the lock (take it, give it back, move
without it, end and give it back), each proved once for any process.  `Ids` says
that a slot of the table with a user in it is the one the user knows as its
own, also for the cleanup that runs in a child.  `Creating` says that nothing
has happened while the creator initialises; `Numbers` what a broadcast has not
reached yet, so that every queue can take the number in hand; `Table` that
without Ctrl+C no process is in a handler, and the count is the cardinality of
the taken slots.

`Delivery` is `Numbers` and `Reaches`.  The slots a broadcast has passed can only
change hands by a login or a cleanup, which the lock keeps out; a receiver may
take the message and, being at most as far as the number in hand, takes no later
one before the broadcast ends.  `Forks` keeps a user that is new in the table from
having a receiver that has read something.

With Ctrl+C two or three cleanups count one user out, and empty its slot once.
So the count is at most the number of slots taken (`Count`), and whoever finds
the count at `MAX_USERS` finds the table full.  The inverse fails, and is why
`HasRoom` is needed.

`Waiting` is what the waits rest on without Ctrl+C: the holder of the semaphore is
inside a critical section, and where main waits for its sender the receiver is
alive, so that a full queue is emptied, except that of a user in cleanup.

### Ftp

`Dialogue` lists for each place of the client where the server can be and what
is under way in the control stream; it is `InStep` written out until every step
keeps it.  `Broken` is the same for a killed server.  `Transfer` accounts for the
blocks: taken, under way and still to be sent they are the whole listing or
file, until the client drops the connection.  `Answered` says when the control
stream can be empty both ways with the client waiting: never but for the two
cases of `ReplyMissing`.

### Replays

One proof for both versions, and without a hypothesis.  `Control`, `Starting`
and `Memory` are what is known whatever happened to the log: which places of
parent, program and handler go together, that a starting program has read
nothing, and what it has read back from the file by then.  `Faith` holds unless
the log is torn, in five parts: `Readable` (the inputs of this life and those
kept are what the test program asks for, so that a replayed input has the size
that is read), `Kept` (a dead program's log starts with the inputs to keep),
`Replayed` (a replaying program has read a prefix of them, at the right byte),
`Recorded` (a recording one has logged what it read, and shares with the last
life what it replayed) and `Filed` (the same of `LOG1`).  The central lemmas are
`NextReplayed`, that the bytes at the program's position are those of the next
kept input, whole and of the size asked for, and `KeepsLog`, that at any place a
kill finds the log as `ToKeep` says.

Offsets are sums over the inputs, and the place in the test program's loops is
a function of all inputs before: both are recursive functions.  The induction
theorems of the library take operators, which the provers here cannot
instantiate; `NatInSet` does induction over a set of numbers instead, from
`WFMin`, and `Recursion` unfolds a recursive function on `0..n` with it.  What
is needed of sums and places (`EndsAre`, `PlacesAre`, `EndsGrow`,
`SameBeginning`, `AppendIs`, `SpelledSame`) follows from these two.

### What is only model-checked

- The liveness properties (`QuitLeaves`, `EveryoneStarts`, `QuitEnds`, `LineSent`,
  `ReceiversEnd`, `LeavesOrHeldUp`, `CommandEndsOrWaits`, `Supervised`,
  `EveryoneEnds`): the prover has no `ENABLED` and so no fairness.
- The invariants of `Labs` (`PrintsRight`, `NothingLeft`): the programs are
  sequences of calls, put together by folds and walked through by an
  interpreter, so what a process has done so far is a function of a sequence
  and would be proved by induction over it.  They are fixed lists with fixed
  numbers of processes, so TLC's instance is nearly all there is, but for the
  turns of their loops.
- The properties that the code violates (section 4).

## 6. What is not modelled

- A second lifetime of the objects in `FinalTalk`, `ShmTalk` and `ChatRoom`
  (`TokenTalk` has a relaunch on a queue that survived).
- Kills of a single process of a user in `FinalTalk` and `TokenTalk`: the
  terminal takes all of them.
- In `final/5.c`, the end of input at `fgets` (125), which repeats the last
  line for ever, and a failing `semget` at line 56.
- The bytes of FTP replies beyond their code, an end of input at the client's
  prompt, and an `accept` on the data port that fails: the client always
  connects before it sends the command.
- In `hw3/3-3/5.c`, the failure branch of the receiver's `msgrcv` (109-112): a
  user's queue is removed only after its receiver was killed or is itself in
  `cleanup`, so the branch is never taken.
- In `hw2/a/myio4.h`, `r_printf` (168-178), which changes nothing, an end of input
  at `scanf`, and a log beyond its 65528 bytes, which the code does not check.
  The two counts are written in the order of the source, as an unoptimised
  build does.
- In `hw2/myio3.h`, the same, and: the uninitialised `sa_flags` and `sa_mask` of the
  `sigaction` in `r_init` (51-53), taken to be without effect; an `execl` that
  fails, after which the program would go on without its memory.
- `hw2/myio4.h`, an unfinished step between the two versions.  Its segment has a
  key and outlives the program, and `init_done` in it is never reset, so after
  the first start `r_init` returns at line 110, without a handler and without
  asking; what follows is reached only after somebody has removed the segment by
  hand.  The parent takes the default action on `SIGINT` and dies with its child,
  and after a normal end it starts the program anew.
- In the exercises: seconds (`sleep`, the alarms of `LAB10-27`), the text of the
  messages, and a compiler that would hoist `*pid` out of the loops
  `while(*pid==0);`.  The comma missing in line 10 of
  `LAB11-05/test1105_1_a.c` is taken as written.  `mkfifo` of the one terminal
  comes before the `open` of the other.  `LAB10-29/test1029_2_*.c` and
  `LAB09-24` depend on time or share nothing; `lab/fifo.c` reads on for ever after
  its writer has left, and `LAB12-01/test1201_2.c` ends in the middle.
- Failures of `shmget`, `shmat`, `msgget`, `fork`: the programs print an
  error and exit before they have joined anything, or do not look.
- The components listed as not modelled in section 1.

## 7. What the models do that no run claims

Writing the models down shows paths on which the code gives no guarantee.  The
models take them, the properties above are worded so that they hold in spite of
them or exclude them by name, and a reader of the code should know them:

- `final/5.c`: a user is counted at login (73) and its receiver reads `msgn`
  later (157), so a message sent between the two has a copy for a user who
  starts behind it; the copy stays in the queue.  The last user removes the
  objects (104-112) although another may have attached and wait for the lock; its
  `semop` fails unchecked.  A kill between `semget` and `SETVAL` (51-53) leaves
  the semaphore at 0.  A kill between the two writes of a login or logout leaves
  `total` and `ids` apart.
- `hw3/talk.c`: without the ordered launch two first users wipe each other's
  entry (108-112) and nobody passes the barrier.  A user that leaves the barrier
  late takes a `global_seq` that is no longer 0 (128) and misses messages.
- `hw3/5.c`: a `talk_quit` ends the receivers (47-51), but only its own sender
  (105); the others stay at the keyboard.  User 1 started again inserts a second
  token (173), and the barrier counts what an earlier life left in the queue.
- `hw3/3-3/5.c`: the creator clears the table after it opened the semaphore
  (174-178).  Ctrl+C starts `cleanup` in main and in the children, which
  inherited the handler (164); each counts the user out, and `user_count`
  drifts, downwards (`RejectCorrect`).  The count is looked at again after the lock is released (93).  A
  handler that interrupts its own process inside the lock waits for itself (74).
- `com`: a read that returns 150 and 226 together leaves the client waiting at
  136 or 168 for a reply it has already taken; `ReplyMissing` names that state,
  and the one after a failed `bind`, which the server does not answer.  After a
  550 the client prints that the download is complete (164).
- `hw2/a/myio4.h`: a child killed after its first input's bytes are counted
  (147, 154, 161) and before the input is leaves bytes that belong to no input.  Its
  successor finds no input, asks nothing (65) and writes behind them, and a
  later replay returns the abandoned input in place of the one typed.  The same
  happens between 78 and 79 and between 182 and 183, and a kill between 130 and
  132 leaves a number of inputs that the bytes are too few for: `r_scanf` then
  returns 0 (123) for all of the rest, which the program does not look at.  `torn`
  names these; after any other kill the replay is exact, one in the middle of
  logging a later input included, because the replay cuts the bytes (130).
- `hw2/myio3.h`: the handler opens `LOG1` with `O_TRUNC` before it asks whether there
  is a log to write (33-34).  A Ctrl+C between `sigaction` and the end of reading
  `LOG1` (53-82) replaces the log by an empty one, by "no inputs", or by a number
  without bytes, and so does a kill inside the handler; in the last case `r_scanf`
  returns 0 for all of the program (117).  The answer 0 prints that 0 inputs are
  restored (93) but leaves all of them in the log (no counterpart of lines 76-81
  of `hw2/a/myio4.h`), and new input is logged behind them.  A program executed by
  the handler ignores every further Ctrl+C, since exec keeps the blocked signal.
  A Ctrl+C between `unlink` and the removal of the memory (169-173) brings the log
  of a finished program back.
- `LAB10-22`, `LAB10-29`, `LAB11-10`: a signal that comes before its target is in
  pause is lost, or kills a target without handler; the target, and whoever
  waits for it, then waits for ever.  The reader of `LAB10-29` takes the length
  after it wrote, so text that arrives between 27 and 28 is never shown.
- `LAB11-26`: increments between the other process's `semget` and its `SETVAL`
  (16-22) are taken back, and the reader waits for ever.
- `LAB11-03/test1103_1.c`: a `-1` among the dealt numbers ends a child; dealing to
  it again ends main with `SIGPIPE`, and the other children, which do not look at
  what `read` returns (12), print their last number for ever.
