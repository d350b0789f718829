----------------------------- MODULE TotalOrder -----------------------------
(***************************************************************************)
(* What the talk programs promise: the messages of a room form one         *)
(* sequence, and a reader hears them one after the other, none left out,   *)
(* from the moment it starts to listen.  When and how far a reader gets is *)
(* left open.  Once the room is closed nothing is promised.                *)
(***************************************************************************)
EXTENDS Integers, Sequences

CONSTANTS Reader, Msg, NoMsg

VARIABLES
  open,       \* the promise holds
  posts,      \* the messages of the room, in order
  listening,  \* the readers that take messages
  pos,        \* how many messages lie behind each reader
  heard       \* the message each reader heard last

vars == <<open, posts, listening, pos, heard>>

TypeOK ==
  /\ open \in BOOLEAN
  /\ posts \in Seq(Msg)
  /\ listening \subseteq Reader
  /\ pos \in [Reader -> Nat]
  /\ heard \in [Reader -> Msg \cup {NoMsg}]

Init ==
  /\ open = TRUE
  /\ posts = <<>>
  /\ listening = {}
  /\ pos = [r \in Reader |-> 0]
  /\ heard = [r \in Reader |-> NoMsg]

Post ==
  /\ \E m \in Msg : posts' = Append(posts, m)
  /\ UNCHANGED <<listening, pos, heard>>

Listen(r) ==
  /\ r \notin listening
  /\ listening' = listening \cup {r}
  /\ pos' = [pos EXCEPT ![r] = Len(posts)]
  /\ UNCHANGED <<posts, heard>>

(* A reader hears the message after its position; it may be its last.      *)
Hear(r) ==
  /\ r \in listening
  /\ pos[r] < Len(posts)
  /\ heard' = [heard EXCEPT ![r] = posts[pos[r] + 1]]
  /\ pos' = [pos EXCEPT ![r] = @ + 1]
  /\ listening' \in {listening, listening \ {r}}
  /\ UNCHANGED posts

Stop(r) ==
  /\ r \in listening
  /\ listening' = listening \ {r}
  /\ UNCHANGED <<posts, pos, heard>>

InOrder == open /\ (Post \/ \E r \in Reader : Listen(r) \/ Hear(r) \/ Stop(r))

Next == open' => InOrder

Spec == Init /\ [][Next]_vars
=============================================================================
