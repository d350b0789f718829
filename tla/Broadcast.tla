----------------------------- MODULE Broadcast -----------------------------
(***************************************************************************)
(* What a talk with a token promises: the messages form one sequence, and  *)
(* a reader hears those of the others one after the other, from the very   *)
(* first on however late it starts, none left out and none twice, until it *)
(* has heard one that ends the talk.  Once the talk is closed nothing is   *)
(* promised.                                                               *)
(***************************************************************************)
EXTENDS Integers, Sequences

CONSTANTS
  Reader,
  Msg,      \* records; "from" is the reader that sends
  Ending,   \* the messages that end the talk
  NoMsg

VARIABLES
  open,     \* the promise holds
  posts,    \* the messages of the talk, in order
  place,    \* of each reader: not there yet, listening, gone for good
  pos,      \* how many messages lie behind each reader
  heard     \* the message each reader heard last

vars == <<open, posts, place, pos, heard>>

Init ==
  /\ open = TRUE
  /\ posts = <<>>
  /\ place = [r \in Reader |-> "none"]
  /\ pos = [r \in Reader |-> 0]
  /\ heard = [r \in Reader |-> NoMsg]

Post ==
  /\ Len(posts') = Len(posts) + 1
  /\ posts'[Len(posts')] \in Msg
  /\ posts' = Append(posts, posts'[Len(posts')])
  /\ UNCHANGED <<place, pos, heard>>

Listen(r) ==
  /\ place[r] = "none"
  /\ place' = [place EXCEPT ![r] = "recv"]
  /\ UNCHANGED <<posts, pos, heard>>

(* n is the next message of another reader after those behind r.           *)
NextFor(r, n) ==
  /\ n > pos[r] /\ posts[n].from # r
  /\ \A k \in (pos[r] + 1)..(n - 1) : posts[k].from = r

Hear(r) ==
  /\ place[r] = "recv"
  /\ \E n \in 1..Len(posts) :
       /\ NextFor(r, n)
       /\ heard' = [heard EXCEPT ![r] = posts[n]]
       /\ pos' = [pos EXCEPT ![r] = n]
       /\ place' = [place EXCEPT ![r] = IF posts[n] \in Ending THEN "done" ELSE "recv"]
  /\ UNCHANGED posts

Stop(r) ==
  /\ place[r] = "recv"
  /\ place' = [place EXCEPT ![r] = "done"]
  /\ UNCHANGED <<posts, pos, heard>>

InOrder == open /\ (Post \/ \E r \in Reader : Listen(r) \/ Hear(r) \/ Stop(r))

Next == open' => InOrder

Spec == Init /\ [][Next]_vars
=============================================================================
