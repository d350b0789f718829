-------------------------------- MODULE Ftp --------------------------------
(***************************************************************************)
(* com/ftp_server.c and com/ftp_client.c: one server, which serves one     *)
(* client at a time, and the client's sessions one after the other.  The   *)
(* control connection is a byte stream each way: what is sent in several   *)
(* pieces may arrive in one read, and both sides look only at the first    *)
(* line of what a read returns.  A transfer has a data connection of its   *)
(* own, which the client opens to the port the server announced.           *)
(***************************************************************************)
EXTENDS Integers, Sequences

CONSTANTS
  Coalesce,    \* a read may return several replies
  BindFails,   \* bind to the data port may fail (the port is still in use)
  CreateFails, \* the client's fopen of the target may fail
  MaxBlocks,   \* bound: blocks of a listing or a file
  MaxCommands, \* bound: list and get commands
  MaxSessions  \* bound: sessions

ASSUME FtpAssumption ==
  /\ Coalesce \in BOOLEAN /\ BindFails \in BOOLEAN /\ CreateFails \in BOOLEAN
  /\ MaxBlocks \in Nat /\ MaxCommands \in Nat /\ MaxSessions \in Nat

VARIABLES
  cpc, login, cmd, got,    \* client: state, login lines sent, command, blocks received
  spc, listening, blocks,  \* server: state, data port, blocks still to send
  cmds, replies,           \* the two directions of the control connection
  conn, data,              \* the data connection and the blocks in it
  size,                    \* history: blocks of the transfer, -1 for a missing file
  sessions, commands       \* sessions started, commands given

client == <<cpc, login, cmd, got>>
server == <<spc, listening, blocks>>
control == <<cmds, replies>>
dataconn == <<conn, data>>
bounds == <<sessions, commands>>
vars == <<client, server, control, dataconn, size, bounds>>

LoginLines == <<"USER", "PASS", "TYPE">>
LoginReply == [USER |-> "331", PASS |-> "230", TYPE |-> "200"]

Init ==
  /\ cpc = "out" /\ login = 0 /\ cmd = "LIST" /\ got = 0
  /\ spc = "accept" /\ listening = FALSE /\ blocks = 0
  /\ cmds = <<>> /\ replies = <<>> /\ conn = "none" /\ data = 0
  /\ size = 0 /\ sessions = 0 /\ commands = 0

-----------------------------------------------------------------------------
(* client *)

(* A read on the control connection: it takes what is there, or comes back *)
(* empty when the server is gone.                                          *)
ReadReply ==
  \/ /\ replies # <<>>
     /\ \E k \in 1..(IF Coalesce THEN Len(replies) ELSE 1) :
          replies' = SubSeq(replies, k + 1, Len(replies))
  \/ replies = <<>> /\ spc = "dead" /\ UNCHANGED replies

Connect ==
  /\ cpc = "out" /\ spc # "dead" /\ sessions < MaxSessions
  /\ sessions' = sessions + 1
  /\ cpc' = "login" /\ login' = 0
  /\ UNCHANGED <<cmd, got, server, control, dataconn, size, commands>>

Login ==
  /\ cpc = "login"
  /\ ReadReply
  /\ IF login < 3
       THEN /\ login' = login + 1 /\ cmds' = Append(cmds, LoginLines[login + 1])
            /\ UNCHANGED cpc
       ELSE cpc' = "prompt" /\ UNCHANGED <<login, cmds>>
  /\ UNCHANGED <<cmd, got, server, dataconn, size, bounds>>

(* fopen "wb": what was received before is not kept.                       *)
Appended == got    \* mutant
Truncated == 0

Command(c) ==
  /\ cpc = "prompt" /\ commands < MaxCommands
  /\ commands' = commands + 1
  /\ cmd' = c /\ cmds' = Append(cmds, "PASV") /\ cpc' = "pasv" /\ got' = Truncated
  /\ UNCHANGED <<login, server, replies, dataconn, size, sessions>>

Pasv ==
  /\ cpc = "pasv"
  /\ ReadReply
  /\ cpc' = IF replies # <<>> /\ Head(replies) = "227" THEN "connect" ELSE "prompt"
  /\ UNCHANGED <<login, cmd, got, server, cmds, dataconn, size, bounds>>

(* The address in the reply is always 127.0.0.1: elsewhere, or without a   *)
(* listener, the connection fails and the command is given up.             *)
OpenData ==
  /\ cpc = "connect"
  /\ \/ /\ listening /\ conn' = "queued" /\ data' = 0
        /\ cmds' = Append(cmds, cmd) /\ cpc' = "first"
     \/ cpc' = "prompt" /\ UNCHANGED <<cmds, dataconn>>
  /\ UNCHANGED <<login, cmd, got, server, replies, size, bounds>>

FirstReply ==
  /\ cpc = "first"
  /\ ReadReply
  /\ \/ cpc' = "data" /\ UNCHANGED dataconn
     \/ /\ CreateFails /\ cmd = "RETR"
        /\ cpc' = "final" /\ conn' = "dropped" /\ data' = 0
  /\ UNCHANGED <<login, cmd, got, server, cmds, size, bounds>>

ReadBlock ==
  /\ cpc = "data" /\ data > 0
  /\ data' = data - 1 /\ got' = got + 1
  /\ UNCHANGED <<cpc, login, cmd, server, control, conn, size, bounds>>

NothingYet == data = 0    \* mutant
EndOfData == data = 0 /\ conn = "closed"

CloseData ==
  /\ cpc = "data" /\ EndOfData
  /\ cpc' = "final"
  /\ UNCHANGED <<login, cmd, got, server, control, dataconn, size, bounds>>

NoFinalReply == UNCHANGED replies    \* mutant
FinalReply == ReadReply

Done ==
  /\ cpc = "final"
  /\ FinalReply
  /\ cpc' = "prompt"
  /\ UNCHANGED <<login, cmd, got, server, cmds, dataconn, size, bounds>>

Quit ==
  /\ cpc = "prompt"
  /\ cmds' = Append(cmds, "QUIT") /\ cpc' = "bye"
  /\ UNCHANGED <<login, cmd, got, server, replies, dataconn, size, bounds>>

Bye ==
  /\ cpc = "bye"
  /\ ReadReply
  /\ cpc' = "out"
  /\ UNCHANGED <<login, cmd, got, server, cmds, dataconn, size, bounds>>

-----------------------------------------------------------------------------
(* server *)

Reply(r) == replies' = Append(replies, r)

Accept ==
  /\ spc = "accept" /\ cpc = "login"
  /\ spc' = "command" /\ listening' = FALSE
  /\ Reply("220") /\ cmds' = <<>>
  /\ UNCHANGED <<client, blocks, dataconn, size, bounds>>

Handles(c) == spc = "command" /\ cmds # <<>> /\ Head(cmds) = c /\ cmds' = <<>>

ServeLogin(c) ==
  /\ Handles(c)
  /\ Reply(LoginReply[c])
  /\ UNCHANGED <<client, server, dataconn, size, bounds>>

(* When bind fails nothing is said to the client.                          *)
ServePasv ==
  /\ Handles("PASV")
  /\ \/ listening' = TRUE /\ Reply("227")
     \/ BindFails /\ listening' = FALSE /\ UNCHANGED replies
  /\ UNCHANGED <<client, spc, blocks, dataconn, size, bounds>>

ServeList ==
  /\ listening /\ conn = "queued" /\ Handles("LIST")
  /\ Reply("150")
  /\ \E n \in 1..MaxBlocks : blocks' = n /\ size' = n
  /\ conn' = "open" /\ spc' = "list"
  /\ UNCHANGED <<client, listening, data, bounds>>

ServeRetr ==
  /\ listening /\ conn \in {"queued", "dropped"} /\ Handles("RETR")
  /\ Reply("150")
  /\ \E n \in -1..MaxBlocks : size' = n /\ blocks' = IF n = -1 THEN 0 ELSE n
  /\ conn' = IF conn = "queued" THEN "open" ELSE conn
  /\ spc' = "retr"
  /\ UNCHANGED <<client, listening, data, bounds>>

SendBlock ==
  /\ spc \in {"list", "retr"} /\ blocks > 0 /\ conn = "open"
  /\ data' = data + 1 /\ blocks' = blocks - 1
  /\ UNCHANGED <<client, spc, listening, control, conn, size, bounds>>

(* To a connection the client has dropped the first send may succeed; the  *)
(* next raises SIGPIPE.                                                    *)
SendDropped ==
  /\ spc \in {"list", "retr"} /\ blocks > 0 /\ conn = "dropped"
  /\ blocks' = blocks - 1
  /\ spc' \in {spc, "dead"}
  /\ UNCHANGED <<client, listening, control, dataconn, size, bounds>>

LeftOpen == UNCHANGED conn    \* mutant
CloseConn == conn' = IF conn = "open" THEN "closed" ELSE conn

(* LIST closes the data connection before its final reply, RETR after it.  *)
EndList ==
  /\ spc = "list" /\ blocks = 0
  /\ CloseConn /\ listening' = FALSE /\ spc' = "226"
  /\ UNCHANGED <<client, blocks, control, data, size, bounds>>

ReplyList ==
  /\ spc = "226" /\ spc' = "command"
  /\ Reply("226")
  /\ UNCHANGED <<client, listening, blocks, cmds, dataconn, size, bounds>>

ReplyRetr ==
  /\ spc = "retr" /\ blocks = 0 /\ spc' = "close"
  /\ Reply(IF size = -1 THEN "550" ELSE "226")
  /\ UNCHANGED <<client, listening, blocks, cmds, dataconn, size, bounds>>

EndRetr ==
  /\ spc = "close" /\ spc' = "command"
  /\ CloseConn /\ listening' = FALSE
  /\ UNCHANGED <<client, blocks, control, data, size, bounds>>

ServeQuit ==
  /\ Handles("QUIT")
  /\ Reply("221")
  /\ spc' = "accept" /\ listening' = FALSE
  /\ UNCHANGED <<client, blocks, dataconn, size, bounds>>

ClientStep == Login \/ Pasv \/ OpenData \/ FirstReply \/ ReadBlock \/ CloseData \/ Done \/ Bye
ServerStep ==
  \/ Accept \/ (\E c \in {"USER", "PASS", "TYPE"} : ServeLogin(c)) \/ ServePasv
  \/ ServeList \/ ServeRetr
  \/ SendBlock \/ SendDropped \/ EndList \/ ReplyList \/ ReplyRetr \/ EndRetr \/ ServeQuit

Next == Connect \/ ClientStep \/ ServerStep \/ Quit \/ \E c \in {"LIST", "RETR"} : Command(c)

Spec == Init /\ [][Next]_vars

(* Both programs run; the user need not give a command.                    *)
FairSpec == Spec /\ WF_vars(ClientStep) /\ WF_vars(ServerStep)

-----------------------------------------------------------------------------
(* Typing. *)
TypeOK ==
  /\ cpc \in {"out", "login", "prompt", "pasv", "connect", "first", "data", "final", "bye"}
  /\ login \in 0..3 /\ cmd \in {"LIST", "RETR"} /\ got \in 0..MaxBlocks
  /\ spc \in {"accept", "command", "list", "226", "retr", "close", "dead"}
  /\ listening \in BOOLEAN /\ blocks \in 0..MaxBlocks
  /\ cmds \in Seq({"USER", "PASS", "TYPE", "PASV", "LIST", "RETR", "QUIT"})
  /\ replies \in Seq({"220", "331", "230", "200", "227", "150", "226", "550", "221"})
  /\ conn \in {"none", "queued", "open", "closed", "dropped"} /\ data \in 0..MaxBlocks
  /\ size \in -1..MaxBlocks /\ sessions \in 0..MaxSessions /\ commands \in 0..MaxCommands

(* The two sides stay in step, though neither looks at more than the first *)
(* line of a read: at the prompt no command and no reply is under way, and *)
(* each reply that waits is one the client expects there (ftp_client main, *)
(* handle_client), until a broken data connection kills the server.        *)
Expected == [out |-> {}, login |-> {"220", "331", "230", "200"}, prompt |-> {}, pasv |-> {"227"},
             connect |-> {}, first |-> {"150", "226", "550"}, data |-> {"226", "550"},
             final |-> {"226", "550"}, bye |-> {"221"}]
InStep == spc # "dead" =>
  /\ cpc = "prompt" => cmds = <<>> /\ spc \in {"command", "close"}
  /\ \A k \in DOMAIN replies : replies[k] \in Expected[cpc]
  /\ cpc = "first" /\ replies # <<>> => Head(replies) = "150"

(* A finished transfer is whole: the client stops reading only when it has *)
(* every block of the listing or file.                                     *)
WholeTransfer == cpc = "final" /\ conn # "dropped" =>
  blocks = 0 /\ data = 0 /\ got = IF size = -1 THEN 0 ELSE size

(* A command comes back to the prompt, or the client waits for a reply     *)
(* that was never sent, because bind failed, or that was taken with an     *)
(* earlier one, the server for the next command; nothing else holds either *)
(* up.                                                                     *)
ReplyMissing ==
  /\ replies = <<>> /\ cmds = <<>> /\ spc = "command"
  /\ (cpc = "pasv" /\ BindFails /\ ~listening) \/ (cpc = "final" /\ Coalesce)
CommandEndsOrWaits == cpc = "pasv" ~> cpc = "prompt" \/ ReplyMissing
=============================================================================
