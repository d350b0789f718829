------------------------------ MODULE FtpProof ------------------------------
(***************************************************************************)
(* Proofs about Ftp, for listings and files of any size and any number of  *)
(* commands and sessions, whatever a read coalesces and whether bind and   *)
(* fopen fail or not.  The inductive invariant has these parts:            *)
(*   Dialogue  where the server is, and what is under way, for each place  *)
(*             of the client                                               *)
(*   Broken    how the client goes on when the server has been killed      *)
(*   Transfer  where the blocks of the listing or file are                 *)
(* and, for the freedom from deadlock, Answered: the data port is open for *)
(* a client that has connected, and why a reply can be missing.            *)
(***************************************************************************)
EXTENDS Ftp, SequenceTheorems, TLAPS

Greeting == {"220", "331", "230", "200"}
Final == {"226", "550"}

Dialogue == spc # "dead" =>
  /\ cpc = "out" => spc = "accept" /\ cmds = <<>> /\ replies = <<>>
  /\ cpc = "login" =>
       \/ spc = "accept" /\ cmds = <<>> /\ replies = <<>>
       \/ spc = "command" /\ cmds = <<>> /\ \E r \in Greeting : replies = <<r>>
       \/ spc = "command" /\ replies = <<>> /\ \E c \in {"USER", "PASS", "TYPE"} : cmds = <<c>>
  /\ cpc = "prompt" => spc \in {"command", "close"} /\ cmds = <<>> /\ replies = <<>>
  /\ cpc = "pasv" =>
       \/ spc \in {"command", "close"} /\ cmds = <<"PASV">> /\ replies = <<>>
       \/ spc = "command" /\ cmds = <<>> /\ (replies = <<>> \/ replies = <<"227">>)
  /\ cpc = "connect" => spc = "command" /\ cmds = <<>> /\ replies = <<>>
  /\ cpc = "first" =>
       \/ spc = "command" /\ cmds = <<cmd>> /\ replies = <<>> /\ conn = "queued"
       \/ spc \in {"list", "226", "retr"} /\ cmds = <<>> /\ replies = <<"150">>
       \/ spc \in {"close", "command"} /\ cmds = <<>> /\ \E f \in Final : replies = <<"150", f>>
  /\ cpc \in {"data", "final"} =>
       \/ spc \in {"list", "226", "retr"} /\ cmds = <<>> /\ replies = <<>>
       \/ spc \in {"close", "command"} /\ cmds = <<>>
          /\ (replies = <<>> \/ \E f \in Final : replies = <<f>>)
  /\ cpc = "bye" =>
       \/ spc \in {"command", "close"} /\ cmds = <<"QUIT">> /\ replies = <<>>
       \/ spc = "accept" /\ cmds = <<>> /\ replies = <<"221">>

Broken == spc = "dead" =>
  conn = "dropped" /\ replies = <<>> /\ cpc \in {"out", "prompt", "pasv", "final", "bye"}

Whole == IF size = -1 THEN 0 ELSE size

Transfer ==
  /\ conn = "queued" => cpc = "first" /\ cmds # <<>>
  /\ conn = "open" => cpc \in {"first", "data"} /\ spc \in {"list", "retr", "close"}
  /\ conn = "closed" => blocks = 0
  /\ spc \notin {"list", "retr", "dead"} => blocks = 0
  /\ cpc \in {"pasv", "connect"} => got = 0
  /\ cpc = "first" /\ conn = "queued" => got = 0 /\ data = 0
  /\ cpc \in {"first", "data"} => conn \in {"queued", "open", "closed"}
  /\ cpc \in {"first", "data", "final"} /\ conn \in {"open", "closed"} => got + data + blocks = Whole
  /\ cpc = "final" => conn = "dropped" \/ (conn = "closed" /\ data = 0)

IInv == TypeOK /\ Dialogue /\ Broken /\ Transfer

(* Sequences of at most two elements.                                      *)
LEMMA Short ==
  /\ \A a : <<a>> # <<>> /\ Head(<<a>>) = a /\ Len(<<a>>) = 1
  /\ \A a, b : <<a>> = <<b>> => a = b
  /\ \A a, b : <<a, b>> # <<>> /\ Head(<<a, b>>) = a /\ Len(<<a, b>>) = 2
  /\ \A a, b, c : <<a, b>> # <<c>>
  /\ \A a : Append(<<>>, a) = <<a>>
  /\ \A a, b : Append(<<a>>, b) = <<a, b>>
<1>1. \A a : <<a>> # <<>> /\ Head(<<a>>) = a /\ Len(<<a>>) = 1
  OBVIOUS
<1>2. \A a, b : <<a>> = <<b>> => a = b
  OBVIOUS
<1>3. \A a, b : <<a, b>> # <<>> /\ Head(<<a, b>>) = a /\ Len(<<a, b>>) = 2
  OBVIOUS
<1>4. \A a, b, c : <<a, b>> # <<c>>
  OBVIOUS
<1>5. \A a : Append(<<>>, a) = <<a>>
  OBVIOUS
<1>6. ASSUME NEW a, NEW b PROVE Append(<<a>>, b) = <<a, b>>
  <2> DEFINE s == Append(<<a>>, b)
             t == <<a, b>>
  <2>1. /\ s \in Seq({a, b}) /\ t \in Seq({a, b}) /\ Len(s) = 2 /\ Len(t) = 2
        /\ s[1] = a /\ s[2] = b /\ t[1] = a /\ t[2] = b
    OBVIOUS
  <2> HIDE DEF s, t
  <2>2. \A k \in 1..2 : k = 1 \/ k = 2
    OBVIOUS
  <2>3. s = t
    BY <2>1, <2>2, SeqEqual
  <2> QED BY <2>3 DEF s, t
<1> QED BY <1>1, <1>2, <1>3, <1>4, <1>5, <1>6

(* A read takes the only reply, and of two the first or both.              *)
LEMMA ReadFacts ==
  ASSUME ReadReply
  PROVE  /\ spc # "dead" => replies # <<>>
         /\ replies = <<>> => replies' = <<>>
         /\ \A a : replies = <<a>> => replies' = <<>>
         /\ \A a, b : replies = <<a, b>> => replies' = <<b>> \/ (replies' = <<>> /\ Coalesce)
<1>1. spc # "dead" => replies # <<>>
  BY DEF ReadReply
<1>2. replies = <<>> => replies' = <<>>
  BY DEF ReadReply
<1>3. \A s : s # <<>> /\ replies = s =>
        \E k \in 1..(IF Coalesce THEN Len(s) ELSE 1) : replies' = SubSeq(s, k + 1, Len(s))
  BY DEF ReadReply
<1>4. ASSUME NEW a, replies = <<a>> PROVE replies' = <<>>
  <2>1. \E k \in 1..1 : replies' = SubSeq(<<a>>, k + 1, 1)
    <3>1. <<a>> # <<>> /\ Len(<<a>>) = 1
      BY Short
    <3>2. \E k \in 1..(IF Coalesce THEN Len(<<a>>) ELSE 1) :
            replies' = SubSeq(<<a>>, k + 1, Len(<<a>>))
      BY <1>3, <1>4, <3>1
    <3> QED BY <3>1, <3>2
  <2>2. SubSeq(<<a>>, 2, 1) = <<>>
    OBVIOUS
  <2> QED BY <2>1, <2>2
<1>5. ASSUME NEW a, NEW b, replies = <<a, b>>
      PROVE  replies' = <<b>> \/ (replies' = <<>> /\ Coalesce)
  <2>1. \E k \in 1..(IF Coalesce THEN 2 ELSE 1) : replies' = SubSeq(<<a, b>>, k + 1, 2)
    <3>1. <<a, b>> # <<>> /\ Len(<<a, b>>) = 2
      BY Short
    <3>2. \E k \in 1..(IF Coalesce THEN Len(<<a, b>>) ELSE 1) :
            replies' = SubSeq(<<a, b>>, k + 1, Len(<<a, b>>))
      BY <1>3, <1>5, <3>1
    <3> QED BY <3>1, <3>2
  <2>2. SubSeq(<<a, b>>, 3, 2) = <<>>
    OBVIOUS
  <2>3. SubSeq(<<a, b>>, 2, 2) = <<b>>
    <3> DEFINE s == SubSeq(<<a, b>>, 2, 2)
               t == <<b>>
    <3>1. /\ s \in Seq({a, b}) /\ t \in Seq({a, b}) /\ Len(s) = 1 /\ Len(t) = 1
          /\ s[1] = b /\ t[1] = b
      OBVIOUS
    <3> HIDE DEF s, t
    <3>2. \A k \in 1..1 : k = 1
      OBVIOUS
    <3>3. s = t
      BY <3>1, <3>2, SeqEqual
    <3> QED BY <3>3 DEF s, t
  <2>4. \A k \in 1..(IF Coalesce THEN 2 ELSE 1) : k + 1 = 2 \/ (k + 1 = 3 /\ Coalesce)
    OBVIOUS
  <2> QED BY <2>1, <2>2, <2>3, <2>4
<1> QED BY <1>1, <1>2, <1>4, <1>5

(* The server looks at a command only when it is the only one on its way.  *)
LEMMA HandlesFacts ==
  ASSUME TypeOK, Dialogue, NEW c, Handles(c)
  PROVE  /\ spc = "command" /\ cmds = <<c>> /\ cmds' = <<>> /\ replies = <<>>
         /\ \/ cpc = "login" /\ c \in {"USER", "PASS", "TYPE"}
            \/ cpc = "pasv" /\ c = "PASV"
            \/ cpc = "first" /\ c = cmd /\ conn = "queued"
            \/ cpc = "bye" /\ c = "QUIT"
<1>1. spc = "command" /\ cmds # <<>> /\ Head(cmds) = c /\ cmds' = <<>>
  BY DEF Handles
<1> QED BY <1>1, Short DEF Dialogue, TypeOK

LEMMA ClientDialogue ==
  ASSUME TypeOK, Dialogue, Broken, Transfer,
         ClientStep \/ Connect \/ Quit \/ \E c \in {"LIST", "RETR"} : Command(c)
  PROVE  Dialogue' /\ Broken'
<1> USE Short DEF client, server, control, dataconn, bounds
<1>1. CASE Connect
  BY <1>1 DEF Connect, Dialogue, Broken
<1>2. CASE Login
  <2>0. login < 3 => LoginLines[login + 1] \in {"USER", "PASS", "TYPE"}
    <3>1. login \in 0..3
      BY DEF TypeOK
    <3>2. login < 3 => login + 1 = 1 \/ login + 1 = 2 \/ login + 1 = 3
      BY <3>1
    <3>3. LoginLines[1] = "USER" /\ LoginLines[2] = "PASS" /\ LoginLines[3] = "TYPE"
      BY DEF LoginLines
    <3> QED BY <3>2, <3>3
  <2>1. /\ cpc = "login" /\ ReadReply /\ spc # "dead"
        /\ UNCHANGED <<spc, cmd, conn>>
        /\ \/ cpc' = "login" /\ \E c \in {"USER", "PASS", "TYPE"} : cmds' = Append(cmds, c)
           \/ cpc' = "prompt" /\ cmds' = cmds
    BY <1>2, <2>0 DEF Login, Broken
  <2>2. replies # <<>> /\ \A a : replies = <<a>> => replies' = <<>>
    BY <2>1, ReadFacts
  <2>3. spc = "command" /\ cmds = <<>> /\ \E r \in Greeting : replies = <<r>>
    BY <2>1, <2>2 DEF Dialogue
  <2>4. replies' = <<>>
    BY <2>2, <2>3
  <2> QED BY <2>1, <2>3, <2>4 DEF Dialogue, Broken
<1>3. CASE Pasv
  <2>0. cpc' = "prompt" \/ (cpc' = "connect" /\ replies # <<>>)
    BY <1>3 DEF Pasv
  <2>1. cpc = "pasv" /\ ReadReply /\ UNCHANGED <<spc, cmd, conn, cmds>>
    BY <1>3 DEF Pasv
  <2>2. CASE spc = "dead"
    BY <2>0, <2>1, <2>2, ReadFacts DEF Broken, Dialogue
  <2>3. CASE spc # "dead"
    BY <2>0, <2>1, <2>3, ReadFacts DEF Broken, Dialogue
  <2> QED BY <2>2, <2>3
<1>4. CASE OpenData
  BY <1>4 DEF OpenData, Dialogue, Broken
<1>5. CASE FirstReply
  <2>1. /\ cpc = "first" /\ ReadReply /\ UNCHANGED <<spc, cmds>> /\ spc # "dead"
        /\ cpc' \in {"data", "final"}
    BY <1>5 DEF FirstReply, Broken
  <2> QED BY <2>1, ReadFacts DEF Broken, Dialogue
<1>6. CASE ReadBlock
  BY <1>6 DEF ReadBlock, Dialogue, Broken
<1>7. CASE CloseData
  BY <1>7 DEF CloseData, Dialogue, Broken
<1>8. CASE Done
  <2>1. /\ cpc = "final" /\ ReadReply /\ UNCHANGED <<spc, cmds, conn>> /\ cpc' = "prompt"
    BY <1>8 DEF Done, FinalReply
  <2> QED BY <2>1, ReadFacts DEF Broken, Dialogue
<1>9. CASE Bye
  <2>1. /\ cpc = "bye" /\ ReadReply /\ UNCHANGED <<spc, cmds, conn>> /\ cpc' = "out"
    BY <1>9 DEF Bye
  <2> QED BY <2>1, ReadFacts DEF Broken, Dialogue
<1>10. CASE Quit
  BY <1>10 DEF Quit, Dialogue, Broken
<1>11. ASSUME NEW c \in {"LIST", "RETR"}, Command(c) PROVE Dialogue' /\ Broken'
  BY <1>11 DEF Command, Dialogue, Broken
<1> QED BY <1>1, <1>2, <1>3, <1>4, <1>5, <1>6, <1>7, <1>8, <1>9, <1>10, <1>11 DEF ClientStep

LEMMA ServerDialogue ==
  ASSUME TypeOK, Dialogue, Broken, Transfer, ServerStep
  PROVE  Dialogue' /\ Broken'
<1> USE Short DEF client, server, control, dataconn, bounds, Reply
<1>1. CASE Accept
  BY <1>1 DEF Accept, Dialogue, Broken, Greeting
<1>2. ASSUME NEW c \in {"USER", "PASS", "TYPE"}, ServeLogin(c) PROVE Dialogue' /\ Broken'
  <2>1. LoginReply[c] \in Greeting
    BY DEF LoginReply, Greeting
  <2>2. Handles(c) /\ replies' = Append(replies, LoginReply[c])
        /\ UNCHANGED <<cpc, spc, cmd, conn>>
    BY <1>2 DEF ServeLogin
  <2>3. /\ spc = "command" /\ cmds' = <<>> /\ replies = <<>> /\ cpc \in {"login", "first"}
        /\ (cpc = "first" => c = cmd)
    BY <2>2, HandlesFacts
  <2> QED BY <2>1, <2>2, <2>3 DEF Dialogue, Broken, TypeOK
<1>3. CASE ServePasv
  <2>1. Handles("PASV") /\ (replies' = Append(replies, "227") \/ replies' = replies)
        /\ UNCHANGED <<cpc, spc, cmd, conn>>
    BY <1>3 DEF ServePasv
  <2>2. spc = "command" /\ cmds' = <<>> /\ replies = <<>> /\ (cpc = "pasv" \/ cmd = "PASV")
    BY <2>1, HandlesFacts
  <2> QED BY <2>1, <2>2 DEF Dialogue, Broken, TypeOK
<1>4. CASE ServeList \/ ServeRetr
  <2>1. /\ Handles("LIST") \/ Handles("RETR")
        /\ replies' = Append(replies, "150") /\ spc' \in {"list", "retr"}
        /\ UNCHANGED <<cpc, cmd>>
    BY <1>4 DEF ServeList, ServeRetr
  <2>2. cmds' = <<>> /\ replies = <<>> /\ cpc = "first"
    BY <2>1, HandlesFacts
  <2> QED BY <2>1, <2>2 DEF Dialogue, Broken
<1>5. CASE SendBlock
  BY <1>5 DEF SendBlock, Dialogue, Broken
<1>6. CASE SendDropped
  <2>1. /\ spc \in {"list", "retr"} /\ conn = "dropped" /\ spc' \in {spc, "dead"}
        /\ UNCHANGED <<cpc, cmd, cmds, replies, conn>>
    BY <1>6 DEF SendDropped
  <2>2. cpc = "final" /\ replies = <<>>
    BY <2>1 DEF Dialogue, Transfer, TypeOK
  <2> QED BY <2>1, <2>2 DEF Dialogue, Broken
<1>7. CASE EndList
  BY <1>7 DEF EndList, CloseConn, Dialogue, Broken
<1>12. ASSUME NEW f \in Final, replies' = Append(replies, f), spc \in {"226", "retr"},
              spc' \in {"command", "close"}, UNCHANGED <<cpc, cmd, cmds, conn>>
       PROVE  Dialogue' /\ Broken'
  <2>1. cpc \in {"first", "data", "final"} /\ cmds = <<>>
    BY <1>12 DEF Dialogue, TypeOK
  <2>2. CASE cpc = "first"
    <3>1. replies = <<"150">>
      BY <1>12, <2>1, <2>2 DEF Dialogue
    <3>2. replies' = <<"150", f>>
      BY <1>12, <3>1
    <3> QED BY <1>12, <2>1, <2>2, <3>2 DEF Dialogue, Broken
  <2>3. CASE cpc # "first"
    <3>1. replies = <<>>
      BY <1>12, <2>1, <2>3 DEF Dialogue
    <3>2. replies' = <<f>>
      BY <1>12, <3>1
    <3> QED BY <1>12, <2>1, <2>3, <3>2 DEF Dialogue, Broken
  <2> QED BY <2>2, <2>3
<1>8. CASE ReplyList
  <2>1. spc = "226" /\ spc' = "command" /\ replies' = Append(replies, "226")
        /\ UNCHANGED <<cpc, cmd, cmds, conn>>
    BY <1>8 DEF ReplyList
  <2> QED BY <1>12, <2>1 DEF Final
<1>9. CASE ReplyRetr
  <2>1. spc = "retr" /\ spc' = "close" /\ UNCHANGED <<cpc, cmd, cmds, conn>>
        /\ (replies' = Append(replies, "226") \/ replies' = Append(replies, "550"))
    BY <1>9 DEF ReplyRetr
  <2> QED BY <1>12, <2>1 DEF Final
<1>10. CASE EndRetr
  BY <1>10 DEF EndRetr, CloseConn, Dialogue, Broken
<1>11. CASE ServeQuit
  <2>1. Handles("QUIT") /\ replies' = Append(replies, "221") /\ spc' = "accept"
        /\ UNCHANGED <<cpc, cmd, conn>>
    BY <1>11 DEF ServeQuit
  <2>2. cmds' = <<>> /\ replies = <<>> /\ (cpc = "bye" \/ cmd = "QUIT")
    BY <2>1, HandlesFacts
  <2> QED BY <2>1, <2>2 DEF Dialogue, Broken, TypeOK
<1> QED BY <1>1, <1>2, <1>3, <1>4, <1>5, <1>6, <1>7, <1>8, <1>9, <1>10, <1>11 DEF ServerStep

(* Where the blocks are. *)

LEMMA ClientTransfer ==
  ASSUME TypeOK, Dialogue, Broken, Transfer,
         ClientStep \/ Connect \/ Quit \/ \E c \in {"LIST", "RETR"} : Command(c)
  PROVE  Transfer'
<1> USE Short DEF client, server, control, dataconn, bounds
<1>0. got \in 0..MaxBlocks /\ data \in 0..MaxBlocks /\ blocks \in 0..MaxBlocks
      /\ size \in -1..MaxBlocks /\ MaxBlocks \in Nat
  BY FtpAssumption DEF TypeOK
<1>1. CASE Connect
  BY <1>1 DEF Connect, Transfer, Whole
<1>2. CASE Login
  <2>1. /\ cpc = "login" /\ cpc' \in {"login", "prompt"}
        /\ UNCHANGED <<got, spc, blocks, conn, data, size>>
    BY <1>2 DEF Login
  <2> QED BY <2>1 DEF Transfer, Whole
<1>3. CASE Pasv
  <2>1. /\ cpc = "pasv" /\ cpc' \in {"connect", "prompt"}
        /\ UNCHANGED <<got, spc, blocks, conn, data, size>>
    BY <1>3 DEF Pasv
  <2> QED BY <2>1 DEF Transfer, Whole
<1>4. CASE OpenData
  <2>1. CASE cpc' = "prompt" /\ UNCHANGED dataconn
    BY <1>4, <2>1 DEF OpenData, Transfer, Whole
  <2>2. CASE listening /\ conn' = "queued" /\ data' = 0
             /\ cmds' = Append(cmds, cmd) /\ cpc' = "first"
    <3>1. spc = "command" /\ got = 0 /\ cmds = <<>> /\ blocks = 0 /\ cmds' = <<cmd>>
      BY <1>4, <2>2 DEF OpenData, Dialogue, Broken, Transfer
    <3> QED BY <1>4, <2>2, <3>1 DEF OpenData, Transfer
  <2> QED BY <1>4, <2>1, <2>2 DEF OpenData
<1>5. CASE FirstReply
  <2>1. /\ cpc = "first" /\ ReadReply /\ UNCHANGED <<got, spc, blocks, size, cmds>>
        /\ \/ cpc' = "data" /\ UNCHANGED <<conn, data>>
           \/ cpc' = "final" /\ conn' = "dropped" /\ data' = 0
    BY <1>5 DEF FirstReply
  <2>2. conn # "queued"
    BY <2>1, ReadFacts DEF Dialogue, Broken, Transfer
  <2> QED BY <2>1, <2>2 DEF Transfer, Whole
<1>6. CASE ReadBlock
  <2>1. /\ cpc = "data" /\ data > 0 /\ data' = data - 1 /\ got' = got + 1
        /\ UNCHANGED <<cpc, spc, blocks, cmds, conn, size>>
    BY <1>6 DEF ReadBlock
  <2> QED BY <1>0, <2>1 DEF Transfer, Whole
<1>7. CASE CloseData
  BY <1>7 DEF CloseData, EndOfData, Transfer, Whole
<1>8. CASE Done
  <2>1. /\ cpc = "final" /\ cpc' = "prompt" /\ UNCHANGED <<got, spc, blocks, conn, data, size>>
    BY <1>8 DEF Done
  <2> QED BY <2>1 DEF Transfer, Whole
<1>9. CASE Bye
  <2>1. /\ cpc = "bye" /\ cpc' = "out" /\ UNCHANGED <<got, spc, blocks, conn, data, size>>
    BY <1>9 DEF Bye
  <2> QED BY <2>1 DEF Transfer, Whole
<1>10. CASE Quit
  BY <1>10 DEF Quit, Transfer, Whole
<1>11. ASSUME NEW c \in {"LIST", "RETR"}, Command(c) PROVE Transfer'
  <2>1. /\ cpc = "prompt" /\ cpc' = "pasv" /\ got' = 0
        /\ UNCHANGED <<spc, blocks, conn, data, size>>
    BY <1>11 DEF Command, Truncated
  <2> QED BY <2>1 DEF Transfer, Whole
<1> QED BY <1>1, <1>2, <1>3, <1>4, <1>5, <1>6, <1>7, <1>8, <1>9, <1>10, <1>11 DEF ClientStep

LEMMA ServerTransfer ==
  ASSUME TypeOK, Dialogue, Broken, Transfer, ServerStep
  PROVE  Transfer'
<1> USE DEF client, server, control, dataconn, bounds
<1>0. got \in 0..MaxBlocks /\ data \in 0..MaxBlocks /\ blocks \in 0..MaxBlocks
      /\ size \in -1..MaxBlocks /\ MaxBlocks \in Nat
  BY FtpAssumption DEF TypeOK
<1>1. CASE Accept
  BY <1>1 DEF Accept, Transfer, Whole
<1>2. ASSUME NEW c, Handles(c), c \notin {"LIST", "RETR"}, spc' \in {"command", "accept"},
             UNCHANGED <<cpc, got, blocks, conn, data, size>>
      PROVE  Transfer'
  <2>1. spc = "command" /\ cpc # "first"
    BY <1>2, HandlesFacts DEF TypeOK
  <2> QED BY <1>2, <2>1 DEF Transfer, Whole
<1>3. ASSUME NEW c \in {"USER", "PASS", "TYPE"}, ServeLogin(c) PROVE Transfer'
  <2>1. Handles(c) /\ UNCHANGED <<cpc, got, spc, blocks, conn, data, size>>
    BY <1>3 DEF ServeLogin
  <2> QED BY <1>2, <2>1 DEF Handles
<1>4. CASE ServePasv
  <2>1. Handles("PASV") /\ UNCHANGED <<cpc, got, spc, blocks, conn, data, size>>
    BY <1>4 DEF ServePasv
  <2> QED BY <1>2, <2>1 DEF Handles
<1>5. CASE ServeQuit
  <2>1. Handles("QUIT") /\ spc' = "accept" /\ UNCHANGED <<cpc, got, blocks, conn, data, size>>
    BY <1>5 DEF ServeQuit
  <2> QED BY <1>2, <2>1
<1>6. CASE ServeList \/ ServeRetr
  <2>1. /\ Handles("LIST") \/ Handles("RETR")
        /\ UNCHANGED <<cpc, got, data>>
        /\ conn = "queued" => conn' = "open"
        /\ spc' \in {"list", "retr"}
    BY <1>6 DEF ServeList, ServeRetr
  <2>5. blocks' = Whole'
    <3>1. CASE ServeList
      <4>1. \E n \in 1..MaxBlocks : blocks' = n /\ size' = n
        BY <3>1 DEF ServeList
      <4> QED BY <1>0, <4>1 DEF Whole
    <3>2. CASE ServeRetr
      <4>1. \E n \in -1..MaxBlocks : size' = n /\ blocks' = IF n = -1 THEN 0 ELSE n
        BY <3>2 DEF ServeRetr
      <4> QED BY <1>0, <4>1 DEF Whole
    <3> QED BY <1>6, <3>1, <3>2
  <2>2. cpc = "first" /\ conn = "queued"
    BY <2>1, HandlesFacts
  <2>3. got = 0 /\ data = 0
    BY <2>2 DEF Transfer
  <2>4. blocks' \in Int
    BY <1>0, <1>6 DEF ServeList, ServeRetr
  <2>6. got' + data' + blocks' = Whole'
    <3>1. got' = 0 /\ data' = 0
      BY <2>1, <2>3
    <3>2. \A n \in Int : 0 + 0 + n = n
      OBVIOUS
    <3>3. 0 + 0 + blocks' = blocks'
      BY <2>4, <3>2, Zenon
    <3>4. got' + data' + blocks' = blocks'
      BY <3>1, <3>3, Zenon
    <3> QED BY <2>5, <3>4
  <2>7. cpc' = "first" /\ conn' = "open"
    BY <2>1, <2>2
  <2> QED BY <2>1, <2>6, <2>7 DEF Transfer
<1>7. CASE SendBlock
  <2>1. /\ data' = data + 1 /\ blocks' = blocks - 1 /\ spc \in {"list", "retr"}
        /\ UNCHANGED <<cpc, got, spc, cmds, conn, size>> /\ conn = "open"
    BY <1>7 DEF SendBlock
  <2> QED BY <1>0, <2>1 DEF Transfer, Whole
<1>8. CASE SendDropped
  <2>1. /\ conn = "dropped" /\ UNCHANGED <<cpc, got, cmds, conn, data, size>>
        /\ spc \in {"list", "retr"} /\ spc' \in {"list", "retr", "dead"}
    BY <1>8 DEF SendDropped
  <2> QED BY <2>1 DEF Transfer
<1>9. CASE EndList
  <2>1. /\ spc = "list" /\ blocks = 0 /\ spc' = "226" /\ UNCHANGED <<cpc, got, cmds, blocks, data, size>>
        /\ conn' = IF conn = "open" THEN "closed" ELSE conn
    BY <1>9 DEF EndList, CloseConn
  <2> QED BY <2>1 DEF Transfer, Whole
<1>10. CASE ReplyList
  BY <1>10 DEF ReplyList, Transfer, Whole
<1>11. CASE ReplyRetr
  BY <1>11 DEF ReplyRetr, Transfer, Whole
<1>12. CASE EndRetr
  <2>1. /\ spc = "close" /\ spc' = "command" /\ UNCHANGED <<cpc, got, cmds, blocks, data, size>>
        /\ conn' = IF conn = "open" THEN "closed" ELSE conn
    BY <1>12 DEF EndRetr, CloseConn
  <2> QED BY <2>1 DEF Transfer, Whole
<1> QED BY <1>1, <1>3, <1>4, <1>5, <1>6, <1>7, <1>8, <1>9, <1>10, <1>11, <1>12 DEF ServerStep

-----------------------------------------------------------------------------
(* Typing. *)

Line == {"USER", "PASS", "TYPE", "PASV", "LIST", "RETR", "QUIT"}
Code == {"220", "331", "230", "200", "227", "150", "226", "550", "221"}

TypeRest ==
  /\ cpc \in {"out", "login", "prompt", "pasv", "connect", "first", "data", "final", "bye"}
  /\ login \in 0..3 /\ cmd \in {"LIST", "RETR"} /\ got \in 0..MaxBlocks
  /\ spc \in {"accept", "command", "list", "226", "retr", "close", "dead"}
  /\ blocks \in 0..MaxBlocks /\ cmds \in Seq(Line) /\ replies \in Seq(Code)
  /\ conn \in {"none", "queued", "open", "closed", "dropped"} /\ data \in 0..MaxBlocks
  /\ size \in -1..MaxBlocks /\ sessions \in 0..MaxSessions /\ commands \in 0..MaxCommands

(* What is left after a read is a sequence of replies.                     *)
LEMMA ReadTyped ==
  ASSUME TypeRest, ReadReply
  PROVE  replies' \in Seq(Code)
<1>1. replies \in Seq(Code)
  BY DEF TypeRest
<1>2. CASE replies' = replies
  BY <1>1, <1>2
<1>3. CASE \E k \in 1..(IF Coalesce THEN Len(replies) ELSE 1) :
             replies # <<>> /\ replies' = SubSeq(replies, k + 1, Len(replies))
  <2>1. PICK k \in Nat : k >= 1 /\ replies' = SubSeq(replies, k + 1, Len(replies))
    BY <1>1, <1>3
  <2>2. Len(replies) \in Nat /\ \A i \in (k + 1)..Len(replies) : replies[i] \in Code
    BY <1>1, <2>1
  <2> QED BY <2>1, <2>2, SubSeqProperties
<1> QED BY <1>2, <1>3 DEF ReadReply

LEMMA ClientTyped ==
  ASSUME TypeOK, Transfer, TypeRest,
         ClientStep \/ Connect \/ Quit \/ \E c \in {"LIST", "RETR"} : Command(c)
  PROVE  TypeRest'
<1> USE DEF client, server, control, dataconn, bounds
<1>0. MaxBlocks \in Nat /\ MaxSessions \in Nat /\ MaxCommands \in Nat
  BY FtpAssumption
<1>1. CASE Connect
  BY <1>0, <1>1 DEF Connect, TypeRest
<1>2. CASE Login
  <2>1. login \in 0..3 /\ cmds \in Seq(Line)
    BY DEF TypeRest
  <2>2. LoginLines[1] = "USER" /\ LoginLines[2] = "PASS" /\ LoginLines[3] = "TYPE"
    BY DEF LoginLines
  <2>3. login < 3 => login + 1 \in 0..3 /\ LoginLines[login + 1] \in Line
    <3>1. login < 3 => login + 1 = 1 \/ login + 1 = 2 \/ login + 1 = 3
      BY <2>1
    <3> QED BY <2>2, <3>1 DEF Line
  <2>4. login' \in 0..3 /\ cmds' \in Seq(Line)
    BY <1>2, <2>1, <2>3 DEF Login
  <2>5. replies' \in Seq(Code)
    BY <1>2, ReadTyped DEF Login
  <2>6. cpc' \in {"login", "prompt"}
        /\ UNCHANGED <<cmd, got, spc, blocks, conn, data, size, sessions, commands>>
    BY <1>2 DEF Login
  <2> QED BY <2>4, <2>5, <2>6 DEF TypeRest
<1>3. CASE Pasv
  <2>1. replies' \in Seq(Code)
    BY <1>3, ReadTyped DEF Pasv
  <2>2. cpc' \in {"connect", "prompt"}
        /\ UNCHANGED <<login, cmd, got, spc, blocks, cmds, conn, data, size, sessions, commands>>
    BY <1>3 DEF Pasv
  <2> QED BY <2>1, <2>2 DEF TypeRest
<1>4. CASE OpenData
  <2>1. UNCHANGED <<login, cmd, got, spc, blocks, replies, size, sessions, commands>>
    BY <1>4 DEF OpenData
  <2>2. cpc' \in {"first", "prompt"} /\ conn' \in {conn, "queued"} /\ data' \in {data, 0}
    BY <1>4 DEF OpenData
  <2>3. cmds' \in Seq(Line)
    <3>1. cmds \in Seq(Line) /\ cmd \in Line
      BY DEF TypeRest, Line
    <3> QED BY <1>4, <3>1 DEF OpenData
  <2> QED BY <1>0, <2>1, <2>2, <2>3 DEF TypeRest
<1>5. CASE FirstReply
  <2>1. replies' \in Seq(Code)
    BY <1>5, ReadTyped DEF FirstReply
  <2>2. cpc' \in {"data", "final"} /\ conn' \in {conn, "dropped"} /\ data' \in {data, 0}
        /\ UNCHANGED <<login, cmd, got, spc, blocks, cmds, size, sessions, commands>>
    BY <1>5 DEF FirstReply
  <2> QED BY <1>0, <2>1, <2>2 DEF TypeRest
<1>6. CASE ReadBlock
  <2>1. /\ cpc = "data" /\ data > 0 /\ data' = data - 1 /\ got' = got + 1
        /\ UNCHANGED <<cpc, login, cmd, spc, blocks, cmds, replies, conn, size, sessions,
                       commands>>
    BY <1>6 DEF ReadBlock
  <2>2. got + data + blocks = Whole
    BY <2>1 DEF Transfer
  <2>3. got' \in 0..MaxBlocks /\ data' \in 0..MaxBlocks
    BY <1>0, <2>1, <2>2 DEF TypeRest, Whole
  <2> QED BY <2>1, <2>3 DEF TypeRest
<1>7. CASE CloseData
  BY <1>7 DEF CloseData, TypeRest
<1>8. CASE Done
  <2>1. replies' \in Seq(Code)
    BY <1>8, ReadTyped DEF Done, FinalReply
  <2>2. cpc' = "prompt"
        /\ UNCHANGED <<login, cmd, got, spc, blocks, cmds, conn, data, size, sessions, commands>>
    BY <1>8 DEF Done
  <2> QED BY <2>1, <2>2 DEF TypeRest
<1>9. CASE Bye
  <2>1. replies' \in Seq(Code)
    BY <1>9, ReadTyped DEF Bye
  <2>2. cpc' = "out"
        /\ UNCHANGED <<login, cmd, got, spc, blocks, cmds, conn, data, size, sessions, commands>>
    BY <1>9 DEF Bye
  <2> QED BY <2>1, <2>2 DEF TypeRest
<1>10. CASE Quit
  <2>1. cmds' \in Seq(Line) /\ cpc' = "bye"
        /\ UNCHANGED <<login, cmd, got, spc, blocks, replies, conn, data, size, sessions, commands>>
    BY <1>10 DEF Quit, TypeRest, Line
  <2> QED BY <2>1 DEF TypeRest
<1>11. ASSUME NEW c \in {"LIST", "RETR"}, Command(c) PROVE TypeRest'
  <2>1. cmds' \in Seq(Line)
    BY <1>11 DEF Command, TypeRest, Line
  <2>2. /\ cpc' = "pasv" /\ got' = 0 /\ cmd' = c /\ commands < MaxCommands
        /\ commands' = commands + 1
        /\ UNCHANGED <<login, spc, blocks, replies, conn, data, size, sessions>>
    BY <1>11 DEF Command, Truncated
  <2> QED BY <1>0, <2>1, <2>2 DEF TypeRest
<1> QED BY <1>1, <1>2, <1>3, <1>4, <1>5, <1>6, <1>7, <1>8, <1>9, <1>10, <1>11 DEF ClientStep

LEMMA ServerTyped ==
  ASSUME TypeOK, Transfer, TypeRest, ServerStep
  PROVE  TypeRest'
<1> USE DEF client, server, control, dataconn, bounds
<1>0. MaxBlocks \in Nat
  BY FtpAssumption
<1>1. ASSUME NEW r \in Code, Reply(r) PROVE replies' \in Seq(Code)
  BY <1>1 DEF Reply, TypeRest
<1>2. <<>> \in Seq(Line)
  OBVIOUS
<1>3. CASE Accept
  <2>1. replies' \in Seq(Code)
    BY <1>1, <1>3 DEF Accept, Code
  <2> QED BY <1>2, <1>3, <2>1 DEF Accept, TypeRest
<1>4. ASSUME NEW c \in {"USER", "PASS", "TYPE"}, ServeLogin(c) PROVE TypeRest'
  <2>1. LoginReply[c] \in Code /\ Reply(LoginReply[c])
    BY <1>4 DEF ServeLogin, LoginReply, Code
  <2>2. replies' \in Seq(Code)
    BY <1>1, <2>1
  <2>3. cmds' = <<>> /\ UNCHANGED <<client, server, dataconn, size, bounds>>
    BY <1>4 DEF ServeLogin, Handles
  <2> QED BY <1>2, <2>2, <2>3 DEF TypeRest
<1>5. CASE ServePasv
  <2>1. Reply("227") \/ replies' = replies
    BY <1>5 DEF ServePasv
  <2>2. replies' \in Seq(Code)
    BY <1>1, <2>1 DEF Code, TypeRest
  <2>3. cmds' = <<>> /\ UNCHANGED <<client, spc, blocks, dataconn, size, bounds>>
    BY <1>5 DEF ServePasv, Handles
  <2> QED BY <1>2, <2>2, <2>3 DEF TypeRest
<1>6. CASE ServeList \/ ServeRetr
  <2>1. Reply("150") /\ cmds' = <<>> /\ UNCHANGED <<client, data, bounds>>
    BY <1>6 DEF ServeList, ServeRetr, Handles
  <2>2. replies' \in Seq(Code)
    BY <1>1, <2>1 DEF Code
  <2>3. spc' \in {"list", "retr"} /\ conn' \in {"open", conn}
    BY <1>6 DEF ServeList, ServeRetr
  <2>4. blocks' \in 0..MaxBlocks /\ size' \in -1..MaxBlocks
    <3>1. CASE ServeList
      BY <1>0, <3>1 DEF ServeList
    <3>2. CASE ServeRetr
      <4>1. \E n \in -1..MaxBlocks : size' = n /\ blocks' = IF n = -1 THEN 0 ELSE n
        BY <3>2 DEF ServeRetr
      <4> QED BY <1>0, <4>1
    <3> QED BY <1>6, <3>1, <3>2
  <2> QED BY <1>2, <2>1, <2>2, <2>3, <2>4 DEF TypeRest
<1>7. CASE SendBlock
  <2>1. /\ data' = data + 1 /\ blocks' = blocks - 1 /\ conn = "open" /\ blocks > 0
        /\ UNCHANGED <<client, spc, control, conn, size, bounds>>
    BY <1>7 DEF SendBlock
  <2>2. got + data + blocks = Whole
    BY <2>1 DEF Transfer
  <2>3. data' \in 0..MaxBlocks /\ blocks' \in 0..MaxBlocks
    BY <1>0, <2>1, <2>2 DEF TypeRest, Whole
  <2> QED BY <2>1, <2>3 DEF TypeRest
<1>8. CASE SendDropped
  <2>1. blocks' \in 0..MaxBlocks /\ spc' \in {spc, "dead"}
    BY <1>0, <1>8 DEF SendDropped, TypeRest
  <2>2. UNCHANGED <<client, control, dataconn, size, bounds>>
    BY <1>8 DEF SendDropped
  <2> QED BY <2>1, <2>2 DEF TypeRest
<1>9. CASE EndList \/ EndRetr
  <2>1. spc' \in {"226", "command"} /\ conn' \in {"closed", conn}
        /\ UNCHANGED <<client, blocks, control, data, size, bounds>>
    BY <1>9 DEF EndList, EndRetr, CloseConn
  <2> QED BY <2>1 DEF TypeRest
<1>10. CASE ReplyList \/ ReplyRetr
  <2>1. spc' \in {"command", "close"} /\ (Reply("226") \/ Reply("550"))
        /\ UNCHANGED <<client, blocks, cmds, dataconn, size, bounds>>
    BY <1>10 DEF ReplyList, ReplyRetr
  <2>2. replies' \in Seq(Code)
    BY <1>1, <2>1 DEF Code
  <2> QED BY <2>1, <2>2 DEF TypeRest
<1>11. CASE ServeQuit
  <2>1. Reply("221") /\ cmds' = <<>> /\ spc' = "accept"
        /\ UNCHANGED <<client, blocks, dataconn, size, bounds>>
    BY <1>11 DEF ServeQuit, Handles
  <2>2. replies' \in Seq(Code)
    BY <1>1, <2>1 DEF Code
  <2> QED BY <1>2, <2>1, <2>2 DEF TypeRest
<1> QED BY <1>3, <1>4, <1>5, <1>6, <1>7, <1>8, <1>9, <1>10, <1>11 DEF ServerStep

LEMMA Listens == ASSUME TypeOK, [Next]_vars PROVE listening' \in BOOLEAN
<1>1. CASE ServerStep
  <2>1. listening' = TRUE \/ listening' = FALSE \/ listening' = listening
    BY <1>1 DEF ServerStep, Accept, ServeLogin, ServePasv, ServeList, ServeRetr, SendBlock,
                SendDropped, EndList, ReplyList, ReplyRetr, EndRetr, ServeQuit, server
  <2> QED BY <2>1, Zenon DEF TypeOK
<1>2. CASE ClientStep \/ Connect \/ Quit \/ \E c \in {"LIST", "RETR"} : Command(c)
  <2>1. UNCHANGED server
    BY <1>2 DEF ClientStep, Connect, Quit, Command, Login, Pasv, OpenData, FirstReply, ReadBlock,
                CloseData, Done, Bye
  <2>2. listening' = listening
    BY <2>1 DEF server
  <2> QED BY <2>2, Zenon DEF TypeOK
<1>3. CASE UNCHANGED vars
  <2>1. listening' = listening
    BY <1>3 DEF vars, server
  <2> QED BY <2>1, Zenon DEF TypeOK
<1> QED BY <1>1, <1>2, <1>3 DEF Next

LEMMA Invariance == Spec => []IInv
<1>1. TypeOK <=> TypeRest /\ listening \in BOOLEAN
  BY DEF TypeOK, TypeRest, Line, Code
<1>2. ASSUME Init PROVE IInv
  <2>1. listening \in BOOLEAN
    BY <1>2 DEF Init
  <2>2. TypeRest
    BY <1>2, FtpAssumption DEF Init, TypeRest
  <2>3. Dialogue /\ Broken /\ Transfer
    BY <1>2 DEF Init, Dialogue, Broken, Transfer
  <2> QED BY <1>1, <2>1, <2>2, <2>3 DEF IInv
<1>3. ASSUME IInv, [Next]_vars PROVE IInv'
  <2>1. TypeOK /\ TypeRest /\ Dialogue /\ Broken /\ Transfer
    BY <1>1, <1>3 DEF IInv
  <2>2. ASSUME TypeRest' PROVE TypeOK'
    BY <1>3, <2>1, <2>2, Listens DEF TypeOK, TypeRest, Line, Code
  <2>3. CASE ClientStep \/ Connect \/ Quit \/ \E c \in {"LIST", "RETR"} : Command(c)
    BY <2>1, <2>2, <2>3, ClientTyped, ClientDialogue, ClientTransfer DEF IInv
  <2>4. CASE ServerStep
    BY <2>1, <2>2, <2>4, ServerTyped, ServerDialogue, ServerTransfer DEF IInv
  <2>5. CASE UNCHANGED vars
    <3>1. UNCHANGED <<cpc, login, cmd, got, spc, listening, blocks, cmds, replies, conn, data,
                      size, sessions, commands>>
      BY <2>5 DEF vars, client, server, control, dataconn, bounds
    <3>2. TypeRest' /\ Dialogue' /\ Broken' /\ Transfer'
      BY <2>1, <3>1 DEF TypeRest, Dialogue, Broken, Transfer, Whole
    <3> QED BY <2>2, <3>2 DEF IInv
  <2> QED BY <1>3, <2>3, <2>4, <2>5 DEF Next
<1> QED BY <1>2, <1>3, PTL DEF Spec

(* Every variable keeps its type; no block is counted twice.               *)
THEOREM TypeCorrect == Spec => []TypeOK
<1>1. IInv => TypeOK
  BY DEF IInv
<1> QED BY <1>1, Invariance, PTL

(* Client and server stay in step, whatever a read coalesces, as long as a *)
(* broken data connection has not killed the server (main of the client,   *)
(* handle_client).                                                         *)
THEOREM StepCorrect == Spec => []InStep
<1>1. ASSUME IInv PROVE InStep
  <2> SUFFICES ASSUME spc # "dead" PROVE
        /\ cpc = "prompt" => cmds = <<>> /\ spc \in {"command", "close"}
        /\ \A k \in DOMAIN replies : replies[k] \in Expected[cpc]
        /\ cpc = "first" /\ replies # <<>> => Head(replies) = "150"
    BY DEF InStep
  <2>1. cpc = "prompt" => cmds = <<>> /\ spc \in {"command", "close"}
    BY <1>1 DEF IInv, Dialogue
  <2>2. cpc = "first" /\ replies # <<>> => Head(replies) = "150"
    BY <1>1, Short DEF IInv, Dialogue
  <2>3. ASSUME NEW k \in DOMAIN replies PROVE replies[k] \in Expected[cpc]
    <3>1. replies # <<>>
      BY <2>3
    <3>2. \A a : replies = <<a>> => replies[k] = a
      BY <2>3
    <3>3. \A a, b : replies = <<a, b>> => replies[k] \in {a, b}
      BY <2>3
    <3>4. CASE cpc = "login"
      BY <1>1, <3>1, <3>2, <3>4 DEF IInv, Dialogue, Greeting, Expected
    <3>5. CASE cpc = "pasv"
      BY <1>1, <3>1, <3>2, <3>5 DEF IInv, Dialogue, Expected
    <3>6. CASE cpc = "first"
      BY <1>1, <3>1, <3>2, <3>3, <3>6 DEF IInv, Dialogue, Final, Expected
    <3>7. CASE cpc \in {"data", "final"}
      BY <1>1, <3>1, <3>2, <3>7 DEF IInv, Dialogue, Final, Expected
    <3>8. CASE cpc = "bye"
      BY <1>1, <3>1, <3>2, <3>8 DEF IInv, Dialogue, Expected
    <3>9. CASE cpc \in {"out", "prompt", "connect"}
      BY <1>1, <3>1, <3>9 DEF IInv, Dialogue
    <3> QED BY <1>1, <3>4, <3>5, <3>6, <3>7, <3>8, <3>9 DEF IInv, TypeOK
  <2> QED BY <2>1, <2>2, <2>3
<1> QED BY <1>1, Invariance, PTL

(* When the client stops reading a transfer it has every block of the      *)
(* listing or file, however long (the transfers of main and of             *)
(* handle_client).                                                         *)
THEOREM TransferCorrect == Spec => []WholeTransfer
<1>1. ASSUME IInv PROVE WholeTransfer
  <2> SUFFICES ASSUME cpc = "final", conn # "dropped" PROVE blocks = 0 /\ data = 0 /\ got = Whole
    BY DEF WholeTransfer, Whole
  <2>1. conn = "closed" /\ data = 0 /\ blocks = 0 /\ got + data + blocks = Whole
    BY <1>1 DEF IInv, Transfer
  <2>2. got \in Nat
    BY <1>1, FtpAssumption DEF IInv, TypeOK
  <2> QED BY <2>1, <2>2
<1> QED BY <1>1, Invariance, PTL

-----------------------------------------------------------------------------
(* No deadlock.                                                            *)
Answered ==
  /\ conn = "queued" => listening
  /\ cpc = "pasv" /\ cmds = <<>> /\ replies = <<>> => spc = "dead" \/ (BindFails /\ ~listening)
  /\ cpc \in {"data", "final"} /\ spc \in {"command", "close"} /\ replies = <<>> => Coalesce

(* What each side waits for is there.                                      *)
ClientCan ==
  \/ cpc \in {"login", "pasv", "first", "final", "bye"} /\ (replies # <<>> \/ spc = "dead")
  \/ cpc = "connect"
  \/ cpc = "data" /\ (data > 0 \/ EndOfData)
ServerCan ==
  \/ spc = "accept" /\ cpc = "login"
  \/ /\ spc = "command" /\ cmds # <<>>
     /\ Head(cmds) \in {"LIST", "RETR"} => listening
     /\ Head(cmds) = "LIST" => conn = "queued"
     /\ Head(cmds) = "RETR" => conn \in {"queued", "dropped"}
  \/ spc \in {"list", "retr"} /\ (blocks = 0 \/ conn \in {"open", "dropped"})
  \/ spc \in {"226", "close"}

(* In a session that is not at the prompt one of the two can go on, unless *)
(* the server could not bind its data port and said nothing, or the client *)
(* took the final reply with the first; without these two there is no      *)
(* deadlock, a dropped data connection and a missing file included.        *)
NoDeadlock == cpc \notin {"out", "prompt"} => ClientCan \/ ServerCan \/ ReplyMissing

LEMMA ClientAnswered ==
  ASSUME IInv, Answered, ClientStep \/ Connect \/ Quit \/ \E c \in {"LIST", "RETR"} : Command(c)
  PROVE  Answered'
<1> USE Short DEF client, server, control, dataconn, bounds
<1>0. TypeOK /\ Dialogue /\ Broken /\ Transfer
  BY DEF IInv
<1>1. CASE Connect \/ Login \/ Quit \/ Bye \/ Done
  <2>1. cpc' \in {"login", "prompt", "bye", "out"} /\ UNCHANGED <<conn, listening>>
    BY <1>1 DEF Connect, Login, Quit, Bye, Done
  <2> QED BY <2>1 DEF Answered
<1>2. CASE Pasv
  <2>1. cpc' \in {"connect", "prompt"} /\ UNCHANGED <<conn, listening>>
    BY <1>2 DEF Pasv
  <2> QED BY <2>1 DEF Answered
<1>3. CASE OpenData
  <2>1. \/ conn' = "queued" /\ listening /\ cpc' = "first"
        \/ cpc' = "prompt" /\ conn' = conn
    BY <1>3 DEF OpenData
  <2>2. listening' = listening
    BY <1>3 DEF OpenData
  <2> QED BY <2>1, <2>2 DEF Answered
<1>4. CASE FirstReply
  <2>1. /\ cpc = "first" /\ ReadReply /\ UNCHANGED <<spc, cmds, listening>> /\ spc # "dead"
        /\ cpc' \in {"data", "final"} /\ conn' \in {conn, "dropped"}
    BY <1>0, <1>4 DEF FirstReply, Broken
  <2>2. replies # <<>>
    BY <2>1, ReadFacts
  <2>3. ASSUME spc \in {"command", "close"}, replies' = <<>> PROVE Coalesce
    <3>1. PICK f \in Final : replies = <<"150", f>>
      BY <1>0, <2>1, <2>2, <2>3 DEF Dialogue
    <3> QED BY <2>1, <2>3, <3>1, ReadFacts
  <2> QED BY <2>1, <2>3 DEF Answered
<1>5. CASE ReadBlock \/ CloseData
  <2>1. cpc = "data" /\ cpc' \in {"data", "final"} /\ UNCHANGED <<spc, listening, cmds, replies, conn>>
    BY <1>5 DEF ReadBlock, CloseData
  <2> QED BY <2>1 DEF Answered
<1>6. ASSUME NEW c \in {"LIST", "RETR"}, Command(c) PROVE Answered'
  <2>1. cpc' = "pasv" /\ cmds' = Append(cmds, "PASV") /\ UNCHANGED <<conn, listening>>
    BY <1>6 DEF Command
  <2>2. cmds' # <<>>
    BY <1>0, <2>1 DEF TypeOK
  <2> QED BY <2>1, <2>2 DEF Answered
<1> QED BY <1>1, <1>2, <1>3, <1>4, <1>5, <1>6 DEF ClientStep

LEMMA ServerAnswered ==
  ASSUME IInv, Answered, ServerStep
  PROVE  Answered'
<1> USE Short DEF client, server, control, dataconn, bounds, Reply
<1>0. TypeOK /\ Dialogue /\ Broken /\ Transfer
  BY DEF IInv
<1>a. ASSUME NEW r, replies' = Append(replies, r) PROVE replies' # <<>>
  BY <1>0, <1>a DEF TypeOK
<1>1. CASE Accept
  <2>1. cpc' = "login" /\ conn' = conn /\ cpc = "login"
    BY <1>1 DEF Accept
  <2> QED BY <1>0, <2>1 DEF Answered, Transfer
<1>2. ASSUME NEW c \in {"USER", "PASS", "TYPE"}, ServeLogin(c) PROVE Answered'
  <2>1. replies' = Append(replies, LoginReply[c]) /\ UNCHANGED <<conn, listening>>
    BY <1>2 DEF ServeLogin
  <2> QED BY <1>a, <2>1 DEF Answered
<1>3. CASE ServePasv
  <2>1. Handles("PASV") /\ UNCHANGED <<cpc, spc, cmd, conn>>
        /\ \/ replies' = Append(replies, "227")
           \/ BindFails /\ listening' = FALSE /\ replies' = replies
    BY <1>3 DEF ServePasv
  <2>2. cpc = "pasv"
    <3>1. cmd # "PASV"
      BY <1>0 DEF TypeOK
    <3> QED BY <1>0, <2>1, <3>1, HandlesFacts
  <2>3. conn' # "queued"
    BY <1>0, <2>1, <2>2 DEF Transfer
  <2> QED BY <1>a, <2>1, <2>2, <2>3 DEF Answered
<1>4. CASE ServeList \/ ServeRetr
  <2>1. replies' = Append(replies, "150") /\ listening' = listening /\ listening
    BY <1>4 DEF ServeList, ServeRetr
  <2> QED BY <1>a, <2>1 DEF Answered
<1>5. CASE SendBlock
  BY <1>5 DEF SendBlock, Answered
<1>6. CASE SendDropped
  <2>1. /\ spc \in {"list", "retr"} /\ spc' \in {spc, "dead"}
        /\ UNCHANGED <<cpc, cmds, replies, conn, listening>>
    BY <1>6 DEF SendDropped
  <2> QED BY <2>1 DEF Answered
<1>7. CASE EndList \/ EndRetr
  <2>1. /\ spc \in {"list", "close"} /\ UNCHANGED <<cpc, cmds, replies>>
        /\ spc' = (IF spc = "list" THEN "226" ELSE "command")
        /\ conn' = IF conn = "open" THEN "closed" ELSE conn
    BY <1>7 DEF EndList, EndRetr, CloseConn
  <2>2. conn # "queued"
    BY <1>0, <2>1 DEF Transfer, Dialogue
  <2>3. cpc = "pasv" => cmds # <<>>
    BY <1>0, <2>1 DEF Dialogue
  <2> QED BY <2>1, <2>2, <2>3 DEF Answered
<1>8. CASE ReplyList \/ ReplyRetr
  <2>1. UNCHANGED <<conn, listening>> /\ \E r \in Final : replies' = Append(replies, r)
    BY <1>8 DEF ReplyList, ReplyRetr, Final
  <2> QED BY <1>a, <2>1 DEF Answered
<1>9. CASE ServeQuit
  <2>1. Handles("QUIT") /\ replies' = Append(replies, "221") /\ UNCHANGED <<cpc, cmd, conn>>
    BY <1>9 DEF ServeQuit
  <2>2. cpc # "first"
    <3>1. cmd # "QUIT"
      BY <1>0 DEF TypeOK
    <3> QED BY <1>0, <2>1, <3>1, HandlesFacts
  <2> QED BY <1>0, <1>a, <2>1, <2>2 DEF Answered, Transfer
<1> QED BY <1>1, <1>2, <1>3, <1>4, <1>5, <1>6, <1>7, <1>8, <1>9 DEF ServerStep

LEMMA Unblocked ==
  ASSUME IInv, Answered
  PROVE  NoDeadlock
<1> USE Short
<1>0. TypeOK /\ Dialogue /\ Broken /\ Transfer
  BY DEF IInv
<1>1. CASE spc = "dead"
  BY <1>0, <1>1 DEF Broken, NoDeadlock, ClientCan
<1>2. CASE spc # "dead" /\ cpc \in {"login", "bye"}
  BY <1>0, <1>2 DEF Dialogue, NoDeadlock, ClientCan, ServerCan
<1>3. CASE spc # "dead" /\ cpc = "pasv"
  BY <1>0, <1>3 DEF Dialogue, Answered, NoDeadlock, ClientCan, ServerCan, ReplyMissing
<1>4. CASE spc # "dead" /\ cpc = "first"
  <2>1. CASE spc = "command" /\ cmds = <<cmd>> /\ conn = "queued"
    <3>1. cmds # <<>> /\ listening
      BY <2>1 DEF Answered
    <3> QED BY <2>1, <3>1 DEF NoDeadlock, ServerCan
  <2>2. CASE replies # <<>>
    BY <1>4, <2>2 DEF NoDeadlock, ClientCan
  <2> QED BY <1>0, <1>4, <2>1, <2>2 DEF Dialogue
<1>5. CASE spc # "dead" /\ cpc = "data"
  <2>1. CASE conn = "closed"
    BY <1>0, <1>5, <2>1, FtpAssumption DEF TypeOK, NoDeadlock, ClientCan, EndOfData
  <2>2. CASE conn = "open"
    BY <1>0, <1>5, <2>2 DEF Transfer, NoDeadlock, ServerCan
  <2> QED BY <1>0, <1>5, <2>1, <2>2 DEF Transfer
<1>6. CASE spc # "dead" /\ cpc = "final"
  <2>1. CASE replies # <<>>
    BY <1>6, <2>1 DEF NoDeadlock, ClientCan
  <2>2. CASE replies = <<>> /\ spc \in {"list", "retr"}
    <3>1. conn = "dropped" \/ blocks = 0
      BY <1>0, <1>6 DEF Transfer
    <3> QED BY <2>2, <3>1 DEF NoDeadlock, ServerCan
  <2>3. CASE replies = <<>> /\ spc \in {"226", "close"}
    BY <2>3 DEF NoDeadlock, ServerCan
  <2>4. CASE replies = <<>> /\ spc = "command" /\ cmds = <<>>
    BY <1>6, <2>4 DEF Answered, NoDeadlock, ReplyMissing
  <2> QED BY <1>0, <1>6, <2>1, <2>2, <2>3, <2>4 DEF Dialogue
<1>7. CASE cpc \in {"out", "prompt", "connect"}
  BY <1>7 DEF NoDeadlock, ClientCan
<1> QED BY <1>0, <1>1, <1>2, <1>3, <1>4, <1>5, <1>6, <1>7 DEF TypeOK

(* Client and server never wait for each other, but for the two missing    *)
(* replies (the reads of main of the client, handle_client).               *)
THEOREM DeadlockFree == Spec => []NoDeadlock
<1>1. Init => Answered
  BY DEF Init, Answered
<1>2. IInv /\ Answered /\ [Next]_vars => Answered'
  <2>1. CASE UNCHANGED vars
    BY <2>1 DEF vars, client, server, control, dataconn, Answered
  <2> QED BY <2>1, ClientAnswered, ServerAnswered DEF Next
<1>3. IInv /\ Answered => NoDeadlock
  BY Unblocked
<1> QED BY Invariance, <1>1, <1>2, <1>3, PTL DEF Spec
=============================================================================
