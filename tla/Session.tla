------------------------------- MODULE Session -------------------------------
(***************************************************************************)
(* One dialogue between the terminal client (client.cpp) and its thread in *)
(* the server (client_handling.c), over a TCP connection: the handshake,   *)
(* the stored messages, the chat.  A connection is a stream of bytes: one  *)
(* recv may return what several sends put into it.  A send is small and    *)
(* not split.  The commands "." and "-", which no client of the repository *)
(* gets to send, come from another program.  Other threads of the server   *)
(* reach the dialogue in two ways: they forward to a descriptor that they  *)
(* looked up before, whatever it stands for by now, and the acceptor may   *)
(* close a connection that was reset.                                      *)
(***************************************************************************)
EXTENDS Integers, Sequences

CONSTANTS
  MaxStored,    \* how many messages may be stored for the user
  MaxLines,     \* how many lines the user types at most
  MaxInFlight,  \* other sessions, and a client that is not the terminal client,
                \* send while less than this is under way
  MaxStrays     \* how many forwards come before this user is on record

ASSUME SessionAssumption ==
  {MaxStored, MaxLines, MaxInFlight, MaxStrays} \subseteq Nat

VARIABLES
  stage, tries, handed, \* the server's thread: what it waits for, failed tries
                        \* of this stage, stored messages that were confirmed
  out,                  \* what the thread is about to send before it receives
  toServer, toClient,   \* what was sent and not received yet
  link, resetSent,      \* the connection seen by the server
  pcC, handshake,       \* the client: where it stands, what handshake returned
  numMessages, filed,   \* the count it was told, the messages it wrote to files
  lines,                \* how many lines were typed
  stored,               \* num_messages of the server's thread
  strays                \* history: forwards sent outside this user's chat

serverVars == <<stage, tries, handed, out>>
clientVars == <<pcC, handshake, numMessages, filed, lines>>
vars == <<serverVars, toServer, toClient, link, resetSent, clientVars, stored,
          strays>>

\* A text that was sent, and which one of its kind.
Text(name) == <<name, 0>>
Count == <<"count", stored>>
Message(i) == <<"message", i>>
Texts == {"HELO", "WHO", "username", "AUTH", "password", "TO",
          "rcpt_username", "DATA", "OK", "000", "101", "102", "202", "403",
          "count", "message", "line", "forwarded", ".", "-"} \X Nat
Commands == {Text("."), Text("-")}

Handshake == {"HELO", "USER", "PASS", "RCPT"}
Stages == Handshake \cup {"COUNT", "STORED", "CHAT", "CLOSE"}
Over == {"ended", "killed"}
Waiting == {"WHO", "AUTH", "TO", "DATA", "count", "messages", "chat"}

TypeOK ==
  /\ stage \in Stages \cup Over
  /\ tries \in 0 .. 4
  /\ handed \in 0 .. stored
  /\ out \in Seq(Texts)
  /\ toServer \in Seq(Texts)
  /\ toClient \in Seq(Texts)
  /\ link \in {"up", "closed", "reset", "broken", "reaped"}
  /\ resetSent \in BOOLEAN
  /\ pcC \in Waiting \cup {"start", "other", "gone"}
  /\ handshake \in {"open", "true", "false"}
  /\ numMessages \in Nat
  /\ filed \in Seq(Seq(Texts))
  /\ lines \in 0 .. MaxLines
  /\ stored \in 0 .. MaxStored
  /\ strays \in 0 .. MaxStrays
  \* The thread never has a message at hand that was not stored.
  /\ stage = "STORED" => handed < stored

Init ==
  /\ stage = "HELO" /\ tries = 0 /\ handed = 0
  /\ out = <<>>
  /\ toServer = <<>> /\ toClient = <<>>
  /\ link = "up" /\ resetSent = FALSE
  /\ pcC \in {"start", "other"} /\ handshake = "open"
  /\ numMessages = 0 /\ filed = <<>>
  /\ lines = 0
  /\ stored \in 0 .. MaxStored
  /\ strays = 0

-----------------------------------------------------------------------------
(* The server's thread: client_handler *)

Expected(s) ==
  Text(CASE s = "HELO" -> "HELO"
         [] s = "USER" -> "username"
         [] s = "PASS" -> "password"
         [] s = "RCPT" -> "rcpt_username"
         [] s \in {"COUNT", "STORED"} -> "OK")

Error(s) ==
  Text(CASE s = "HELO" -> "403"
         [] s \in {"USER", "RCPT"} -> "101"
         [] s = "PASS" -> "102"
         [] s \in {"COUNT", "STORED"} -> "202")

\* What the thread sends at the start of every try: transact_send_recv begins
\* with a send, transact_recv_send does not.
Prompt(s) ==
  CASE s \in Handshake -> <<>>
    [] s = "COUNT" -> <<Count>>
    [] s = "STORED" -> <<Message(handed + 1)>>

Proceeds(s, sends) == stage' = s /\ tries' = 0 /\ out' = sends

\* Mutant: the messages left are sent in a row.
HandsOverAll(n) ==
  /\ handed' = n
  /\ IF n < stored
       THEN Proceeds("STORED", [i \in 1 .. stored - n |-> Message(n + i)])
       ELSE Proceeds("CHAT", <<>>)

\* Mutant: the loop over the messages ends one late.
HandsOverOneMore(n) ==
  /\ handed' = n
  /\ IF n <= stored
       THEN Proceeds("STORED", <<Message(n + 1)>>)
       ELSE Proceeds("CHAT", <<>>)

\* The loop over the stored messages: the next one, or the chat.
HandsOver(n) ==
  /\ handed' = n
  /\ IF n < stored
       THEN Proceeds("STORED", <<Message(n + 1)>>)
       ELSE Proceeds("CHAT", <<>>)

\* The next stage, after a reply where there is one.
GoesOn(reply) ==
  CASE stage = "HELO" -> Proceeds("USER", reply) /\ UNCHANGED handed
    [] stage = "USER" -> Proceeds("PASS", reply) /\ UNCHANGED handed
    [] stage = "PASS" -> Proceeds("RCPT", reply) /\ UNCHANGED handed
    [] stage = "RCPT" -> Proceeds("COUNT", reply \o <<Count>>)
                           /\ UNCHANGED handed
    [] stage = "COUNT" -> HandsOver(0)
    [] stage = "STORED" -> HandsOver(handed + 1)

Reply(s) ==
  CASE s = "HELO" -> <<Text("WHO")>>
    [] s = "USER" -> <<Text("AUTH")>>
    [] s = "PASS" -> <<Text("TO")>>
    [] s = "RCPT" -> <<Text("DATA")>>
    [] s \in {"COUNT", "STORED"} -> <<>>

\* The answer was the one expected, or the database knows it.
Accepts == GoesOn(Reply(stage))

\* A command ends the dialogue or skips the stage.  The loop over a stored
\* message takes either for a failed try.
Obeys(command) ==
  CASE stage = "STORED" ->
         out' = Prompt(stage) /\ UNCHANGED <<stage, tries, handed>>
    [] stage # "STORED" /\ command = Text(".") ->
         Proceeds("CLOSE", <<>>) /\ UNCHANGED handed
    [] stage # "STORED" /\ command = Text("-") ->
         GoesOn(<<>>)

\* A try failed: transact_five_times gives up after the fifth, a stored
\* message is tried for ever.
Fails(error) ==
  /\ UNCHANGED handed
  /\ CASE stage = "STORED" ->
            out' = <<error>> \o Prompt(stage) /\ UNCHANGED <<stage, tries>>
       [] stage # "STORED" /\ tries < 4 ->
            /\ out' = <<error>> \o Prompt(stage)
            /\ tries' = tries + 1
            /\ UNCHANGED stage
       [] OTHER -> Proceeds("CLOSE", <<error>>)

\* Stages whose map_reduce_function is a query.  It refuses what it does not
\* find, or when the database fails.  A password for a user that is not in the
\* table, whose stage was skipped, may end the server: see ServerDies.
Queried == {"USER", "PASS", "RCPT"}

\* recv, map_reduce_function and what follows from its result.
Receive ==
  /\ stage \in Handshake \cup {"COUNT", "STORED"}
  /\ out = <<>>
  /\ \E k \in 1 .. Len(toServer) :
       /\ toServer' = SubSeq(toServer, k + 1, Len(toServer))
       /\ \/ /\ SubSeq(toServer, 1, k) = <<Expected(stage)>>
             /\ Accepts
          \/ /\ k = 1
             /\ Head(toServer) \in Commands
             /\ Obeys(Head(toServer))
          \/ /\ SubSeq(toServer, 1, k) = <<Expected(stage)>>
                  => stage \in Queried
             /\ \A c \in Commands : SubSeq(toServer, 1, k) # <<c>>
             /\ Fails(Error(stage))
  /\ UNCHANGED <<toClient, link, resetSent, clientVars,
                 stored, strays>>

\* The peer has gone.  A reset is reported once, then the connection is ended.
AtEnd == link # "up" /\ toServer = <<>>
Reported == link' = IF link = "reset" THEN "broken" ELSE link

ReceiveNothing ==
  /\ stage \in Handshake \cup {"COUNT", "STORED"}
  /\ out = <<>>
  /\ AtEnd
  /\ Fails(Text("000"))
  /\ Reported
  /\ UNCHANGED <<toServer, toClient, resetSent, clientVars,
                 stored, strays>>

\* What is received in the chat goes to another session or to the database,
\* but for ".".
ReceiveChat ==
  /\ stage = "CHAT"
  /\ \E k \in 1 .. Len(toServer) :
       /\ toServer' = SubSeq(toServer, k + 1, Len(toServer))
       /\ stage' = IF SubSeq(toServer, 1, k) = <<Text(".")>>
                     THEN "CLOSE" ELSE stage
  /\ UNCHANGED <<tries, handed, out, toClient, link, resetSent, clientVars,
                 stored, strays>>


LeaveChat ==
  /\ stage = "CHAT"
  /\ AtEnd
  /\ Reported
  /\ stage' = "CLOSE"
  /\ UNCHANGED <<tries, handed, out, toServer, toClient, resetSent, clientVars,
                 stored, strays>>

Stops(s) ==
  /\ stage' = s /\ tries' = 0 /\ handed' = 0 /\ out' = <<>>
  /\ toServer' = <<>>

close_connection ==
  /\ stage = "CLOSE"
  /\ out = <<>>
  /\ Stops("ended")
  /\ UNCHANGED <<toClient, link, resetSent, clientVars,
                 stored, strays>>

\* A send of the server on this connection.  A peer that has closed answers
\* with a reset; when that has been reported, SIGPIPE kills the server.  A
\* closed descriptor takes nothing.
Sends(text, rest) ==
  \/ /\ link = "up"
     /\ toClient' = Append(toClient, text)
     /\ rest
     /\ UNCHANGED <<toServer, link, resetSent>>
  \/ /\ link = "closed"
     /\ resetSent' = TRUE
     /\ rest
     /\ UNCHANGED <<toServer, toClient, link>>
  \/ /\ link = "reset"
     /\ link' = "broken"
     /\ rest
     /\ UNCHANGED <<toServer, toClient, resetSent>>
  \/ /\ link \in {"reset", "broken"}
     /\ Stops("killed")
     /\ UNCHANGED <<toClient, link, resetSent>>
  \/ /\ link = "reaped"
     /\ rest
     /\ UNCHANGED <<toServer, toClient, link, resetSent>>

Send ==
  /\ stage \in Stages
  /\ out # <<>>
  /\ Sends(Head(out), out' = Tail(out) /\ UNCHANGED <<stage, tries, handed>>)
  /\ UNCHANGED <<clientVars, stored, strays>>

\* Another session's thread forwards a message to the descriptor it looked up:
\* this user's, or one that has been closed since and stands for this
\* connection, wherever that is in its dialogue.
Forward ==
  /\ stage \in Stages
  /\ Len(toClient) < MaxInFlight
  /\ \/ stage = "CHAT" /\ strays' = strays
     \/ stage # "CHAT" /\ strays < MaxStrays /\ strays' = strays + 1
  /\ Sends(Text("forwarded"), UNCHANGED serverVars)
  /\ UNCHANGED <<clientVars, stored>>

\* Another session's thread gets the SIGPIPE.
ServerDies ==
  /\ stage \in Stages
  /\ Stops("killed")
  /\ UNCHANGED <<toClient, link, resetSent, clientVars,
                 stored, strays>>

ResetArrives ==
  /\ stage \in Stages
  /\ link = "closed"
  /\ resetSent
  /\ link' = "reset"
  /\ toServer' = <<>>
  /\ UNCHANGED <<serverVars, toClient, resetSent, clientVars,
                 stored, strays>>

\* With its table full the acceptor closes a connection that was reset, while
\* the thread is at work.
Reap ==
  /\ stage \in Stages
  /\ link \in {"reset", "broken"}
  /\ link' = "reaped"
  /\ UNCHANGED <<serverVars, toServer, toClient, resetSent, clientVars,
                 stored, strays>>

-----------------------------------------------------------------------------
(* The client: handshakeTransaction, fetchBufferMessages, threadHandler *)

sendDataOnce(text) ==
  toServer' = IF stage \in Over THEN toServer ELSE Append(toServer, text)

\* The first k texts that were sent arrive as one.
receiveDataOnce(k) == toClient' = SubSeq(toClient, k + 1, Len(toClient))

\* A file is opened to append to it, and taken to be there.
writeToFile(texts) == filed' = Append(filed, texts)

\* The process ends and its socket is closed: data not read makes it a reset.
Goes(unread) ==
  /\ pcC' = "gone"
  /\ link' = IF link = "up" THEN "closed" ELSE link
  /\ resetSent' = (unread # <<>>)
  /\ toClient' = <<>>

Hello ==
  /\ pcC = "start"
  /\ pcC' = "WHO"
  /\ sendDataOnce(Text("HELO"))
  /\ UNCHANGED <<serverVars, toClient, link, resetSent, handshake, numMessages,
                 filed, lines, stored, strays>>

\* The command awaited is followed by the next answer.
Answer(command, text, next) ==
  /\ pcC = command
  /\ toClient # <<>>
  /\ Head(toClient) = Text(command)
  /\ receiveDataOnce(1)
  /\ sendDataOnce(Text(text))
  /\ pcC' = next
  /\ UNCHANGED <<serverVars, link, resetSent, handshake, numMessages, filed,
                 lines, stored, strays>>

\* Handshake returns: main goes on with either answer.
Returns(answer) ==
  /\ handshake' = answer
  /\ pcC' = "count"
  /\ UNCHANGED <<serverVars, toServer, link, resetSent, numMessages, filed,
                 lines, stored, strays>>

Told ==
  /\ pcC = "DATA"
  /\ toClient # <<>>
  /\ Head(toClient) = Text("DATA")
  /\ receiveDataOnce(1)
  /\ Returns("true")

\* Anything else received: false, or an exception nobody catches.
Misread ==
  /\ pcC \in {"WHO", "AUTH", "TO", "DATA"}
  /\ \E k \in 1 .. Len(toClient) :
       /\ SubSeq(toClient, 1, k) # <<Text(pcC)>>
       /\ \/ /\ pcC \in {"TO", "DATA"}
             /\ receiveDataOnce(k)
             /\ Returns("false")
          \/ /\ pcC \in {"WHO", "AUTH"}
             /\ Goes(SubSeq(toClient, k + 1, Len(toClient)))
             /\ UNCHANGED <<serverVars, toServer, handshake, numMessages,
                            filed, lines, stored, strays>>

\* The number a text begins with: a count, or an error that is taken for one.
Number(text) ==
  CASE text[1] = "count" -> text[2]
    [] text[1] = "101" -> 101
    [] text[1] = "102" -> 102
    [] text[1] = "202" -> 202
HasNumber(text) == text[1] \in {"count", "101", "102", "202"}

\* What is received first is confirmed, then read as a number.  An exception
\* that nobody catches where there is none.
FetchCount ==
  /\ pcC = "count"
  /\ sendDataOnce(Text("OK"))
  /\ \E k \in 1 .. Len(toClient) :
       \/ /\ HasNumber(Head(toClient))
          /\ receiveDataOnce(k)
          /\ numMessages' = Number(Head(toClient))
          /\ pcC' = IF numMessages' > 0 THEN "messages" ELSE "chat"
          /\ UNCHANGED <<link, resetSent>>
       \/ /\ ~HasNumber(Head(toClient))
          /\ Goes(SubSeq(toClient, k + 1, Len(toClient)))
          /\ UNCHANGED numMessages
  /\ UNCHANGED <<serverVars, handshake, filed, lines, stored, strays>>

\* Mutant: the answer is forgotten.
FetchWithoutOK ==
  /\ pcC = "messages"
  /\ \E k \in 1 .. Len(toClient) :
       /\ receiveDataOnce(k)
       /\ writeToFile(SubSeq(toClient, 1, k))
  /\ pcC' = IF Len(filed') < numMessages THEN "messages" ELSE "chat"
  /\ UNCHANGED <<serverVars, toServer, link, resetSent, handshake, numMessages,
                 lines, stored, strays>>

\* What is received is filed as one message, whatever it is.  A bare "000" or
\* "202" is passed over, but the server sends "000" to a client that has gone,
\* and what it could not use after "202".
FetchMessage ==
  /\ pcC = "messages"
  /\ \E k \in 1 .. Len(toClient) :
       /\ receiveDataOnce(k)
       /\ writeToFile(SubSeq(toClient, 1, k))
  /\ pcC' = IF Len(filed') < numMessages THEN "messages" ELSE "chat"
  /\ sendDataOnce(Text("OK"))
  /\ UNCHANGED <<serverVars, link, resetSent, handshake, numMessages, lines,
                 stored, strays>>

sendData ==
  /\ pcC = "chat"
  /\ lines < MaxLines
  /\ lines' = lines + 1
  /\ sendDataOnce(Text("line"))
  /\ UNCHANGED <<serverVars, toClient, link, resetSent, pcC, handshake,
                 numMessages, filed, stored, strays>>

receiveData ==
  /\ pcC \in {"chat", "other"}
  /\ \E k \in 1 .. Len(toClient) : receiveDataOnce(k)
  /\ UNCHANGED <<serverVars, toServer, link, resetSent, clientVars,
                 stored, strays>>

\* Another program answers as it likes, or with a command.
Answers == {Expected(s) : s \in Handshake \cup {"COUNT"}}
Says(text) ==
  /\ pcC = "other"
  /\ Len(toServer) + Len(toClient) < MaxInFlight
  /\ sendDataOnce(text)
  /\ UNCHANGED <<serverVars, toClient, link, resetSent, clientVars,
                 stored, strays>>

\* recv reports that the server has closed: an exception nobody catches.
LoseServer ==
  /\ pcC \in Waiting \cup {"other"}
  /\ stage \in Over
  /\ toClient = <<>>
  /\ Goes(toClient)
  /\ UNCHANGED <<serverVars, toServer, handshake, numMessages, filed, lines,
                 stored, strays>>

\* The user ends the program, at any time.
Quit ==
  /\ pcC # "gone"
  /\ Goes(toClient)
  /\ UNCHANGED <<serverVars, toServer, handshake, numMessages, filed, lines,
                 stored, strays>>

-----------------------------------------------------------------------------
(* The dialogue *)

ServerStep ==
  Receive \/ ReceiveNothing \/ ReceiveChat \/ LeaveChat \/ close_connection
    \/ Send

\* What the client does by itself, without its user.
ClientStep ==
  \/ Hello
  \/ Answer("WHO", "username", "AUTH")
  \/ Answer("AUTH", "password", "TO")
  \/ Answer("TO", "rcpt_username", "DATA")
  \/ Told \/ Misread
  \/ FetchCount \/ FetchMessage
  \/ receiveData
  \/ LoseServer

Next ==
  \/ ServerStep \/ Forward \/ ServerDies \/ ResetArrives \/ Reap
  \/ ClientStep \/ sendData \/ Quit
  \/ \E text \in Commands \cup Answers : Says(text)

Spec == Init /\ [][Next]_vars

\* Both programs run, and a reset that was sent arrives.
Fairness == WF_vars(ServerStep) /\ WF_vars(ClientStep) /\ WF_vars(ResetArrives)

FairSpec == Spec /\ Fairness

-----------------------------------------------------------------------------
(* Properties *)

\* A client that starts its chat has filed every stored message, once, in
\* order and apart from the others, although what is sent may arrive joined
\* and other sessions forward messages to the same connection once the user is
\* on record (client.cpp:271-292, client_handling.c:167-173).  A forward that
\* strays into the hand-over can be filed in a stored message's place.
FetchedInOrder ==
  strays = 0 /\ pcC = "chat" => filed = [i \in 1 .. stored |-> <<Message(i)>>]

\* A handshake that returned true (client.cpp:242) leads into the chat: no
\* wait of client and thread for each other comes in between, unless a forward
\* strays into the dialogue.
FetchCompletes ==
  (handshake = "true")
    ~> (pcC \in {"chat", "gone"} \/ stage \in Over \/ strays > 0)

\* After a handshake that returned true, client and thread never wait for each
\* other: until the chat begins a text is under way or about to be sent, however
\* what is sent arrives (client.cpp:263-291, client_handling.c:163-170, neither
\* of which has a time limit).
NeverBothWait ==
  strays = 0 /\ handshake = "true" /\ pcC \in {"count", "messages"}
    /\ stage \notin Over
    => toServer # <<>> \/ toClient # <<>> \/ out # <<>>

\* A client that waits with its first line gets on record: the last "OK" is
\* taken for what it is (client_handling.c:169).
QuietClientComesOnline ==
  (pcC = "chat" /\ lines = 0)
    ~> \/ lines > 0 \/ pcC = "gone" \/ stage \in {"CHAT"} \cup Over
       \/ strays > 0

\* The "OK" of a client that waits with its first line is on its way alone, and
\* answers the last text that the thread waits to have confirmed: when it is
\* received the user gets on record (client_handling.c:163-173,
\* client.cpp:271-291).
LastOkArrives ==
  strays = 0 /\ pcC = "chat" /\ lines = 0 /\ stage \notin {"CHAT"} \cup Over
    => /\ toServer = <<Expected(stage)>> /\ out = <<>>
       /\ \/ stage = "COUNT" /\ stored = 0
          \/ stage = "STORED" /\ handed + 1 = stored


\* client.cpp:158, "Returns: true if handshake was successful": when it
\* returned false, the server has not gone on to the stored messages.
HandshakeTold == handshake = "false" => stage \notin {"COUNT", "STORED", "CHAT"}

=============================================================================
