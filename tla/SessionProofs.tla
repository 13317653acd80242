---------------------------- MODULE SessionProofs ----------------------------
(* Theorems about Session, for any number of stored messages and lines. *)
EXTENDS Session, SequenceTheorems, TLAPS

USE DEF Handshake, Over, Waiting

Trying == Handshake \cup {"COUNT", "STORED"}

-----------------------------------------------------------------------------
(* What is sent, and what arrives of it *)

LEMMA TextType ==
  /\ \A s \in Trying : Expected(s) \in Texts /\ Error(s) \in Texts
  /\ \A n \in {"HELO", "WHO", "username", "AUTH", "password", "TO",
               "rcpt_username", "DATA", "OK", "000", "line", "forwarded"} :
       Text(n) \in Texts
  /\ Commands \subseteq Texts
BY DEF Trying, Expected, Error, Text, Texts, Commands

LEMMA NumberedType ==
  /\ \A i \in Nat : Message(i) \in Texts
  /\ TypeOK => Count \in Texts /\ stored \in Nat
BY DEF Message, Count, Texts, TypeOK

LEMMA Parts ==
  ASSUME NEW S, NEW s \in Seq(S), NEW k \in 1 .. Len(s)
  PROVE  /\ SubSeq(s, 1, k) \in Seq(S)
         /\ SubSeq(s, k + 1, Len(s)) \in Seq(S)
         /\ s # <<>> /\ Head(s) \in S
<1>1. Len(s) \in Nat /\ \A i \in 1 .. Len(s) : s[i] \in S
  BY LenProperties, ElementOfSeq
<1>2. s # <<>>
  BY <1>1, EmptySeq
<1>3. k \in Int /\ k + 1 \in Int /\ Len(s) \in Int /\ 1 \in Int
  BY <1>1
<1>4. \A i \in 1 .. k : s[i] \in S
  BY <1>1
<1>5. \A i \in k + 1 .. Len(s) : s[i] \in S
  BY <1>1
<1> QED  BY <1>2, <1>3, <1>4, <1>5, SubSeqProperties, HeadTailProperties

\* The rest of one text is nothing.
LEMMA OneText ==
  ASSUME NEW x, NEW k \in 1 .. Len(<<x>>)
  PROVE  /\ k = 1
         /\ SubSeq(<<x>>, 1, k) = <<x>>
         /\ SubSeq(<<x>>, k + 1, Len(<<x>>)) = <<>>
<1>1. Len(<<x>>) = 1 /\ k = 1
  OBVIOUS
<1>2. <<x>> \in Seq({x})
  OBVIOUS
<1>3. SubSeq(<<x>>, 1, 1) = <<x>>
  BY <1>1, <1>2, SubSeqFull
<1>4. SubSeq(<<x>>, 2, 1) = <<>>
  BY SubSeqEmpty
<1> QED  BY <1>1, <1>3, <1>4

LEMMA TwoTexts ==
  ASSUME NEW x, NEW y
  PROVE  /\ Len(<<x, y>>) = 2
         /\ SubSeq(<<x, y>>, 1, 1) = <<x>>
         /\ SubSeq(<<x, y>>, 2, 2) = <<y>>
         /\ SubSeq(<<x, y>>, 3, 2) = <<>>
<1>1. Len(<<x, y>>) = 2 /\ <<x, y>> \in Seq({x, y})
  OBVIOUS
<1>2. /\ SubSeq(<<x, y>>, 1, 1) \in Seq({x, y})
      /\ Len(SubSeq(<<x, y>>, 1, 1)) = 1
      /\ SubSeq(<<x, y>>, 1, 1)[1] = x
  BY <1>1, SubSeqProperties
<1>3. /\ SubSeq(<<x, y>>, 2, 2) \in Seq({x, y})
      /\ Len(SubSeq(<<x, y>>, 2, 2)) = 1
      /\ SubSeq(<<x, y>>, 2, 2)[1] = y
  BY <1>1, SubSeqProperties
<1>4. SubSeq(<<x, y>>, 3, 2) = <<>>
  BY SubSeqEmpty
<1>5. \A s \in Seq({x, y}) : Len(s) = 1 => s = <<s[1]>>
  <2>1. ASSUME NEW s \in Seq({x, y}), Len(s) = 1 PROVE s = <<s[1]>>
    <3>1. SubSeq(s, 1, 1) = s
      BY <2>1, SubSeqFull
    <3>2. s = [i \in 1 .. 1 |-> s[i]]
      BY <2>1
    <3> QED  BY <3>2
  <2> QED  BY <2>1
<1> QED  BY <1>1, <1>2, <1>3, <1>4, <1>5

LEMMA TwoTextsJoined ==
  ASSUME NEW x, NEW y
  PROVE  /\ <<x>> \o <<y>> = <<x, y>> /\ Append(<<x>>, y) = <<x, y>>
         /\ Head(<<x, y>>) = x /\ Tail(<<x, y>>) = <<y>>
<1>1. /\ <<x>> \in Seq({x, y}) /\ <<y>> \in Seq({x, y}) /\ <<x, y>> \in Seq({x, y})
      /\ <<x, y>> # <<>>
  OBVIOUS
<1>2. Append(<<x>>, y) = <<x, y>>
  <2>1. /\ Append(<<x>>, y) \in Seq({x, y}) /\ Len(Append(<<x>>, y)) = 2
        /\ Append(<<x>>, y)[1] = x /\ Append(<<x>>, y)[2] = y
    <3>1. y \in {x, y} /\ Len(<<x>>) = 1 /\ <<x>>[1] = x
      OBVIOUS
    <3> QED  BY <1>1, <3>1, AppendProperties
  <2>2. Len(<<x, y>>) = 2 /\ <<x, y>>[1] = x /\ <<x, y>>[2] = y
    OBVIOUS
  <2>3. \A i \in 1 .. 2 : Append(<<x>>, y)[i] = <<x, y>>[i]
    <3>1. \A i \in 1 .. 2 : i = 1 \/ i = 2
      OBVIOUS
    <3> QED  BY <2>1, <2>2, <3>1
  <2> QED  BY <1>1, <2>1, <2>2, <2>3, SeqEqual
<1>3. <<x>> \o <<y>> = <<x, y>>
  BY <1>1, <1>2, AppendIsConcat
<1>4. Head(<<x, y>>) = x
  OBVIOUS
<1>5. Tail(<<x, y>>) = <<y>>
  BY <1>1, TailIsSubSeq, TwoTexts
<1> QED  BY <1>2, <1>3, <1>4, <1>5

-----------------------------------------------------------------------------
(* TypeOK *)

LEMMA Bounds == MaxStored \in Nat /\ MaxLines \in Nat /\ MaxStrays \in Nat
BY SessionAssumption

LEMMA TypeInit == Init => TypeOK
<1> SUFFICES ASSUME Init PROVE TypeOK
  OBVIOUS
<1>1. /\ out \in Seq(Texts) /\ toServer \in Seq(Texts)
      /\ toClient \in Seq(Texts) /\ filed \in Seq(Seq(Texts))
  BY EmptySeq DEF Init
<1>2. stored \in 0 .. MaxStored /\ lines = 0 /\ handed = 0 /\ tries = 0
      /\ numMessages = 0 /\ strays = 0
  BY DEF Init
<1>3. handed \in 0 .. stored /\ lines \in 0 .. MaxLines /\ numMessages \in Nat
      /\ tries \in 0 .. 4 /\ strays \in 0 .. MaxStrays
  BY <1>2, Bounds
<1>4. stage = "HELO" /\ link = "up" /\ resetSent = FALSE
      /\ pcC \in {"start", "other"} /\ handshake = "open"
  BY DEF Init
<1> QED  BY <1>1, <1>2, <1>3, <1>4 DEF TypeOK, Stages

\* Where the thread stands after a try.
ServerType ==
  /\ stage \in Stages /\ tries \in 0 .. 4 /\ handed \in 0 .. stored
  /\ out \in Seq(Texts)
  /\ stage = "STORED" => handed < stored

LEMMA OneTextType == \A x \in Texts : <<x>> \in Seq(Texts)
OBVIOUS

\* The numbers of the thread, without the texts.
LEMMA ServerNumbers ==
  ASSUME TypeOK
  PROVE  /\ stored \in Nat /\ handed \in Nat /\ handed <= stored
         /\ tries \in 0 .. 4
         /\ stage = "STORED" => handed < stored
<1>1. /\ stored \in 0 .. MaxStored /\ handed \in 0 .. stored /\ tries \in 0 .. 4
      /\ stage = "STORED" => handed < stored
  BY DEF TypeOK
<1> QED  BY <1>1, Bounds

LEMMA ProceedsType ==
  ASSUME TypeOK, stored' = stored, NEW s \in Stages, NEW sends \in Seq(Texts),
         Proceeds(s, sends), handed' \in Nat, handed' <= stored,
         s = "STORED" => handed' < stored
  PROVE  ServerType'
<1>1. stage' = s /\ tries' = 0 /\ out' = sends
  BY DEF Proceeds
<1>2. handed' \in 0 .. stored' /\ tries' \in 0 .. 4
  BY <1>1, ServerNumbers
<1> QED  BY <1>1, <1>2 DEF ServerType

LEMMA HandsOverType ==
  ASSUME TypeOK, stored' = stored, NEW n \in Nat, n <= stored, HandsOver(n)
  PROVE  ServerType'
<1>1. /\ <<Message(n + 1)>> \in Seq(Texts) /\ <<>> \in Seq(Texts)
      /\ "STORED" \in Stages /\ "CHAT" \in Stages
  BY NumberedType, OneTextType, EmptySeq DEF Stages
<1>2. handed' = n
  BY DEF HandsOver
<1>3. CASE n < stored
  <2>1. Proceeds("STORED", <<Message(n + 1)>>)
    BY <1>3 DEF HandsOver
  <2> QED  BY <1>1, <1>2, <1>3, <2>1, ProceedsType
<1>4. CASE ~(n < stored)
  <2>1. Proceeds("CHAT", <<>>)
    BY <1>4 DEF HandsOver
  <2> QED  BY <1>1, <1>2, <2>1, ProceedsType
<1> QED  BY <1>3, <1>4

LEMMA GoesOnType ==
  ASSUME TypeOK, stage \in Trying, stored' = stored,
         NEW reply \in Seq(Texts), GoesOn(reply)
  PROVE  ServerType'
<1>1. CASE stage = "COUNT"
  BY <1>1, HandsOverType, ServerNumbers DEF GoesOn
<1>2. CASE stage = "STORED"
  <2>1. HandsOver(handed + 1)
    BY <1>2 DEF GoesOn
  <2>2. handed + 1 \in Nat /\ handed + 1 <= stored
    BY <1>2, ServerNumbers
  <2> QED  BY <2>1, <2>2, HandsOverType
<1>3. CASE stage \in Handshake
  <2>1. reply \o <<Count>> \in Seq(Texts)
    BY NumberedType, OneTextType, ConcatProperties
  <2>2. PICK s \in Stages \ {"STORED"}, sends \in {reply, reply \o <<Count>>} :
          Proceeds(s, sends) /\ handed' = handed
    BY <1>3 DEF GoesOn, Stages
  <2> QED  BY <2>1, <2>2, ProceedsType, ServerNumbers
<1> QED  BY <1>1, <1>2, <1>3 DEF Trying

LEMMA PromptType ==
  ASSUME TypeOK, stage \in Trying
  PROVE  Prompt(stage) \in Seq(Texts)
BY NumberedType, OneTextType, EmptySeq, ServerNumbers DEF Prompt, Trying

LEMMA FailsType ==
  ASSUME TypeOK, stage \in Trying, stored' = stored,
         NEW error \in Texts, Fails(error)
  PROVE  ServerType'
<1>1. <<error>> \in Seq(Texts) /\ <<error>> \o Prompt(stage) \in Seq(Texts)
  BY PromptType, OneTextType, ConcatProperties
<1>2. CASE stage # "STORED" /\ ~(tries < 4)
  BY <1>1, <1>2, ProceedsType, ServerNumbers DEF Fails, Stages
<1>3. CASE stage = "STORED" \/ tries < 4
  <2>1. /\ stage' = stage /\ handed' = handed
        /\ out' = <<error>> \o Prompt(stage)
        /\ tries' = tries \/ (tries < 4 /\ tries' = tries + 1)
    <3>1. CASE stage = "STORED"
      BY <3>1 DEF Fails
    <3>2. CASE stage # "STORED" /\ tries < 4
      BY <3>2 DEF Fails
    <3> QED  BY <1>3, <3>1, <3>2
  <2>2. tries' \in 0 .. 4 /\ handed' \in 0 .. stored
    BY <2>1, ServerNumbers
  <2>3. stage' \in Stages
    BY <2>1 DEF Trying, Stages
  <2> QED  BY <1>1, <2>1, <2>2, <2>3, ServerNumbers DEF ServerType
<1> QED  BY <1>2, <1>3

LEMMA ObeysType ==
  ASSUME TypeOK, stage \in Trying, stored' = stored,
         NEW command \in Commands, Obeys(command)
  PROVE  ServerType'
<1>1. <<>> \in Seq(Texts)
  BY EmptySeq
<1>2. CASE stage = "STORED"
  <2>1. UNCHANGED <<stage, tries, handed>> /\ out' = Prompt(stage)
    BY <1>2 DEF Obeys
  <2>2. handed' \in 0 .. stored /\ tries' \in 0 .. 4
    BY <2>1, ServerNumbers
  <2> QED
    BY <1>2, <2>1, <2>2, PromptType, ServerNumbers DEF ServerType, Stages
<1>3. CASE stage # "STORED" /\ command = Text(".")
  <2>1. Proceeds("CLOSE", <<>>) /\ handed' = handed
    BY <1>3 DEF Obeys, Text
  <2>2. "CLOSE" \in Stages
    BY DEF Stages
  <2> QED  BY <1>1, <2>1, <2>2, ProceedsType, ServerNumbers
<1>4. CASE stage # "STORED" /\ command # Text(".")
  <2>1. GoesOn(<<>>)
    BY <1>4 DEF Obeys, Commands
  <2> QED  BY <1>1, <2>1, GoesOnType
<1> QED  BY <1>2, <1>3, <1>4

\* The variables beside those of the thread.
OthersType ==
  /\ toServer \in Seq(Texts) /\ toClient \in Seq(Texts)
  /\ link \in {"up", "closed", "reset", "broken", "reaped"}
  /\ resetSent \in BOOLEAN
  /\ pcC \in Waiting \cup {"start", "other", "gone"}
  /\ handshake \in {"open", "true", "false"}
  /\ numMessages \in Nat /\ filed \in Seq(Seq(Texts))
  /\ lines \in 0 .. MaxLines /\ stored \in 0 .. MaxStored
  /\ strays \in 0 .. MaxStrays

LEMMA TypeParts ==
  /\ ServerType /\ OthersType => TypeOK
  /\ ServerType' /\ OthersType' => TypeOK'
  /\ TypeOK => OthersType
  /\ TypeOK /\ stage \in Stages => ServerType
BY DEF ServerType, OthersType, TypeOK

\* Steps that leave the thread where it is.
LEMMA SameThread ==
  ASSUME TypeOK, stage' \in Stages \cup Over, stored' = stored,
         stage' = "STORED" => stage = "STORED",
         UNCHANGED <<tries, handed, out>>, OthersType'
  PROVE  TypeOK'
BY DEF TypeOK, OthersType

LEMMA StopsType ==
  ASSUME TypeOK, NEW s \in Over, Stops(s), stored' = stored,
         OthersType'
  PROVE  TypeOK'
<1>1. /\ stage' = s /\ s # "STORED" /\ tries' = 0 /\ handed' = 0 /\ out' = <<>>
      /\ 0 \in 0 .. 4 /\ 0 \in 0 .. stored
  BY ServerNumbers DEF Stops
<1>2. out' \in Seq(Texts)
  BY <1>1, EmptySeq
<1> QED  BY <1>1, <1>2 DEF TypeOK, OthersType

LEMMA ServerTypeNext ==
  ASSUME TypeOK, ServerStep \/ Forward \/ ServerDies \/ ResetArrives \/ Reap
  PROVE  TypeOK'
<1> USE DEF serverVars, clientVars
<1>1. stored' = stored /\ OthersType
  BY TypeParts DEF ServerStep, Receive, ReceiveNothing, ReceiveChat, LeaveChat,
       close_connection, Send, Forward, ServerDies, ResetArrives, Reap
<1>2. CASE Receive
  <2>1. PICK k \in 1 .. Len(toServer) :
          /\ toServer' = SubSeq(toServer, k + 1, Len(toServer))
          /\ \/ Accepts
             \/ Head(toServer) \in Commands /\ Obeys(Head(toServer))
             \/ Fails(Error(stage))
    BY <1>2 DEF Receive
  <2>2. toServer' \in Seq(Texts)
    BY <1>1, <2>1, Parts DEF OthersType
  <2>3. OthersType'
    BY <1>1, <1>2, <2>2 DEF Receive, OthersType
  <2>4. stage \in Trying /\ Error(stage) \in Texts
    BY <1>2, TextType DEF Receive, Trying
  <2>5. Accepts => ServerType'
    <3>1. Reply(stage) \in Seq(Texts)
      BY <2>4, TextType, OneTextType, EmptySeq DEF Reply, Trying
    <3> QED  BY <1>1, <2>4, <3>1, GoesOnType DEF Accepts
  <2>6. ServerType'
    BY <1>1, <2>1, <2>4, <2>5, ObeysType, FailsType
  <2> QED  BY <2>3, <2>6, TypeParts
<1>3. CASE ReceiveNothing
  <2>1. Text("000") \in Texts /\ stage \in Trying /\ Fails(Text("000"))
    BY <1>3, TextType DEF ReceiveNothing, Trying
  <2>2. OthersType'
    BY <1>1, <1>3 DEF ReceiveNothing, Reported, OthersType
  <2> QED  BY <1>1, <2>1, <2>2, FailsType, TypeParts
<1>4. CASE ReceiveChat
  <2>1. toServer' \in Seq(Texts)
    BY <1>1, <1>4, Parts DEF ReceiveChat, OthersType
  <2>2. OthersType'
    BY <1>1, <1>4, <2>1 DEF ReceiveChat, OthersType
  <2>3. stage' \in {"CHAT", "CLOSE"} /\ UNCHANGED <<tries, handed, out>>
    BY <1>4 DEF ReceiveChat
  <2> QED  BY <1>1, <2>2, <2>3, SameThread DEF Stages
<1>5. CASE LeaveChat
  <2>1. OthersType'
    BY <1>1, <1>5 DEF LeaveChat, Reported, OthersType
  <2>2. stage' = "CLOSE" /\ UNCHANGED <<tries, handed, out>>
    BY <1>5 DEF LeaveChat
  <2> QED  BY <1>1, <2>1, <2>2, SameThread DEF Stages
<1>6. CASE close_connection
  <2>1. OthersType'
    BY <1>1, <1>6, EmptySeq DEF close_connection, Stops, OthersType
  <2> QED  BY <1>1, <1>6, <2>1, StopsType DEF close_connection
<1>7. ASSUME NEW text \in Texts, NEW ACTION rest, Sends(text, rest),
             stage \in Stages,
             rest /\ OthersType' => TypeOK',
             UNCHANGED <<clientVars, stored>>, strays' \in 0 .. MaxStrays
      PROVE  TypeOK'
  <2>1. OthersType'
    <3>1. toClient' \in Seq(Texts)
      <4>1. toClient \in Seq(Texts) /\ Append(toClient, text) \in Seq(Texts)
        BY <1>1, AppendProperties DEF OthersType
      <4> QED  BY <1>7, <4>1 DEF Sends
    <3>2. toServer' \in Seq(Texts)
      BY <1>1, <1>7, EmptySeq DEF Sends, Stops, OthersType
    <3> QED  BY <1>1, <1>7, <3>1, <3>2 DEF Sends, OthersType
  <2>2. rest \/ Stops("killed")
    BY <1>7 DEF Sends
  <2> QED  BY <1>1, <1>7, <2>1, <2>2, StopsType
<1>8. CASE Send
  <2>1. /\ out \in Seq(Texts) /\ out # <<>> /\ Head(out) \in Texts
        /\ Tail(out) \in Seq(Texts)
    BY <1>8, HeadTailProperties DEF Send, TypeOK
  <2> DEFINE rest == out' = Tail(out) /\ UNCHANGED <<stage, tries, handed>>
  <2>2. ASSUME rest, OthersType' PROVE TypeOK'
    <3>1. ServerType
      BY <1>8, TypeParts DEF Send
    <3>2. ServerType'
      BY <1>1, <2>1, <2>2, <3>1 DEF ServerType
    <3> QED  BY <2>2, <3>2, TypeParts
  <2>3. strays' \in 0 .. MaxStrays
    BY <1>1, <1>8 DEF Send, OthersType
  <2> QED  BY <1>7, <1>8, <2>1, <2>2, <2>3 DEF Send
<1>9. CASE Forward
  <2>1. ASSUME UNCHANGED serverVars, OthersType' PROVE TypeOK'
    BY <1>1, <2>1, SameThread DEF TypeOK
  <2>2. strays' \in 0 .. MaxStrays
    BY <1>1, <1>9, Bounds DEF Forward, OthersType
  <2> QED  BY <1>7, <1>9, <2>1, <2>2, TextType DEF Forward
<1>10. CASE ServerDies
  <2>1. OthersType'
    BY <1>1, <1>10, EmptySeq DEF ServerDies, Stops, OthersType
  <2> QED  BY <1>1, <1>10, <2>1, StopsType DEF ServerDies
<1>11. CASE ResetArrives
  <2>1. OthersType'
    BY <1>1, <1>11, EmptySeq DEF ResetArrives, OthersType
  <2> QED  BY <1>1, <1>11, <2>1, SameThread DEF ResetArrives, TypeOK
<1>12. CASE Reap
  <2>1. OthersType'
    BY <1>1, <1>12 DEF Reap, OthersType
  <2> QED  BY <1>1, <1>12, <2>1, SameThread DEF Reap, TypeOK
<1> QED
  BY <1>2, <1>3, <1>4, <1>5, <1>6, <1>8, <1>9, <1>10, <1>11, <1>12
     DEF ServerStep

LEMMA ClientTypeNext ==
  ASSUME TypeOK,
         \/ ClientStep \/ sendData \/ Quit
         \/ \E text \in Commands \cup Answers : Says(text)
  PROVE  TypeOK'
<1> USE DEF serverVars, clientVars
<1>1. UNCHANGED <<serverVars, stored, strays>> /\ OthersType
  BY TypeParts
     DEF ClientStep, Hello, Answer, Told, Misread, Returns, Goes, FetchCount,
         FetchMessage, receiveData, LoseServer, sendData, Quit, Says
<1>2. SUFFICES OthersType'
  BY <1>1, SameThread DEF TypeOK
<1>3. ASSUME NEW text \in Texts, sendDataOnce(text)
      PROVE  toServer' \in Seq(Texts)
  <2>1. toServer \in Seq(Texts) /\ Append(toServer, text) \in Seq(Texts)
    BY <1>1, AppendProperties DEF OthersType
  <2> QED  BY <1>3, <2>1 DEF sendDataOnce
<1>4. ASSUME NEW k \in 1 .. Len(toClient), receiveDataOnce(k)
      PROVE  toClient' \in Seq(Texts)
  BY <1>1, <1>4, Parts DEF receiveDataOnce, OthersType
<1>5. ASSUME NEW unread, Goes(unread), toServer' \in Seq(Texts),
             UNCHANGED <<handshake, numMessages, filed, lines>>
      PROVE  OthersType'
  BY <1>1, <1>5, EmptySeq DEF Goes, OthersType
<1>6. CASE Hello
  BY <1>1, <1>3, <1>6, TextType DEF Hello, OthersType
<1>7. ASSUME NEW command, NEW text \in {"username", "password", "rcpt_username"},
             NEW next \in Waiting, Answer(command, text, next)
      PROVE  OthersType'
  <2>1. 1 \in 1 .. Len(toClient)
    BY <1>1, <1>7, EmptySeq DEF Answer, OthersType
  <2>2. toServer' \in Seq(Texts) /\ toClient' \in Seq(Texts)
    BY <1>3, <1>4, <1>7, <2>1, TextType DEF Answer
  <2> QED  BY <1>1, <1>7, <2>2 DEF Answer, OthersType
<1>8. CASE Told
  <2>1. 1 \in 1 .. Len(toClient)
    BY <1>1, <1>8, EmptySeq DEF Told, OthersType
  <2>2. toClient' \in Seq(Texts)
    BY <1>4, <1>8, <2>1 DEF Told
  <2> QED  BY <1>1, <1>8, <2>2 DEF Told, Returns, OthersType
<1>9. CASE Misread
  <2>1. PICK k \in 1 .. Len(toClient) :
          \/ receiveDataOnce(k) /\ Returns("false")
          \/ /\ Goes(SubSeq(toClient, k + 1, Len(toClient)))
             /\ UNCHANGED <<toServer, handshake, numMessages, filed, lines>>
    BY <1>9 DEF Misread
  <2>2. CASE receiveDataOnce(k) /\ Returns("false")
    BY <1>1, <1>4, <2>2 DEF Returns, OthersType
  <2>3. toServer \in Seq(Texts)
    BY <1>1 DEF OthersType
  <2> QED  BY <1>5, <2>1, <2>2, <2>3
<1>10. CASE FetchCount
  <2>1. toServer' \in Seq(Texts)
    BY <1>3, <1>10, TextType DEF FetchCount
  <2>2. PICK k \in 1 .. Len(toClient) :
          \/ /\ receiveDataOnce(k) /\ HasNumber(Head(toClient))
             /\ numMessages' = Number(Head(toClient))
             /\ pcC' = IF numMessages' > 0 THEN "messages" ELSE "chat"
             /\ UNCHANGED <<link, resetSent>>
          \/ /\ Goes(SubSeq(toClient, k + 1, Len(toClient)))
             /\ UNCHANGED numMessages
    BY <1>10 DEF FetchCount
  <2>3. UNCHANGED <<handshake, filed, lines>>
    BY <1>10 DEF FetchCount
  <2>4. CASE Goes(SubSeq(toClient, k + 1, Len(toClient))) /\ UNCHANGED numMessages
    BY <1>5, <2>1, <2>3, <2>4
  <2>5. CASE /\ receiveDataOnce(k) /\ HasNumber(Head(toClient))
             /\ numMessages' = Number(Head(toClient))
             /\ pcC' = IF numMessages' > 0 THEN "messages" ELSE "chat"
             /\ UNCHANGED <<link, resetSent>>
    <3>1. toClient' \in Seq(Texts)
      BY <1>4, <2>5
    <3>2. numMessages' \in Nat
      <4>1. Head(toClient) \in Texts
        BY <1>1, Parts DEF OthersType
      <4>2. Head(toClient)[2] \in Nat
        BY <4>1 DEF Texts
      <4> QED  BY <2>5, <4>2 DEF Number, HasNumber
    <3>3. pcC' \in Waiting
      BY <2>5
    <3> QED  BY <1>1, <2>1, <2>3, <2>5, <3>1, <3>2, <3>3 DEF OthersType
  <2> QED  BY <2>2, <2>4, <2>5
<1>11. CASE FetchMessage
  <2>1. PICK k \in 1 .. Len(toClient) :
          receiveDataOnce(k) /\ filed' = Append(filed, SubSeq(toClient, 1, k))
    BY <1>11 DEF FetchMessage, writeToFile
  <2>2. toServer' \in Seq(Texts) /\ toClient' \in Seq(Texts)
    BY <1>3, <1>4, <1>11, <2>1, TextType DEF FetchMessage
  <2>3. filed' \in Seq(Seq(Texts))
    BY <1>1, <2>1, Parts, AppendProperties DEF OthersType
  <2>4. pcC' \in Waiting
    BY <1>11 DEF FetchMessage
  <2> QED  BY <1>1, <1>11, <2>2, <2>3, <2>4 DEF FetchMessage, OthersType
<1>12. CASE sendData
  <2>1. toServer' \in Seq(Texts)
    BY <1>3, <1>12, TextType DEF sendData
  <2>2. lines' \in 0 .. MaxLines
    BY <1>1, <1>12, Bounds DEF sendData, OthersType
  <2> QED  BY <1>1, <1>12, <2>1, <2>2 DEF sendData, OthersType
<1>13. CASE receiveData
  BY <1>1, <1>4, <1>13 DEF receiveData, OthersType
<1>14. ASSUME NEW text \in Commands \cup Answers, Says(text) PROVE OthersType'
  <2>1. text \in Texts
    BY TextType DEF Answers, Trying
  <2> QED  BY <1>1, <1>3, <1>14, <2>1 DEF Says, OthersType
<1>15. CASE LoseServer \/ Quit
  <2>1. toServer \in Seq(Texts)
    BY <1>1 DEF OthersType
  <2> QED  BY <1>5, <1>15, <2>1 DEF LoseServer, Quit
<1> QED
  BY <1>6, <1>7, <1>8, <1>9, <1>10, <1>11, <1>12, <1>13, <1>14, <1>15
     DEF ClientStep

LEMMA TypeNext == TypeOK /\ [Next]_vars => TypeOK'
<1> SUFFICES ASSUME TypeOK, [Next]_vars PROVE TypeOK'
  OBVIOUS
<1>1. CASE UNCHANGED vars
  BY <1>1 DEF vars, serverVars, clientVars, TypeOK
<1> QED  BY <1>1, ServerTypeNext, ClientTypeNext DEF Next

\* All variables keep their types, and the thread that asks for a confirmation
\* has a stored message at hand (client_handling.c:165-170), whatever the two
\* programs send and how it arrives.
THEOREM TypeCorrect == Spec => []TypeOK
<1>1. Init => TypeOK  BY TypeInit
<1>2. TypeOK /\ [Next]_vars => TypeOK'  BY TypeNext
<1> QED  BY <1>1, <1>2, PTL DEF Spec

-----------------------------------------------------------------------------
(* FetchedInOrder, NeverBothWait.  What is sent may arrive joined, so they    *)
(* take more than the order of the sends: until the client is in its chat,    *)
(* client and thread keep in step.  Whatever has been sent is what the other  *)
(* waits for, and one text at most is under way, but for DATA and the count   *)
(* that follows it.  After a refusal both may wait, but not for a client that *)
(* was told true.  Where the server has died, the client can still read the   *)
(* text that was under way.  All of this is lost when a forward strays into   *)
(* the dialogue, and holds until then.                                        *)

Before == {"start", "WHO", "AUTH", "TO", "DATA", "count", "messages"}

\* Nothing is under way.
Silent == toServer = <<>> /\ toClient = <<>> /\ out = <<>>

\* The answer that the thread waits for is.
Answered(s) ==
  /\ stage = s /\ tries = 0
  /\ toServer = <<Expected(s)>> /\ toClient = <<>> /\ out = <<>>

\* A text for the client is, or is about to be sent.
Due(text) ==
  \/ toClient = <<>> /\ out = <<text>>
  \/ toClient = <<text>> /\ out = <<>>
Offers(s, text) == stage = s /\ tries = 0 /\ toServer = <<>> /\ Due(text)
Refuses(s) == stage = s /\ toServer = <<>> /\ Due(Error(s))

\* Two sends in a row.
DataAndCount ==
  /\ stage = "COUNT" /\ tries = 0 /\ toServer = <<>>
  /\ \/ toClient = <<>> /\ out = <<Text("DATA"), Count>>
     \/ toClient = <<Text("DATA")>> /\ out = <<Count>>
     \/ toClient = <<Text("DATA"), Count>> /\ out = <<>>

InStep ==
  /\ pcC = "start" => stage = "HELO" /\ tries = 0 /\ Silent
  /\ pcC = "WHO" => Answered("HELO") \/ Offers("USER", Text("WHO"))
  /\ pcC = "AUTH" => \/ Answered("USER") \/ Refuses("USER")
                     \/ Offers("PASS", Text("AUTH"))
  /\ pcC = "TO" => \/ Answered("PASS") \/ Refuses("PASS")
                   \/ Offers("RCPT", Text("TO"))
  /\ pcC = "DATA" => Answered("RCPT") \/ Refuses("RCPT") \/ DataAndCount
  /\ pcC = "count" => \/ /\ Silent /\ stage \in {"PASS", "RCPT", "COUNT"}
                         /\ handshake = "false"
                      \/ Offers("COUNT", Count)
  /\ pcC = "messages" =>
       \/ Answered("COUNT") /\ filed = <<>>
       \/ Answered("STORED") /\ handed + 1 = Len(filed)
       \/ Offers("STORED", Message(handed + 1)) /\ handed = Len(filed)

\* What the client may find, also from a server that has ended since.
Readable ==
  /\ pcC = "start" => toClient = <<>>
  /\ pcC = "WHO" => toClient \in {<<>>, <<Text("WHO")>>}
  /\ pcC = "AUTH" => toClient \in {<<>>, <<Text("AUTH")>>, <<Text("101")>>}
  /\ pcC = "TO" => toClient \in {<<>>, <<Text("TO")>>, <<Text("102")>>}
  /\ pcC = "DATA" => toClient \in {<<>>, <<Text("101")>>, <<Text("DATA")>>,
                                   <<Text("DATA"), Count>>}
  /\ pcC = "count" => toClient \in {<<>>, <<Count>>}
  /\ pcC = "messages" => toClient \in {<<>>, <<Message(Len(filed) + 1)>>}

AllFiled == pcC = "chat" => filed = [i \in 1 .. stored |-> <<Message(i)>>]

FiledInv ==
  /\ pcC \in Before \ {"messages"} => filed = <<>>
  /\ pcC = "messages" =>
       /\ numMessages = stored /\ Len(filed) < stored
       /\ filed = [i \in 1 .. Len(filed) |-> <<Message(i)>>]
  /\ AllFiled

EndInv ==
  /\ pcC # "gone" => link = "up"
  /\ stage \in Over => toServer = <<>> /\ out = <<>>

DialogueInv ==
  /\ TypeOK /\ FiledInv /\ EndInv
  /\ stage \notin Over => InStep
  /\ stage \in Over => Readable

DialogueIInv == TypeOK /\ (strays = 0 => DialogueInv)

LEMMA DialogueInit == Init => DialogueInv
<1> SUFFICES ASSUME Init PROVE DialogueInv
  OBVIOUS
<1>1. TypeOK
  BY TypeInit
<1>2. InStep /\ stage \notin Over
  BY DEF Init, InStep, Silent
<1>3. FiledInv /\ EndInv
  BY DEF Init, FiledInv, EndInv, AllFiled, Before
<1> QED  BY <1>1, <1>2, <1>3 DEF DialogueInv

LEMMA AlwaysReadable == DialogueInv => Readable
<1> SUFFICES ASSUME DialogueInv, InStep PROVE Readable
  BY DEF DialogueInv
<1>1. CASE pcC \in {"start", "WHO"}
  BY <1>1 DEF InStep, Readable, Silent, Answered, Offers, Due
<1>2. CASE pcC \in {"AUTH", "TO"}
  BY <1>2 DEF InStep, Readable, Answered, Offers, Refuses, Due, Error
<1>3. CASE pcC = "DATA"
  BY <1>3 DEF InStep, Readable, Answered, Refuses, Due, DataAndCount, Error
<1>4. CASE pcC = "count"
  BY <1>4 DEF InStep, Readable, Silent, Offers, Due
<1>5. CASE pcC = "messages"
  BY <1>5 DEF InStep, Readable, Answered, Offers, Due
<1>6. CASE pcC \notin Before
  BY <1>6 DEF Readable, Before
<1> QED  BY <1>1, <1>2, <1>3, <1>4, <1>5, <1>6 DEF Before

-----------------------------------------------------------------------------
(* Steps of the thread *)

LEMMA OfferGoesOut ==
  ASSUME NEW text, Due(text), toServer = <<>>, link = "up", Receive \/ Send
  PROVE  /\ UNCHANGED <<stage, tries, handed, toServer, link>>
         /\ toClient' = <<text>> /\ out' = <<>>
<1>1. ~Receive
  BY DEF Receive
<1>2. toClient = <<>> /\ out = <<text>>
  BY <1>1 DEF Send, Due
<1>3. Head(<<text>>) = text /\ Tail(<<text>>) = <<>> /\ Append(<<>>, text) = <<text>>
  OBVIOUS
<1> QED  BY <1>1, <1>2, <1>3 DEF Send, Sends

LEMMA AnswerComesIn ==
  ASSUME NEW s \in Trying, Answered(s), Receive \/ Send
  PROVE  /\ toServer' = <<>> /\ toClient' = <<>> /\ UNCHANGED link
         /\ Accepts \/ (s \in Queried /\ Fails(Error(s)))
<1>1. Receive
  BY DEF Answered, Send
<1>2. PICK k \in 1 .. Len(<<Expected(s)>>) :
        /\ toServer' = SubSeq(<<Expected(s)>>, k + 1, Len(<<Expected(s)>>))
        /\ \/ Accepts
           \/ Head(<<Expected(s)>>) \in Commands
           \/ /\ SubSeq(<<Expected(s)>>, 1, k) = <<Expected(s)>>
                   => s \in Queried
              /\ Fails(Error(s))
  BY <1>1 DEF Receive, Answered
<1>3. Head(<<Expected(s)>>) = Expected(s) /\ Expected(s) \notin Commands
  BY DEF Expected, Commands, Text, Trying
<1>4. toClient' = <<>> /\ UNCHANGED link
  BY <1>1 DEF Receive, Answered
<1> QED  BY <1>2, <1>3, <1>4, OneText

LEMMA RefusalFollows ==
  ASSUME NEW s \in Queried, Answered(s), Fails(Error(s)), toServer' = <<>>,
         toClient' = <<>>
  PROVE  Refuses(s)'
<1>1. stage = s /\ s \in Handshake /\ tries < 4
  BY DEF Answered, Queried
<1>2. stage' = s /\ out' = <<Error(s)>> \o <<>>
  BY <1>1 DEF Fails, Prompt
<1>3. <<Error(s)>> \o <<>> = <<Error(s)>>
  OBVIOUS
<1> QED  BY <1>2, <1>3 DEF Refuses, Due

LEMMA ServerInStep ==
  ASSUME DialogueInv, pcC \in Before, ServerStep
  PROVE  InStep' /\ UNCHANGED link
<1>1. /\ link = "up" /\ stage \notin Over /\ InStep
      /\ UNCHANGED <<pcC, filed, stored>>
  <2>1. stage \in Stages /\ UNCHANGED <<pcC, filed, stored>>
    BY DEF ServerStep, Receive, ReceiveNothing, ReceiveChat, LeaveChat,
           close_connection, Send, clientVars, Stages
  <2> QED  BY <2>1 DEF DialogueInv, EndInv, Stages, Before
<1>2. Receive \/ Send
  <2>1. stage \notin {"CHAT", "CLOSE"}
    BY <1>1 DEF InStep, Before, Answered, Offers, Refuses, DataAndCount
  <2> QED
    BY <1>1, <2>1 DEF ServerStep, ReceiveNothing, AtEnd, ReceiveChat, LeaveChat,
                      close_connection
<1>3. ASSUME NEW s \in Trying, NEW text, Offers(s, text)
      PROVE  /\ UNCHANGED <<stage, tries, handed, link>> /\ toServer' = <<>>
             /\ toClient' = <<text>> /\ out' = <<>>
  BY <1>1, <1>2, <1>3, OfferGoesOut DEF Offers
<1>4. ASSUME NEW s \in Queried, Refuses(s)
      PROVE  Refuses(s)' /\ UNCHANGED link
  BY <1>1, <1>2, <1>4, OfferGoesOut DEF Refuses, Due
<1>5. ASSUME NEW s \in Trying, Answered(s)
      PROVE  /\ toServer' = <<>> /\ toClient' = <<>> /\ UNCHANGED link
             /\ GoesOn(Reply(s)) \/ (s \in Queried /\ Refuses(s)')
  BY <1>2, <1>5, AnswerComesIn, RefusalFollows DEF Accepts, Answered
<1>6. CASE pcC = "start"
  BY <1>1, <1>2, <1>6 DEF InStep, Silent, Receive, Send
<1>7. CASE pcC = "WHO"
  <2>1. CASE Answered("HELO")
    BY <1>1, <1>5, <1>7, <2>1
       DEF Answered, Trying, Queried, GoesOn, Reply, Proceeds, InStep, Offers, Due
  <2>2. CASE Offers("USER", Text("WHO"))
    BY <1>1, <1>3, <1>7, <2>2 DEF Trying, InStep, Offers, Due
  <2> QED  BY <1>1, <1>7, <2>1, <2>2 DEF InStep
<1>8. CASE pcC = "AUTH"
  <2>1. CASE Answered("USER")
    BY <1>1, <1>5, <1>8, <2>1
       DEF Answered, Trying, GoesOn, Reply, Proceeds, InStep, Offers, Due
  <2>2. CASE Refuses("USER")
    BY <1>1, <1>4, <1>8, <2>2 DEF Queried, InStep
  <2>3. CASE Offers("PASS", Text("AUTH"))
    BY <1>1, <1>3, <1>8, <2>3 DEF Trying, InStep, Offers, Due
  <2> QED  BY <1>1, <1>8, <2>1, <2>2, <2>3 DEF InStep
<1>9. CASE pcC = "TO"
  <2>1. CASE Answered("PASS")
    BY <1>1, <1>5, <1>9, <2>1
       DEF Answered, Trying, GoesOn, Reply, Proceeds, InStep, Offers, Due
  <2>2. CASE Refuses("PASS")
    BY <1>1, <1>4, <1>9, <2>2 DEF Queried, InStep
  <2>3. CASE Offers("RCPT", Text("TO"))
    BY <1>1, <1>3, <1>9, <2>3 DEF Trying, InStep, Offers, Due
  <2> QED  BY <1>1, <1>9, <2>1, <2>2, <2>3 DEF InStep
<1>10. CASE pcC = "DATA"
  <2>1. CASE Answered("RCPT")
    <3>1. <<Text("DATA")>> \o <<Count>> = <<Text("DATA"), Count>>
      BY TwoTextsJoined
    <3>2. CASE GoesOn(Reply("RCPT"))
      <4>1. Proceeds("COUNT", <<Text("DATA")>> \o <<Count>>)
        BY <2>1, <3>2 DEF Answered, GoesOn, Reply
      <4>2. Count' = Count
        BY <1>1 DEF Count
      <4>3. DataAndCount'
        BY <1>5, <2>1, <3>1, <4>1, <4>2 DEF DataAndCount, Proceeds, Trying
      <4> QED  BY <1>1, <1>5, <1>10, <2>1, <4>3 DEF InStep, Trying
    <3>3. CASE Refuses("RCPT")'
      BY <1>1, <1>5, <1>10, <2>1, <3>3 DEF InStep, Trying
    <3> QED  BY <1>5, <2>1, <3>2, <3>3 DEF Trying
  <2>2. CASE Refuses("RCPT")
    BY <1>1, <1>4, <1>10, <2>2 DEF Queried, InStep
  <2>3. CASE DataAndCount
    <3>1. ~Receive /\ Send
      BY <1>2, <2>3 DEF DataAndCount, Receive
    <3>2. UNCHANGED <<stage, tries, toServer, link>> /\ Count' = Count
      BY <1>1, <3>1 DEF Send, Sends, Count
    <3>3. \/ toClient' = <<Text("DATA")>> /\ out' = <<Count>>
          \/ toClient' = <<Text("DATA"), Count>> /\ out' = <<>>
      <4>1. /\ toClient' = Append(toClient, Head(out)) /\ out' = Tail(out)
            /\ out # <<>>
        BY <1>1, <3>1 DEF Send, Sends
      <4>2. CASE toClient = <<>> /\ out = <<Text("DATA"), Count>>
        <5>1. Append(<<>>, Text("DATA")) = <<Text("DATA")>>
          OBVIOUS
        <5> QED  BY <4>1, <4>2, <5>1, TwoTextsJoined
      <4>3. CASE toClient = <<Text("DATA")>> /\ out = <<Count>>
        <5>1. Head(<<Count>>) = Count /\ Tail(<<Count>>) = <<>>
          OBVIOUS
        <5> QED  BY <4>1, <4>3, <5>1, TwoTextsJoined
      <4> QED  BY <2>3, <4>1, <4>2, <4>3 DEF DataAndCount
    <3>4. DataAndCount'
      BY <2>3, <3>2, <3>3 DEF DataAndCount
    <3> QED  BY <1>1, <1>10, <3>2, <3>4 DEF InStep
  <2> QED  BY <1>1, <1>10, <2>1, <2>2, <2>3 DEF InStep
<1>11. CASE pcC = "count"
  <2>1. Offers("COUNT", Count)
    BY <1>1, <1>2, <1>11 DEF InStep, Silent, Receive, Send
  <2> QED
    BY <1>1, <1>3, <1>11, <2>1 DEF Trying, InStep, Offers, Due, Count
<1>12. CASE pcC = "messages"
  <2>1. Len(filed) < stored /\ Len(filed) \in Nat /\ handed \in Nat
    BY <1>12, ServerNumbers DEF DialogueInv, FiledInv, TypeOK
  <2>2. ASSUME NEW n \in Nat, n = Len(filed), HandsOver(n),
               toServer' = <<>>, toClient' = <<>>
        PROVE  InStep'
    <3>1. Proceeds("STORED", <<Message(n + 1)>>) /\ handed' = n
      BY <2>1, <2>2 DEF HandsOver
    <3>2. Offers("STORED", Message(handed + 1))' /\ handed' = Len(filed')
      BY <1>1, <2>2, <3>1 DEF Proceeds, Offers, Due, Message
    <3> QED  BY <1>1, <1>12, <3>2 DEF InStep
  <2>3. CASE Answered("COUNT") /\ filed = <<>>
    BY <1>5, <2>2, <2>3 DEF Answered, Trying, Queried, GoesOn
  <2>4. CASE Answered("STORED") /\ handed + 1 = Len(filed)
    BY <1>5, <2>1, <2>2, <2>4 DEF Answered, Trying, Queried, GoesOn
  <2>5. CASE Offers("STORED", Message(handed + 1)) /\ handed = Len(filed)
    <3>1. Offers("STORED", Message(handed + 1))' /\ UNCHANGED <<handed, link>>
      BY <1>3, <2>5 DEF Trying, Offers, Due, Message
    <3> QED  BY <1>1, <1>12, <2>5, <3>1 DEF InStep
  <2> QED  BY <1>1, <1>5, <1>12, <2>3, <2>4, <2>5 DEF InStep, Trying
<1> QED
  BY <1>6, <1>7, <1>8, <1>9, <1>10, <1>11, <1>12 DEF Before

\* Nothing else reaches a dialogue that has not come to the chat, but the end
\* of the server.
LEMMA ServerNext ==
  ASSUME DialogueInv, TypeOK', strays' = strays,
         ServerStep \/ Forward \/ ServerDies \/ ResetArrives \/ Reap
  PROVE  DialogueInv'
<1>1. stage \in Stages /\ UNCHANGED <<pcC, filed, numMessages, stored>>
  BY DEF ServerStep, Receive, ReceiveNothing, ReceiveChat, LeaveChat,
         close_connection, Send, Forward, ServerDies, ResetArrives, Reap,
         clientVars, Stages
<1>2. FiledInv'
  <2>1. FiledInv
    BY DEF DialogueInv
  <2> QED  BY <1>1, <2>1 DEF FiledInv, AllFiled, Message
<1>3. (\E s \in Over : Stops(s) /\ UNCHANGED <<toClient, link>>)
        \/ stage' \in Stages
  <2>1. ASSUME stage' = stage PROVE stage' \in Stages
    BY <1>1, <2>1
  <2>2. CASE Receive \/ ReceiveNothing
    <3>1. TypeOK /\ stored' = stored /\ stage \in Trying
      BY <2>2 DEF DialogueInv, Receive, ReceiveNothing, Trying
    <3>2. Reply(stage) \in Seq(Texts) /\ Error(stage) \in Texts
          /\ Text("000") \in Texts
      BY <3>1, TextType, OneTextType, EmptySeq DEF Reply, Trying
    <3>3. ServerType'
      BY <2>2, <3>1, <3>2, GoesOnType, ObeysType, FailsType
         DEF Receive, ReceiveNothing, Accepts
    <3> QED  BY <3>3 DEF ServerType
  <2>3. CASE ReceiveChat \/ LeaveChat
    BY <2>3 DEF ReceiveChat, LeaveChat, Stages
  <2>4. CASE close_connection \/ ServerDies
    BY <2>4 DEF close_connection, ServerDies
  <2>5. CASE Send \/ Forward
    BY <1>1, <2>5 DEF Send, Forward, Sends, serverVars
  <2>6. CASE ResetArrives \/ Reap
    BY <1>1, <2>6 DEF ResetArrives, Reap, serverVars
  <2> QED  BY <2>2, <2>3, <2>4, <2>5, <2>6 DEF ServerStep
<1>4. CASE \E s \in Over : Stops(s) /\ UNCHANGED <<toClient, link>>
  <2>1. stage' \in Over /\ toServer' = <<>> /\ out' = <<>>
    BY <1>4 DEF Stops
  <2>2. Readable'
    <3>1. Readable
      BY AlwaysReadable
    <3> QED  BY <1>1, <1>4, <3>1 DEF Readable, Count, Message
  <2>3. EndInv'
    BY <1>1, <1>4, <2>1 DEF DialogueInv, EndInv
  <2> QED  BY <1>2, <2>1, <2>2, <2>3 DEF DialogueInv
<1>5. CASE stage' \in Stages
  <2>1. stage' \notin Over
    BY <1>5 DEF Stages
  <2>2. CASE pcC \in Before
    <3>1. ServerStep
      <4>1. stage # "CHAT" /\ link = "up" /\ ~ServerDies /\ strays \in Int
        BY <1>1, <2>1, <2>2
           DEF DialogueInv, EndInv, InStep, Before, Answered, Offers, Refuses,
               DataAndCount, ServerDies, Stops, Stages, TypeOK
      <4> QED  BY <4>1 DEF Forward, ResetArrives, Reap
    <3>2. InStep' /\ UNCHANGED link
      BY <2>2, <3>1, ServerInStep
    <3>3. EndInv'
      BY <1>1, <2>1, <3>2 DEF DialogueInv, EndInv
    <3> QED  BY <1>2, <2>1, <3>2, <3>3 DEF DialogueInv
  <2>3. CASE pcC \notin Before
    <3>1. InStep'
      BY <1>1, <2>3 DEF InStep, Before
    <3>2. link = "up" => link' = "up"
      BY DEF ServerStep, Receive, ReceiveNothing, Reported, AtEnd, ReceiveChat,
             LeaveChat, close_connection, Send, Forward, Sends, ServerDies,
             ResetArrives, Reap
    <3>3. EndInv'
      BY <1>1, <2>1, <3>2 DEF DialogueInv, EndInv
    <3> QED  BY <1>2, <2>1, <3>1, <3>3 DEF DialogueInv
  <2> QED  BY <2>2, <2>3
<1> QED  BY <1>3, <1>4, <1>5

-----------------------------------------------------------------------------
(* Steps of the client *)

LEMMA ReadsOne ==
  ASSUME NEW text, toClient = <<text>>,
         NEW k \in 1 .. Len(toClient), receiveDataOnce(k)
  PROVE  /\ toClient' = <<>> /\ k = 1
         /\ Head(toClient) = text /\ SubSeq(toClient, 1, k) = <<text>>
BY OneText DEF receiveDataOnce

LEMMA SendsOne ==
  ASSUME NEW text, toServer = <<>>, sendDataOnce(text)
  PROVE  stage \notin Over => toServer' = <<text>>
<1>1. Append(<<>>, text) = <<text>>
  OBVIOUS
<1> QED  BY <1>1 DEF sendDataOnce

\* A step into the chat, out of it, or out of the program.
LEMMA OutOfStep ==
  ASSUME DialogueInv, TypeOK', UNCHANGED <<serverVars, stored>>, FiledInv',
         pcC' \notin Before,
         pcC' # "gone" => pcC # "gone" /\ UNCHANGED link,
         stage \in Over => toServer' \in {toServer, <<>>}
  PROVE  DialogueInv'
<1>1. InStep' /\ Readable'
  BY DEF InStep, Readable, Before
<1>2. EndInv'
  BY DEF DialogueInv, EndInv, serverVars
<1> QED  BY <1>1, <1>2 DEF DialogueInv

\* A step of the client within the part that is kept in step.
LEMMA StaysInStep ==
  ASSUME DialogueInv, TypeOK', UNCHANGED <<serverVars, stored, link>>, FiledInv',
         pcC # "gone",
         stage \notin Over => InStep',
         stage \in Over => Readable' /\ toServer' = toServer
  PROVE  DialogueInv'
BY DEF DialogueInv, EndInv, serverVars

LEMMA HelloNext == ASSUME DialogueInv, Hello, TypeOK' PROVE DialogueInv'
<1>1. /\ pcC = "start" /\ pcC' = "WHO" /\ sendDataOnce(Text("HELO"))
      /\ UNCHANGED <<serverVars, stored, link, filed, toClient>>
  BY DEF Hello
<1>2. FiledInv'
  BY <1>1 DEF DialogueInv, FiledInv, AllFiled, Before
<1>3. ASSUME stage \notin Over PROVE InStep'
  <2>1. stage = "HELO" /\ tries = 0 /\ Silent
    BY <1>1, <1>3 DEF DialogueInv, InStep
  <2>2. toServer' = <<Expected("HELO")>>
    BY <1>1, <1>3, <2>1, SendsOne DEF Silent, Expected
  <2> QED  BY <1>1, <2>1, <2>2 DEF InStep, Answered, Silent, serverVars
<1>4. Readable'
  BY <1>1, AlwaysReadable DEF Readable
<1>5. stage \in Over => toServer' = toServer
  BY <1>1 DEF sendDataOnce
<1> QED  BY <1>1, <1>2, <1>3, <1>4, <1>5, StaysInStep

LEMMA AnswerNext ==
  ASSUME DialogueInv, TypeOK',
         NEW s, NEW command, NEW text, NEW next,
         \/ /\ s = "USER" /\ command = "WHO" /\ text = "username"
            /\ next = "AUTH"
         \/ /\ s = "PASS" /\ command = "AUTH" /\ text = "password"
            /\ next = "TO"
         \/ /\ s = "RCPT" /\ command = "TO" /\ text = "rcpt_username"
            /\ next = "DATA",
         Answer(command, text, next)
  PROVE  DialogueInv'
<1>1. /\ pcC = command /\ pcC' = next /\ sendDataOnce(Text(text))
      /\ toClient # <<>> /\ Head(toClient) = Text(command)
      /\ receiveDataOnce(1)
      /\ UNCHANGED <<serverVars, stored, link, filed>>
  BY DEF Answer
<1>2. FiledInv'
  BY <1>1 DEF DialogueInv, FiledInv, AllFiled, Before
<1>3. \E x : toClient = <<x>>
  BY <1>1, AlwaysReadable DEF Readable
<1>4. toClient = <<Text(command)>> /\ toClient' = <<>>
  <2>1. PICK x : toClient = <<x>>
    BY <1>3
  <2>2. Head(<<x>>) = x /\ 1 \in 1 .. Len(<<x>>)
    OBVIOUS
  <2> QED  BY <1>1, <2>1, <2>2, ReadsOne
<1>5. ASSUME stage \notin Over PROVE InStep'
  <2>1. Offers(s, Text(command))
    BY <1>1, <1>4, <1>5
       DEF DialogueInv, InStep, Answered, Refuses, Offers, Due, Error, Text
  <2>2. out = <<>>
    BY <1>4, <2>1 DEF Offers, Due
  <2>3. toServer' = <<Expected(s)>>
    BY <1>1, <1>5, <2>1, SendsOne DEF Offers, Expected
  <2>4. Answered(s)'
    BY <1>1, <1>4, <2>1, <2>2, <2>3 DEF Answered, Offers, serverVars
  <2> QED  BY <1>1, <2>4 DEF InStep
<1>6. Readable'
  BY <1>1, <1>4 DEF Readable
<1>7. stage \in Over => toServer' = toServer
  BY <1>1 DEF sendDataOnce
<1>8. pcC # "gone"
  BY <1>1
<1> QED  BY <1>1, <1>2, <1>5, <1>6, <1>7, <1>8, StaysInStep

LEMMA HandshakeEnds == ASSUME DialogueInv, Told \/ Misread, TypeOK' PROVE DialogueInv'
<1>1. CASE Misread /\ pcC' = "gone"
  <2>1. UNCHANGED <<serverVars, stored, toServer, filed, numMessages>>
    BY <1>1 DEF Misread, Returns
  <2>2. FiledInv'
    BY <1>1 DEF FiledInv, AllFiled, Before
  <2> QED  BY <1>1, <2>1, <2>2, OutOfStep DEF Before
<1>2. CASE ~(Misread /\ pcC' = "gone")
  <2>1. PICK k \in 1 .. Len(toClient) :
          /\ receiveDataOnce(k)
          /\ \/ SubSeq(toClient, 1, k) # <<Text(pcC)>> /\ handshake' = "false"
             \/ k = 1 /\ pcC = "DATA" /\ Head(toClient) = Text("DATA")
    <3>1. CASE Told
      <4>1. 1 \in 1 .. Len(toClient)
        BY <3>1, EmptySeq DEF Told, DialogueInv, TypeOK
      <4> QED  BY <3>1, <4>1 DEF Told
    <3> QED  BY <1>2, <3>1 DEF Misread, Returns, Goes
  <2>2. /\ pcC \in {"TO", "DATA"} /\ pcC' = "count"
        /\ UNCHANGED <<serverVars, stored, link, toServer, filed>>
    BY <1>2 DEF Told, Misread, Returns, Goes
  <2>3. FiledInv'
    BY <2>2 DEF DialogueInv, FiledInv, AllFiled, Before
  <2>4. CASE toClient \in {<<Text("TO")>>, <<Text("101")>>, <<Text("102")>>,
                           <<Text("DATA")>>}
    <3>1. PICK text : toClient = <<text>>
      BY <2>4
    <3>2. /\ toClient' = <<>>
          /\ \/ text # Text(pcC) /\ handshake' = "false"
             \/ pcC = "DATA" /\ text = Text("DATA")
      BY <2>1, <3>1, ReadsOne
    <3>3. ASSUME stage \notin Over PROVE InStep'
      <4>1. CASE pcC = "TO"
        <5>1. Refuses("PASS") /\ out = <<>> /\ handshake' = "false"
          BY <2>2, <3>1, <3>2, <3>3, <4>1
             DEF DialogueInv, InStep, Answered, Offers, Refuses, Due
        <5> QED
          BY <2>2, <3>2, <5>1 DEF InStep, Silent, Refuses, serverVars
      <4>2. CASE pcC = "DATA"
        <5>1. CASE Refuses("RCPT")
          <6>1. out = <<>> /\ handshake' = "false"
            BY <3>1, <3>2, <5>1 DEF Refuses, Due, Error, Text
          <6> QED
            BY <2>2, <3>2, <5>1, <6>1 DEF InStep, Silent, Refuses, serverVars
        <5>2. CASE DataAndCount
          <6>1. out = <<Count>>
            BY <3>1, <5>2 DEF DataAndCount
          <6>2. Offers("COUNT", Count)'
            BY <2>2, <3>2, <5>2, <6>1
               DEF DataAndCount, Offers, Due, Count, serverVars
          <6> QED  BY <2>2, <6>2 DEF InStep
        <5> QED
          BY <3>1, <3>3, <4>2, <5>1, <5>2 DEF DialogueInv, InStep, Answered
      <4> QED  BY <2>2, <4>1, <4>2
    <3>4. Readable'
      BY <2>2, <3>2 DEF Readable
    <3> QED  BY <2>2, <2>3, <3>3, <3>4, StaysInStep
  <2>5. CASE toClient = <<Text("DATA"), Count>>
    <3>1. \/ toClient' = <<>> /\ handshake' = "false"
          \/ toClient' = <<Count>>
      <4>1. k = 1 \/ k = 2
        BY <2>1, <2>5, TwoTexts
      <4> QED  BY <2>1, <2>5, <4>1, TwoTexts DEF receiveDataOnce
    <3>2. ASSUME stage \notin Over PROVE InStep'
      <4>1. DataAndCount /\ out = <<>>
        BY <2>2, <2>5, <3>2
           DEF DialogueInv, InStep, Answered, Offers, Refuses, Due, DataAndCount
      <4>2. CASE toClient' = <<>>
        <5>1. <<Count>> # <<>>
          OBVIOUS
        <5> QED
          BY <2>2, <3>1, <4>1, <4>2, <5>1
             DEF InStep, Silent, DataAndCount, serverVars
      <4>3. CASE toClient' = <<Count>>
        <5>1. Offers("COUNT", Count)'
          BY <2>2, <4>1, <4>3 DEF DataAndCount, Offers, Due, Count, serverVars
        <5> QED  BY <2>2, <5>1 DEF InStep
      <4> QED  BY <3>1, <4>2, <4>3
    <3>3. Readable'
      BY <2>2, <3>1 DEF Readable, Count
    <3> QED  BY <2>2, <2>3, <3>2, <3>3, StaysInStep
  <2>6. toClient # <<>>
    BY <2>1
  <2> QED  BY <2>2, <2>4, <2>5, <2>6, AlwaysReadable DEF Readable
<1> QED  BY <1>1, <1>2

LEMMA CountIsNumber ==
  Head(<<Count>>) = Count /\ HasNumber(Count) /\ Number(Count) = stored
BY DEF Count, HasNumber, Number

LEMMA FetchCountNext ==
  ASSUME DialogueInv, FetchCount, TypeOK' PROVE DialogueInv'
<1>1. /\ pcC = "count" /\ sendDataOnce(Text("OK")) /\ toClient # <<>>
      /\ UNCHANGED <<serverVars, stored, filed>>
  BY DEF FetchCount
<1>2. toClient = <<Count>>
  BY <1>1, AlwaysReadable DEF Readable
<1>3. PICK k \in 1 .. Len(toClient) :
        /\ receiveDataOnce(k)
        /\ numMessages' = Number(Count) /\ UNCHANGED link
        /\ pcC' = IF numMessages' > 0 THEN "messages" ELSE "chat"
  BY <1>2, CountIsNumber DEF FetchCount
<1>4. toClient' = <<>> /\ numMessages' = stored
  BY <1>2, <1>3, ReadsOne, CountIsNumber
<1>5. filed = <<>> /\ Len(<<>>) = 0 /\ stored \in Nat
  BY <1>1, ServerNumbers DEF DialogueInv, FiledInv, Before
<1>6. \A n \in Nat : n = 0 => <<>> = [i \in 1 .. n |-> <<Message(i)>>']
  OBVIOUS
<1>7. CASE stored = 0
  <2>1. pcC' = "chat"
    BY <1>3, <1>4, <1>7
  <2>2. FiledInv'
    BY <1>1, <1>5, <1>6, <1>7, <2>1 DEF FiledInv, AllFiled, Before
  <2>3. stage \in Over => toServer' = toServer
    BY <1>1 DEF sendDataOnce
  <2> QED  BY <1>1, <1>3, <2>1, <2>2, <2>3, OutOfStep DEF Before
<1>8. CASE stored > 0
  <2>1. pcC' = "messages"
    BY <1>3, <1>4, <1>8
  <2>2. FiledInv'
    BY <1>1, <1>4, <1>5, <1>6, <1>8, <2>1 DEF FiledInv, AllFiled, Before
  <2>3. ASSUME stage \notin Over PROVE InStep'
    <3>1. Offers("COUNT", Count) /\ out = <<>>
      BY <1>1, <1>2, <2>3 DEF DialogueInv, InStep, Silent, Offers, Due
    <3>2. toServer' = <<Expected("COUNT")>>
      BY <1>1, <2>3, <3>1, SendsOne DEF Offers, Expected
    <3>3. Answered("COUNT")' /\ filed' = <<>>
      BY <1>1, <1>4, <1>5, <3>1, <3>2 DEF Answered, Offers, serverVars
    <3> QED  BY <2>1, <3>3 DEF InStep
  <2>4. Readable'
    BY <1>4, <2>1 DEF Readable
  <2>5. stage \in Over => toServer' = toServer
    BY <1>1 DEF sendDataOnce
  <2> QED  BY <1>1, <1>3, <2>2, <2>3, <2>4, <2>5, StaysInStep
<1> QED  BY <1>5, <1>7, <1>8

LEMMA FetchMessageNext ==
  ASSUME DialogueInv, FetchMessage, TypeOK' PROVE DialogueInv'
<1>1. PICK k \in 1 .. Len(toClient) :
        receiveDataOnce(k) /\ filed' = Append(filed, SubSeq(toClient, 1, k))
  BY DEF FetchMessage, writeToFile
<1>2. /\ pcC = "messages"
      /\ pcC' = IF Len(filed') < numMessages THEN "messages" ELSE "chat"
      /\ sendDataOnce(Text("OK"))
      /\ UNCHANGED <<serverVars, stored, link, numMessages>>
  BY DEF FetchMessage
<1>3. PICK n \in Nat : n = Len(filed)
  BY DEF DialogueInv, TypeOK
<1>4. toClient = <<Message(n + 1)>>
  <2>1. toClient # <<>>
    BY <1>1
  <2> QED  BY <1>2, <1>3, <2>1, AlwaysReadable DEF Readable
<1>5. toClient' = <<>> /\ filed' = Append(filed, <<Message(n + 1)>>)
  BY <1>1, <1>4, ReadsOne
<1>6. /\ numMessages = stored /\ n < stored /\ stored \in Nat
      /\ filed = [i \in 1 .. n |-> <<Message(i)>>]
  BY <1>2, <1>3, ServerNumbers DEF DialogueInv, FiledInv
<1>7. Len(filed') = n + 1 /\ filed' = [i \in 1 .. n + 1 |-> <<Message(i)>>]
  <2>1. \A i \in Nat : <<Message(i)>> \in Seq(Texts)
    BY NumberedType, OneTextType
  <2>2. filed \in Seq(Seq(Texts)) /\ n + 1 \in Nat
    BY DEF DialogueInv, TypeOK
  <2>3. /\ filed' \in Seq(Seq(Texts)) /\ Len(filed') = n + 1
        /\ \A i \in 1 .. n : filed'[i] = filed[i]
        /\ filed'[n + 1] = <<Message(n + 1)>>
    BY <1>3, <1>5, <2>1, <2>2, AppendProperties
  <2>4. \A i \in 1 .. n + 1 : filed'[i] = <<Message(i)>>
    <3>1. \A i \in 1 .. n + 1 : i \in 1 .. n \/ i = n + 1
      OBVIOUS
    <3> QED  BY <1>6, <2>3, <3>1
  <2>5. filed' = [i \in 1 .. n + 1 |-> filed'[i]]
    BY <2>3
  <2> QED  BY <2>3, <2>4, <2>5
<1>8. stage \in Over => toServer' = toServer
  BY <1>2 DEF sendDataOnce
<1>9. \A i : Message(i)' = Message(i)
  BY DEF Message
<1>10. CASE n + 1 < stored
  <2>1. pcC' = "messages"
    BY <1>2, <1>6, <1>7, <1>10
  <2>2. FiledInv'
    BY <1>2, <1>6, <1>7, <1>9, <1>10, <2>1 DEF FiledInv, AllFiled, Before
  <2>3. ASSUME stage \notin Over PROVE InStep'
    <3>1. Offers("STORED", Message(handed + 1)) /\ handed = n /\ out = <<>>
      BY <1>2, <1>3, <1>4, <2>3
         DEF DialogueInv, InStep, Answered, Offers, Due
    <3>2. toServer' = <<Expected("STORED")>>
      BY <1>2, <2>3, <3>1, SendsOne DEF Offers, Expected
    <3>3. Answered("STORED")' /\ handed' + 1 = Len(filed')
      BY <1>2, <1>5, <1>7, <3>1, <3>2 DEF Answered, Offers, serverVars
    <3> QED  BY <2>1, <3>3 DEF InStep
  <2>4. Readable'
    BY <1>5, <2>1 DEF Readable
  <2> QED  BY <1>2, <1>8, <2>2, <2>3, <2>4, StaysInStep
<1>11. CASE n + 1 = stored
  <2>1. pcC' = "chat"
    BY <1>2, <1>6, <1>7, <1>11
  <2>2. FiledInv'
    BY <1>2, <1>7, <1>9, <1>11, <2>1 DEF FiledInv, AllFiled, Before
  <2> QED  BY <1>2, <1>8, <2>1, <2>2, OutOfStep DEF Before
<1> QED  BY <1>6, <1>10, <1>11

\* The chat, another program, and the end of the client.
LEMMA OthersNext ==
  ASSUME DialogueInv, TypeOK',
         \/ receiveData \/ sendData \/ LoseServer \/ Quit
         \/ \E text \in Commands \cup Answers : Says(text)
  PROVE  DialogueInv'
<1>1. UNCHANGED <<serverVars, stored, filed, numMessages>>
  BY DEF receiveData, sendData, Says, LoseServer, Quit, clientVars
<1>2. CASE LoseServer \/ Quit
  <2>1. pcC' = "gone" /\ toServer' = toServer
    BY <1>2 DEF LoseServer, Quit, Goes
  <2>2. FiledInv'
    BY <2>1 DEF FiledInv, AllFiled, Before
  <2> QED  BY <1>1, <2>1, <2>2, OutOfStep DEF Before
<1>3. CASE ~(LoseServer \/ Quit)
  <2>1. /\ pcC \in {"chat", "other"} /\ UNCHANGED <<pcC, link>>
        /\ stage \in Over => toServer' = toServer
    BY <1>3 DEF receiveData, sendData, Says, sendDataOnce, clientVars
  <2>2. FiledInv'
    BY <1>1, <2>1 DEF DialogueInv, FiledInv, AllFiled, Before, Message
  <2> QED  BY <1>1, <2>1, <2>2, OutOfStep DEF Before
<1> QED  BY <1>2, <1>3

LEMMA DialogueNext ==
  ASSUME DialogueInv, [Next]_vars, strays' = strays
  PROVE  DialogueInv'
<1>1. TypeOK'
  BY TypeNext DEF DialogueInv
<1>2. CASE UNCHANGED vars
  BY <1>2 DEF vars, serverVars, clientVars, DialogueInv, TypeOK, FiledInv,
       AllFiled, EndInv, InStep, Readable, Silent, Answered, Offers,
       Refuses, Due, DataAndCount, Count, Message
<1>3. CASE ServerStep \/ Forward \/ ServerDies \/ ResetArrives \/ Reap
  BY <1>1, <1>3, ServerNext
<1>4. CASE \/ Answer("WHO", "username", "AUTH")
           \/ Answer("AUTH", "password", "TO")
           \/ Answer("TO", "rcpt_username", "DATA")
  BY <1>1, <1>4, AnswerNext
<1> QED
  BY <1>1, <1>2, <1>3, <1>4, HelloNext, HandshakeEnds, FetchCountNext,
     FetchMessageNext, OthersNext
     DEF Next, ClientStep

\* Forwards that have strayed are never taken back.
LEMMA StraysStay ==
  ASSUME TypeOK, [Next]_vars, strays' = 0
  PROVE  strays = 0
<1>1. strays \in Nat
  BY Bounds DEF TypeOK
<1>2. CASE Forward
  BY <1>1, <1>2 DEF Forward
<1>3. CASE ~Forward
  <2>1. strays' = strays
    BY <1>3
       DEF Next, ServerStep, Receive, ReceiveNothing, ReceiveChat, LeaveChat,
           close_connection, Send, ServerDies, ResetArrives, Reap, ClientStep,
           Hello, Answer, Told, Misread, Returns, FetchCount, FetchMessage,
           receiveData, LoseServer, sendData, Quit, Says, vars
  <2> QED  BY <2>1
<1> QED  BY <1>2, <1>3

LEMMA DialogueIInit == Init => DialogueIInv
BY TypeInit, DialogueInit DEF DialogueIInv

LEMMA DialogueINext == DialogueIInv /\ [Next]_vars => DialogueIInv'
<1> SUFFICES ASSUME DialogueIInv, [Next]_vars PROVE DialogueIInv'
  OBVIOUS
<1>1. TypeOK /\ TypeOK'
  BY TypeNext DEF DialogueIInv
<1>2. ASSUME strays' = 0 PROVE DialogueInv'
  <2>1. strays' = strays /\ DialogueInv
    BY <1>1, <1>2, StraysStay DEF DialogueIInv
  <2> QED  BY <2>1, DialogueNext
<1> QED  BY <1>1, <1>2 DEF DialogueIInv

\* A client that starts its chat has filed every stored message, once, in order
\* and apart from the others (client.cpp:271-292, client_handling.c:167-173),
\* for any number of stored messages, wherever the server dies or a user quits,
\* unless a forward strayed into the dialogue before.
THEOREM FilesInOrder == Spec => []FetchedInOrder
<1>1. Init => DialogueIInv  BY DialogueIInit
<1>2. DialogueIInv /\ [Next]_vars => DialogueIInv'  BY DialogueINext
<1>3. DialogueIInv => FetchedInOrder
  BY DEF DialogueIInv, DialogueInv, FiledInv, AllFiled, FetchedInOrder
<1> QED  BY <1>1, <1>2, <1>3, PTL DEF Spec

\* After a handshake that returned true, client and thread never wait for each
\* other (client.cpp:263-291, client_handling.c:163-170): what FetchCompletes
\* rests on, for any number of stored messages.
THEOREM NoMutualWait == Spec => []NeverBothWait
<1>1. Init => DialogueIInv  BY DialogueIInit
<1>2. DialogueIInv /\ [Next]_vars => DialogueIInv'  BY DialogueINext
<1>3. DialogueIInv => NeverBothWait
  <2> SUFFICES ASSUME DialogueInv, handshake = "true", stage \notin Over,
                      pcC \in {"count", "messages"}
               PROVE  toServer # <<>> \/ toClient # <<>> \/ out # <<>>
    BY DEF DialogueIInv, NeverBothWait
  <2> QED  BY DEF DialogueInv, InStep, Answered, Offers, Due
<1> QED  BY <1>1, <1>2, <1>3, PTL DEF Spec

-----------------------------------------------------------------------------
(* LastOkArrives.  Beyond DialogueInv, nothing follows the "OK" before the     *)
(* user types, so that the thread takes it for what it is.                     *)

LastOk ==
  /\ \/ stage = "COUNT" /\ stored = 0
     \/ stage = "STORED" /\ handed + 1 = stored
  /\ toServer = <<Expected(stage)>> /\ out = <<>>

QuietInv ==
  strays = 0 /\ pcC = "chat" /\ lines = 0 /\ stage \notin Over
    => LastOk \/ (stage = "CHAT" /\ toServer = <<>>)

\* The client is told that no message is stored, or files the last one.
LEMMA ChatBegins ==
  ASSUME DialogueInv, FetchCount \/ FetchMessage, pcC' = "chat",
         stage' \notin Over
  PROVE  LastOk'
<1>1. /\ sendDataOnce(Text("OK")) /\ UNCHANGED <<serverVars, stored>>
      /\ toClient # <<>>
  BY DEF FetchCount, FetchMessage
<1>2. stage \notin Over /\ InStep
  BY <1>1 DEF DialogueInv, serverVars
<1>3. CASE FetchCount
  <2>2. pcC = "count"
    BY <1>3 DEF FetchCount
  <2>3. Offers("COUNT", Count) /\ toClient = <<Count>> /\ out = <<>>
    BY <1>1, <1>2, <2>2 DEF InStep, Silent, Offers, Due
  <2>4. numMessages' = stored /\ ~ (numMessages' > 0)
    BY <1>3, <2>3, CountIsNumber DEF FetchCount
  <2>5. stored = 0
    BY <2>4, ServerNumbers DEF DialogueInv
  <2>6. toServer' = <<Expected("COUNT")>>
    BY <1>1, <1>2, <2>3, SendsOne DEF Offers, Expected
  <2> QED  BY <1>1, <2>3, <2>5, <2>6 DEF LastOk, Offers, serverVars
<1>4. CASE FetchMessage
  <2>1. PICK k \in 1 .. Len(toClient) :
          receiveDataOnce(k) /\ filed' = Append(filed, SubSeq(toClient, 1, k))
    BY <1>4 DEF FetchMessage, writeToFile
  <2>2. /\ pcC = "messages" /\ ~ (Len(filed') < numMessages)
        /\ numMessages = stored /\ Len(filed) < stored
    BY <1>4 DEF FetchMessage, DialogueInv, FiledInv
  <2>3. /\ Offers("STORED", Message(handed + 1)) /\ handed = Len(filed)
        /\ toClient = <<Message(handed + 1)>> /\ out = <<>>
    BY <1>1, <1>2, <2>2 DEF InStep, Answered, Offers, Due
  <2>4. Len(filed') = Len(filed) + 1
    <3>1. filed' = Append(filed, <<Message(handed + 1)>>)
      BY <2>1, <2>3, ReadsOne
    <3>2. filed \in Seq(Seq(Texts)) /\ <<Message(handed + 1)>> \in Seq(Texts)
      BY ServerNumbers, NumberedType, OneTextType DEF DialogueInv, TypeOK
    <3> QED  BY <3>1, <3>2, AppendProperties
  <2>5. handed + 1 = stored
    BY <2>2, <2>3, <2>4, ServerNumbers DEF DialogueInv
  <2>6. toServer' = <<Expected("STORED")>>
    BY <1>1, <1>2, <2>3, SendsOne DEF Offers, Expected
  <2> QED  BY <1>1, <2>3, <2>5, <2>6 DEF LastOk, Offers, serverVars
<1> QED  BY <1>3, <1>4

\* The thread understands the "OK" and goes on to the chat.
LEMMA LastOkUnderstood ==
  ASSUME DialogueInv, LastOk, Receive \/ Send
  PROVE  stage' = "CHAT" /\ toServer' = <<>>
<1>1. Receive /\ stage \in {"COUNT", "STORED"}
  BY DEF LastOk, Send
<1>2. PICK k \in 1 .. Len(<<Expected(stage)>>) :
        /\ toServer' = SubSeq(<<Expected(stage)>>, k + 1, Len(<<Expected(stage)>>))
        /\ \/ Accepts
           \/ Head(<<Expected(stage)>>) \in Commands
           \/ SubSeq(<<Expected(stage)>>, 1, k) = <<Expected(stage)>>
                => stage \in Queried
  BY <1>1 DEF Receive, LastOk
<1>3. /\ Head(<<Expected(stage)>>) = Expected(stage)
      /\ Expected(stage) \notin Commands /\ stage \notin Queried
  BY <1>1 DEF Expected, Commands, Text, Queried
<1>4. Accepts /\ toServer' = <<>>
  BY <1>2, <1>3, OneText
<1>5. HandsOver(stored)
  BY <1>1, <1>4 DEF Accepts, GoesOn, LastOk
<1>6. stage' = "CHAT"
  BY <1>5, ServerNumbers DEF DialogueInv, HandsOver, Proceeds
<1> QED  BY <1>4, <1>6

LEMMA QuietNext ==
  ASSUME DialogueIInv, QuietInv, [Next]_vars
  PROVE  QuietInv'
<1> SUFFICES ASSUME strays' = 0, pcC' = "chat", lines' = 0, stage' \notin Over
             PROVE  LastOk' \/ (stage' = "CHAT" /\ toServer' = <<>>)
  BY DEF QuietInv
<1>0. DialogueInv /\ strays = 0
  BY StraysStay DEF DialogueIInv
<1>1. CASE FetchCount \/ FetchMessage
  BY <1>0, <1>1, ChatBegins
<1>2. CASE ServerStep \/ Forward \/ ServerDies \/ ResetArrives \/ Reap
  <2>1. /\ pcC = "chat" /\ lines = 0 /\ stage \in Stages /\ stored' = stored
        /\ link = "up"
    BY <1>0, <1>2
       DEF ServerStep, Receive, ReceiveNothing, ReceiveChat, LeaveChat,
            close_connection, Send, Forward, ServerDies, ResetArrives, Reap,
            clientVars, Stages, DialogueInv, EndInv
  <2>2. CASE LastOk
    <3>1. Receive \/ Send
      BY <1>0, <1>2, <2>1, <2>2
         DEF LastOk, ServerStep, ReceiveNothing, AtEnd, ReceiveChat, LeaveChat,
             close_connection, Forward, ServerDies, Stops, ResetArrives, Reap
    <3> QED  BY <1>0, <2>2, <3>1, LastOkUnderstood
  <2>3. CASE stage = "CHAT" /\ toServer = <<>>
    BY <1>2, <2>1, <2>3
       DEF ServerStep, Receive, ReceiveNothing, AtEnd, ReceiveChat, LeaveChat,
           close_connection, Send, Sends, Forward, ServerDies, Stops,
           ResetArrives, Reap, serverVars
  <2>4. QuietInv /\ stage \notin Over
    BY <2>1 DEF Stages
  <2> QED  BY <1>0, <2>1, <2>2, <2>3, <2>4 DEF QuietInv
<1>3. CASE receiveData \/ UNCHANGED vars
  <2>1. UNCHANGED <<pcC, lines, stage, handed, out, toServer, stored>>
    BY <1>3 DEF receiveData, vars, clientVars, serverVars
  <2> QED  BY <1>0, <2>1 DEF QuietInv, LastOk
<1>4. ~sendData
  BY <1>0 DEF sendData, DialogueInv, TypeOK
<1>5. CASE \/ Hello \/ Told \/ Misread \/ LoseServer \/ Quit
           \/ Answer("WHO", "username", "AUTH")
           \/ Answer("AUTH", "password", "TO")
           \/ Answer("TO", "rcpt_username", "DATA")
           \/ \E text \in Commands \cup Answers : Says(text)
  BY <1>5 DEF Hello, Told, Misread, Returns, LoseServer, Quit, Goes, Answer,
              Says, clientVars
<1> QED  BY <1>1, <1>2, <1>3, <1>4, <1>5 DEF Next, ClientStep

\* The last "OK" of a client that waits with its first line arrives alone, and as
\* the answer that the thread waits for (client_handling.c:163-173): what
\* QuietClientComesOnline rests on, for any number of stored messages.
THEOREM OkIsUnderstood == Spec => []LastOkArrives
<1>1. Init => DialogueIInv /\ QuietInv
  BY DialogueIInit DEF Init, QuietInv
<1>2. DialogueIInv /\ QuietInv /\ [Next]_vars => (DialogueIInv /\ QuietInv)'
  BY DialogueINext, QuietNext
<1>3. QuietInv => LastOkArrives
  BY DEF QuietInv, LastOk, LastOkArrives
<1> QED  BY <1>1, <1>2, <1>3, PTL DEF Spec

=============================================================================
