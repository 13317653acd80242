------------------------ MODULE MessageRoutingProofs ------------------------
(* Theorems about MessageRouting, for any users, sessions and descriptors. *)
EXTENDS MessageRouting, TLAPS

USE RoutingAssumption DEF Steps, Away, Chatting, histories

\* What a session holds in its hands is one of the messages.
LEMMA InHandIsMessage ==
  ASSUME TypeOK, NEW s \in Sessions, count[s] > 0
  PROVE  InHand(s) \in Messages
BY DEF TypeOK, InHand, Messages

\* What is sent is on record with its sender and the connection.
LEMMA SendKeepsType ==
  ASSUME TypeOK, NEW s \in Sessions, NEW m \in Messages, NEW f \in Fds,
         Send(s, m, f)
  PROVE  shown' \subseteq Sendings
BY DEF TypeOK, Send, Sendings

LEMMA TypeInit == Init => TypeOK
BY DEF Init, TypeOK, Record!Init, Record!TypeOK, Messages

LEMMA TypeNext == TypeOK /\ [Next]_vars => TypeOK'
<1> SUFFICES ASSUME TypeOK, [Next]_vars PROVE TypeOK'
  OBVIOUS
<1> USE DEF TypeOK, Record!TypeOK, Moves
<1>1. CASE Crash
  BY <1>1 DEF Crash
<1>2. ASSUME NEW s \in Sessions, Connect(s) PROVE TypeOK'
  BY <1>2 DEF Connect
<1>21. ASSUME NEW s \in Sessions, Login(s) PROVE TypeOK'
  <2>1. crowded' \subseteq Users
    BY <1>21 DEF Login, OthersOf
  <2> QED  BY <1>21, <2>1 DEF Login
<1>22. ASSUME NEW s \in Sessions, HandshakeFails(s) PROVE TypeOK'
  BY <1>22 DEF HandshakeFails, close_connection
<1>23. ASSUME NEW f \in Fds, Reap(f) PROVE TypeOK'
  BY <1>23 DEF Reap
<1>3. ASSUME NEW s \in Sessions, Hangup(s) PROVE TypeOK'
  BY <1>3 DEF Hangup
<1>4. ASSUME NEW s \in Sessions, Fetch(s) PROVE TypeOK'
  BY <1>4 DEF Fetch, StoredFor
<1>5. ASSUME NEW s \in Sessions, FetchFails(s) PROVE TypeOK'
  BY <1>5 DEF FetchFails
<1>6. ASSUME NEW s \in Sessions, Purge(s) PROVE TypeOK'
  BY <1>6 DEF Purge
<1>7. ASSUME NEW s \in Sessions, PurgeFails(s) PROVE TypeOK'
  BY <1>7 DEF PurgeFails
<1>8. ASSUME NEW s \in Sessions, CountConfirmed(s) PROVE TypeOK'
  BY <1>8 DEF CountConfirmed
<1>9. ASSUME NEW s \in Sessions, CountFails(s) PROVE TypeOK'
  BY <1>9 DEF CountFails, close_connection
<1>10. ASSUME NEW s \in Sessions, Drain(s) PROVE TypeOK'
  <2>1. shown' \subseteq Sendings
    BY <1>10, SendKeepsType DEF Drain
  <2> QED  BY <1>10, <2>1 DEF Drain
<1>11. ASSUME NEW s \in Sessions, DrainDone(s) PROVE TypeOK'
  BY <1>11 DEF DrainDone
<1>12. ASSUME NEW s \in Sessions, Register(s) PROVE TypeOK'
  BY <1>12 DEF Register, Record!set_online
<1>13. ASSUME NEW s \in Sessions, Receive(s) PROVE TypeOK'
  BY <1>13 DEF Receive
<1>14. ASSUME NEW s \in Sessions, Lookup(s) PROVE TypeOK'
  BY <1>14 DEF Lookup, Record!is_online
<1>15. ASSUME NEW s \in Sessions, Forward(s) PROVE TypeOK'
  <2>1. shown' \subseteq Sendings
    BY <1>15, InHandIsMessage, SendKeepsType DEF Forward
  <2> QED  BY <1>15, <2>1 DEF Forward
<1>16. ASSUME NEW s \in Sessions, Store(s) PROVE TypeOK'
  BY <1>16, InHandIsMessage DEF Store
<1>17. ASSUME NEW s \in Sessions, StoreFails(s) PROVE TypeOK'
  BY <1>17 DEF StoreFails
<1>18. ASSUME NEW s \in Sessions, Leave(s) PROVE TypeOK'
  BY <1>18 DEF Leave, Record!set_offline
<1>19. ASSUME NEW s \in Sessions, Close(s) PROVE TypeOK'
  BY <1>19 DEF Close, close_connection
<1>20. CASE UNCHANGED vars
  BY <1>20 DEF vars
<1> QED
  BY <1>1, <1>2, <1>3, <1>4, <1>5, <1>6, <1>7, <1>8, <1>9, <1>10, <1>11, <1>12,
     <1>13, <1>14, <1>15, <1>16, <1>17, <1>18, <1>19, <1>20, <1>21, <1>22, <1>23
     DEF Next

\* All variables keep their types, and a session that forwards has a
\* descriptor to send to (client_handling.c:195-198).
THEOREM TypeCorrect == Spec => []TypeOK
<1>1. Init => TypeOK  BY TypeInit
<1>2. TypeOK /\ [Next]_vars => TypeOK'  BY TypeNext
<1> QED  BY <1>1, <1>2, PTL DEF Spec

-----------------------------------------------------------------------------
(* RecordSound.  A socket on record is that of a session in its chat         *)
(* (Recorded).  The connection a session logged in on stays behind the       *)
(* session's socket until it has gone (AtHome): close_connection and the     *)
(* acceptor take only connections away that have gone, or go with it, and a  *)
(* connection that comes up is none that a session is logged in on (Unknown). *)

Recorded ==
  \A u \in Users : record[u] # -1 =>
    \E s \in Sessions :
      UserOf[s] = u /\ pc[s] \in Chatting /\ sock[s] = record[u]

AtHome ==
  \A s \in Sessions :
    pc[s] \notin Away /\ via[s] \in up => files[sock[s]] = via[s]

Unknown ==
  \A c \in Sessions : pc[c] = "idle" =>
    /\ \A f \in Fds : files[f] # c
    /\ \A s \in Sessions : via[s] # c
    /\ \A d \in shown : d.on # c

LEMMA UnknownNext == TypeOK /\ Unknown /\ [Next]_vars => Unknown'
<1> SUFFICES ASSUME TypeOK, Unknown, [Next]_vars PROVE Unknown'
  OBVIOUS
<1> USE DEF TypeOK, Unknown, Moves
<1>1. CASE Crash
  BY <1>1 DEF Crash
<1>2. ASSUME NEW s \in Sessions, Connect(s) PROVE Unknown'
  BY <1>2 DEF Connect
<1>3. ASSUME NEW s \in Sessions, Login(s) PROVE Unknown'
  BY <1>3 DEF Login
<1>4. ASSUME NEW s \in Sessions,
             HandshakeFails(s) \/ CountFails(s) \/ Close(s)
      PROVE  Unknown'
  BY <1>4 DEF HandshakeFails, CountFails, Close, close_connection
<1>5. ASSUME NEW f \in Fds, Reap(f) PROVE Unknown'
  BY <1>5 DEF Reap
<1>6. ASSUME NEW s \in Sessions,
             \/ Hangup(s) \/ Fetch(s) \/ FetchFails(s) \/ Purge(s)
             \/ PurgeFails(s) \/ CountConfirmed(s) \/ DrainDone(s)
             \/ Register(s) \/ Receive(s) \/ Lookup(s)
             \/ Store(s) \/ StoreFails(s) \/ Leave(s)
      PROVE  Unknown'
  BY <1>6 DEF Hangup, Fetch, FetchFails, Purge, PurgeFails, CountConfirmed,
              DrainDone, Register, Receive, Lookup, Store, StoreFails, Leave
<1>7. ASSUME NEW s \in Sessions, Drain(s) PROVE Unknown'
  <2>1. \A d \in shown' : d \in shown \/ d.on = files[sock[s]]
    BY <1>7 DEF Drain, Send
  <2> QED  BY <1>7, <2>1 DEF Drain
<1>8. ASSUME NEW s \in Sessions, Forward(s) PROVE Unknown'
  <2>1. \A d \in shown' : d \in shown \/ d.on = files[target[s]]
    BY <1>8 DEF Forward, Send
  <2> QED  BY <1>8, <2>1 DEF Forward
<1>9. CASE UNCHANGED vars
  BY <1>9 DEF vars
<1> QED
  BY <1>1, <1>2, <1>3, <1>4, <1>5, <1>6, <1>7, <1>8, <1>9 DEF Next

\* A connection keeps its descriptor until it has gone, and one that comes up
\* was not there before.
LEMMA UpKeepsPlace ==
  ASSUME TypeOK, [Next]_vars
  PROVE  /\ \A c \in up' : c \in up \/ (c \in Sessions /\ pc[c] = "idle")
         /\ \A f \in Fds : files[f] \in up /\ files[f] \in up'
                           => files'[f] = files[f]
<1> USE DEF TypeOK, Moves
<1>1. CASE Crash
  BY <1>1 DEF Crash
<1>2. ASSUME NEW s \in Sessions, Connect(s)
      PROVE  /\ \A c \in up' : c \in up \/ (c \in Sessions /\ pc[c] = "idle")
             /\ \A f \in Fds : files[f] \in up /\ files[f] \in up'
                               => files'[f] = files[f]
  BY <1>2 DEF Connect
<1>3. ASSUME NEW s \in Sessions,
             HandshakeFails(s) \/ CountFails(s) \/ Close(s)
      PROVE  /\ \A c \in up' : c \in up \/ (c \in Sessions /\ pc[c] = "idle")
             /\ \A f \in Fds : files[f] \in up /\ files[f] \in up'
                               => files'[f] = files[f]
  BY <1>3 DEF HandshakeFails, CountFails, Close, close_connection
<1>4. ASSUME NEW g \in Fds, Reap(g)
      PROVE  /\ \A c \in up' : c \in up \/ (c \in Sessions /\ pc[c] = "idle")
             /\ \A f \in Fds : files[f] \in up /\ files[f] \in up'
                               => files'[f] = files[f]
  BY <1>4 DEF Reap
<1>5. ASSUME NEW s \in Sessions,
             \/ Login(s) \/ Hangup(s) \/ Fetch(s) \/ FetchFails(s) \/ Purge(s)
             \/ PurgeFails(s) \/ CountConfirmed(s) \/ Drain(s) \/ DrainDone(s)
             \/ Register(s) \/ Receive(s) \/ Lookup(s) \/ Forward(s)
             \/ Store(s) \/ StoreFails(s) \/ Leave(s)
      PROVE  up' \subseteq up /\ files' = files
  BY <1>5 DEF Login, Hangup, Fetch, FetchFails, Purge, PurgeFails, CountConfirmed,
              Drain, DrainDone, Register, Receive, Lookup, Forward, Store,
              StoreFails, Leave
<1>6. CASE UNCHANGED vars
  BY <1>6 DEF vars
<1> QED
  BY <1>1, <1>2, <1>3, <1>4, <1>5, <1>6 DEF Next

\* A session that is logged in before and after a step keeps its socket, and
\* the connection it logged in on.
LEMMA InPlace ==
  ASSUME TypeOK, [Next]_vars, NEW s \in Sessions,
         pc[s] \notin Away, pc'[s] \notin Away
  PROVE  sock'[s] = sock[s] /\ via'[s] = via[s]
<1> USE DEF TypeOK, Moves
<1>1. CASE Crash
  BY <1>1 DEF Crash
<1>2. ASSUME NEW t \in Sessions,
             \/ Connect(t) \/ Login(t)
             \/ HandshakeFails(t) \/ CountFails(t) \/ Close(t)
      PROVE  sock'[s] = sock[s] /\ via'[s] = via[s]
  BY <1>2 DEF Connect, Login, HandshakeFails, CountFails, Close,
              close_connection
<1>3. ASSUME NEW f \in Fds, Reap(f)
      PROVE  sock'[s] = sock[s] /\ via'[s] = via[s]
  BY <1>3 DEF Reap
<1>4. ASSUME NEW t \in Sessions,
             \/ Hangup(t) \/ Fetch(t) \/ FetchFails(t) \/ Purge(t)
             \/ PurgeFails(t) \/ CountConfirmed(t) \/ Drain(t) \/ DrainDone(t)
             \/ Register(t) \/ Receive(t) \/ Lookup(t) \/ Forward(t)
             \/ Store(t) \/ StoreFails(t) \/ Leave(t)
      PROVE  sock' = sock /\ via' = via
  BY <1>4 DEF Hangup, Fetch, FetchFails, Purge, PurgeFails, CountConfirmed,
              Drain, DrainDone, Register, Receive, Lookup, Forward, Store,
              StoreFails, Leave
<1>5. CASE UNCHANGED vars
  BY <1>5 DEF vars
<1> QED
  BY <1>1, <1>2, <1>3, <1>4, <1>5 DEF Next

\* Every step but a login leaves sessions that are away where they are.
LEMMA AwayStays ==
  ASSUME TypeOK, [Next]_vars, NEW t \in Sessions, pc[t] \in Away,
         ~Login(t)
  PROVE  pc'[t] \in Away
<1> USE DEF TypeOK, Moves
<1>1. CASE Crash \/ UNCHANGED vars
  BY <1>1 DEF Crash, vars
<1>2. ASSUME NEW s \in Sessions,
             \/ Connect(s) \/ Hangup(s) \/ Drain(s) \/ Login(s)
             \/ HandshakeFails(s) \/ Fetch(s) \/ FetchFails(s) \/ Purge(s) \/ PurgeFails(s)
             \/ CountConfirmed(s) \/ DrainDone(s) \/ CountFails(s)
      PROVE  pc'[t] \in Away
  BY <1>2 DEF Connect, Hangup, Drain, Login, HandshakeFails, Fetch, FetchFails, Purge, PurgeFails,
              CountConfirmed, DrainDone, CountFails
<1>3. ASSUME NEW s \in Sessions,
             \/ Register(s) \/ Receive(s) \/ Lookup(s) \/ Forward(s)
             \/ Store(s) \/ StoreFails(s) \/ Leave(s) \/ Close(s)
      PROVE  pc'[t] \in Away
  BY <1>3 DEF Register, Receive, Lookup, Forward, Store, StoreFails, Leave,
              Close
<1>4. ASSUME NEW f \in Fds, Reap(f) PROVE pc'[t] \in Away
  BY <1>4 DEF Reap
<1> QED  BY <1>1, <1>2, <1>3, <1>4 DEF Next

LEMMA HomeNext == TypeOK /\ Unknown /\ AtHome /\ [Next]_vars => AtHome'
<1> SUFFICES ASSUME TypeOK, Unknown, AtHome, [Next]_vars,
                    NEW s \in Sessions, pc'[s] \notin Away, via'[s] \in up'
             PROVE  files'[sock'[s]] = via'[s]
  BY DEF AtHome
<1>1. CASE pc[s] \notin Away
  <2>1. sock'[s] = sock[s] /\ via'[s] = via[s] /\ sock[s] \in Fds
    BY <1>1, InPlace DEF TypeOK
  <2>2. via[s] \in up
    BY <1>1, <2>1, UpKeepsPlace DEF Unknown, TypeOK
  <2>3. files[sock[s]] = via[s]
    BY <1>1, <2>2 DEF AtHome
  <2> QED  BY <2>1, <2>2, <2>3, UpKeepsPlace
<1>2. CASE pc[s] \in Away
  <2>1. Login(s)
    BY <1>2, AwayStays
  <2> QED  BY <2>1 DEF Login, Moves, TypeOK
<1> QED  BY <1>1, <1>2

LEMMA RecordedNext == TypeOK /\ Recorded /\ [Next]_vars => Recorded'
<1> SUFFICES ASSUME TypeOK, Recorded, [Next]_vars PROVE Recorded'
  OBVIOUS
<1> USE DEF TypeOK, Record!TypeOK, Recorded, Moves
<1>1. CASE Crash
  BY <1>1 DEF Crash
<1>2. ASSUME NEW s \in Sessions, Connect(s) \/ Login(s) PROVE Recorded'
  BY <1>2 DEF Connect, Login
\* A session that ends is not in its chat any more, so it is not on record.
<1>3. ASSUME NEW s \in Sessions,
             HandshakeFails(s) \/ CountFails(s) \/ Close(s)
      PROVE  Recorded'
  BY <1>3 DEF HandshakeFails, CountFails, Close, close_connection
<1>4. ASSUME NEW f \in Fds, Reap(f) PROVE Recorded'
  BY <1>4 DEF Reap
<1>5. ASSUME NEW s \in Sessions,
             \/ Hangup(s) \/ Drain(s)
             \/ Fetch(s) \/ FetchFails(s) \/ Purge(s) \/ PurgeFails(s)
             \/ CountConfirmed(s) \/ DrainDone(s)
      PROVE  Recorded'
  BY <1>5 DEF Hangup, Drain, Fetch, FetchFails, Purge, PurgeFails,
              CountConfirmed, DrainDone
\* A user already on record keeps the session that is recorded.
<1>6. ASSUME NEW s \in Sessions, Register(s) PROVE Recorded'
  BY <1>6 DEF Register, Record!set_online
<1>7. ASSUME NEW s \in Sessions,
             \/ Receive(s) \/ Lookup(s) \/ Forward(s)
             \/ Store(s) \/ StoreFails(s)
      PROVE  Recorded'
  BY <1>7 DEF Receive, Lookup, Forward, Store, StoreFails
\* Who is still on record is another user, whose session stays.
<1>8. ASSUME NEW s \in Sessions, Leave(s) PROVE Recorded'
  BY <1>8 DEF Leave, Record!set_offline
<1>9. CASE UNCHANGED vars
  BY <1>9 DEF vars
<1> QED
  BY <1>1, <1>2, <1>3, <1>4, <1>5, <1>6, <1>7, <1>8, <1>9 DEF Next

SoundInv == TypeOK /\ Unknown /\ AtHome /\ Recorded

LEMMA SoundInit == Init => SoundInv
BY TypeInit DEF SoundInv, Unknown, AtHome, Recorded, Init, Record!Init

LEMMA SoundInvNext == SoundInv /\ [Next]_vars => SoundInv'
BY TypeNext, UnknownNext, HomeNext, RecordedNext DEF SoundInv

\* What is_online answers is, at that moment, the socket of a session of the
\* user asked for that is in its chat, and it stands for the connection that
\* session logged in on as long as that has not gone; however many sessions a
\* user has, in whatever order they register and leave, and whoever closes
\* descriptors by their number.
THEOREM RecordIsSound == Spec => []RecordSound
<1>1. SoundInv => RecordSound
  BY DEF SoundInv, Recorded, AtHome, RecordSound
<1> QED  BY SoundInit, SoundInvNext, <1>1, PTL DEF Spec

-----------------------------------------------------------------------------
(* RecordExact.  A user that is not crowded has one session under way, so    *)
(* nothing is on record for the user when the session registers.             *)

OneAtATime ==
  \A s, t \in Sessions :
    /\ s # t
    /\ UserOf[s] = UserOf[t]
    /\ UserOf[s] \notin crowded
    => pc[s] \in Away \/ pc[t] \in Away

LEMMA CrowdedStays == TypeOK /\ [Next]_vars => crowded \subseteq crowded'
<1> SUFFICES ASSUME TypeOK, [Next]_vars PROVE crowded \subseteq crowded'
  OBVIOUS
<1>1. ASSUME NEW s \in Sessions, Login(s) PROVE crowded \subseteq crowded'
  BY <1>1 DEF Login
<1>2. ASSUME NEW s \in Sessions,
             \/ Connect(s) \/ HandshakeFails(s) \/ Hangup(s) \/ Fetch(s)
             \/ FetchFails(s) \/ Purge(s) \/ PurgeFails(s) \/ CountConfirmed(s)
             \/ CountFails(s) \/ Drain(s) \/ DrainDone(s) \/ Register(s)
             \/ Receive(s) \/ Lookup(s) \/ Forward(s) \/ Store(s)
             \/ StoreFails(s) \/ Leave(s) \/ Close(s)
      PROVE  crowded' = crowded
  BY <1>2 DEF Connect, HandshakeFails, Hangup, Fetch, FetchFails, Purge,
              PurgeFails, CountConfirmed, CountFails, Drain, DrainDone,
              Register, Receive, Lookup, Forward, Store, StoreFails, Leave,
              Close
<1>3. ASSUME NEW f \in Fds, Reap(f) PROVE crowded' = crowded
  BY <1>3 DEF Reap
<1>4. CASE Crash \/ UNCHANGED vars
  BY <1>4 DEF Crash, vars
<1> QED  BY <1>1, <1>2, <1>3, <1>4 DEF Next

LEMMA OneNext == TypeOK /\ OneAtATime /\ [Next]_vars => OneAtATime'
<1> SUFFICES ASSUME TypeOK, OneAtATime, [Next]_vars,
                    NEW s \in Sessions, NEW t \in Sessions,
                    s # t, UserOf[s] = UserOf[t], UserOf[s] \notin crowded'
             PROVE  pc'[s] \in Away \/ pc'[t] \in Away
  BY DEF OneAtATime
<1>1. CASE Login(s)
  BY <1>1 DEF Login, OthersOf, Moves, TypeOK
<1>2. CASE Login(t)
  BY <1>2 DEF Login, OthersOf, Moves, TypeOK
<1>3. CASE ~Login(s) /\ ~Login(t)
  BY <1>3, AwayStays, CrowdedStays DEF OneAtATime
<1> QED  BY <1>1, <1>2, <1>3

LEMMA ExactNext ==
  SoundInv /\ OneAtATime /\ RecordExact /\ [Next]_vars => RecordExact'
<1> SUFFICES ASSUME SoundInv, OneAtATime, RecordExact, [Next]_vars
             PROVE  RecordExact'
  OBVIOUS
<1>0. crowded \subseteq crowded'
  BY CrowdedStays DEF SoundInv
<1> USE <1>0 DEF SoundInv, TypeOK, Record!TypeOK, RecordExact, Moves
<1>1. CASE Crash
  BY <1>1 DEF Crash
<1>2. ASSUME NEW s \in Sessions,
             \/ Connect(s) \/ Hangup(s) \/ Drain(s) \/ Login(s)
             \/ Fetch(s) \/ FetchFails(s) \/ Purge(s) \/ PurgeFails(s)
             \/ CountConfirmed(s) \/ DrainDone(s)
      PROVE  RecordExact'
  BY <1>2 DEF Connect, Hangup, Drain, Login, Fetch, FetchFails, Purge,
              PurgeFails, CountConfirmed, DrainDone
<1>3. ASSUME NEW s \in Sessions,
             HandshakeFails(s) \/ CountFails(s) \/ Close(s)
      PROVE  RecordExact'
  BY <1>3 DEF HandshakeFails, CountFails, Close, close_connection
<1>8. ASSUME NEW f \in Fds, Reap(f) PROVE RecordExact'
  BY <1>8 DEF Reap
<1>4. ASSUME NEW s \in Sessions, Register(s) PROVE RecordExact'
  <2>1. UserOf[s] \notin crowded => record[UserOf[s]] = -1
    BY <1>4 DEF Register, Recorded, OneAtATime
  <2> QED  BY <1>4, <2>1 DEF Register, Record!set_online, OneAtATime
<1>5. ASSUME NEW s \in Sessions,
             \/ Receive(s) \/ Lookup(s) \/ Forward(s)
             \/ Store(s) \/ StoreFails(s)
      PROVE  RecordExact'
  BY <1>5 DEF Receive, Lookup, Forward, Store, StoreFails
<1>6. ASSUME NEW s \in Sessions, Leave(s) PROVE RecordExact'
  BY <1>6 DEF Leave, Record!set_offline, OneAtATime
<1>7. CASE UNCHANGED vars
  BY <1>7 DEF vars
<1> QED
  BY <1>1, <1>2, <1>3, <1>4, <1>5, <1>6, <1>7, <1>8 DEF Next

ExactInv == SoundInv /\ OneAtATime /\ RecordExact

LEMMA ExactInit == Init => ExactInv
BY SoundInit DEF ExactInv, OneAtATime, RecordExact, Init

LEMMA ExactInvNext == ExactInv /\ [Next]_vars => ExactInv'
BY SoundInvNext, OneNext, ExactNext DEF ExactInv, SoundInv

\* A user that has not had two sessions at a time is on record while it chats,
\* with its socket, through crashes, hang-ups and failures of the database.
THEOREM RecordIsExact == Spec => []RecordExact
<1>1. ExactInv => RecordExact  BY DEF ExactInv
<1> QED  BY ExactInit, ExactInvNext, <1>1, PTL DEF Spec

-----------------------------------------------------------------------------
(* ShownOnce.  A message a session holds in its hands has been nowhere yet   *)
(* (Fresh).  What a session has fetched for a user that is not crowded is    *)
(* still stored before its DELETE, no longer stored after it, and shown by   *)
(* nobody but the session itself (Fetched), on the connection it serves      *)
(* unless that has gone (ShownHere).                                         *)

IsShown(m) == \E d \in shown : d.message = m

Placed(m) ==
  m \in rows \/ IsShown(m) \/ \E t \in Sessions : m \in result[t]

\* The k-th message of a session has not left it yet.
Unsent(s, k) ==
  \/ k > count[s]
  \/ k = count[s] /\ pc[s] \in {"lookup", "forward", "store"}

Fresh == \A s \in Sessions, k \in Nat : Unsent(s, k) => ~Placed(<<s, k>>)

Fetched ==
  \A s \in Sessions :
    /\ pc[s] \notin {"purge", "count", "drain"} => result[s] = {}
    /\ \A m \in result[s] :
         /\ Addressee(m) = UserOf[s]
         /\ UserOf[s] \notin crowded =>
              /\ pc[s] = "purge" <=> m \in rows
              /\ \A d \in shown : d.message = m =>
                   d.by = s /\ pc[s] = "drain"

\* Where a session showed it, it is still if the connection has not gone.
ShownHere ==
  \A s \in Sessions : UserOf[s] \notin crowded =>
    \A m \in result[s], d \in shown :
      d.message = m /\ d.on \in up => files[sock[s]] = d.on

OnceInv ==
  /\ TypeOK /\ Unknown /\ OneAtATime /\ Fresh
  /\ Fetched /\ ShownHere /\ ShownOnce

LEMMA InHandIsFresh ==
  ASSUME TypeOK, Fresh, NEW s \in Sessions,
         pc[s] \in {"lookup", "forward", "store"}
  PROVE  ~Placed(InHand(s))
BY DEF TypeOK, Fresh, Unsent, InHand

LEMMA FreshNext == TypeOK /\ Fresh /\ [Next]_vars => Fresh'
<1> SUFFICES ASSUME TypeOK, Fresh, [Next]_vars PROVE Fresh'
  OBVIOUS
<1> USE DEF TypeOK, Moves
<1> DEFINE NoneRecalled ==
             \A t \in Sessions, k \in Nat : Unsent(t, k)' => Unsent(t, k)
           NoneAdded == \A m : Placed(m)' => Placed(m)
<1>1. NoneRecalled /\ NoneAdded => Fresh'
  BY DEF Fresh
<1>2. CASE Crash
  <2>1. NoneRecalled  BY <1>2 DEF Crash, Unsent
  <2>2. NoneAdded  BY <1>2 DEF Crash, Placed, IsShown
  <2> QED  BY <1>1, <2>1, <2>2
<1>3. ASSUME NEW s \in Sessions,
             \/ Connect(s) \/ Login(s) \/ HandshakeFails(s) \/ Hangup(s)
             \/ FetchFails(s) \/ Purge(s) \/ PurgeFails(s) \/ CountConfirmed(s) \/ CountFails(s)
             \/ DrainDone(s) \/ Register(s) \/ Lookup(s) \/ StoreFails(s)
             \/ Leave(s) \/ Close(s)
      PROVE  Fresh'
  <2>1. NoneRecalled
    BY <1>3 DEF Connect, Login, HandshakeFails, Hangup, FetchFails, Purge,
                PurgeFails, CountConfirmed,
                CountFails, DrainDone, Register, Lookup, StoreFails, Leave,
                Close, Unsent
  <2>2. NoneAdded
    BY <1>3 DEF Connect, Login, HandshakeFails, Hangup, FetchFails, Purge,
                PurgeFails, CountConfirmed,
                CountFails, DrainDone, Register, Lookup, StoreFails, Leave,
                Close, Placed, IsShown
  <2> QED  BY <1>1, <2>1, <2>2
<1>4. ASSUME NEW s \in Sessions, Fetch(s) \/ Drain(s) PROVE Fresh'
  <2>1. NoneRecalled  BY <1>4 DEF Fetch, Drain, Unsent
  <2>2. NoneAdded  BY <1>4 DEF Fetch, StoredFor, Drain, Send, Placed, IsShown
  <2> QED  BY <1>1, <2>1, <2>2
<1>5. ASSUME NEW s \in Sessions, Receive(s) PROVE Fresh'
  <2>1. NoneRecalled  BY <1>5 DEF Receive, Unsent
  <2>2. NoneAdded  BY <1>5 DEF Receive, Placed, IsShown
  <2> QED  BY <1>1, <2>1, <2>2
\* What is sent or stored has left the hands it was in.
<1>6. ASSUME NEW s \in Sessions, Forward(s) \/ Store(s) PROVE Fresh'
  <2>1. NoneRecalled /\ count' = count /\ ~Unsent(s, count[s])'
    BY <1>6 DEF Forward, Store, Unsent
  <2>2. \A m : Placed(m)' => Placed(m) \/ m = InHand(s)
    BY <1>6 DEF Forward, Store, Send, Placed, IsShown
  <2>3. \A t \in Sessions, k \in Nat :
          <<t, k>> = InHand(s) => t = s /\ k = count[s]
    BY DEF InHand
  <2>4. SUFFICES ASSUME NEW t \in Sessions, NEW k \in Nat, Unsent(t, k)',
                        Placed(<<t, k>>)'
                 PROVE  FALSE
    BY DEF Fresh
  <2>5. ~Placed(<<t, k>>)
    BY <2>1, <2>4 DEF Fresh
  <2>6. t = s /\ k = count[s]
    BY <2>2, <2>3, <2>4, <2>5
  <2> QED  BY <2>1, <2>4, <2>6
<1>7. CASE UNCHANGED vars
  <2>1. NoneRecalled  BY <1>7 DEF vars, Unsent
  <2>2. NoneAdded  BY <1>7 DEF vars, Placed, IsShown
  <2> QED  BY <1>1, <2>1, <2>2
<1>8. ASSUME NEW f \in Fds, Reap(f) PROVE Fresh'
  <2>1. NoneRecalled  BY <1>8 DEF Reap, Unsent
  <2>2. NoneAdded  BY <1>8 DEF Reap, Placed, IsShown
  <2> QED  BY <1>1, <2>1, <2>2
<1> QED
  BY <1>2, <1>3, <1>4, <1>5, <1>6, <1>7, <1>8 DEF Next

LEMMA FetchedNext == OnceInv /\ [Next]_vars => Fetched'
<1> SUFFICES ASSUME OnceInv, [Next]_vars PROVE Fetched'
  OBVIOUS
<1>0. crowded \subseteq crowded'
  BY CrowdedStays DEF OnceInv
<1> USE <1>0 DEF OnceInv, TypeOK, Fetched, Moves
<1>1. CASE Crash
  BY <1>1 DEF Crash
<1>2. ASSUME NEW s \in Sessions,
             \/ Connect(s) \/ Login(s) \/ HandshakeFails(s) \/ Hangup(s)
             \/ FetchFails(s) \/ PurgeFails(s) \/ CountConfirmed(s)
             \/ CountFails(s) \/ DrainDone(s)
      PROVE  Fetched'
  BY <1>2 DEF Connect, Login, HandshakeFails, Hangup, FetchFails, PurgeFails,
              CountConfirmed, CountFails, DrainDone
<1>3. ASSUME NEW s \in Sessions,
             \/ Register(s) \/ Receive(s) \/ Lookup(s)
             \/ StoreFails(s) \/ Leave(s) \/ Close(s)
      PROVE  Fetched'
  BY <1>3 DEF Register, Receive, Lookup, StoreFails, Leave, Close
<1>4. ASSUME NEW f \in Fds, Reap(f) PROVE Fetched'
  BY <1>4 DEF Reap
<1>5. ASSUME NEW s \in Sessions, Fetch(s) PROVE Fetched'
  BY <1>5 DEF Fetch, StoredFor, ShownOnce
<1>6. ASSUME NEW s \in Sessions, Purge(s) PROVE Fetched'
  BY <1>6 DEF Purge, StoredFor, OneAtATime
<1>7. ASSUME NEW s \in Sessions, Drain(s) PROVE Fetched'
  BY <1>7 DEF Drain, Send, OneAtATime
<1>8. ASSUME NEW s \in Sessions, Forward(s) PROVE Fetched'
  <2>1. ~Placed(InHand(s))
    BY <1>8, InHandIsFresh DEF Forward
  <2> QED  BY <1>8, <2>1 DEF Forward, Send, Placed
<1>9. ASSUME NEW s \in Sessions, Store(s) PROVE Fetched'
  <2>1. ~Placed(InHand(s))
    BY <1>9, InHandIsFresh DEF Store
  <2> QED  BY <1>9, <2>1 DEF Store, Placed
<1>10. CASE UNCHANGED vars
  BY <1>10 DEF vars
<1> QED
  BY <1>1, <1>2, <1>3, <1>4, <1>5, <1>6, <1>7, <1>8, <1>9, <1>10 DEF Next

\* What a session drains it has fetched before, and it sends to its socket.
LEMMA DrainingStep ==
  ASSUME TypeOK, [Next]_vars, NEW s \in Sessions, pc'[s] = "drain"
  PROVE  /\ pc[s] \in {"count", "drain"}
         /\ result'[s] \subseteq result[s]
         /\ \A d \in shown' \ shown : d.by = s =>
              /\ d.on = files[sock[s]]
              /\ files' = files /\ sock' = sock
<1> USE DEF TypeOK, Moves
<1>1. CASE Crash \/ UNCHANGED vars
  BY <1>1 DEF Crash, vars
<1>2. ASSUME NEW t \in Sessions, Drain(t)
      PROVE  /\ pc[s] \in {"count", "drain"}
             /\ result'[s] \subseteq result[s]
             /\ \A d \in shown' \ shown : d.by = s =>
                  /\ d.on = files[sock[s]]
                  /\ files' = files /\ sock' = sock
  BY <1>2 DEF Drain, Send
<1>3. ASSUME NEW t \in Sessions, Forward(t)
      PROVE  /\ pc[s] \in {"count", "drain"}
             /\ result' = result
             /\ \A d \in shown' \ shown : d.by # s
  BY <1>3 DEF Forward, Send
<1>4. ASSUME NEW t \in Sessions,
             \/ Connect(t) \/ Login(t) \/ HandshakeFails(t) \/ Hangup(t)
             \/ Fetch(t) \/ FetchFails(t) \/ Purge(t) \/ PurgeFails(t)
             \/ CountConfirmed(t) \/ CountFails(t) \/ DrainDone(t)
      PROVE  /\ pc[s] \in {"count", "drain"}
             /\ result'[s] \subseteq result[s]
             /\ shown' = shown
  BY <1>4 DEF Connect, Login, HandshakeFails, Hangup, Fetch, FetchFails,
              Purge, PurgeFails, CountConfirmed, CountFails, DrainDone
<1>5. ASSUME NEW t \in Sessions,
             \/ Register(t) \/ Receive(t) \/ Lookup(t) \/ Store(t)
             \/ StoreFails(t) \/ Leave(t) \/ Close(t)
      PROVE  /\ pc[s] \in {"count", "drain"}
             /\ result' = result
             /\ shown' = shown
  BY <1>5 DEF Register, Receive, Lookup, Store, StoreFails, Leave, Close
<1>6. ASSUME NEW f \in Fds, Reap(f)
      PROVE  /\ pc[s] \in {"count", "drain"}
             /\ result' = result
             /\ shown' = shown
  BY <1>6 DEF Reap
<1> QED  BY <1>1, <1>2, <1>3, <1>4, <1>5, <1>6 DEF Next

LEMMA ShownHereNext == OnceInv /\ [Next]_vars => ShownHere'
<1> SUFFICES ASSUME OnceInv, [Next]_vars, Fetched', NEW s \in Sessions,
                    UserOf[s] \notin crowded', NEW m \in result'[s],
                    NEW d \in shown', d.message = m, d.on \in up'
             PROVE  files'[sock'[s]] = d.on
  BY FetchedNext DEF ShownHere
<1>0. UserOf[s] \notin crowded
  BY CrowdedStays DEF OnceInv
<1>1. pc'[s] = "drain" /\ d.by = s
  BY DEF Fetched
<1>2. /\ pc[s] \in {"count", "drain"}
      /\ m \in result[s]
  BY <1>1, DrainingStep DEF OnceInv
<1>3. CASE d \in shown
  <2>1. sock'[s] = sock[s] /\ sock[s] \in Fds
    BY <1>1, <1>2, InPlace DEF OnceInv, TypeOK
  <2>2. d.on \in up
    BY <1>3, UpKeepsPlace DEF OnceInv, Unknown, TypeOK
  <2>3. files[sock[s]] = d.on
    BY <1>0, <1>2, <1>3, <2>2 DEF OnceInv, ShownHere
  <2> QED  BY <2>1, <2>2, <2>3, UpKeepsPlace DEF OnceInv
<1>4. CASE d \notin shown
  BY <1>1, <1>4, DrainingStep DEF OnceInv
<1> QED  BY <1>3, <1>4

LEMMA OnceNext == OnceInv /\ [Next]_vars => ShownOnce'
<1> SUFFICES ASSUME OnceInv, [Next]_vars PROVE ShownOnce'
  OBVIOUS
<1>0. \A d \in shown : d.on \in up' => d.on \in up
  BY UpKeepsPlace DEF OnceInv, Unknown, TypeOK, Sendings
<1>10. crowded \subseteq crowded'
  BY CrowdedStays DEF OnceInv
<1> USE <1>0, <1>10 DEF OnceInv, TypeOK, ShownOnce, Moves
<1>1. CASE Crash
  BY <1>1 DEF Crash
<1>2. ASSUME NEW s \in Sessions,
             \/ Connect(s) \/ Login(s) \/ HandshakeFails(s) \/ Hangup(s)
             \/ Fetch(s) \/ FetchFails(s) \/ Purge(s) \/ PurgeFails(s)
             \/ CountConfirmed(s) \/ CountFails(s) \/ DrainDone(s)
      PROVE  rows' \subseteq rows /\ shown' = shown
  BY <1>2 DEF Connect, Login, HandshakeFails, Hangup, Fetch, FetchFails, Purge,
              PurgeFails, CountConfirmed, CountFails, DrainDone
<1>3. ASSUME NEW s \in Sessions,
             \/ Register(s) \/ Receive(s) \/ Lookup(s)
             \/ StoreFails(s) \/ Leave(s) \/ Close(s)
      PROVE  rows' \subseteq rows /\ shown' = shown
  BY <1>3 DEF Register, Receive, Lookup, StoreFails, Leave, Close
<1>4. ASSUME NEW f \in Fds, Reap(f)
      PROVE  rows' \subseteq rows /\ shown' = shown
  BY <1>4 DEF Reap
<1>5. ASSUME NEW s \in Sessions, Drain(s) PROVE ShownOnce'
  <2>1. PICK m \in result[s] : Send(s, m, sock[s])
    BY <1>5 DEF Drain
  <2>2. /\ Addressee(m) = UserOf[s]
        /\ UserOf[s] \notin crowded =>
             /\ m \notin rows
             /\ \A d \in shown : d.message = m =>
                  d.by = s /\ (d.on \in up => d.on = files[sock[s]])
    BY <1>5, <2>1 DEF Drain, Fetched, ShownHere
  <2>3. \A d \in shown' \ shown :
          d.message = m /\ d.by = s /\ d.on = files[sock[s]]
    BY <2>1 DEF Send
  <2> QED  BY <1>5, <2>2, <2>3 DEF Drain
<1>6. ASSUME NEW s \in Sessions, Forward(s) PROVE ShownOnce'
  <2>1. ~IsShown(InHand(s)) /\ InHand(s) \notin rows
    BY <1>6, InHandIsFresh DEF Forward, Placed
  <2>2. \A d \in shown' \ shown :
          d.message = InHand(s) /\ d.by = s /\ d.on = files[target[s]]
    BY <1>6 DEF Forward, Send
  <2> QED  BY <1>6, <2>1, <2>2 DEF Forward, IsShown
<1>7. ASSUME NEW s \in Sessions, Store(s) PROVE ShownOnce'
  <2>1. ~IsShown(InHand(s))
    BY <1>7, InHandIsFresh DEF Store, Placed
  <2> QED  BY <1>7, <2>1 DEF Store, IsShown
<1>8. CASE UNCHANGED vars
  BY <1>8 DEF vars
<1>9. rows' \subseteq rows /\ shown' = shown => ShownOnce'
  OBVIOUS
<1> QED
  BY <1>1, <1>2, <1>3, <1>4, <1>5, <1>6, <1>7, <1>8, <1>9 DEF Next

LEMMA OnceInit == Init => OnceInv
BY TypeInit DEF OnceInv, Unknown, OneAtATime, Fresh, Fetched, ShownHere, ShownOnce,
                Placed, IsShown, Init

LEMMA OnceInvNext == OnceInv /\ [Next]_vars => OnceInv'
BY TypeNext, UnknownNext, OneNext, FreshNext, FetchedNext, ShownHereNext,
   OnceNext
   DEF OnceInv

\* A message to a user that has not had two sessions at a time is sent by one
\* session at most, to one connection at most that has not gone, and never both kept and
\* sent, whatever fails or crashes in between and whoever closes descriptors.
THEOREM ShownAtMostOnce == Spec => []ShownOnce
<1>1. OnceInv => ShownOnce  BY DEF OnceInv
<1> QED  BY OnceInit, OnceInvNext, <1>1, PTL DEF Spec

=============================================================================
