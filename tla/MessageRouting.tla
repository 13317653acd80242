---------------------------- MODULE MessageRouting ----------------------------
(***************************************************************************)
(* client_handler, with its handshake in one step: stored messages are     *)
(* fetched from the database and handed over, the user goes on record as   *)
(* online, and every message received is forwarded or stored.  Sessions    *)
(* run concurrently and share the database, the record of module           *)
(* OnlineRecord and the process's descriptor table, without a lock.  A     *)
(* session stands for a client's connection and for the thread made for    *)
(* it; the thread may serve another connection, and the acceptor may close *)
(* a connection while its thread is at work (module ConnectionTable says   *)
(* when).                                                                  *)
(***************************************************************************)
EXTENDS Integers

CONSTANTS
  Users,
  Sessions,   \* connections, and the threads made for them
  Fds,        \* descriptors the kernel may give to a connection
  UserOf,     \* the user that logs in with a session's thread
  RcptOf,     \* the recipient named to it in the handshake
  MaxSent,    \* how many messages it receives at most
  NoSession   \* the owner of a descriptor that is not open

ASSUME RoutingAssumption ==
  /\ Fds \subseteq Nat \ {0}
  /\ UserOf \in [Sessions -> Users]
  /\ RcptOf \in [Sessions -> Users]
  /\ MaxSent \in [Sessions -> Nat]
  /\ NoSession \notin Sessions

VARIABLES
  pc,       \* where each session's thread stands
  sock,     \* the descriptor the thread uses
  up,       \* connections whose peer has not gone away, and can be written to
  files,    \* the connection behind each descriptor
  record,   \* the record of users that are online
  rows,     \* table buffer_messages
  result,   \* buffer_messages of each session, less what was acknowledged
  count,    \* how many messages each session has received
  target,   \* its rcpt_socket
  via,      \* history: the connection it passed the handshake on
  shown,    \* history: which message was sent by which session on which
            \* connection
  crowded   \* history: users that have had two sessions at a time

histories == <<via, shown, crowded>>
vars == <<pc, sock, up, files, record, rows, result, count, target, histories>>

Record == INSTANCE OnlineRecord WITH Sockets <- Fds, NotOnline <- -1

\* The k-th message a session receives.  It goes to the session's recipient.
Messages == UNION {{s} \X (1 .. MaxSent[s]) : s \in Sessions}
Addressee(m) == RcptOf[m[1]]
InHand(s) == <<s, count[s]>>
StoredFor(u) == {m \in rows : Addressee(m) = u}
Sendings == [message : Messages, by : Sessions, on : Sessions]

Steps == {"idle", "handshake", "fetch", "purge", "count", "drain", "register",
          "chat", "lookup", "forward", "store", "close", "done"}
Chatting == {"chat", "lookup", "forward", "store"}
Handling == Chatting \ {"chat"}
Away == {"idle", "handshake", "done"}  \* nobody is logged in

TypeOK ==
  /\ pc \in [Sessions -> Steps]
  /\ sock \in [Sessions -> Fds \cup {-1}]
  /\ up \subseteq Sessions
  /\ files \in [Fds -> Sessions \cup {NoSession}]
  /\ Record!TypeOK
  /\ rows \subseteq Messages
  /\ result \in [Sessions -> SUBSET Messages]
  /\ count \in [Sessions -> Nat]
  /\ target \in [Sessions -> Fds \cup {-1}]
  /\ via \in [Sessions -> Sessions \cup {NoSession}]
  /\ shown \subseteq Sendings
  /\ crowded \subseteq Users
  /\ \A s \in Sessions :
       /\ pc[s] \notin {"idle", "done"} => sock[s] \in Fds
       /\ count[s] <= MaxSent[s]
       /\ pc[s] \in {"lookup", "forward", "store"} => count[s] > 0
       /\ pc[s] = "forward" => target[s] \in Fds

Init ==
  /\ pc = [s \in Sessions |-> "idle"]
  /\ sock = [s \in Sessions |-> -1]
  /\ up = {}
  /\ files = [f \in Fds |-> NoSession]
  /\ Record!Init
  /\ rows = {}
  /\ result = [s \in Sessions |-> {}]
  /\ count = [s \in Sessions |-> 0]
  /\ target = [s \in Sessions |-> -1]
  /\ via = [s \in Sessions |-> NoSession]
  /\ shown = {}
  /\ crowded = {}

Moves(s, from, to) == pc[s] = from /\ pc' = [pc EXCEPT ![s] = to]

-----------------------------------------------------------------------------
(* Clients, acceptor, kernel and operator *)

\* A client connects and gets a thread, which reads its socket where the
\* acceptor stores the result of every accept: it finds its own connection's,
\* or a later one's, and that one may be closed by then.
Connect(s) ==
  /\ Moves(s, "idle", "handshake")
  /\ \E f \in Fds :
       /\ sock' = [sock EXCEPT ![s] = f]
       /\ \/ /\ files[f] = NoSession
             /\ files' = [files EXCEPT ![f] = s]
             /\ up' = up \cup {s}
          \/ UNCHANGED <<files, up>>
  /\ UNCHANGED <<record, rows, result, count, target, histories>>

\* Other sessions of its user that are under way.
OthersOf(s) ==
  {t \in Sessions \ {s} : UserOf[t] = UserOf[s] /\ pc[t] \notin Away}

\* The handshake succeeds on whatever connection the descriptor stands for.
Login(s) ==
  /\ Moves(s, "handshake", "fetch")
  /\ files[sock[s]] # NoSession
  /\ via' = [via EXCEPT ![s] = files[sock[s]]]
  /\ crowded' = crowded \cup {UserOf[t] : t \in OthersOf(s)}
  /\ UNCHANGED <<sock, up, files, record, rows, result, count, target, shown>>

\* The connection that is closed is the one the descriptor stands for by now.
close_connection(s) ==
  /\ files' = [files EXCEPT ![sock[s]] = NoSession]
  /\ up' = up \ {files[sock[s]]}
  /\ sock' = [sock EXCEPT ![s] = -1]

HandshakeFails(s) ==
  /\ Moves(s, "handshake", "done")
  /\ close_connection(s)
  /\ UNCHANGED <<record, rows, result, count, target, histories>>

Hangup(s) ==
  /\ s \in up
  /\ up' = up \ {s}
  /\ UNCHANGED <<pc, sock, files, record, rows, result, count, target, histories>>

\* With its table full the acceptor closes connections that are reset, those
\* of threads at work included.
Reap(f) ==
  /\ files[f] # NoSession
  /\ files[f] \notin up
  /\ files' = [files EXCEPT ![f] = NoSession]
  /\ UNCHANGED <<pc, sock, up, record, rows, result, count, target, histories>>

\* The server is killed, by SIGPIPE when it sends to a peer that has gone or
\* from outside, and started again.  Only the database survives.
Crash ==
  /\ pc' = [s \in Sessions |-> IF pc[s] = "idle" THEN "idle" ELSE "done"]
  /\ sock' = [s \in Sessions |-> -1]
  /\ up' = {}
  /\ files' = [f \in Fds |-> NoSession]
  /\ record' = [u \in Users |-> -1]
  /\ result' = [s \in Sessions |-> {}]
  /\ target' = [s \in Sessions |-> -1]
  /\ UNCHANGED <<rows, count, histories>>

-----------------------------------------------------------------------------
(* Handing over the stored messages *)

\* The SELECT of get_buffer_messages.  The recipient the session named plays
\* no part in it.
Fetch(s) ==
  /\ Moves(s, "fetch", "purge")
  /\ result' = [result EXCEPT ![s] = StoredFor(UserOf[s])]
  /\ UNCHANGED <<sock, up, files, record, rows, count, target, histories>>

\* No database connection, or no SELECT: PQntuples of NULL is 0.
FetchFails(s) ==
  /\ Moves(s, "fetch", "count")
  /\ UNCHANGED <<sock, up, files, record, rows, result, count, target, histories>>

\* The DELETE, a transaction of its own.
Purge(s) ==
  /\ Moves(s, "purge", "count")
  /\ rows' = rows \ StoredFor(UserOf[s])
  /\ UNCHANGED <<sock, up, files, record, result, count, target, histories>>

\* Mutant: the messages fetched are used all the same.
PurgeFailureIgnored(s) ==
  /\ Moves(s, "purge", "count")
  /\ UNCHANGED <<sock, up, files, record, rows, result, count, target, histories>>

\* The messages fetched are dropped when they cannot be deleted.
PurgeFails(s) ==
  /\ Moves(s, "purge", "count")
  /\ result' = [result EXCEPT ![s] = {}]
  /\ UNCHANGED <<sock, up, files, record, rows, count, target, histories>>

\* The client confirms how many messages there are, or skips it with "-".
CountConfirmed(s) ==
  /\ Moves(s, "count", "drain")
  /\ files[sock[s]] # NoSession
  /\ UNCHANGED <<sock, up, files, record, rows, result, count, target, histories>>

\* "." or five failures: the session ends, and the messages fetched with it.
CountFails(s) ==
  /\ Moves(s, "count", "done")
  /\ close_connection(s)
  /\ result' = [result EXCEPT ![s] = {}]
  /\ UNCHANGED <<record, rows, count, target, histories>>

\* s sends m to whoever the descriptor stands for by now.  A peer that has gone
\* gets nothing; what it wrote before it went can still be read.
Send(s, m, f) ==
  shown' = shown \cup {[message |-> m, by |-> s, on |-> c] : c \in {files[f]} \cap up}

\* A message is sent again until the peer answers "OK".
Drain(s) ==
  /\ pc[s] = "drain"
  /\ \E m \in result[s] :
       /\ Send(s, m, sock[s])
       /\ \/ /\ files[sock[s]] # NoSession
             /\ result' = [result EXCEPT ![s] = @ \ {m}]
          \/ result' = result
  /\ UNCHANGED <<pc, sock, up, files, record, rows, count, target, via, crowded>>

DrainDone(s) ==
  /\ Moves(s, "drain", "register")
  /\ result[s] = {}
  /\ UNCHANGED <<sock, up, files, record, rows, result, count, target, histories>>

-----------------------------------------------------------------------------
(* The chat *)

\* Mutant: update, which leaves users out that are not on record yet.
RegisterUpdates(s) ==
  /\ Moves(s, "register", "chat")
  /\ Record!update(UserOf[s], sock[s])
  /\ UNCHANGED <<sock, up, files, rows, result, count, target, histories>>

Register(s) ==
  /\ Moves(s, "register", "chat")
  /\ Record!set_online(UserOf[s], sock[s])
  /\ UNCHANGED <<sock, up, files, rows, result, count, target, histories>>

\* From whatever the descriptor stands for: after a close by others that may
\* also be another thread's connection to the database.
Receive(s) ==
  /\ Moves(s, "chat", "lookup")
  /\ count[s] < MaxSent[s]
  /\ count' = [count EXCEPT ![s] = @ + 1]
  /\ UNCHANGED <<sock, up, files, record, rows, result, target, histories>>

\* Mutant: the answer of is_online is not tested.
LookupForwards(s) ==
  /\ Moves(s, "lookup", "forward")
  /\ target' = [target EXCEPT ![s] = Record!is_online(RcptOf[s])]
  /\ UNCHANGED <<sock, up, files, record, rows, result, count, histories>>

Lookup(s) ==
  /\ pc[s] = "lookup"
  /\ LET rcpt_socket == Record!is_online(RcptOf[s])
     IN  /\ target' = [target EXCEPT ![s] = rcpt_socket]
         /\ pc' = [pc EXCEPT ![s] = IF rcpt_socket > 0 THEN "forward"
                                                      ELSE "store"]
  /\ UNCHANGED <<sock, up, files, record, rows, result, count, histories>>

\* The message is lost if the descriptor is closed by now.
Forward(s) ==
  /\ Moves(s, "forward", "chat")
  /\ Send(s, InHand(s), target[s])
  /\ target' = [target EXCEPT ![s] = -1]
  /\ UNCHANGED <<sock, up, files, record, rows, result, count, via, crowded>>

Store(s) ==
  /\ Moves(s, "store", "chat")
  /\ rows' = rows \cup {InHand(s)}
  /\ UNCHANGED <<sock, up, files, record, result, count, target, histories>>

\* add_buffer_message reports an error to its log only.
StoreFails(s) ==
  /\ Moves(s, "store", "chat")
  /\ UNCHANGED <<sock, up, files, record, rows, result, count, target, histories>>

\* Mutant: the loop is left without set_offline.
LeaveOnRecord(s) ==
  /\ Moves(s, "chat", "close")
  /\ UNCHANGED <<sock, up, files, record, rows, result, count, target, histories>>

\* "." from the client, or recv reports that the peer has gone.
Leave(s) ==
  /\ Moves(s, "chat", "close")
  /\ Record!set_offline(UserOf[s])
  /\ UNCHANGED <<sock, up, files, rows, result, count, target, histories>>

Close(s) ==
  /\ Moves(s, "close", "done")
  /\ close_connection(s)
  /\ UNCHANGED <<record, rows, result, count, target, histories>>

Next ==
  \/ Crash
  \/ \E f \in Fds : Reap(f)
  \/ \E s \in Sessions :
       \/ Connect(s) \/ Login(s) \/ HandshakeFails(s) \/ Hangup(s)
       \/ Fetch(s) \/ FetchFails(s) \/ Purge(s) \/ PurgeFails(s)
       \/ CountConfirmed(s) \/ CountFails(s) \/ Drain(s) \/ DrainDone(s)
       \/ Register(s) \/ Receive(s) \/ Lookup(s) \/ Forward(s)
       \/ Store(s) \/ StoreFails(s) \/ Leave(s) \/ Close(s)

Spec == Init /\ [][Next]_vars

-----------------------------------------------------------------------------
(* Properties *)

\* Whatever sessions a user has, a socket on record is that of a session of
\* the user that is in its chat: set_offline goes before every end of a session
\* (client_handling.c:180-213), even though it removes a user on behalf of any
\* of the user's sessions.  As long as the connection the session logged in on
\* has not gone the socket stands for that connection, although threads and
\* acceptor close descriptors by their number (client_handling.c:91,
\* server.c:126).  After that it may be closed, or a stranger's.
RecordSound ==
  \A u \in Users : record[u] # -1 =>
    \E s \in Sessions :
      /\ UserOf[s] = u
      /\ pc[s] \in Chatting
      /\ sock[s] = record[u]
      /\ via[s] \in up => files[record[u]] = via[s]

\* A user that has not had two sessions at a time is on record while it chats, so
\* the messages of others are forwarded then and stored otherwise
\* (client_handling.c:193-203), across crashes and hang-ups.
RecordExact ==
  \A s \in Sessions : UserOf[s] \notin crowded =>
    (pc[s] \in Chatting => record[UserOf[s]] = sock[s])

\* A message to a user that has not had two sessions at a time is sent by one
\* session at most, and not while it is stored: get_buffer_messages keeps a row or hands
\* it over, even if its DELETE fails or the server dies in between
\* (database.c:204-228), and never both.  The session sends it again until it
\* reads "OK", but on one connection at most that has not gone
\* (client_handling.c:171); when its connection goes, the next one to get the
\* descriptor may be shown the message as well.
ShownOnce ==
  \A d, e \in shown :
    d.message = e.message /\ Addressee(d.message) \notin crowded =>
    /\ d.message \notin rows
    /\ d.by = e.by
    /\ d.on \in up /\ e.on \in up => d.on = e.on

\* database.c:177, "Retrieves buffer messages for a client from the database
\* and deletes them afterwards": what is deleted was retrieved.
PurgedWasFetched ==
  [][\A s \in Sessions : pc[s] = "purge" /\ pc'[s] = "count"
       => rows \subseteq rows' \cup result[s]]_vars

\* Where a message is: in the table, on a connection, in the hands of a thread.
Status(m) ==
  CASE m \in rows -> "stored"
    [] m \notin rows /\ (\E d \in shown : d.message = m) -> "shown"
    [] OTHER -> IF \E s \in Sessions : m \in result[s] THEN "fetched"
                ELSE IF m = InHand(m[1]) /\ pc[m[1]] \in Handling THEN "held"
                ELSE IF m[2] <= count[m[1]] THEN "lost"
                ELSE "new"

Box(m) == INSTANCE Mailbox WITH status <- Status(m)

\* Whatever fails, and however the sessions of sender and recipient overlap,
\* the server keeps the promise of Mailbox: a message is kept, or sent, or lost,
\* never kept and sent, and none that was taken from the table, sent or lost
\* comes back (client_handling.c:156-203, database.c:177-266).
ImplementsMailbox ==
  /\ \A m \in Messages : Box(m)!Init
  /\ [][\A m \in Messages : [Box(m)!Next]_(Status(m))]_vars

\* online_record_datastruct.c:295, "returns the socket associated with the
\* user": what is sent on the answer reaches that user or, when the user has
\* left since, nobody; at least if every thread serves its own connection.
ReachesAddressee ==
  [][\A s \in Sessions :
       /\ pc[s] = "forward" /\ pc'[s] = "chat"
       /\ record[RcptOf[s]] # target[s]
       /\ \A r \in Sessions : via[r] \in {r, NoSession}
       => \A c \in {files[target[s]]} \cap up :
            \E t \in Sessions : UserOf[t] = RcptOf[s] /\ via[t] = c]_vars

\* online_record_datastruct.c:310, "Sets a user with the given username as
\* online with the specified socket": that socket is then on record.
SetOnlineTakesSocket ==
  [][\A s \in Sessions : pc[s] = "register" /\ pc'[s] = "chat"
       => record'[UserOf[s]] = sock[s]]_vars

=============================================================================
