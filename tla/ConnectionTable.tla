--------------------------- MODULE ConnectionTable ---------------------------
(***************************************************************************)
(* The acceptor loop of server.c and the client threads of                 *)
(* client_handling.c, which share num_clients, client_sockets and, through *)
(* the argument of pthread_create, the acceptor's local client_socket,     *)
(* without a lock.  What a session does between its first and last step is *)
(* module MessageRouting.  Every client connects at most once.             *)
(***************************************************************************)
EXTENDS Integers, Sequences, FiniteSets

CONSTANTS
  Clients,      \* the programs that connect
  Fds,          \* descriptors the kernel may give to a connection
  MAX_CLIENTS,  \* size of client_sockets
  NoClient      \* the owner of a descriptor that is not open

ASSUME TableAssumption ==
  /\ Fds \cap {-1, 0} = {}
  /\ MAX_CLIENTS \in Nat \ {0}
  /\ NoClient \notin Clients

VARIABLES
  peer,            \* each client's end of its connection
  backlog,         \* connections the kernel holds until accept takes them
  files,           \* the connection behind each descriptor
  num_clients, client_sockets, keepRunning,  \* the globals of server.c
  client_socket,   \* the acceptor's local, whose address every thread gets
  pcA, idx,        \* where the acceptor stands, its loop index
  latest,          \* history: the client accepted last
  pcH, sock, scan  \* each thread: where it stands, its socket, its loop index

acceptorVars == <<backlog, num_clients, client_socket, pcA, idx, latest>>
threadVars == <<pcH, sock, scan>>
vars == <<peer, backlog, files, num_clients, client_sockets, keepRunning,
          client_socket, pcA, idx, latest, pcH, sock, scan>>

Slots == 0 .. MAX_CLIENTS - 1
Sockets == Fds \cup {-1}
AcceptorSteps == {"loop", "accept", "register", "spawn", "inspect", "probe",
                  "reap", "forget", "exit", "dead"}
ThreadSteps == {"none", "created", "serving", "closing", "scanning", "clear",
                "done"}

Running == pcA # "dead"
Open(s) == s \in Fds /\ files[s] # NoClient
OpenFds == {f \in Fds : Open(f)}

TypeOK ==
  /\ peer \in [Clients -> {"new", "up", "reset"}]
  /\ backlog \in Seq(Clients)
  /\ files \in [Fds -> Clients \cup {NoClient}]
  /\ num_clients \in 0 .. MAX_CLIENTS
  /\ client_sockets \in [Slots -> Sockets \cup {0}]
  /\ keepRunning \in BOOLEAN
  /\ client_socket \in Sockets
  /\ pcA \in AcceptorSteps
  /\ idx \in Nat
  /\ latest \in Clients \cup {NoClient}
  /\ pcH \in [Clients -> ThreadSteps]
  /\ sock \in [Clients -> Sockets]
  /\ scan \in [Clients -> Nat]
  \* What keeps every access to client_sockets inside the array.
  /\ pcA \in {"accept", "register"} => num_clients < MAX_CLIENTS
  /\ pcA \in {"register", "spawn"} => latest \in Clients
  /\ pcA \in {"probe", "reap", "forget"} => idx < num_clients
  /\ \A c \in Clients : pcH[c] = "clear" => scan[c] \in Slots

Init ==
  /\ peer = [c \in Clients |-> "new"]
  /\ backlog = <<>>
  /\ files = [f \in Fds |-> NoClient]
  /\ num_clients = 0
  /\ client_sockets = [i \in Slots |-> 0]
  /\ keepRunning = TRUE
  /\ client_socket = -1
  /\ pcA = "loop"
  /\ idx = 0
  /\ latest = NoClient
  /\ pcH = [c \in Clients |-> "none"]
  /\ sock = [c \in Clients |-> -1]
  /\ scan = [c \in Clients |-> 0]

-----------------------------------------------------------------------------
(* The clients, the kernel and the operator at the keyboard *)

\* Linux completes one connection more than the backlog given to listen.
Connect(c) ==
  /\ peer[c] = "new"
  /\ Len(backlog) <= MAX_CLIENTS
  /\ peer' = [peer EXCEPT ![c] = "up"]
  /\ backlog' = Append(backlog, c)
  /\ UNCHANGED <<files, num_clients, client_sockets, keepRunning,
                 client_socket, pcA, idx, latest, threadVars>>

\* The peer's reset arrives, for instance in answer to what the server sent.
Reset(c) ==
  /\ peer[c] = "up"
  /\ peer' = [peer EXCEPT ![c] = "reset"]
  /\ UNCHANGED <<acceptorVars, files, client_sockets, keepRunning, threadVars>>

signal_handler ==
  /\ keepRunning' = FALSE
  /\ UNCHANGED <<peer, acceptorVars, files, client_sockets, threadVars>>

-----------------------------------------------------------------------------
(* The acceptor: handle_clients *)

\* The process is gone, and its descriptors, threads and memory with it.
ProcessEnds ==
  /\ pcA' = "dead"
  /\ files' = [f \in Fds |-> NoClient]
  /\ backlog' = <<>>
  /\ num_clients' = 0
  /\ client_sockets' = [i \in Slots |-> 0]
  /\ client_socket' = -1
  /\ idx' = 0
  /\ latest' = NoClient
  /\ pcH' = [c \in Clients |-> "none"]
  /\ sock' = [c \in Clients |-> -1]
  /\ scan' = [c \in Clients |-> 0]
  /\ UNCHANGED <<peer, keepRunning>>

AcceptorMoves(from, to) == pcA = from /\ pcA' = to

LeaveLoop ==
  /\ AcceptorMoves("loop", "exit")
  /\ ~keepRunning
  /\ UNCHANGED <<peer, backlog, files, num_clients, client_sockets,
                 keepRunning, client_socket, idx, latest, threadVars>>

\* Mutant: one client more than the table holds.
WaitForOneMore ==
  /\ AcceptorMoves("loop", "accept")
  /\ keepRunning
  /\ num_clients <= MAX_CLIENTS
  /\ UNCHANGED <<peer, backlog, files, num_clients, client_sockets,
                 keepRunning, client_socket, idx, latest, threadVars>>

WaitForClient ==
  /\ AcceptorMoves("loop", "accept")
  /\ keepRunning
  /\ num_clients < MAX_CLIENTS
  /\ UNCHANGED <<peer, backlog, files, num_clients, client_sockets,
                 keepRunning, client_socket, idx, latest, threadVars>>

\* The table is full: look for clients that are gone.
WaitForPlace ==
  /\ AcceptorMoves("loop", "inspect")
  /\ keepRunning
  /\ num_clients >= MAX_CLIENTS
  /\ UNCHANGED <<peer, backlog, files, num_clients, client_sockets,
                 keepRunning, client_socket, idx, latest, threadVars>>

\* The descriptor is any free one: other threads' database connections take
\* and return descriptors as well.
Accept(f) ==
  /\ AcceptorMoves("accept", "register")
  /\ backlog # <<>>
  /\ files[f] = NoClient
  /\ files' = [files EXCEPT ![f] = Head(backlog)]
  /\ backlog' = Tail(backlog)
  /\ client_socket' = f
  /\ latest' = Head(backlog)
  /\ UNCHANGED <<peer, num_clients, client_sockets, keepRunning, idx,
                 threadVars>>

\* accept reports an error, with or without a client in the backlog.
AcceptFails ==
  /\ AcceptorMoves("accept", "loop")
  /\ client_socket' = -1
  /\ UNCHANGED <<peer, backlog, files, num_clients, client_sockets,
                 keepRunning, idx, latest, threadVars>>

Register ==
  /\ AcceptorMoves("register", "spawn")
  /\ client_sockets' = [client_sockets EXCEPT ![num_clients] = client_socket]
  /\ num_clients' = num_clients + 1
  /\ UNCHANGED <<peer, backlog, files, keepRunning, client_socket, idx, latest,
                 threadVars>>

Spawn ==
  /\ AcceptorMoves("spawn", "loop")
  /\ pcH' = [pcH EXCEPT ![latest] = "created"]
  /\ UNCHANGED <<peer, backlog, files, num_clients, client_sockets,
                 keepRunning, client_socket, idx, latest, sock, scan>>

\* pthread_create reports errors as positive numbers, so its failure is taken
\* for success and pthread_detach gets an uninitialised thread id.
SpawnFails ==
  /\ pcA = "spawn"
  /\ \/ ProcessEnds
     \/ /\ pcA' = "loop"
        /\ UNCHANGED <<peer, backlog, files, num_clients, client_sockets,
                       keepRunning, client_socket, idx, latest, threadVars>>

\* Mutant: continue skips the increment of the loop index.
InspectStays ==
  /\ pcA = "inspect"
  /\ pcA' = CASE idx >= num_clients -> "loop"
              [] idx < num_clients /\ client_sockets[idx] = -1 -> "inspect"
              [] OTHER -> "probe"
  /\ UNCHANGED <<peer, backlog, files, num_clients, client_sockets,
                 keepRunning, client_socket, idx, latest, threadVars>>

\* Mutant: every entry found given up also gives its place back.
InspectGivesBack ==
  /\ pcA = "inspect"
  /\ IF idx < num_clients
       THEN IF client_sockets[idx] = -1
              THEN pcA' = pcA /\ idx' = idx + 1 /\ num_clients' = num_clients - 1
              ELSE pcA' = "probe" /\ UNCHANGED <<idx, num_clients>>
       ELSE pcA' = "loop" /\ idx' = 0 /\ UNCHANGED num_clients
  /\ UNCHANGED <<peer, backlog, files, client_sockets, keepRunning,
                 client_socket, latest, threadVars>>

\* The loop test and the test for an entry already given up.
Inspect ==
  /\ pcA = "inspect"
  /\ IF idx < num_clients
       THEN IF client_sockets[idx] = -1
              THEN pcA' = pcA /\ idx' = idx + 1
              ELSE pcA' = "probe" /\ idx' = idx
       ELSE pcA' = "loop" /\ idx' = 0
  /\ UNCHANGED <<peer, backlog, files, num_clients, client_sockets,
                 keepRunning, client_socket, latest, threadVars>>

\* Mutant: the test is <= 0, and sending nothing returns 0.
SendReturnsNothing(s) == TRUE

\* Sending nothing fails on a closed descriptor and after a reset.  A peer
\* that only shut its end down is not noticed: it counts as "up" here.
SendFails(s) == ~Open(s) \/ peer[files[s]] = "reset"

Probe ==
  /\ pcA = "probe"
  /\ IF SendFails(client_sockets[idx])
       THEN pcA' = "reap" /\ idx' = idx
       ELSE pcA' = "inspect" /\ idx' = idx + 1
  /\ UNCHANGED <<peer, backlog, files, num_clients, client_sockets,
                 keepRunning, client_socket, latest, threadVars>>

\* close(s) frees a descriptor whoever opened it and ignores any other s.
close(s) == files' = [f \in Fds |-> IF f = s THEN NoClient ELSE files[f]]

Reap ==
  /\ AcceptorMoves("reap", "forget")
  /\ close(client_sockets[idx])
  /\ UNCHANGED <<peer, backlog, num_clients, client_sockets, keepRunning,
                 client_socket, idx, latest, threadVars>>

Forget ==
  /\ AcceptorMoves("forget", "inspect")
  /\ client_sockets' = [client_sockets EXCEPT ![idx] = -1]
  /\ num_clients' = num_clients - 1
  /\ idx' = idx + 1
  /\ UNCHANGED <<peer, backlog, files, keepRunning, client_socket, latest,
                 threadVars>>

\* main stops the detectors, waits for them and returns, which ends every
\* thread.
MainReturns == pcA = "exit" /\ ProcessEnds

-----------------------------------------------------------------------------
(* A client thread: client_handler and close_connection *)

ThreadMoves(c, from, to) == pcH[c] = from /\ pcH' = [pcH EXCEPT ![c] = to]

\* The thread reads its argument when it first runs: by then the acceptor may
\* have stored a later result of accept there, or left the function whose
\* stack frame held it.
ReadArgument(c) ==
  /\ ThreadMoves(c, "created", "serving")
  /\ \E s \in IF pcA = "exit" THEN Sockets ELSE {client_socket} :
       sock' = [sock EXCEPT ![c] = s]
  /\ UNCHANGED <<peer, acceptorVars, files, client_sockets, keepRunning, scan>>

\* The dialogue is over: "." from the peer, five failures, or an error.
SessionEnds(c) ==
  /\ ThreadMoves(c, "serving", "closing")
  /\ UNCHANGED <<peer, acceptorVars, files, client_sockets, keepRunning, sock,
                 scan>>

\* Sessions send without MSG_NOSIGNAL: after a reset the signal ends it all.
SessionKillsServer(c) ==
  /\ pcH[c] = "serving"
  /\ Open(sock[c])
  /\ peer[files[sock[c]]] = "reset"
  /\ ProcessEnds

CloseSocket(c) ==
  /\ ThreadMoves(c, "closing", "scanning")
  /\ close(sock[c])
  /\ UNCHANGED <<peer, acceptorVars, client_sockets, keepRunning, sock, scan>>

\* Mutant: the loop over the entries does not advance.
ScanStays(c) ==
  /\ pcH[c] = "scanning"
  /\ scan[c] < num_clients
  /\ client_sockets[scan[c]] # sock[c]
  /\ UNCHANGED vars

ScanNext(c) ==
  /\ pcH[c] = "scanning"
  /\ scan[c] < num_clients
  /\ client_sockets[scan[c]] # sock[c]
  /\ scan' = [scan EXCEPT ![c] = @ + 1]
  /\ UNCHANGED <<peer, acceptorVars, files, client_sockets, keepRunning, pcH,
                 sock>>

ScanFinds(c) ==
  /\ ThreadMoves(c, "scanning", "clear")
  /\ scan[c] < num_clients
  /\ client_sockets[scan[c]] = sock[c]
  /\ UNCHANGED <<peer, acceptorVars, files, client_sockets, keepRunning, sock,
                 scan>>

\* The thread ends and its locals are gone.
ThreadReturns(c, from) ==
  /\ ThreadMoves(c, from, "done")
  /\ sock' = [sock EXCEPT ![c] = -1]
  /\ scan' = [scan EXCEPT ![c] = 0]

ScanEnds(c) ==
  /\ ThreadReturns(c, "scanning")
  /\ scan[c] >= num_clients
  /\ UNCHANGED <<peer, acceptorVars, files, client_sockets, keepRunning>>

\* The entry found is given up; num_clients stays as it is.
ClearEntry(c) ==
  /\ ThreadReturns(c, "clear")
  /\ client_sockets' = [client_sockets EXCEPT ![scan[c]] = -1]
  /\ UNCHANGED <<peer, acceptorVars, files, keepRunning>>

-----------------------------------------------------------------------------
(* The server *)

AcceptSome == \E f \in Fds : Accept(f)

\* The acceptor's steps that never wait for anything outside the server.
AcceptorStep ==
  \/ LeaveLoop \/ WaitForClient \/ WaitForPlace
  \/ Register \/ Spawn
  \/ Inspect \/ Probe \/ Reap \/ Forget
  \/ MainReturns

close_connection(c) ==
  CloseSocket(c) \/ ScanNext(c) \/ ScanFinds(c) \/ ScanEnds(c) \/ ClearEntry(c)

Next ==
  /\ Running
  /\ \/ AcceptSome \/ AcceptFails \/ SpawnFails \/ AcceptorStep
     \/ signal_handler
     \/ \E c \in Clients :
          \/ Connect(c) \/ Reset(c)
          \/ ReadArgument(c) \/ SessionEnds(c) \/ SessionKillsServer(c)
          \/ close_connection(c)

Spec == Init /\ [][Next]_vars

\* Every thread that can run is scheduled, and accept does not fail for ever
\* while clients are waiting.
Fairness ==
  /\ WF_vars(Running /\ AcceptorStep)
  /\ SF_vars(Running /\ AcceptSome)
  /\ \A c \in Clients :
       /\ WF_vars(Running /\ ReadArgument(c))
       /\ WF_vars(Running /\ close_connection(c))

FairSpec == Spec /\ Fairness

-----------------------------------------------------------------------------
(* Properties *)

\* num_clients counts the open connections too high at will, but too low by at
\* most one for every thread that has finished (server.c:76 relies on it).
\* The one unit is lost when a thread, late in close_connection, finds its
\* descriptor number given to a new connection, and clears that one's entry
\* while the acceptor is between its test for -1 and its send.
MiscountBounded ==
  Running =>
    Cardinality(OpenFds)
      <= num_clients + (IF pcA = "register" THEN 1 ELSE 0)
           + Cardinality({c \in Clients : pcH[c] = "done"})

\* When the acceptor closes an entry it found dead (server.c:125-127) it never
\* cuts off a live client, although threads close and clear entries between
\* its send and its close.
ReapSparesLive ==
  [][pcA = "reap" /\ pcA' = "forget" =>
       \A f \in Fds : Open(f) /\ peer[files[f]] # "reset"
         => files'[f] = files[f]]_vars

\* After SIGINT the acceptor leaves its loop: neither a full table nor entries
\* changing under its scan (server.c:118) hold it.  One that already waits in
\* accept, which the signal does not interrupt (server.c:82), needs one more
\* client, and no more than one.
HaltLeavesLoop ==
  /\ ~keepRunning
  /\ pcA # "accept" \/ (backlog # <<>> /\ OpenFds # Fds)
  ~> pcA \in {"exit", "dead"}

\* A thread that began close_connection finishes it, however the acceptor
\* moves num_clients under its loop (client_handling.c:92).
CloseFinishes ==
  \A c \in Clients : pcH[c] = "closing" ~> (pcH[c] = "done" \/ ~Running)

\* server.c:99, "Create a new thread to handle the client": the thread made
\* for a client serves that client's connection and no other.
ThreadServesItsClient ==
  [][\A c \in Clients :
       pcH[c] = "created" /\ pcH'[c] = "serving" /\ pcA # "exit"
         => sock'[c] \in Fds /\ files[sock'[c]] \in {c, NoClient}]_vars


=============================================================================
