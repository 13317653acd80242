----------------------- MODULE ConnectionTableProofs -----------------------
(* Theorems about ConnectionTable, for any clients, descriptors and limit. *)
EXTENDS ConnectionTable, SequenceTheorems, FiniteSetTheorems, TLAPS

USE DEF Sockets, AcceptorSteps, ThreadSteps

LEMMA TypeInit == Init => TypeOK
BY TableAssumption DEF Init, TypeOK, Slots

LEMMA TypeAtEnd == ProcessEnds => TypeOK'
BY TableAssumption DEF ProcessEnds, TypeOK, Slots

LEMMA TypeNext == TypeOK /\ [Next]_vars => TypeOK'
<1> SUFFICES ASSUME TypeOK, [Next]_vars PROVE TypeOK'
  OBVIOUS
<1> USE TableAssumption DEF TypeOK

<1>1. ASSUME NEW f \in Fds, Accept(f) PROVE TypeOK'
  <2>1. Head(backlog) \in Clients /\ Tail(backlog) \in Seq(Clients)
    BY <1>1, HeadTailProperties DEF Accept
  <2> QED  BY <1>1, <2>1 DEF Accept, AcceptorMoves, threadVars
<1>2. CASE LeaveLoop
  BY <1>2 DEF LeaveLoop, AcceptorMoves, threadVars
<1>3. CASE WaitForClient
  BY <1>3 DEF WaitForClient, AcceptorMoves, threadVars
<1>4. CASE WaitForPlace
  BY <1>4 DEF WaitForPlace, AcceptorMoves, threadVars
<1>5. CASE Register
  BY <1>5 DEF Register, AcceptorMoves, Slots, threadVars
<1>6. CASE Spawn
  BY <1>6 DEF Spawn, AcceptorMoves
<1>7. CASE Inspect
  BY <1>7 DEF Inspect, threadVars
<1>8. CASE Probe
  BY <1>8 DEF Probe, threadVars
<1>9. CASE Reap
  BY <1>9 DEF Reap, AcceptorMoves, close, threadVars
<1>10. CASE Forget
  BY <1>10 DEF Forget, AcceptorMoves, Slots, threadVars
<1>11. CASE MainReturns
  BY <1>11, TypeAtEnd DEF MainReturns
<1>12. CASE AcceptFails
  BY <1>12 DEF AcceptFails, AcceptorMoves, threadVars
<1>13. CASE SpawnFails
  <2>1. CASE ProcessEnds  BY <2>1, TypeAtEnd
  <2>2. CASE ~ProcessEnds  BY <1>13, <2>2 DEF SpawnFails, threadVars
  <2> QED  BY <2>1, <2>2
<1>14. CASE signal_handler
  BY <1>14 DEF signal_handler, acceptorVars, threadVars
<1>15. ASSUME NEW c \in Clients, Connect(c) PROVE TypeOK'
  BY <1>15 DEF Connect, threadVars
<1>16. ASSUME NEW c \in Clients, Reset(c) PROVE TypeOK'
  BY <1>16 DEF Reset, acceptorVars, threadVars
<1>17. ASSUME NEW c \in Clients, ReadArgument(c) PROVE TypeOK'
  BY <1>17 DEF ReadArgument, ThreadMoves, acceptorVars
<1>18. ASSUME NEW c \in Clients, SessionEnds(c) PROVE TypeOK'
  BY <1>18 DEF SessionEnds, ThreadMoves, acceptorVars
<1>19. ASSUME NEW c \in Clients, SessionKillsServer(c) PROVE TypeOK'
  BY <1>19, TypeAtEnd DEF SessionKillsServer
<1>20. ASSUME NEW c \in Clients, CloseSocket(c) PROVE TypeOK'
  BY <1>20 DEF CloseSocket, ThreadMoves, close, acceptorVars
<1>21. ASSUME NEW c \in Clients, ScanNext(c) PROVE TypeOK'
  BY <1>21 DEF ScanNext, acceptorVars
<1>22. ASSUME NEW c \in Clients, ScanFinds(c) PROVE TypeOK'
  BY <1>22 DEF ScanFinds, ThreadMoves, acceptorVars, Slots
<1>23. ASSUME NEW c \in Clients, ScanEnds(c) PROVE TypeOK'
  BY <1>23 DEF ScanEnds, ThreadReturns, ThreadMoves, acceptorVars
<1>24. ASSUME NEW c \in Clients, ClearEntry(c) PROVE TypeOK'
  BY <1>24 DEF ClearEntry, ThreadReturns, ThreadMoves, acceptorVars, Slots
<1>25. CASE UNCHANGED vars
  BY <1>25 DEF vars
<1>26. QED
  BY <1>1, <1>2, <1>3, <1>4, <1>5, <1>6, <1>7, <1>8, <1>9, <1>10, <1>11, <1>12, <1>13, <1>14, <1>15, <1>16, <1>17, <1>18, <1>19, <1>20, <1>21, <1>22, <1>23, <1>24, <1>25
     DEF Next, AcceptorStep, AcceptSome, close_connection

\* All variables keep their types and every access to client_sockets, by the
\* acceptor (server.c:93, 120-128) and by the threads (client_handling.c:93),
\* stays inside the array.
THEOREM TypeCorrect == Spec => []TypeOK
<1>1. Init => TypeOK  BY TypeInit
<1>2. TypeOK /\ [Next]_vars => TypeOK'  BY TypeNext
<1> QED  BY <1>1, <1>2, PTL DEF Spec

-----------------------------------------------------------------------------
(* ReapSparesLive.  Between the send that failed and the close, a thread may *)
(* close the descriptor or clear the entry, but no new connection can come   *)
(* in, for only the acceptor opens one, and a reset is final.                *)

ReapInv == pcA = "reap" => SendFails(client_sockets[idx])

\* Sending through an entry goes on failing in every step that leaves the
\* descriptor table as it is or only closes, keeps or clears the entry, and
\* does not heal a reset.
LEMMA FailureLasts ==
  ASSUME TypeOK, NEW s, NEW t, SendFails(s),
         t \in {s, -1},
         \A f \in Fds : files'[f] \in {files[f], NoClient},
         \A c \in Clients : peer[c] = "reset" => peer'[c] = "reset"
  PROVE  SendFails(t)'
BY TableAssumption DEF TypeOK, SendFails, Open

LEMMA ReapNext == TypeOK /\ TypeOK' /\ ReapInv /\ [Next]_vars => ReapInv'
<1> SUFFICES ASSUME TypeOK, TypeOK', ReapInv, [Next]_vars, pcA' = "reap"
             PROVE  SendFails(client_sockets[idx])'
  BY DEF ReapInv
<1> DEFINE Kept ==
      /\ \A f \in Fds : files'[f] \in {files[f], NoClient}
      /\ \A c \in Clients : peer[c] = "reset" => peer'[c] = "reset"
      /\ idx' = idx /\ client_sockets'[idx] \in {client_sockets[idx], -1}
<1>1. CASE Probe
  BY <1>1 DEF Probe, SendFails, Open, threadVars
<1>2. CASE pcA = "reap"
  <2> USE <1>2 DEF TypeOK
  <2>1. ASSUME signal_handler \/ UNCHANGED vars PROVE Kept
    BY <2>1 DEF signal_handler, vars, acceptorVars, threadVars
  <2>2. ASSUME NEW c \in Clients, Connect(c) \/ Reset(c) PROVE Kept
    BY <2>2 DEF Connect, Reset, acceptorVars, threadVars
  <2>3. ASSUME NEW c \in Clients,
               ReadArgument(c) \/ SessionEnds(c) \/ ScanNext(c)
                 \/ ScanFinds(c) \/ ScanEnds(c)
        PROVE  Kept
    BY <2>3 DEF ReadArgument, SessionEnds, ScanNext, ScanFinds, ScanEnds,
                acceptorVars
  <2>4. ASSUME NEW c \in Clients, CloseSocket(c) PROVE Kept
    BY <2>4 DEF CloseSocket, close, acceptorVars
  <2>5. ASSUME NEW c \in Clients, ClearEntry(c) PROVE Kept
    BY <2>5, TableAssumption DEF ClearEntry, acceptorVars, Slots
  <2>6. Kept
    BY <2>1, <2>2, <2>3, <2>4, <2>5
       DEF Next, AcceptSome, Accept, AcceptFails, SpawnFails, AcceptorStep,
           LeaveLoop, WaitForClient, WaitForPlace, Register, Spawn, Inspect,
           Probe, Reap, Forget, MainReturns, AcceptorMoves, ProcessEnds,
           SessionKillsServer, close_connection
  <2> QED
    BY <2>6, FailureLasts DEF ReapInv
<1>3. CASE pcA # "reap" /\ ~Probe
  BY <1>3 DEF Next, AcceptSome, Accept, AcceptFails, SpawnFails, AcceptorStep,
        LeaveLoop, WaitForClient, WaitForPlace, Register, Spawn, Inspect,
        Reap, Forget, MainReturns, AcceptorMoves, ProcessEnds,
        SessionKillsServer, close_connection, signal_handler, Connect, Reset,
        ReadArgument, SessionEnds, CloseSocket, ScanNext, ScanFinds, ScanEnds,
        ClearEntry, acceptorVars, vars
<1> QED  BY <1>1, <1>2, <1>3

\* In the step of server.c:127 every open connection stays open but those
\* whose peer has reset them.
LEMMA ReapStep ==
  TypeOK /\ ReapInv /\ [Next]_vars =>
    (pcA = "reap" /\ pcA' = "forget" =>
       \A f \in Fds : Open(f) /\ peer[files[f]] # "reset"
         => files'[f] = files[f])
<1> SUFFICES ASSUME TypeOK, ReapInv, [Next]_vars, pcA = "reap",
                    pcA' = "forget"
             PROVE  \A f \in Fds : Open(f) /\ peer[files[f]] # "reset"
                      => files'[f] = files[f]
  OBVIOUS
<1>1. Reap
  BY DEF Next, AcceptSome, Accept, AcceptFails, SpawnFails, AcceptorStep,
         LeaveLoop, WaitForClient, WaitForPlace, Register, Spawn, Inspect,
         Probe, Forget, MainReturns, AcceptorMoves, ProcessEnds,
         SessionKillsServer, close_connection, signal_handler, Connect, Reset,
         ReadArgument, SessionEnds, CloseSocket, ScanNext, ScanFinds, ScanEnds,
         ClearEntry, acceptorVars, vars
<1> QED  BY <1>1 DEF ReapInv, Reap, close, SendFails, Open, TypeOK

\* When the acceptor closes an entry it found dead, no live client is cut off:
\* for any number of clients, threads and descriptors.
THEOREM ReapingSparesLive == Spec => ReapSparesLive
<1>1. Init => TypeOK /\ ReapInv  BY TypeInit DEF Init, ReapInv
<1>2. TypeOK /\ ReapInv /\ [Next]_vars => (TypeOK /\ ReapInv)'
  BY TypeNext, ReapNext
<1>3. TypeOK /\ ReapInv /\ [Next]_vars =>
        [pcA = "reap" /\ pcA' = "forget" =>
           \A f \in Fds : Open(f) /\ peer[files[f]] # "reset"
             => files'[f] = files[f]]_vars
  BY ReapStep
<1> QED  BY <1>1, <1>2, <1>3, PTL DEF Spec, ReapSparesLive

-----------------------------------------------------------------------------
(***************************************************************************)
(* MiscountBounded: by how much num_clients can fall short of the open     *)
(* connections.                                                            *)
(*                                                                         *)
(* A count that is too low is a connection that no entry in use names.     *)
(* Such connections come about when the acceptor gives a place back, which *)
(* moves the end of the entries in use over the last one, and when a       *)
(* thread clears an entry that is no longer its own.  The first leaves an  *)
(* entry with -1 in use behind, the second a thread that is done.          *)
(***************************************************************************)

InUse == 0 .. num_clients - 1

\* The connections that an entry in use names, or is about to name.
Carried == {client_sockets[i] : i \in InUse}
             \cup (IF pcA = "register" THEN {client_socket} ELSE {})
Lost == OpenFds \ Carried

\* The acceptor may yet give back the place of the entry it looks at.
UnderProbe == IF pcA \in {"probe", "reap", "forget"} THEN {idx} ELSE {}
GivenUp == {i \in InUse \ UnderProbe : client_sockets[i] = -1}

Done == {c \in Clients : pcH[c] = "done"}

LostInv ==
  /\ IsFiniteSet(Lost)
  /\ IsFiniteSet(Done)
  /\ Cardinality(Lost) <= Cardinality(GivenUp) + Cardinality(Done)

\* A place is given back only when its connection is closed.
ForgetInv == pcA = "forget" => ~Open(client_sockets[idx])

\* A client that is let in has had no thread before: it connects once.
NewInv ==
  /\ \A i, j \in 1 .. Len(backlog) : backlog[i] = backlog[j] => i = j
  /\ \A i \in 1 .. Len(backlog) :
       pcH[backlog[i]] = "none" /\ peer[backlog[i]] # "new"
  /\ pcA \in {"register", "spawn"} =>
       /\ pcH[latest] = "none" /\ peer[latest] # "new"
       /\ \A i \in 1 .. Len(backlog) : backlog[i] # latest
  /\ \A c \in Clients : peer[c] = "new" => pcH[c] = "none"

CountInv == TypeOK /\ LostInv /\ ForgetInv /\ NewInv

LEMMA EntriesFinite ==
  ASSUME NEW n \in Nat, NEW S \in SUBSET (0 .. n - 1)
  PROVE  IsFiniteSet(S) /\ Cardinality(S) \in Nat /\ Cardinality(S) <= n
<1>1. IsFiniteSet(0 .. n - 1) /\ Cardinality(0 .. n - 1) = n
  BY FS_Interval
<1> QED  BY <1>1, FS_Subset, FS_CardinalityType

LEMMA OneMore ==
  ASSUME NEW S, IsFiniteSet(S), NEW x
  PROVE  /\ IsFiniteSet(S \cup {x})
         /\ Cardinality(S \cup {x}) <= Cardinality(S) + 1
<1>1. Cardinality(S) \in Nat  BY FS_CardinalityType
<1>2. IsFiniteSet(S \cup {x})  BY FS_AddElement
<1>3. CASE x \in S
  <2>1. Cardinality(S \cup {x}) = Cardinality(S)
    BY <1>3, FS_AddElement
  <2> QED  BY <1>1, <1>2, <2>1
<1>4. CASE x \notin S
  <2>1. Cardinality(S \cup {x}) = Cardinality(S) + 1
    BY <1>4, FS_AddElement
  <2> QED  BY <1>1, <1>2, <2>1
<1> QED  BY <1>3, <1>4

LEMMA GivenUpFinite ==
  /\ TypeOK => IsFiniteSet(GivenUp) /\ Cardinality(GivenUp) \in Nat
  /\ TypeOK' => IsFiniteSet(GivenUp') /\ Cardinality(GivenUp') \in Nat
<1>1. GivenUp \in SUBSET (0 .. num_clients - 1)
  BY DEF GivenUp, InUse
<1>2. GivenUp' \in SUBSET (0 .. num_clients' - 1)
  BY DEF GivenUp, InUse
<1>3. /\ TypeOK => num_clients \in Nat
      /\ TypeOK' => num_clients' \in Nat
  BY TableAssumption DEF TypeOK
<1> QED  BY <1>1, <1>2, <1>3, EntriesFinite

\* One element less on the left and no element less on the right.
LEMMA FewerLost ==
  ASSUME LostInv, TypeOK, TypeOK',
         Lost' \subseteq Lost, GivenUp \subseteq GivenUp',
         Done \subseteq Done', IsFiniteSet(Done')
  PROVE  LostInv'
<1>1. IsFiniteSet(Lost') /\ Cardinality(Lost') <= Cardinality(Lost)
  BY FS_Subset DEF LostInv
<1>2. Cardinality(GivenUp) <= Cardinality(GivenUp')
  BY FS_Subset, GivenUpFinite
<1>3. Cardinality(Done) <= Cardinality(Done')
  BY FS_Subset
<1>4. /\ Cardinality(Lost) \in Nat /\ Cardinality(Lost') \in Nat
      /\ Cardinality(GivenUp) \in Nat /\ Cardinality(GivenUp') \in Nat
      /\ Cardinality(Done) \in Nat /\ Cardinality(Done') \in Nat
  BY <1>1, FS_CardinalityType, GivenUpFinite DEF LostInv
<1> QED
  BY <1>1, <1>2, <1>3, <1>4 DEF LostInv

-----------------------------------------------------------------------------
(* The two steps in which a connection may be lost *)

\* What the acceptor gives back is the last entry, and the entry it cleared
\* stands for it from now on.
LEMMA LostByForget ==
  ASSUME CountInv, TypeOK', Forget
  PROVE  LostInv'
<1> USE DEF CountInv, TypeOK
<1> DEFINE last == num_clients - 1
<1>1. /\ idx \in InUse /\ last \in InUse /\ idx <= last
      /\ InUse' = InUse \ {last}
  BY DEF Forget, InUse, AcceptorMoves
<1>2. InUse \subseteq Slots
  BY TableAssumption DEF InUse, Slots
<1>3. Done' = Done /\ OpenFds' = OpenFds
  BY DEF Done, Forget, threadVars, OpenFds, Open
<1>4. /\ \A i \in InUse : client_sockets'[i]
                            = IF i = idx THEN -1 ELSE client_sockets[i]
      /\ UnderProbe = {idx} /\ UnderProbe' = {}
  BY <1>2 DEF Forget, AcceptorMoves, UnderProbe
<1>5. Lost' \subseteq Lost \cup {client_sockets[last]}
  <2> SUFFICES ASSUME NEW f \in OpenFds, f \notin Carried',
                      f # client_sockets[last]
               PROVE  f \notin Carried
    BY <1>3 DEF Lost
  <2>1. ~Open(client_sockets[idx])
    BY DEF Forget, AcceptorMoves, ForgetInv
  <2>2. f # client_sockets[idx]
    BY <2>1 DEF OpenFds
  <2>3. ASSUME NEW i \in InUse PROVE f # client_sockets[i]
    <3>1. CASE i \in {idx, last}  BY <2>2, <3>1
    <3>2. CASE i \notin {idx, last}
      <4>1. i \in InUse' /\ client_sockets'[i] = client_sockets[i]
        BY <1>1, <1>4, <3>2
      <4> QED  BY <4>1 DEF Carried
    <3> QED  BY <3>1, <3>2
  <2> QED
    BY <2>3 DEF Carried, Forget, AcceptorMoves
<1>6. IsFiniteSet(GivenUp) /\ IsFiniteSet(Lost) /\ IsFiniteSet(Done)
  BY GivenUpFinite DEF LostInv
<1>7. /\ Cardinality(GivenUp) \in Nat /\ Cardinality(GivenUp') \in Nat
      /\ Cardinality(Lost) \in Nat /\ Cardinality(Done) \in Nat
  BY <1>6, GivenUpFinite, FS_CardinalityType
<1>8. CASE idx = last \/ client_sockets[last] = -1
  <2>1. Lost' \subseteq Lost
    BY <1>3, <1>5, <1>8, TableAssumption
       DEF Lost, OpenFds, Open, Forget, ForgetInv, AcceptorMoves
  <2>2. CASE idx = last
    <3>1. GivenUp \subseteq GivenUp'
      BY <1>1, <1>4, <2>2 DEF GivenUp
    <3> QED  BY <2>1, <3>1, <1>3, FewerLost DEF LostInv
  <2>3. CASE idx # last
    <3>1. GivenUp' = (GivenUp \ {last}) \cup {idx}
      BY <1>1, <1>4, <1>8, <2>3 DEF GivenUp
    <3>2. last \in GivenUp /\ idx \notin GivenUp \ {last}
      BY <1>1, <1>4, <1>8, <2>3 DEF GivenUp
    <3>3. Cardinality(GivenUp \ {last}) = Cardinality(GivenUp) - 1
          /\ IsFiniteSet(GivenUp \ {last})
      BY <1>6, <3>2, FS_RemoveElement
    <3>4. Cardinality((GivenUp \ {last}) \cup {idx})
            = Cardinality(GivenUp \ {last}) + 1
      BY <3>2, <3>3, FS_AddElement
    <3>5. IsFiniteSet(Lost') /\ Cardinality(Lost') <= Cardinality(Lost)
      BY <2>1, <1>6, FS_Subset
    <3>6. Cardinality(Lost') \in Nat
      BY <3>5, FS_CardinalityType
    <3>7. Cardinality(GivenUp') = Cardinality(GivenUp)
      BY <3>1, <3>3, <3>4, <1>7
    <3> QED  BY <3>5, <3>6, <3>7, <1>3, <1>7 DEF LostInv
  <2> QED  BY <2>2, <2>3
<1>9. CASE idx # last /\ client_sockets[last] # -1
  <2>1. GivenUp' = GivenUp \cup {idx} /\ idx \notin GivenUp
    <3>1. GivenUp' = {i \in InUse' : client_sockets'[i] = -1}
      BY <1>4 DEF GivenUp
    <3>2. GivenUp = {i \in InUse \ {idx} : client_sockets[i] = -1}
      BY <1>4 DEF GivenUp
    <3>3. \A i : i \in GivenUp' <=> i \in GivenUp \cup {idx}
      BY <3>1, <3>2, <1>1, <1>4, <1>9
    <3> QED  BY <3>2, <3>3
  <2>2. Cardinality(GivenUp') = Cardinality(GivenUp) + 1
    BY <2>1, <1>6, FS_AddElement
  <2>3. /\ IsFiniteSet(Lost \cup {client_sockets[last]})
        /\ Cardinality(Lost \cup {client_sockets[last]})
             <= Cardinality(Lost) + 1
    BY <1>6, OneMore
  <2>4. /\ IsFiniteSet(Lost')
        /\ Cardinality(Lost')
             <= Cardinality(Lost \cup {client_sockets[last]})
    BY <1>5, <2>3, FS_Subset
  <2>5. /\ Cardinality(Lost') \in Nat
        /\ Cardinality(Lost \cup {client_sockets[last]}) \in Nat
    BY <2>3, <2>4, FS_CardinalityType
  <2> QED  BY <2>2, <2>3, <2>4, <2>5, <1>3, <1>7 DEF LostInv
<1> QED  BY <1>8, <1>9

\* Whatever the entry that a thread clears names by now, the thread is done.
LEMMA LostByClear ==
  ASSUME CountInv, TypeOK', NEW c \in Clients, ClearEntry(c)
  PROVE  LostInv'
<1> USE DEF CountInv, TypeOK
<1> DEFINE entry == client_sockets[scan[c]]
<1>1. Done' = Done \cup {c} /\ c \notin Done
  BY DEF Done, ClearEntry, ThreadReturns, ThreadMoves
<1>2. InUse' = InUse /\ UnderProbe' = UnderProbe /\ InUse \subseteq Slots
  BY TableAssumption
     DEF ClearEntry, acceptorVars, InUse, UnderProbe, Slots
<1>3. \A i \in Slots :
        client_sockets'[i] = IF i = scan[c] THEN -1 ELSE client_sockets[i]
  BY DEF ClearEntry, Slots
<1>4. Lost' \subseteq Lost \cup {entry}
  <2> SUFFICES ASSUME NEW f \in OpenFds, f \notin Carried', f # entry
               PROVE  f \notin Carried
    BY DEF Lost, OpenFds, Open, ClearEntry
  <2>1. ASSUME NEW i \in InUse PROVE f # client_sockets[i]
    BY <1>2, <1>3 DEF Carried
  <2> QED
    BY <2>1 DEF Carried, ClearEntry, acceptorVars
<1>5. GivenUp \subseteq GivenUp'
  BY <1>2, <1>3 DEF GivenUp
<1>6. IsFiniteSet(Lost) /\ IsFiniteSet(Done)
  BY DEF LostInv
<1>7. /\ IsFiniteSet(GivenUp') /\ Cardinality(GivenUp) <= Cardinality(GivenUp')
      /\ Cardinality(GivenUp) \in Nat /\ Cardinality(GivenUp') \in Nat
  BY <1>5, GivenUpFinite, FS_Subset
<1>8. IsFiniteSet(Done') /\ Cardinality(Done') = Cardinality(Done) + 1
  BY <1>1, <1>6, FS_AddElement
<1>9. /\ IsFiniteSet(Lost \cup {entry})
      /\ Cardinality(Lost \cup {entry}) <= Cardinality(Lost) + 1
      /\ Cardinality(Lost) \in Nat /\ Cardinality(Done) \in Nat
  BY <1>6, OneMore, FS_CardinalityType
<1>10. IsFiniteSet(Lost') /\ Cardinality(Lost') <= Cardinality(Lost \cup {entry})
  BY <1>4, <1>9, FS_Subset
<1>11. Cardinality(Lost') \in Nat /\ Cardinality(Lost \cup {entry}) \in Nat
  BY <1>9, <1>10, FS_CardinalityType
<1> QED  BY <1>7, <1>8, <1>9, <1>10, <1>11 DEF LostInv

-----------------------------------------------------------------------------
(* All steps *)

LEMMA CountInit == Init => CountInv
<1> SUFFICES ASSUME Init PROVE LostInv /\ ForgetInv /\ NewInv
  BY TypeInit DEF CountInv
<1>1. Lost = {} /\ Done = {}
  BY DEF Init, Lost, Done, OpenFds, Open
<1>2. GivenUp = {}
  BY DEF Init, GivenUp, InUse
<1>3. NewInv  BY DEF Init, NewInv
<1> QED  BY <1>1, <1>2, <1>3, FS_EmptySet DEF LostInv, ForgetInv, Init

LEMMA LostAtEnd == ASSUME ProcessEnds PROVE LostInv' /\ ForgetInv'
<1>1. Lost' = {} /\ Done' = {}
  BY DEF ProcessEnds, Lost, Done, OpenFds, Open
<1>2. GivenUp' = {}
  BY DEF ProcessEnds, GivenUp, InUse
<1> QED  BY <1>1, <1>2, FS_EmptySet DEF LostInv, ForgetInv, ProcessEnds

LEMMA ForgetNext ==
  ASSUME TypeOK, TypeOK', ForgetInv, [Next]_vars
  PROVE  ForgetInv'
<1> SUFFICES ASSUME pcA' = "forget" PROVE ~Open(client_sockets[idx])'
  BY DEF ForgetInv
<1> DEFINE Kept ==
      /\ \A f \in Fds : files'[f] \in {files[f], NoClient}
      /\ idx' = idx /\ client_sockets'[idx] \in {client_sockets[idx], -1}
<1> USE DEF TypeOK
<1>1. CASE Reap
  BY <1>1 DEF Reap, AcceptorMoves, close, Open
<1>2. CASE pcA = "forget"
  <2> USE <1>2
  <2>1. ASSUME signal_handler \/ UNCHANGED vars PROVE Kept
    BY <2>1 DEF signal_handler, vars, acceptorVars, threadVars
  <2>2. ASSUME NEW c \in Clients, Connect(c) \/ Reset(c) PROVE Kept
    BY <2>2 DEF Connect, Reset, acceptorVars, threadVars
  <2>3. ASSUME NEW c \in Clients,
               ReadArgument(c) \/ SessionEnds(c) \/ ScanNext(c)
                 \/ ScanFinds(c) \/ ScanEnds(c)
        PROVE  Kept
    BY <2>3 DEF ReadArgument, SessionEnds, ScanNext, ScanFinds, ScanEnds,
                acceptorVars
  <2>4. ASSUME NEW c \in Clients, CloseSocket(c) PROVE Kept
    BY <2>4 DEF CloseSocket, close, acceptorVars
  <2>5. ASSUME NEW c \in Clients, ClearEntry(c) PROVE Kept
    BY <2>5, TableAssumption DEF ClearEntry, acceptorVars, Slots
  <2>6. Kept
    BY <2>1, <2>2, <2>3, <2>4, <2>5
       DEF Next, AcceptSome, Accept, AcceptFails, SpawnFails, AcceptorStep,
           LeaveLoop, WaitForClient, WaitForPlace, Register, Spawn, Inspect,
           Probe, Reap, Forget, MainReturns, AcceptorMoves, ProcessEnds,
           SessionKillsServer, close_connection
  <2> QED
    BY <2>6, TableAssumption DEF ForgetInv, Open
<1>3. CASE pcA # "forget" /\ ~Reap
  BY <1>3 DEF Next, AcceptSome, Accept, AcceptFails, SpawnFails, AcceptorStep,
        LeaveLoop, WaitForClient, WaitForPlace, Register, Spawn, Inspect,
        Probe, Forget, MainReturns, AcceptorMoves, ProcessEnds,
        SessionKillsServer, close_connection, signal_handler, Connect, Reset,
        ReadArgument, SessionEnds, CloseSocket, ScanNext, ScanFinds, ScanEnds,
        ClearEntry, acceptorVars, vars
<1> QED  BY <1>1, <1>2, <1>3

LEMMA NewAtEnd == ASSUME ProcessEnds PROVE NewInv'
BY DEF ProcessEnds, NewInv

LEMMA NewNext ==
  ASSUME TypeOK, TypeOK', NewInv, [Next]_vars
  PROVE  NewInv'
<1> USE DEF NewInv
<1>0. /\ Len(backlog) \in Nat /\ Len(backlog') \in Nat
      /\ \A i \in 1 .. Len(backlog) : backlog[i] \in Clients
      /\ pcH \in [Clients -> ThreadSteps]
      /\ peer \in [Clients -> {"new", "up", "reset"}]
  BY LenProperties, ElementOfSeq DEF TypeOK
<1>1. ASSUME NEW f \in Fds, Accept(f) PROVE NewInv'
  <2>1. /\ Head(backlog) = backlog[1] /\ Len(backlog) >= 1
        /\ Len(backlog') = Len(backlog) - 1
        /\ \A i \in 1 .. Len(backlog') : backlog'[i] = backlog[i + 1]
    BY <1>1, HeadTailProperties DEF Accept, TypeOK
  <2>2. ASSUME NEW i \in 1 .. Len(backlog')
        PROVE  /\ i + 1 \in 1 .. Len(backlog) /\ 1 \in 1 .. Len(backlog)
               /\ backlog'[i] = backlog[i + 1]
               /\ backlog'[i] # backlog[1]
    <3>1. i \in Nat \ {0} /\ Len(backlog) \in Nat
          /\ i + 1 \in 1 .. Len(backlog) /\ 1 \in 1 .. Len(backlog)
      BY <1>0, <2>1
    <3>2. i + 1 # 1
      BY <3>1
    <3> QED  BY <2>1, <3>1, <3>2
  <2>3. /\ latest' = backlog[1] /\ pcA' = "register"
        /\ UNCHANGED <<peer, pcH>>
    BY <1>1, <2>1 DEF Accept, AcceptorMoves, threadVars
  <2>4. \A i, j \in 1 .. Len(backlog') : backlog'[i] = backlog'[j] => i = j
    <3> SUFFICES ASSUME NEW i \in 1 .. Len(backlog'), NEW j \in 1 .. Len(backlog'),
                        backlog'[i] = backlog'[j]
                 PROVE  i = j
      OBVIOUS
    <3>1. i + 1 = j + 1  BY <2>2
    <3> QED  BY <1>0, <3>1
  <2>5. pcH[backlog[1]] = "none" /\ peer[backlog[1]] # "new"
    <3>1. 1 \in 1 .. Len(backlog)  BY <1>0, <2>1
    <3> QED  BY <3>1
  <2> QED  BY <2>2, <2>3, <2>4, <2>5
<1>2. CASE Register
  BY <1>2 DEF Register, AcceptorMoves, threadVars
<1>3. CASE Spawn
  BY <1>0, <1>3 DEF Spawn, AcceptorMoves, TypeOK
<1>4. CASE LeaveLoop \/ WaitForClient \/ WaitForPlace \/ AcceptFails
             \/ Inspect \/ Probe \/ Reap \/ Forget
  BY <1>4 DEF LeaveLoop, WaitForClient, WaitForPlace, AcceptFails, Inspect,
              Probe, Reap, Forget, AcceptorMoves, threadVars
<1>5. CASE ProcessEnds
  BY <1>5, NewAtEnd
<1>6. CASE SpawnFails /\ ~ProcessEnds
  BY <1>6 DEF SpawnFails, threadVars
<1>7. CASE signal_handler \/ UNCHANGED vars
  BY <1>7 DEF signal_handler, vars, acceptorVars, threadVars
<1>8. ASSUME NEW c \in Clients, Connect(c) PROVE NewInv'
  <2>1. /\ Len(backlog') = Len(backlog) + 1
        /\ backlog'[Len(backlog) + 1] = c
        /\ \A i \in 1 .. Len(backlog) : backlog'[i] = backlog[i]
    BY <1>8, AppendProperties DEF Connect, TypeOK
  <2>2. /\ pcH[c] = "none" /\ peer[c] = "new"
        /\ peer' = [peer EXCEPT ![c] = "up"]
        /\ UNCHANGED <<pcA, pcH, latest>>
    BY <1>8 DEF Connect, threadVars
  <2>3. \A i \in 1 .. Len(backlog) : backlog[i] # c
    BY <2>2
  <2>4. \A i \in 1 .. Len(backlog') :
          i \in 1 .. Len(backlog) \/ i = Len(backlog) + 1
    BY <1>0, <2>1
  <2>5. \A i, j \in 1 .. Len(backlog') : backlog'[i] = backlog'[j] => i = j
    BY <2>1, <2>3, <2>4
  <2>6. \A i \in 1 .. Len(backlog') :
          pcH'[backlog'[i]] = "none" /\ peer'[backlog'[i]] # "new"
    BY <1>0, <2>1, <2>2, <2>3, <2>4
  <2>7. pcA' \in {"register", "spawn"} =>
          /\ pcH'[latest'] = "none" /\ peer'[latest'] # "new"
          /\ \A i \in 1 .. Len(backlog') : backlog'[i] # latest'
    BY <1>0, <2>1, <2>2, <2>4
  <2>8. \A d \in Clients : peer'[d] = "new" => pcH'[d] = "none"
    BY <1>0, <2>2
  <2> QED  BY <2>5, <2>6, <2>7, <2>8
<1>9. ASSUME NEW c \in Clients,
             Reset(c) \/ ReadArgument(c) \/ SessionEnds(c) \/ CloseSocket(c)
               \/ ScanNext(c) \/ ScanFinds(c) \/ ScanEnds(c) \/ ClearEntry(c)
      PROVE  NewInv'
  <2>1. /\ UNCHANGED <<backlog, latest, pcA>>
        /\ \A d \in Clients :
             /\ pcH[d] = "none" => pcH'[d] = "none"
             /\ peer'[d] = "new" <=> peer[d] = "new"
    BY <1>0, <1>9
       DEF Reset, ReadArgument, SessionEnds, CloseSocket, ScanNext, ScanFinds,
           ScanEnds, ClearEntry, ThreadReturns, ThreadMoves, acceptorVars,
           threadVars
  <2>2. pcA \in {"register", "spawn"} => latest \in Clients
    BY DEF TypeOK
  <2> QED  BY <1>0, <2>1, <2>2
<1> QED
  BY <1>1, <1>2, <1>3, <1>4, <1>5, <1>6, <1>7, <1>8, <1>9
     DEF Next, AcceptorStep, AcceptSome, close_connection, MainReturns,
         SessionKillsServer

LEMMA CountNext == CountInv /\ [Next]_vars => CountInv'
<1> SUFFICES ASSUME CountInv, [Next]_vars PROVE CountInv'
  OBVIOUS
<1>1. TypeOK /\ TypeOK' /\ LostInv /\ ForgetInv /\ NewInv
  BY TypeNext DEF CountInv
<1>2. LostInv'
  <2> DEFINE Kept == Lost' \subseteq Lost /\ GivenUp \subseteq GivenUp'
  <2>1. IsFiniteSet(Done)  BY <1>1 DEF LostInv
  <2>2. ASSUME Kept, Done' = Done PROVE LostInv'
    BY <1>1, <2>1, <2>2, FewerLost
  <2> HIDE DEF Kept
  <2> USE <1>1 DEF Kept, Lost, Carried, GivenUp, InUse, UnderProbe, OpenFds, Open
  <2>3. ASSUME NEW f \in Fds, Accept(f) PROVE Kept /\ Done' = Done
    BY <2>3 DEF Accept, AcceptorMoves, threadVars, Done, TypeOK
  <2>4. ASSUME Register PROVE Kept /\ Done' = Done
    <3>1. /\ InUse' = InUse \cup {num_clients} /\ num_clients \notin InUse
          /\ UnderProbe = {} /\ UnderProbe' = {}
          /\ InUse \subseteq Slots /\ num_clients \in Slots
      BY <2>4, TableAssumption DEF Register, AcceptorMoves, TypeOK, Slots
    <3>2. /\ client_sockets'[num_clients] = client_socket
          /\ \A i \in InUse : client_sockets'[i] = client_sockets[i]
      BY <2>4, <3>1 DEF Register, TypeOK
    <3>3. /\ Carried = {client_sockets[i] : i \in InUse} \cup {client_socket}
          /\ Carried' = {client_sockets'[i] : i \in InUse'}
          /\ OpenFds' = OpenFds /\ Done' = Done
      BY <2>4 DEF Register, AcceptorMoves, threadVars, Done
    <3> HIDE DEF Carried, InUse, UnderProbe, OpenFds
    <3>4. Carried \subseteq Carried'
      BY <3>1, <3>2, <3>3
    <3>5. Lost' \subseteq Lost
      BY <3>3, <3>4
    <3>6. GivenUp \subseteq GivenUp'
      BY <3>1, <3>2
    <3> QED  BY <3>3, <3>5, <3>6
  <2>5. ASSUME LeaveLoop \/ WaitForClient \/ WaitForPlace \/ AcceptFails
                 \/ Inspect \/ Probe
        PROVE  Kept /\ Done' = Done
    BY <2>5 DEF LeaveLoop, WaitForClient, WaitForPlace, AcceptFails, Inspect,
                Probe, AcceptorMoves, threadVars, Done, TypeOK
  <2>6. ASSUME Reap PROVE Kept /\ Done' = Done
    BY <2>6 DEF Reap, close, AcceptorMoves, threadVars, Done, TypeOK
  <2>7. ASSUME Spawn \/ signal_handler \/ UNCHANGED vars
        PROVE  Kept /\ Done' = Done
    BY <2>7 DEF Spawn, signal_handler, vars, AcceptorMoves, acceptorVars,
                threadVars, Done, TypeOK, NewInv
  <2>8. ASSUME SpawnFails PROVE LostInv'
    <3>1. CASE ProcessEnds  BY <3>1, LostAtEnd
    <3>2. CASE ~ProcessEnds
      <4>1. Kept /\ Done' = Done
        BY <2>8, <3>2 DEF SpawnFails, threadVars, Done, TypeOK
      <4> QED  BY <4>1, <2>2
    <3> QED  BY <3>1, <3>2
  <2>9. ASSUME MainReturns PROVE LostInv'
    BY <2>9, LostAtEnd DEF MainReturns
  <2>10. ASSUME Forget PROVE LostInv'
    BY <2>10, LostByForget, <1>1
  <2>11. ASSUME NEW c \in Clients,
                Connect(c) \/ Reset(c) \/ ReadArgument(c) \/ SessionEnds(c)
                  \/ ScanNext(c) \/ ScanFinds(c)
         PROVE  Kept /\ Done' = Done
    <3>1. /\ UNCHANGED <<files, num_clients, client_sockets, client_socket,
                         pcA, idx>>
          /\ Kept
      BY <2>11 DEF Connect, Reset, ReadArgument, SessionEnds, ScanNext,
                   ScanFinds, acceptorVars
    <3>2. Done' = Done
      BY <2>11 DEF Connect, Reset, ReadArgument, SessionEnds, ScanNext,
                   ScanFinds, ThreadMoves, threadVars, Done, TypeOK
    <3> QED  BY <3>1, <3>2
  <2>12. ASSUME NEW c \in Clients, CloseSocket(c)
         PROVE  Kept /\ Done' = Done
    BY <2>12 DEF CloseSocket, close, ThreadMoves, acceptorVars, Done, TypeOK
  <2>13. ASSUME NEW c \in Clients, ScanEnds(c) PROVE LostInv'
    <3>1. Kept
      BY <2>13 DEF ScanEnds, ThreadReturns, acceptorVars, TypeOK
    <3>2. Done' = Done \cup {c}
      BY <2>13 DEF ScanEnds, ThreadReturns, ThreadMoves, Done, TypeOK
    <3>3. IsFiniteSet(Done')
      BY <2>1, <3>2, FS_AddElement
    <3> QED  BY <3>1, <3>2, <3>3, <1>1, FewerLost
  <2>14. ASSUME NEW c \in Clients, SessionKillsServer(c) PROVE LostInv'
    BY <2>14, LostAtEnd DEF SessionKillsServer
  <2>15. ASSUME NEW c \in Clients, ClearEntry(c) PROVE LostInv'
    BY <2>15, LostByClear, <1>1
  <2> QED
    BY <2>2, <2>3, <2>4, <2>5, <2>6, <2>7, <2>8, <2>9, <2>10, <2>11, <2>12,
       <2>13, <2>14, <2>15
       DEF Next, AcceptorStep, AcceptSome, close_connection
<1>3. ForgetInv'
  BY <1>1, ForgetNext
<1>4. NewInv'
  BY <1>1, NewNext
<1> QED  BY <1>1, <1>2, <1>3, <1>4 DEF CountInv

\* A carried connection has an entry of its own that is not given up, or is
\* about to be registered.
LEMMA CountSuffices == CountInv => MiscountBounded
<1> SUFFICES ASSUME CountInv
             PROVE  Cardinality(OpenFds)
                      <= num_clients + (IF pcA = "register" THEN 1 ELSE 0)
                           + Cardinality(Done)
  BY DEF MiscountBounded, Done
<1> USE DEF CountInv
<1> DEFINE Naming == InUse \ GivenUp
           Named == {client_sockets[i] : i \in Naming}
           Pending == IF pcA = "register" THEN {client_socket} ELSE {}
<1>1. num_clients \in Nat
  BY TableAssumption DEF TypeOK
<1>2. /\ IsFiniteSet(InUse) /\ Cardinality(InUse) = num_clients
  BY <1>1, FS_Interval DEF InUse
<1>3. /\ IsFiniteSet(GivenUp) /\ GivenUp \subseteq InUse
      /\ IsFiniteSet(Naming) /\ Naming \subseteq InUse
  BY <1>2, FS_Subset, GivenUpFinite DEF GivenUp
<1>4. Cardinality(Naming) = num_clients - Cardinality(GivenUp)
  <2>1. Cardinality(Naming) = num_clients - Cardinality(InUse \cap GivenUp)
    BY <1>2, FS_Difference
  <2>2. InUse \cap GivenUp = GivenUp
    BY <1>3
  <2> QED  BY <2>1, <2>2
<1>5. IsFiniteSet(Named) /\ Cardinality(Named) <= Cardinality(Naming)
  <2> DEFINE naming == [i \in Naming |-> client_sockets[i]]
  <2>1. naming \in Surjection(Naming, Named)
    BY DEF Surjection
  <2> QED  BY <1>3, <2>1, FS_Surjection
<1>6. IsFiniteSet(Lost) /\ IsFiniteSet(Done)
  BY DEF LostInv
<1>7. OpenFds \subseteq (Lost \cup Named) \cup Pending
  BY TableAssumption DEF Lost, Carried, OpenFds, Open, GivenUp
<1>8. /\ IsFiniteSet(Lost \cup Named)
      /\ Cardinality(Lost \cup Named)
           <= Cardinality(Lost) + Cardinality(Named)
  <2>1. /\ IsFiniteSet(Lost \cup Named) /\ IsFiniteSet(Lost \cap Named)
        /\ Cardinality(Lost \cup Named)
             = Cardinality(Lost) + Cardinality(Named)
                 - Cardinality(Lost \cap Named)
    BY <1>5, <1>6, FS_Union, FS_Intersection
  <2>2. /\ Cardinality(Lost \cap Named) \in Nat
        /\ Cardinality(Lost) \in Nat /\ Cardinality(Named) \in Nat
    BY <2>1, <1>5, <1>6, FS_CardinalityType
  <2> QED  BY <2>1, <2>2
<1>9. /\ IsFiniteSet((Lost \cup Named) \cup Pending)
      /\ Cardinality((Lost \cup Named) \cup Pending)
           <= Cardinality(Lost \cup Named)
                + (IF pcA = "register" THEN 1 ELSE 0)
  <2>1. CASE pcA = "register"
    BY <2>1, <1>8, OneMore
  <2>2. CASE pcA # "register"
    <3>1. (Lost \cup Named) \cup Pending = Lost \cup Named
      BY <2>2
    <3>2. Cardinality(Lost \cup Named) \in Nat
      BY <1>8, FS_CardinalityType
    <3> HIDE DEF Pending, Named
    <3> QED  BY <2>2, <3>1, <3>2, <1>8
  <2> QED  BY <2>1, <2>2
<1>10. /\ IsFiniteSet(OpenFds)
       /\ Cardinality(OpenFds) <= Cardinality((Lost \cup Named) \cup Pending)
  BY <1>7, <1>9, FS_Subset
<1>11. /\ Cardinality(OpenFds) \in Nat /\ Cardinality(Lost) \in Nat
       /\ Cardinality(Named) \in Nat /\ Cardinality(Naming) \in Nat
       /\ Cardinality(GivenUp) \in Nat /\ Cardinality(Done) \in Nat
       /\ Cardinality(Lost \cup Named) \in Nat
       /\ Cardinality((Lost \cup Named) \cup Pending) \in Nat
  BY <1>3, <1>5, <1>6, <1>8, <1>9, <1>10, FS_CardinalityType
<1>12. Cardinality(Lost) <= Cardinality(GivenUp) + Cardinality(Done)
  BY DEF LostInv
<1> HIDE DEF Naming, Named, Pending
<1> QED  BY <1>1, <1>4, <1>5, <1>8, <1>9, <1>10, <1>11, <1>12

\* num_clients counts the open connections too low by at most one for every
\* thread that has finished, however the acceptor's scan (server.c:116-131)
\* and the threads' close_connection (client_handling.c:88-99) interleave.
THEOREM CountBounded == Spec => []MiscountBounded
<1>1. CountInv => MiscountBounded
  BY CountSuffices
<1>2. Init => CountInv  BY CountInit
<1>3. CountInv /\ [Next]_vars => CountInv'  BY CountNext
<1> QED  BY <1>1, <1>2, <1>3, PTL DEF Spec

=============================================================================
