---------------------------- MODULE MailboxProofs ----------------------------
(* MessageRouting implements Mailbox, for any users, sessions and            *)
(* descriptors: each step moves each message as Mailbox allows, or not.      *)
EXTENDS MessageRoutingProofs

USE RoutingAssumption DEF Steps, Away, Chatting, histories

\* What decides the status of a message.
IsStored(m) == m \in rows
IsTaken(m) == \E s \in Sessions : m \in result[s]
IsHeld(m) == m = InHand(m[1]) /\ pc[m[1]] \in Handling
IsKnown(m) == m[2] <= count[m[1]]

StatusOf(isStored, isShown, isTaken, isHeld, isKnown) ==
  IF isStored THEN "stored"
  ELSE IF isShown THEN "shown"
  ELSE IF isTaken THEN "fetched"
  ELSE IF isHeld THEN "held"
  ELSE IF isKnown THEN "lost"
  ELSE "new"

LEMMA StatusNow ==
  ASSUME NEW m
  PROVE  Status(m) = StatusOf(IsStored(m), IsShown(m), IsTaken(m), IsHeld(m),
                              IsKnown(m))
BY DEF Status, StatusOf, IsStored, IsShown, IsTaken, IsHeld, IsKnown

LEMMA StatusNext ==
  ASSUME NEW m
  PROVE  Status(m)' = StatusOf(IsStored(m)', IsShown(m)', IsTaken(m)',
                               IsHeld(m)', IsKnown(m)')
BY DEF Status, StatusOf, IsStored, IsShown, IsTaken, IsHeld, IsKnown

-----------------------------------------------------------------------------
(* The invariant.  What a session has in its result set after its DELETE,    *)
(* and what was shown, is not in the table (Apart), and what was not sent    *)
(* yet is nowhere (Fresh).                                                   *)

Apart ==
  /\ \A s \in Sessions :
       /\ pc[s] \notin {"purge", "count", "drain"} => result[s] = {}
       /\ \A m \in result[s] :
            /\ Addressee(m) = UserOf[s]
            /\ pc[s] # "purge" => m \notin rows
  /\ \A d \in shown : d.message \notin rows

KeepInv == TypeOK /\ Fresh /\ Apart

LEMMA ApartNext == KeepInv /\ [Next]_vars => Apart'
<1> SUFFICES ASSUME KeepInv, [Next]_vars PROVE Apart'
  OBVIOUS
<1> USE DEF KeepInv, TypeOK, Apart, Moves
<1>1. CASE Crash
  BY <1>1 DEF Crash
<1>2. ASSUME NEW s \in Sessions,
             \/ Connect(s) \/ Login(s) \/ HandshakeFails(s) \/ Hangup(s)
             \/ FetchFails(s) \/ PurgeFails(s) \/ CountConfirmed(s)
             \/ CountFails(s) \/ DrainDone(s) \/ Register(s) \/ Receive(s)
             \/ Lookup(s) \/ StoreFails(s) \/ Leave(s) \/ Close(s)
      PROVE  Apart'
  BY <1>2 DEF Connect, Login, HandshakeFails, Hangup, FetchFails, PurgeFails,
              CountConfirmed, CountFails, DrainDone, Register, Receive, Lookup,
              StoreFails, Leave, Close
<1>3. ASSUME NEW s \in Sessions, Fetch(s) PROVE Apart'
  BY <1>3 DEF Fetch, StoredFor
<1>4. ASSUME NEW s \in Sessions, Purge(s) PROVE Apart'
  BY <1>4 DEF Purge, StoredFor
<1>5. ASSUME NEW s \in Sessions, Drain(s) PROVE Apart'
  BY <1>5 DEF Drain, Send
<1>6. ASSUME NEW s \in Sessions, Forward(s) PROVE Apart'
  <2>1. ~Placed(InHand(s))
    BY <1>6, InHandIsFresh DEF Forward
  <2> QED  BY <1>6, <2>1 DEF Forward, Send, Placed, IsShown
<1>7. ASSUME NEW s \in Sessions, Store(s) PROVE Apart'
  <2>1. ~Placed(InHand(s))
    BY <1>7, InHandIsFresh DEF Store
  <2> QED  BY <1>7, <2>1 DEF Store, Placed, IsShown
<1>8. CASE UNCHANGED vars
  BY <1>8 DEF vars
<1>9. ASSUME NEW f \in Fds, Reap(f) PROVE Apart'
  BY <1>9 DEF Reap
<1> QED
  BY <1>1, <1>2, <1>3, <1>4, <1>5, <1>6, <1>7, <1>8, <1>9 DEF Next

LEMMA KeepInit == Init => KeepInv
BY OnceInit DEF OnceInv, KeepInv, Apart, Init

LEMMA KeepNext == KeepInv /\ [Next]_vars => KeepInv'
BY TypeNext, FreshNext, ApartNext DEF KeepInv

-----------------------------------------------------------------------------
(* The steps *)

LEMMA MessageParts ==
  ASSUME NEW m \in Messages
  PROVE  m[1] \in Sessions /\ m[2] \in Nat /\ m = <<m[1], m[2]>>
BY DEF Messages

\* A message is in one place, and no place holds one that was not sent.
LEMMA OnePlace ==
  ASSUME KeepInv, NEW m \in Messages
  PROVE  /\ IsStored(m) \/ IsShown(m) \/ IsTaken(m)
              => IsKnown(m) /\ ~IsHeld(m)
         /\ IsHeld(m) => IsKnown(m)
         /\ IsShown(m) => ~IsStored(m)
<1>1. m[1] \in Sessions /\ m[2] \in Nat /\ m = <<m[1], m[2]>>
  BY MessageParts
<1>2. IsStored(m) \/ IsShown(m) \/ IsTaken(m) => Placed(m)
  BY DEF IsStored, IsShown, IsTaken, Placed
<1>3. Placed(m) => ~Unsent(m[1], m[2])
  BY <1>1 DEF KeepInv, Fresh
<1>4. IsHeld(m) => m[2] = count[m[1]]
  BY <1>1 DEF IsHeld, InHand
<1>5. ~IsKnown(m) \/ IsHeld(m) => Unsent(m[1], m[2])
  BY <1>1, <1>4 DEF IsKnown, IsHeld, Handling, Unsent, KeepInv, TypeOK
<1>6. IsHeld(m) => IsKnown(m)
  BY <1>1, <1>4 DEF IsKnown, KeepInv, TypeOK
<1>7. IsShown(m) => ~IsStored(m)
  BY DEF KeepInv, Apart, IsShown, IsStored
<1> QED  BY <1>2, <1>3, <1>5, <1>6, <1>7

Moved(m) == [Box(m)!Next]_(Status(m))

\* The ways in which a step may change where a message is.
Taking(m) ==
  /\ IsStored(m)' = IsStored(m) /\ IsShown(m)' = IsShown(m)
  /\ IsHeld(m)' = IsHeld(m) /\ IsKnown(m)' = IsKnown(m)
  /\ ~IsStored(m) => IsTaken(m)' = IsTaken(m)

Deleting(m) ==
  /\ IsStored(m)' => IsStored(m)
  /\ IsShown(m)' = IsShown(m) /\ IsTaken(m)' = IsTaken(m)
  /\ IsHeld(m)' = IsHeld(m) /\ IsKnown(m)' = IsKnown(m)

Dropping(m) ==
  /\ IsStored(m)' = IsStored(m) /\ IsShown(m)' = IsShown(m)
  /\ IsTaken(m)' => IsTaken(m)
  /\ IsHeld(m)' => IsHeld(m)
  /\ IsKnown(m)' = IsKnown(m)

Showing(m) ==
  /\ IsStored(m)' = IsStored(m)
  /\ IsTaken(m) /\ ~IsStored(m) /\ IsShown(m)'
  /\ IsHeld(m)' = IsHeld(m) /\ IsKnown(m)' = IsKnown(m)

Receiving(m) ==
  /\ IsStored(m)' = IsStored(m) /\ IsShown(m)' = IsShown(m)
  /\ IsTaken(m)' = IsTaken(m)
  /\ ~IsKnown(m) /\ IsHeld(m)'

Giving(m) ==
  /\ IsHeld(m) /\ ~IsHeld(m)'
  /\ IsTaken(m)' = IsTaken(m) /\ IsKnown(m)' = IsKnown(m)

LEMMA AllowedMoves ==
  ASSUME KeepInv, NEW m \in Messages,
         \/ Taking(m) \/ Deleting(m) \/ Dropping(m)
         \/ Showing(m) \/ Receiving(m) \/ Giving(m)
  PROVE  Moved(m)
<1> DEFINE now == Status(m)
           next == Status(m)'
<1>1. SUFFICES \/ next = now
               \/ now = "new" /\ next = "held"
               \/ now = "held" /\ next \in {"stored", "shown", "lost"}
               \/ now = "stored" /\ next \in {"fetched", "lost"}
               \/ now = "fetched" /\ next \in {"shown", "lost"}
  BY DEF Moved, Box!Next, Box!Receive, Box!Store, Box!Fetch, Box!Show, Box!Lose
<1> USE StatusNow, StatusNext, OnePlace DEF StatusOf
<1>2. CASE Taking(m)     BY <1>2 DEF Taking
<1>3. CASE Deleting(m)   BY <1>3 DEF Deleting
<1>4. CASE Dropping(m)   BY <1>4 DEF Dropping
<1>5. CASE Showing(m)    BY <1>5 DEF Showing
<1>6. CASE Receiving(m)  BY <1>6 DEF Receiving
<1>7. CASE Giving(m)     BY <1>7 DEF Giving
<1> QED  BY <1>2, <1>3, <1>4, <1>5, <1>6, <1>7

LEMMA StepMoves ==
  ASSUME KeepInv, [Next]_vars, NEW m \in Messages
  PROVE  Moved(m)
<1> USE DEF KeepInv, TypeOK, Moves
<1>0. m[1] \in Sessions /\ m[2] \in Nat /\ m = <<m[1], m[2]>>
  BY MessageParts
<1>1. CASE Crash
  <2>1. Dropping(m)
    BY <1>0, <1>1 DEF Crash, Dropping, IsStored, IsShown, IsTaken, IsHeld,
                      IsKnown, Handling, InHand
  <2> QED  BY <2>1, AllowedMoves
<1>2. ASSUME NEW s \in Sessions,
             \/ Connect(s) \/ Login(s) \/ HandshakeFails(s) \/ Hangup(s)
             \/ FetchFails(s) \/ CountConfirmed(s) \/ DrainDone(s)
             \/ Register(s) \/ Lookup(s) \/ Leave(s) \/ Close(s)
      PROVE  Moved(m)
  <2>1. UNCHANGED <<rows, shown, result, count>>
    BY <1>2 DEF Connect, Login, HandshakeFails, Hangup, FetchFails, CountConfirmed,
                DrainDone, Register, Lookup, Leave, Close
  <2>2. pc'[m[1]] \in Handling <=> pc[m[1]] \in Handling
    BY <1>0, <1>2 DEF Connect, Login, HandshakeFails, Hangup, FetchFails,
                CountConfirmed, DrainDone, Register, Lookup, Leave, Close, Handling
  <2>3. Taking(m)
    BY <2>1, <2>2 DEF Taking, IsStored, IsShown, IsTaken, IsHeld, IsKnown, InHand
  <2> QED  BY <2>3, AllowedMoves
<1>3. ASSUME NEW s \in Sessions, Fetch(s) PROVE Moved(m)
  <2>1. Taking(m)
    BY <1>0, <1>3 DEF Fetch, StoredFor, Apart, Taking, IsStored, IsShown,
                      IsTaken, IsHeld, IsKnown, Handling, InHand
  <2> QED  BY <2>1, AllowedMoves
<1>4. ASSUME NEW s \in Sessions, Purge(s) PROVE Moved(m)
  <2>1. Deleting(m)
    BY <1>0, <1>4 DEF Purge, Deleting, IsStored, IsShown, IsTaken, IsHeld,
                      IsKnown, Handling, InHand
  <2> QED  BY <2>1, AllowedMoves
<1>5. ASSUME NEW s \in Sessions, PurgeFails(s) \/ CountFails(s) \/ StoreFails(s)
      PROVE  Moved(m)
  <2>1. Dropping(m)
    BY <1>0, <1>5 DEF PurgeFails, CountFails, StoreFails, Dropping, IsStored,
                      IsShown, IsTaken, IsHeld, IsKnown, Handling, InHand
  <2> QED  BY <2>1, AllowedMoves
<1>6. ASSUME NEW s \in Sessions, Drain(s) PROVE Moved(m)
  <2>1. IsShown(m)' /\ ~IsShown(m) => IsTaken(m) /\ ~IsStored(m)
    BY <1>6 DEF Drain, Send, Apart, IsShown, IsTaken, IsStored
  <2>2. IsShown(m) => IsShown(m)'
    BY <1>6 DEF Drain, Send, IsShown
  <2>3. Dropping(m) \/ Showing(m)
    BY <1>0, <1>6, <2>1, <2>2 DEF Drain, Dropping, Showing, IsStored, IsTaken,
                                  IsHeld, IsKnown, InHand, IsShown
  <2> QED  BY <2>3, AllowedMoves
<1>7. ASSUME NEW s \in Sessions, Receive(s) PROVE Moved(m)
  <2>1. Taking(m) \/ Receiving(m)
    BY <1>0, <1>7 DEF Receive, Taking, Receiving, IsStored, IsShown, IsTaken,
                      IsHeld, IsKnown, Handling, InHand
  <2> QED  BY <2>1, AllowedMoves
<1>8. ASSUME NEW s \in Sessions, Forward(s) \/ Store(s) PROVE Moved(m)
  <2>1. CASE m = InHand(s)
    <3>1. Giving(m)
      BY <1>0, <1>8, <2>1 DEF Forward, Store, Giving, IsTaken, IsHeld, IsKnown,
                              Handling, InHand
    <3> QED  BY <3>1, AllowedMoves
  <2>2. CASE m # InHand(s)
    <3>1. UNCHANGED <<IsStored(m), IsShown(m)>>
      BY <1>8, <2>2 DEF Forward, Store, Send, IsStored, IsShown
    <3>2. Taking(m)
      BY <1>0, <1>8, <2>2, <3>1 DEF Forward, Store, Taking, IsTaken, IsHeld,
                                    IsKnown, Handling, InHand
    <3> QED  BY <3>2, AllowedMoves
  <2> QED  BY <2>1, <2>2
<1>9. CASE UNCHANGED vars
  <2>1. Taking(m)
    BY <1>9 DEF vars, Taking, IsStored, IsShown, IsTaken, IsHeld, IsKnown, InHand
  <2> QED  BY <2>1, AllowedMoves
<1>10. ASSUME NEW f \in Fds, Reap(f) PROVE Moved(m)
  <2>1. Taking(m)
    BY <1>10 DEF Reap, Taking, IsStored, IsShown, IsTaken, IsHeld, IsKnown, InHand
  <2> QED  BY <2>1, AllowedMoves
<1> QED
  BY <1>1, <1>2, <1>3, <1>4, <1>5, <1>6, <1>7, <1>8, <1>9, <1>10 DEF Next

LEMMA BoxInit == ASSUME Init, NEW m \in Messages PROVE Box(m)!Init
<1>1. m[1] \in Sessions /\ m[2] \in 1 .. MaxSent[m[1]]
  BY DEF Messages
<1>2. ~IsKnown(m) /\ ~IsHeld(m)
  BY <1>1 DEF Init, IsKnown, IsHeld, InHand
<1>3. ~IsStored(m) /\ ~IsShown(m) /\ ~IsTaken(m)
  BY DEF Init, IsStored, IsShown, IsTaken
<1> QED  BY <1>2, <1>3, StatusNow DEF StatusOf, Box!Init

\* Every message keeps to its mailbox, whatever fails, for any number of users,
\* sessions and messages.
THEOREM RoutingImplementsMailbox == Spec => ImplementsMailbox
<1>1. Init => \A m \in Messages : Box(m)!Init
  BY BoxInit
<1>2. KeepInv /\ [Next]_vars
        => [\A m \in Messages : [Box(m)!Next]_(Status(m))]_vars
  BY StepMoves DEF Moved
<1> QED  BY <1>1, <1>2, KeepInit, KeepNext, PTL DEF Spec, ImplementsMailbox

=============================================================================
