-------------------------- MODULE SpamVerdictProofs --------------------------
(***************************************************************************)
(* OwnVerdict and DetectorFindsMessage of SpamPipeline, for any number of  *)
(* detectors and calls.                                                    *)
(*                                                                         *)
(* Thread and detector have no lock on the segment they share.  What       *)
(* orders their accesses is where the request is: with the thread before   *)
(* it is sent, then in one queue, then with one detector, and at last      *)
(* nowhere, when the detector has written the verdict and made the         *)
(* semaphore that lets the thread go on.  The inductive invariant says     *)
(* that the request is in one place, and what the segment holds while it   *)
(* is there.                                                               *)
(***************************************************************************)
EXTENDS SpamPipelineProofs

USE DEF Serving, NoProcess, Root, Steps, Calling

Handles(p, r) == work[p].step # "receive" /\ work[p].req = r
Queued(r) == \E s \in Slots : \E i \in 1 .. Len(mq[s]) : mq[s][i] = r
Unsent == {"never", "start", "advance", "name", "time", "share", "open", "send"}

\* A request is in one place of one queue, or with one detector, or nowhere.
OnceInv ==
  /\ \A s, t \in Slots : \A i \in 1 .. Len(mq[s]), j \in 1 .. Len(mq[t]) :
       mq[s][i] = mq[t][j] => s = t /\ i = j
  /\ \A p, q \in Procs, r \in Requests :
       Handles(p, r) /\ Handles(q, r) => p = q
  /\ \A r \in Requests, p \in Procs : Queued(r) => ~Handles(p, r)
  /\ \A r \in Requests : call[r] \in Unsent =>
       ~Queued(r) /\ \A p \in Procs : ~Handles(p, r)

\* Segments and semaphores are there only under names of calls.
OwnerInv ==
  /\ \A n \in Names : shm[n] # Nothing =>
       \E q \in Requests : Named(q) /\ SmName(q) = n
  /\ \A n \in Names : semaphores[n] # Nothing =>
       \E q \in Requests : Named(q) /\ SemName(q) = n

Asked(r) == shm[SmName(r)] \in Written(r)
Answered(r) == shm[SmName(r)] \in Verdicts(r)
Judged(p, r) == work[p].text \in Written(r) /\ work[p].text # Nothing

\* What the segment of a call holds, by where its request is.
Turn(r) ==
  /\ call[r] \in {"share", "open", "send"} \/ Queued(r) => Asked(r)
  /\ \A p \in Procs : Handles(p, r) =>
       /\ work[p].step = "read" => Asked(r)
       /\ work[p].step = "unlink" => Judged(p, r) /\ shm[SmName(r)] = work[p].text
       /\ work[p].step = "write" => Judged(p, r) /\ shm[SmName(r)] = Nothing
       /\ work[p].step \in {"semaphore", "release"} => Answered(r)
  /\ semaphores[SemName(r)] # Nothing => Answered(r)
  /\ call[r] \in {"wait", "read"} => Answered(r)
  /\ spam[r] \in {Nothing} \cup Verdicts(r)

TurnInv == \A r \in Requests : Named(r) /\ Lonely(r) => Turn(r)

VerdictInv == Inv /\ OnceInv /\ OwnerInv /\ TurnInv

-----------------------------------------------------------------------------
(* One place *)

\* Steps that hand no request on.
LEMMA OnceKept ==
  ASSUME TypeOK, OnceInv,
         \A s \in Slots : NothingNew(s),
         \A p \in Procs, r \in Requests : Handles(p, r)' => Handles(p, r),
         \A r \in Requests : call'[r] \in Unsent => call[r] \in Unsent
  PROVE  OnceInv'
<1>1. \A s \in Slots : \E k \in {0, 1} : \A i \in 1 .. Len(mq'[s]) :
        i + k \in 1 .. Len(mq[s]) /\ mq'[s][i] = mq[s][i + k]
  BY Shifted
<1>2. \A r \in Requests : Queued(r)' => Queued(r)
  BY <1>1 DEF Queued
<1>3. ASSUME NEW s \in Slots, NEW t \in Slots,
             NEW i \in 1 .. Len(mq'[s]), NEW j \in 1 .. Len(mq'[t]),
             mq'[s][i] = mq'[t][j]
      PROVE  s = t /\ i = j
  <2>1. PICK k \in {0, 1} : \A x \in 1 .. Len(mq'[s]) :
          x + k \in 1 .. Len(mq[s]) /\ mq'[s][x] = mq[s][x + k]
    BY <1>1
  <2>2. PICK l \in {0, 1} : \A x \in 1 .. Len(mq'[t]) :
          x + l \in 1 .. Len(mq[t]) /\ mq'[t][x] = mq[t][x + l]
    BY <1>1
  <2>3. s = t
    BY <1>3, <2>1, <2>2 DEF OnceInv
  <2>4. i + k = j + k
    <3>1. PICK a \in 1 .. Len(mq[s]), b \in 1 .. Len(mq[s]) :
            /\ a = i + k /\ b = j + k
            /\ mq'[s][i] = mq[s][a] /\ mq'[s][j] = mq[s][b]
      BY <2>1, <2>3
    <3> QED  BY <1>3, <2>3, <3>1 DEF OnceInv
  <2> QED  BY <2>3, <2>4
<1> HIDE DEF Handles, Queued
<1> QED  BY <1>2, <1>3 DEF OnceInv

LEMMA OnceSend ==
  ASSUME Inv, OnceInv, NEW r \in Requests, SendRequest(r)
  PROVE  OnceInv'
<1>1. PICK s \in Slots : s = number[r]
  BY DEF Inv, TypeOK
<1>2. PICK q \in Seq(Requests) : q = mq[s]
  BY <1>1 DEF Inv, TypeOK
<1>3. /\ \A t \in Slots : mq'[t] = IF t = s THEN Append(q, r) ELSE mq[t]
      /\ call[r] = "send"
      /\ \A x \in Requests : call'[x] = IF x = r THEN "semaphore" ELSE call[x]
      /\ work' = work
  BY <1>1, <1>2 DEF SendRequest, Moves, Inv, TypeOK
<1>4. /\ Len(Append(q, r)) = Len(q) + 1 /\ Len(q) \in Nat
      /\ Append(q, r)[Len(q) + 1] = r
      /\ \A i \in 1 .. Len(q) : Append(q, r)[i] = q[i]
      /\ \A i \in 1 .. Len(q) + 1 : i \in 1 .. Len(q) \/ i = Len(q) + 1
  BY AppendProperties, LenProperties
<1>5. /\ ~Queued(r) /\ \A p \in Procs : ~Handles(p, r)
      /\ \A t \in Slots : \A i \in 1 .. Len(mq[t]) : mq[t][i] # r
  BY <1>3 DEF OnceInv, Unsent, Queued
<1>6. \A t \in Slots : \A i \in 1 .. Len(mq'[t]) :
        \/ i \in 1 .. Len(mq[t]) /\ mq'[t][i] = mq[t][i]
        \/ t = s /\ i = Len(q) + 1 /\ mq'[t][i] = r
  BY <1>2, <1>3, <1>4
<1>7. ASSUME NEW t \in Slots, NEW u \in Slots,
             NEW i \in 1 .. Len(mq'[t]), NEW j \in 1 .. Len(mq'[u]),
             mq'[t][i] = mq'[u][j]
      PROVE  t = u /\ i = j
  <2>1. CASE mq'[t][i] = r
    <3>1. t = s /\ i = Len(q) + 1
      BY <1>5, <1>6, <2>1
    <3>2. u = s /\ j = Len(q) + 1
      BY <1>5, <1>6, <1>7, <2>1
    <3> QED  BY <3>1, <3>2
  <2>2. CASE mq'[t][i] # r
    <3>1. i \in 1 .. Len(mq[t]) /\ mq[t][i] = mq'[t][i]
      BY <1>6, <2>2
    <3>2. j \in 1 .. Len(mq[u]) /\ mq[u][j] = mq'[u][j]
      BY <1>6, <1>7, <2>2
    <3> QED  BY <1>7, <3>1, <3>2 DEF OnceInv
  <2> QED  BY <2>1, <2>2
<1>8. \A x \in Requests : Queued(x)' => Queued(x) \/ x = r
  BY <1>6 DEF Queued
<1>9. \A p \in Procs, x \in Requests : Handles(p, x)' <=> Handles(p, x)
  BY <1>3 DEF Handles
<1> HIDE DEF Handles, Queued
<1> QED  BY <1>3, <1>5, <1>7, <1>8, <1>9 DEF OnceInv, Unsent

LEMMA OnceReceive ==
  ASSUME Inv, OnceInv, NEW p \in Procs, ReceiveRequest(p)
  PROVE  OnceInv'
<1>1. PICK s \in Slots : s = Slot(p)
  BY SlotOfProcess DEF Inv, ProcInv, TreeInv, ReceiveRequest, At
<1>2. PICK q \in Seq(Requests) : q = mq[s]
  BY <1>1 DEF Inv, TypeOK
<1>3. /\ q # <<>> /\ call' = call
      /\ \A t \in Slots : mq'[t] = IF t = s THEN Tail(q) ELSE mq[t]
      /\ \A x \in Procs : x # p => work'[x] = work[x]
      /\ work'[p].step = "read" /\ work'[p].req = Head(q)
      /\ work[p].step = "receive"
  BY <1>1, <1>2 DEF ReceiveRequest, At, Inv, TypeOK, callVars
<1>4. /\ Head(q) \in Requests /\ Head(q) = q[1] /\ 1 \in 1 .. Len(q)
      /\ \A i \in 1 .. Len(Tail(q)) :
           i + 1 \in 1 .. Len(q) /\ i + 1 # 1 /\ Tail(q)[i] = q[i + 1]
      /\ \A i, j \in 1 .. Len(Tail(q)) : i + 1 = j + 1 => i = j
  BY <1>3, HeadTailProperties, LenProperties
<1>5. \A t \in Slots : \A i \in 1 .. Len(mq'[t]) :
        IF t = s THEN i + 1 \in 1 .. Len(mq[t]) /\ mq'[t][i] = mq[t][i + 1]
                 ELSE i \in 1 .. Len(mq[t]) /\ mq'[t][i] = mq[t][i]
  BY <1>2, <1>3, <1>4
<1>6. Queued(Head(q)) /\ \A t \in Slots : \A i \in 1 .. Len(mq'[t]) : mq'[t][i] # Head(q)
  <2>1. Queued(Head(q))
    BY <1>2, <1>4 DEF Queued
  <2>2. ASSUME NEW t \in Slots, NEW i \in 1 .. Len(mq'[t]), mq'[t][i] = Head(q)
        PROVE  FALSE
    <3>1. CASE t = s
      BY <1>2, <1>3, <1>4, <1>5, <2>2, <3>1 DEF OnceInv
    <3>2. CASE t # s
      BY <1>2, <1>4, <1>5, <2>2, <3>2 DEF OnceInv
    <3> QED  BY <3>1, <3>2
  <2> QED  BY <2>1, <2>2
<1>7. ASSUME NEW t \in Slots, NEW u \in Slots,
             NEW i \in 1 .. Len(mq'[t]), NEW j \in 1 .. Len(mq'[u]),
             mq'[t][i] = mq'[u][j]
      PROVE  t = u /\ i = j
  <2>1. t = u
    <3>1. PICK a \in 1 .. Len(mq[t]) : mq'[t][i] = mq[t][a]
      BY <1>5
    <3>2. PICK b \in 1 .. Len(mq[u]) : mq'[u][j] = mq[u][b]
      BY <1>5
    <3> QED  BY <1>7, <3>1, <3>2 DEF OnceInv
  <2>2. CASE t = s
    <3>1. i + 1 = j + 1  BY <1>5, <1>7, <2>1, <2>2 DEF OnceInv
    <3> QED  BY <1>3, <1>4, <2>1, <2>2, <3>1
  <2>3. CASE t # s
    BY <1>5, <1>7, <2>1, <2>3 DEF OnceInv
  <2> QED  BY <2>1, <2>2, <2>3
<1>8. \A x \in Requests : Queued(x)' => Queued(x) /\ x # Head(q)
  <2> SUFFICES ASSUME NEW x \in Requests, Queued(x)'
               PROVE  Queued(x) /\ x # Head(q)
    OBVIOUS
  <2>1. PICK t \in Slots : \E i \in 1 .. Len(mq'[t]) : mq'[t][i] = x
    BY DEF Queued
  <2>2. PICK i \in 1 .. Len(mq'[t]) : mq'[t][i] = x
    BY <2>1
  <2>3. \E j \in 1 .. Len(mq[t]) : mq[t][j] = x
    BY <1>5, <2>2
  <2>4. Queued(x)
    BY <2>3 DEF Queued
  <2>5. x # Head(q)
    BY <1>6, <2>2
  <2> QED  BY <2>4, <2>5
<1>9. \A y \in Procs, x \in Requests :
        Handles(y, x)' <=> IF y = p THEN x = Head(q) ELSE Handles(y, x)
  BY <1>3 DEF Handles
<1>10. \A y \in Procs : ~Handles(y, Head(q))
  BY <1>4, <1>6 DEF OnceInv
<1>11. call[Head(q)] \notin Unsent
  BY <1>4, <1>6 DEF OnceInv
<1> HIDE DEF Handles, Queued
<1> QED  BY <1>3, <1>4, <1>7, <1>8, <1>9, <1>10, <1>11 DEF OnceInv

-----------------------------------------------------------------------------
(* Names *)

\* Names come to stay.
LEMMA NamesStay ==
  ASSUME Inv, [Next]_vars, NEW q \in Requests, Named(q)
  PROVE  Named(q)' /\ smTime'[q] = smTime[q] /\ semTime'[q] = semTime[q]
<1>1. call[q] \notin {"name", "time"}
  BY DEF Inv, PipeInv
<1>2. smTime'[q] = smTime[q] /\ semTime'[q] = semTime[q]
  <2>1. ASSUME NEW r \in Requests, NameSegment(r) \/ NameSemaphore(r)
        PROVE  smTime'[q] = smTime[q] /\ semTime'[q] = semTime[q]
    BY <1>1, <2>1 DEF NameSegment, NameSemaphore, Moves, Inv, TypeOK
  <2>2. CASE \A r \in Requests : ~NameSegment(r) /\ ~NameSemaphore(r)
    BY <2>2
       DEF Next, Step, Follow, FollowWith, CallStep, ReadNumber, AdvanceNumber,
           interprocess_shared_memory_send, ShareFails, OpenQueue, SendRequest,
           OpenSemaphore, WaitSemaphore, ReadVerdict, ReadFails, Cleanup,
           DetectorStep, ReceiveRequest, ReadMessage, unlink_shared_memory,
           Dies, UnpackFails, DecodeFails, NoSegment, ClassifyFails, Raises,
           WriteVerdict, CreateSemaphore, Release, callVars, pipeVars, vars
  <2> QED  BY <2>1, <2>2
<1> QED  BY <1>2 DEF Named

\* The name of the segment alone stays too, from when it is there.
LEMMA SegmentStays ==
  ASSUME Inv, [Next]_vars, NEW q \in Requests, smTime[q] # -1
  PROVE  smTime'[q] = smTime[q]
<1>1. call[q] # "name"
  BY DEF Inv, PipeInv
<1>2. ASSUME NEW r \in Requests, NameSegment(r)
      PROVE  smTime'[q] = smTime[q]
  BY <1>1, <1>2 DEF NameSegment, Moves, Inv, TypeOK
<1>3. CASE \A r \in Requests : ~NameSegment(r)
  BY <1>3
     DEF Next, Step, Follow, FollowWith, CallStep, ReadNumber, AdvanceNumber,
         NameSemaphore, interprocess_shared_memory_send, ShareFails, OpenQueue,
         SendRequest, OpenSemaphore, WaitSemaphore, ReadVerdict, ReadFails,
         Cleanup, DetectorStep, ReceiveRequest, ReadMessage,
         unlink_shared_memory, Dies, UnpackFails, DecodeFails, NoSegment,
         ClassifyFails, Raises, WriteVerdict, CreateSemaphore, Release,
         callVars, pipeVars, vars
<1> QED  BY <1>2, <1>3

\* A call has its names for itself.
LEMMA LonelyNames ==
  ASSUME NEW r \in Requests, Lonely(r), NEW q \in Requests, q # r
  PROVE  /\ SmName(q) # SmName(r) /\ SmName(q) # SemName(r)
         /\ SemName(q) # SmName(r) /\ SemName(q) # SemName(r)
<1>1. PairOf[q] = PairOf[r] =>
        {smTime[q], semTime[q]} \cap {smTime[r], semTime[r]} = {}
  BY DEF Lonely
<1> QED  BY <1>1 DEF SmName, SemName

\* A call that has its names for itself had them so before.
LEMMA LonelyBefore ==
  ASSUME Inv, [Next]_vars, NEW r \in Requests, Named(r), Lonely(r)'
  PROVE  Lonely(r)
<1> SUFFICES ASSUME NEW q \in Requests \ {r}, PairOf[q] = PairOf[r]
             PROVE  {smTime[q], semTime[q]} \cap {smTime[r], semTime[r]} = {}
  BY DEF Lonely
<1>1. smTime'[r] = smTime[r] /\ semTime'[r] = semTime[r]
  BY NamesStay
<1>2. {smTime'[q], semTime'[q]} \cap {smTime'[r], semTime'[r]} = {}
  BY DEF Lonely
<1>3. CASE Named(q)
  BY <1>1, <1>2, <1>3, NamesStay
<1>4. CASE ~Named(q)
  <2>1. smTime[q] # -1 => smTime[q] \notin {smTime[r], semTime[r]}
    BY <1>1, <1>2, SegmentStays
  <2>2. smTime[r] # -1 /\ semTime[r] # -1 /\ semTime[q] = -1
    BY <1>4 DEF Inv, PipeInv, Named
  <2> QED  BY <2>1, <2>2
<1> QED  BY <1>3, <1>4

\* Steps that put nothing under a name that is not a call's.
LEMMA OwnerKept ==
  ASSUME Inv, OwnerInv, [Next]_vars,
         \A n \in Names : shm'[n] # Nothing =>
           \/ shm[n] # Nothing
           \/ \E q \in Requests : Named(q) /\ SmName(q) = n,
         \A n \in Names : semaphores'[n] # Nothing =>
           \/ semaphores[n] # Nothing
           \/ \E q \in Requests : Named(q) /\ SemName(q) = n
  PROVE  OwnerInv'
<1>1. \A q \in Requests : Named(q) =>
        Named(q)' /\ SmName(q)' = SmName(q) /\ SemName(q)' = SemName(q)
  BY NamesStay DEF SmName, SemName
<1> HIDE DEF Named, SmName, SemName
<1> QED  BY <1>1 DEF OwnerInv

-----------------------------------------------------------------------------
(* Turns *)

LEMMA Distinct ==
  ASSUME NEW r \in Requests
  PROVE  /\ Message(r) # Nothing /\ Empty # Nothing
         /\ \A text \in Verdicts(r) : text # Nothing /\ text \notin Written(r)
         /\ \A text \in Written(r) : text # Nothing => Judge(text) \in Verdicts(r)
         /\ r \notin shared => Nothing \in Written(r) /\ Empty \in Written(r)
<1>1. /\ Message(r) \in Texts /\ Verdict(r) \in Texts
      /\ Empty \in Texts /\ Verdict(Nothing) \in Texts
  BY DEF Texts, Sent
<1>2. /\ Message(r) # Nothing /\ Verdict(r) # Nothing
      /\ Empty # Nothing /\ Verdict(Nothing) # Nothing
  BY <1>1, NothingAssumption
<1>3. Judge(Message(r)) = Verdict(r) /\ Judge(Empty) = Verdict(Nothing)
  BY DEF Judge, Message, Empty, Verdict
<1>4. /\ Verdict(r) # Message(r) /\ Verdict(Nothing) # Message(r)
      /\ Verdict(Nothing) # Empty
  BY DEF Message, Empty, Verdict
<1> HIDE DEF Message, Empty, Verdict, Judge
<1>5. CASE r \in shared
  BY <1>2, <1>3, <1>4, <1>5 DEF Written, Verdicts
<1>6. CASE r \notin shared
  <2>1. Verdicts(r) = {Verdict(Nothing)}
    BY <1>2, <1>3, <1>6 DEF Written, Verdicts
  <2> QED  BY <1>2, <1>3, <1>4, <1>6, <2>1 DEF Written
<1> QED  BY <1>5, <1>6

\* Steps that leave a call and what is under its names alone, or lose it.
LEMMA TurnKept ==
  ASSUME NEW r \in Requests, Turn(r),
         smTime'[r] = smTime[r], semTime'[r] = semTime[r],
         shm'[SmName(r)] = shm[SmName(r)],
         semaphores'[SemName(r)] # Nothing => semaphores[SemName(r)] # Nothing,
         r \in shared' <=> r \in shared,
         spam'[r] = spam[r],
         call'[r] \in {call[r], "returned", "gone"},
         Queued(r)' => Queued(r),
         \A p \in Procs : Handles(p, r)' =>
           /\ Handles(p, r)
           /\ work'[p] = work[p] \/ (work[p].step = "semaphore"
                                     /\ work'[p].step = "release")
  PROVE  Turn(r)'
<1>1. SmName(r)' = SmName(r) /\ SemName(r)' = SemName(r)
  BY DEF SmName, SemName
<1>6. Written(r)' = Written(r) /\ Verdicts(r)' = Verdicts(r)
  BY DEF Written, Verdicts
<1>2. (Asked(r)' <=> Asked(r)) /\ (Answered(r)' <=> Answered(r))
  BY <1>1, <1>6 DEF Asked, Answered
<1>3. shm'[SmName(r)'] = shm[SmName(r)]
  BY <1>1
<1>4. semaphores'[SemName(r)'] # Nothing => semaphores[SemName(r)] # Nothing
  BY <1>1
<1>5. ASSUME NEW p \in Procs, Handles(p, r)'
      PROVE  /\ work'[p].step = "read" => Asked(r)
             /\ work'[p].step = "unlink" =>
                  Judged(p, r)' /\ shm[SmName(r)] = work'[p].text
             /\ work'[p].step = "write" =>
                  Judged(p, r)' /\ shm[SmName(r)] = Nothing
             /\ work'[p].step \in {"semaphore", "release"} => Answered(r)
  <2>1. Handles(p, r)
        /\ (work'[p] = work[p] \/ (work[p].step = "semaphore"
                                   /\ work'[p].step = "release"))
    BY <1>5
  <2>2. work'[p] = work[p] => (Judged(p, r)' <=> Judged(p, r))
    BY <1>6 DEF Judged
  <2> HIDE DEF Handles, Asked, Answered, Judged, SmName
  <2> QED  BY <2>1, <2>2 DEF Turn
<1>7. call'[r] \in {"share", "open", "send", "wait", "read"} => call'[r] = call[r]
  OBVIOUS
<1> HIDE DEF Handles, Asked, Answered, Judged, SmName, SemName, Queued, Written,
             Verdicts
<1> QED
  BY <1>1, <1>2, <1>3, <1>4, <1>5, <1>6, <1>7 DEF Turn

\* What follows when processes start or end takes requests away.
LEMMA TurnFollow ==
  ASSUME TypeOK, NEW r \in Requests, Turn(r), Turnover
  PROVE  Turn(r)'
<1>1. /\ call'[r] \in {call[r], "gone"}
      /\ \A s \in Slots : NothingNew(s)
      /\ \A p \in Procs : work'[p] = work[p] \/ work'[p].step = "receive"
      /\ UNCHANGED <<smTime, semTime, spam, shared, shm, semaphores>>
  BY Follows DEF Idle
<1>2. Queued(r)' => Queued(r)
  BY <1>1, Shifted DEF Queued
<1>3. \A p \in Procs : Handles(p, r)' => Handles(p, r) /\ work'[p] = work[p]
  BY <1>1 DEF Handles
<1> QED  BY <1>1, <1>2, <1>3, TurnKept

\* A call that is named now finds nothing under its names.
LEMMA TurnNamed ==
  ASSUME VerdictInv, NEW r \in Requests, NameSemaphore(r), [Next]_vars,
         Lonely(r)', Inv'
  PROVE  Turn(r)'
<1> USE DEF VerdictInv
<1>1. /\ call[r] = "time" /\ call'[r] = "share" /\ ~Named(r) /\ spam[r] = Nothing
      /\ r \notin shared /\ Named(r)'
      /\ UNCHANGED <<spam, shared, mq, shm, semaphores, work>>
  BY DEF NameSemaphore, Moves, Inv, TypeOK, PipeInv, ipcVars
<1>2. ~Queued(r) /\ \A p \in Procs : ~Handles(p, r)
  BY <1>1 DEF OnceInv, Unsent
<1>3. PICK n \in Names, m \in Names : n = SmName(r)' /\ m = SemName(r)'
  <2>1. smTime'[r] \in 0 .. MaxTime /\ semTime'[r] \in 0 .. MaxTime
    BY <1>1, PipelineAssumption DEF Inv, TypeOK, PipeInv, Named
  <2> QED  BY <2>1 DEF SmName, SemName, Names
<1>4. ASSUME NEW q \in Requests, Named(q)
      PROVE  SmName(q) # n /\ SemName(q) # m
  <2>1. q # r /\ smTime'[q] = smTime[q] /\ semTime'[q] = semTime[q]
    BY <1>1, <1>4, NamesStay
  <2>2. PairOf[q] = PairOf[r] =>
          {smTime'[q], semTime'[q]} \cap {smTime'[r], semTime'[r]} = {}
    BY <2>1 DEF Lonely
  <2> QED  BY <1>3, <2>1, <2>2 DEF SmName, SemName
<1>5. shm[n] = Nothing /\ semaphores[m] = Nothing
  BY <1>4 DEF OwnerInv
<1>6. Asked(r)'
  <2>1. Written(r)' = Written(r) /\ Nothing \in Written(r)
    BY <1>1, Distinct DEF Written
  <2> QED  BY <1>1, <1>3, <1>5, <2>1 DEF Asked
<1>7. ~Queued(r)' /\ \A p \in Procs : ~Handles(p, r)'
  BY <1>1, <1>2 DEF Queued, Handles
<1>8. semaphores'[SemName(r)'] = Nothing
  BY <1>1, <1>3, <1>5
<1> HIDE DEF Handles, Asked, Queued, SemName
<1> QED  BY <1>1, <1>6, <1>7, <1>8 DEF Turn

\* The steps of another call.
LEMMA TurnOtherCall ==
  ASSUME Inv, NEW r \in Requests, Named(r), Lonely(r), Turn(r), [Next]_vars,
         NEW x \in Requests, x # r, CallStep(x)
  PROVE  Turn(r)'
<1>1. smTime'[r] = smTime[r] /\ semTime'[r] = semTime[r]
  BY NamesStay
<1>2. /\ SmName(x) # SmName(r) /\ SmName(x) # SemName(r)
      /\ SmName(r) \in Names /\ SemName(r) \in Names
  BY LonelyNames, NamesInUse DEF Inv
<1>3. /\ call'[r] = call[r] /\ work' = work
      /\ r \in shared' <=> r \in shared
      /\ spam'[r] = spam[r]
  BY DEF CallStep, ReadNumber, AdvanceNumber, NameSegment, NameSemaphore,
         interprocess_shared_memory_send, ShareFails, OpenQueue, SendRequest,
         OpenSemaphore, WaitSemaphore, ReadVerdict, ReadFails, Cleanup, Moves,
         Inv, TypeOK
<1>4. \A p \in Procs : Handles(p, r)' => Handles(p, r) /\ work'[p] = work[p]
  BY <1>3 DEF Handles
<1>5. shm'[SmName(r)] = shm[SmName(r)]
  <2>1. CASE interprocess_shared_memory_send(x) \/ ShareFails(x)
    BY <1>2, <2>1 DEF interprocess_shared_memory_send, ShareFails, Inv, TypeOK
  <2>2. CASE ~interprocess_shared_memory_send(x) /\ ~ShareFails(x)
    BY <2>2
       DEF CallStep, ReadNumber, AdvanceNumber, NameSegment, NameSemaphore,
           OpenQueue, SendRequest, OpenSemaphore, WaitSemaphore,
           ReadVerdict, ReadFails, Cleanup, ipcVars
  <2> QED  BY <2>1, <2>2
<1>6. semaphores'[SemName(r)] = semaphores[SemName(r)]
  <2>1. CASE Cleanup(x)
    BY <1>2, <2>1 DEF Cleanup, Inv, TypeOK
  <2>2. CASE ~Cleanup(x)
    BY <2>2
       DEF CallStep, ReadNumber, AdvanceNumber, NameSegment, NameSemaphore,
           interprocess_shared_memory_send, ShareFails, OpenQueue, SendRequest,
           OpenSemaphore, WaitSemaphore, ReadVerdict, ReadFails, ipcVars
  <2> QED  BY <2>1, <2>2
<1>7. Queued(r)' => Queued(r)
  <2>1. CASE SendRequest(x)
    <3>1. PICK s \in Slots, q \in Seq(Requests) : s = number[x] /\ q = mq[s]
      BY DEF Inv, TypeOK
    <3>2. \A t \in Slots : mq'[t] = IF t = s THEN Append(q, x) ELSE mq[t]
      BY <2>1, <3>1 DEF SendRequest, Inv, TypeOK
    <3>3. \A i \in 1 .. Len(Append(q, x)) :
            \/ i \in 1 .. Len(q) /\ Append(q, x)[i] = q[i]
            \/ Append(q, x)[i] = x
      BY AppendProperties, LenProperties
    <3>4. ASSUME NEW t \in Slots, NEW i \in 1 .. Len(mq'[t]), mq'[t][i] = r
          PROVE  i \in 1 .. Len(mq[t]) /\ mq[t][i] = r
      BY <3>1, <3>2, <3>3, <3>4
    <3> QED  BY <3>4 DEF Queued
  <2>2. CASE ~SendRequest(x)
    <3>1. mq' = mq
      BY <2>2
         DEF CallStep, ReadNumber, AdvanceNumber, NameSegment, NameSemaphore,
             interprocess_shared_memory_send, ShareFails, OpenQueue,
             OpenSemaphore, WaitSemaphore, ReadVerdict, ReadFails, Cleanup,
             ipcVars
    <3> QED  BY <3>1 DEF Queued
  <2> QED  BY <2>1, <2>2
<1> QED  BY <1>1, <1>3, <1>4, <1>5, <1>6, <1>7, TurnKept

\* The steps of the call itself.
LEMMA TurnOwnCall ==
  ASSUME VerdictInv, NEW r \in Requests, Named(r), Lonely(r), CallStep(r),
         [Next]_vars
  PROVE  Turn(r)'
<1> USE DEF VerdictInv
<1>1. /\ smTime'[r] = smTime[r] /\ semTime'[r] = semTime[r]
      /\ SmName(r)' = SmName(r) /\ SemName(r)' = SemName(r)
      /\ SmName(r) \in Names /\ SemName(r) \in Names
      /\ Turn(r)
  BY NamesStay, NamesInUse DEF SmName, SemName, Inv, TurnInv
<1>2. call[r] \notin {"never", "start", "advance", "name", "time"}
  BY DEF Inv, PipeInv
<1>3. call[r] \in {"share", "open", "send"} =>
        /\ Asked(r) /\ ~Queued(r) /\ \A p \in Procs : ~Handles(p, r)
        /\ semaphores[SemName(r)] = Nothing
  <2> SUFFICES ASSUME call[r] \in {"share", "open", "send"}
               PROVE  /\ Asked(r) /\ ~Queued(r) /\ \A p \in Procs : ~Handles(p, r)
                      /\ semaphores[SemName(r)] = Nothing
    OBVIOUS
  <2>1. Asked(r)  BY <1>1 DEF Turn
  <2>2. ~Answered(r)  BY <2>1, Distinct DEF Asked, Answered
  <2> QED  BY <1>1, <2>1, <2>2 DEF Turn, OnceInv, Unsent
<1>4. \A p \in Procs : Handles(p, r)' <=> Handles(p, r) /\ work'[p] = work[p]
  <2>1. work' = work
    BY DEF CallStep, ReadNumber, AdvanceNumber, NameSegment, NameSemaphore,
           interprocess_shared_memory_send, ShareFails, OpenQueue, SendRequest,
           OpenSemaphore, WaitSemaphore, ReadVerdict, ReadFails, Cleanup
  <2> QED  BY <2>1 DEF Handles
<1> USE <1>1 DEF Moves
<1>5. ASSUME interprocess_shared_memory_send(r) PROVE Turn(r)'
  <2>1. /\ call[r] = "share" /\ call'[r] = "open" /\ r \in shared'
        /\ shm'[SmName(r)] = Message(r)
        /\ UNCHANGED <<spam, mq, semaphores>> /\ spam[r] = Nothing
    BY <1>5 DEF interprocess_shared_memory_send, Inv, TypeOK, PipeInv
  <2>2. Asked(r)' /\ ~Queued(r)'
    BY <1>3, <2>1 DEF Asked, Queued, Written
  <2> HIDE DEF Asked, Answered, Queued, Handles, SmName, SemName
  <2> QED  BY <1>3, <1>4, <2>1, <2>2 DEF Turn
<1>11. ASSUME ShareFails(r) PROVE Turn(r)'
  <2>1. /\ call[r] = "share" /\ call'[r] = "open"
        /\ \/ shm'[SmName(r)] = shm[SmName(r)]
           \/ shm[SmName(r)] = Nothing /\ shm'[SmName(r)] = Empty
        /\ UNCHANGED <<shared, spam, mq, semaphores>>
    BY <1>11 DEF ShareFails, Inv, TypeOK
  <2>2. Written(r)' = Written(r) /\ Verdicts(r)' = Verdicts(r)
    BY <2>1 DEF Written, Verdicts
  <2>3. shm[SmName(r)] = Nothing => Empty \in Written(r)
    BY <1>3, <2>1, Distinct DEF Asked, Written
  <2>4. Asked(r)' /\ ~Queued(r)'
    BY <1>3, <2>1, <2>2, <2>3 DEF Asked, Queued
  <2> HIDE DEF Asked, Answered, Queued, Handles, SmName, SemName, Verdicts
  <2> QED  BY <1>3, <1>4, <2>1, <2>2, <2>4 DEF Turn
<1>6. ASSUME OpenQueue(r) PROVE Turn(r)'
  <2>1. /\ call[r] = "open"
        /\ call'[r] \in {"send", "semaphore"}
        /\ UNCHANGED <<shared, shm, spam, mq, semaphores>>
    BY <1>6 DEF OpenQueue, ipcVars, Inv, TypeOK
  <2>3. Written(r)' = Written(r) /\ Verdicts(r)' = Verdicts(r)
    BY <2>1 DEF Written, Verdicts
  <2>2. Asked(r)' /\ ~Queued(r)'
    BY <1>3, <2>1, <2>3 DEF Asked, Queued
  <2> HIDE DEF Asked, Answered, Queued, Handles, SmName, SemName, Verdicts
  <2> QED  BY <1>3, <1>4, <2>1, <2>2, <2>3 DEF Turn
<1>7. ASSUME SendRequest(r) PROVE Turn(r)'
  <2>1. /\ call[r] = "send" /\ call'[r] = "semaphore"
        /\ UNCHANGED <<shared, shm, spam, semaphores>>
    BY <1>7 DEF SendRequest, Inv, TypeOK
  <2>2. Written(r)' = Written(r) /\ Verdicts(r)' = Verdicts(r)
    BY <2>1 DEF Written, Verdicts
  <2>3. Asked(r)'
    BY <1>3, <2>1, <2>2 DEF Asked
  <2> HIDE DEF Asked, Answered, Queued, Handles, SmName, SemName, Verdicts
  <2> QED  BY <1>3, <1>4, <2>1, <2>2, <2>3 DEF Turn
<1>8. ASSUME OpenSemaphore(r) \/ WaitSemaphore(r) PROVE Turn(r)'
  <2>1. /\ call[r] \in {"semaphore", "wait"}
        /\ call'[r] \in {"returned", "wait", "read"}
        /\ call'[r] \in {"wait", "read"} =>
             call[r] = "wait" \/ semaphores[SemName(r)] # Nothing
        /\ UNCHANGED <<shared, shm, spam, mq, semaphores>>
    BY <1>8 DEF OpenSemaphore, WaitSemaphore, ipcVars, Inv, TypeOK
  <2>2. Written(r)' = Written(r) /\ Verdicts(r)' = Verdicts(r)
    BY <2>1 DEF Written, Verdicts
  <2>3. /\ Asked(r)' <=> Asked(r)
        /\ Answered(r)' <=> Answered(r)
        /\ Queued(r)' <=> Queued(r)
        /\ \A p \in Procs : Handles(p, r)' => (Judged(p, r)' <=> Judged(p, r))
    BY <1>4, <2>1, <2>2 DEF Asked, Answered, Queued, Judged
  <2> HIDE DEF Asked, Answered, Queued, Handles, Judged, SmName, SemName,
               Written, Verdicts
  <2> QED  BY <1>4, <2>1, <2>2, <2>3 DEF Turn
<1>9. ASSUME ReadVerdict(r) PROVE Turn(r)'
  <2>1. /\ call[r] = "read" /\ call'[r] \in {"returned", "cleanup"}
        /\ spam'[r] = shm[SmName(r)]
        /\ UNCHANGED <<shared, shm, mq, semaphores>>
    BY <1>9 DEF ReadVerdict, ipcVars, Inv, TypeOK
  <2>2. Written(r)' = Written(r) /\ Verdicts(r)' = Verdicts(r)
    BY <2>1 DEF Written, Verdicts
  <2>3. spam'[r] \in Verdicts(r)
    BY <2>1 DEF Turn, Answered
  <2>4. /\ Asked(r)' <=> Asked(r)
        /\ Answered(r)' <=> Answered(r)
        /\ Queued(r)' <=> Queued(r)
        /\ \A p \in Procs : Handles(p, r)' => (Judged(p, r)' <=> Judged(p, r))
    BY <1>4, <2>1, <2>2 DEF Asked, Answered, Queued, Judged
  <2> HIDE DEF Asked, Answered, Queued, Handles, Judged, SmName, SemName,
               Written, Verdicts
  <2> QED  BY <1>4, <2>1, <2>2, <2>3, <2>4 DEF Turn
<1>10. ASSUME Cleanup(r) \/ ReadFails(r) PROVE Turn(r)'
  <2>1. /\ call'[r] = "returned"
        /\ semaphores'[SemName(r)] \in {semaphores[SemName(r)], Nothing}
        /\ UNCHANGED <<shared, shm, spam, mq>>
    BY <1>10 DEF Cleanup, ReadFails, ipcVars, Inv, TypeOK
  <2>2. Queued(r)' <=> Queued(r)
    BY <2>1 DEF Queued
  <2> HIDE DEF Queued, Handles, SmName, SemName
  <2> QED  BY <1>4, <2>1, <2>2, TurnKept
<1> QED
  BY <1>2, <1>5, <1>6, <1>7, <1>8, <1>9, <1>10, <1>11
     DEF CallStep, ReadNumber, AdvanceNumber, NameSegment, NameSemaphore

\* The steps of a detector that neither handles the call nor takes it up.
LEMMA TurnOtherDetector ==
  ASSUME Inv, NEW r \in Requests, Named(r), Lonely(r), Turn(r), [Next]_vars,
         NEW p \in Procs, DetectorStep(p), ~Handles(p, r), ~Handles(p, r)'
  PROVE  Turn(r)'
<1>1. CASE Dies(p)
  BY <1>1, TurnFollow DEF Turnover, Inv
<1>2. CASE ~Dies(p)
  <2>1. /\ UNCHANGED <<call, spam, shared>>
        /\ \A x \in Procs : x # p => work'[x] = work[x]
    BY <1>2 DEF DetectorStep, ReceiveRequest, ReadMessage, unlink_shared_memory,
                WriteVerdict, CreateSemaphore, Release, Then, callVars, Inv, TypeOK
  <2>2. \A x \in Procs : Handles(x, r)' => Handles(x, r) /\ work'[x] = work[x]
    BY <2>1 DEF Handles
  <2>3. smTime'[r] = smTime[r] /\ semTime'[r] = semTime[r]
    BY NamesStay
  <2>4. /\ work[p].step # "receive" => work[p].req \in Requests \ {r}
        /\ SmName(r) \in Names /\ SemName(r) \in Names
    BY NamesInUse DEF Handles, Inv, PipeInv
  <2>5. shm'[SmName(r)] = shm[SmName(r)]
    <3>1. CASE unlink_shared_memory(p) \/ WriteVerdict(p)
      <4>1. SmName(work[p].req) # SmName(r)
        BY <2>4, <3>1, LonelyNames DEF unlink_shared_memory, WriteVerdict, At
      <4> QED
        BY <2>4, <3>1, <4>1
           DEF unlink_shared_memory, WriteVerdict, Request, Inv, TypeOK
    <3>2. CASE ~unlink_shared_memory(p) /\ ~WriteVerdict(p)
      BY <1>2, <3>2 DEF DetectorStep, ReceiveRequest, ReadMessage, ipcVars,
                        CreateSemaphore, Release
    <3> QED  BY <3>1, <3>2
  <2>6. semaphores'[SemName(r)] = semaphores[SemName(r)]
    <3>1. CASE CreateSemaphore(p)
      <4>1. SemName(work[p].req) # SemName(r)
        BY <2>4, <3>1, LonelyNames DEF CreateSemaphore, At
      <4> QED
        BY <2>4, <3>1, <4>1 DEF CreateSemaphore, Request, Inv, TypeOK
    <3>2. CASE ~CreateSemaphore(p)
      BY <1>2, <3>2 DEF DetectorStep, ReceiveRequest, ReadMessage, ipcVars,
                        unlink_shared_memory, WriteVerdict, Release
    <3> QED  BY <3>1, <3>2
  <2>7. Queued(r)' => Queued(r)
    <3>1. CASE ReceiveRequest(p)
      <4>1. Slot(p) \in Slots
        BY <3>1, SlotOfProcess DEF Inv, ProcInv, TreeInv, ReceiveRequest, At
      <4>2. PICK q \in Seq(Requests) : q = mq[Slot(p)]
        BY <4>1 DEF Inv, TypeOK
      <4>3. q # <<>> /\ \A t \in Slots : mq'[t] = IF t = Slot(p) THEN Tail(q)
                                                            ELSE mq[t]
        BY <3>1, <4>2 DEF ReceiveRequest, Inv, TypeOK
      <4>4. \A i \in 1 .. Len(Tail(q)) : i + 1 \in 1 .. Len(q) /\ Tail(q)[i] = q[i + 1]
        BY <4>3, HeadTailProperties, LenProperties
      <4>5. ASSUME NEW t \in Slots, NEW i \in 1 .. Len(mq'[t]), mq'[t][i] = r
            PROVE  \E j \in 1 .. Len(mq[t]) : mq[t][j] = r
        BY <4>2, <4>3, <4>4, <4>5
      <4> QED  BY <4>5 DEF Queued
    <3>2. CASE ~ReceiveRequest(p)
      <4>1. mq' = mq
        BY <1>2, <3>2 DEF DetectorStep, ReadMessage, unlink_shared_memory,
                          WriteVerdict, CreateSemaphore, Release, ipcVars
      <4> QED  BY <4>1 DEF Queued
    <3> QED  BY <3>1, <3>2
  <2> QED  BY <2>1, <2>2, <2>3, <2>5, <2>6, <2>7, TurnKept
<1> QED  BY <1>1, <1>2

\* The step of the detector that takes the call up.
LEMMA TurnReceive ==
  ASSUME VerdictInv, NEW r \in Requests, Named(r), Lonely(r), [Next]_vars,
         NEW p \in Procs, ReceiveRequest(p), Handles(p, r)'
  PROVE  Turn(r)'
<1> USE DEF VerdictInv
<1>1. /\ Slot(p) \in Slots /\ work[p].step = "receive"
  BY SlotOfProcess DEF Inv, ProcInv, TreeInv, ReceiveRequest, At
<1>2. PICK q \in Seq(Requests) : q = mq[Slot(p)]
  BY <1>1 DEF Inv, TypeOK
<1>3. /\ q # <<>> /\ work'[p].step = "read" /\ work'[p].req = Head(q)
      /\ \A x \in Procs : x # p => work'[x] = work[x]
      /\ UNCHANGED <<call, spam, shared, smTime, semTime, shm, semaphores>>
  BY <1>2 DEF ReceiveRequest, callVars, Inv, TypeOK
<1>4. Queued(r)
  <2>1. q[1] = r /\ 1 \in 1 .. Len(q)
    BY <1>3, LenProperties DEF Handles
  <2> QED  BY <1>1, <1>2, <2>1 DEF Queued
<1>5. Turn(r) /\ call[r] \notin Unsent /\ \A x \in Procs : ~Handles(x, r)
  BY <1>4 DEF TurnInv, OnceInv
<1>6. Asked(r) /\ ~Answered(r)
  BY <1>4, <1>5, Distinct DEF Turn, Asked, Answered
<1>9. Written(r)' = Written(r) /\ Verdicts(r)' = Verdicts(r)
  BY <1>3 DEF Written, Verdicts
<1>7. /\ Asked(r)' /\ SmName(r)' = SmName(r) /\ SemName(r)' = SemName(r)
  BY <1>3, <1>6, <1>9 DEF Asked, SmName, SemName
<1>8. \A x \in Procs : Handles(x, r)' => work'[x].step = "read"
  BY <1>3, <1>5 DEF Handles
<1> HIDE DEF Handles, Asked, Answered, Judged, Queued, SmName, SemName,
             Written, Verdicts
<1> QED  BY <1>3, <1>5, <1>6, <1>7, <1>8, <1>9 DEF Turn, Unsent

\* The steps of the detector that handles the call.
LEMMA TurnOwnDetector ==
  ASSUME VerdictInv, NEW r \in Requests, Named(r), Lonely(r), [Next]_vars,
         NEW p \in Procs, DetectorStep(p), Handles(p, r)
  PROVE  Turn(r)'
<1> USE DEF VerdictInv
<1>1. /\ Turn(r) /\ ~Queued(r) /\ call[r] \notin Unsent
      /\ \A x \in Procs : Handles(x, r) => x = p
  BY DEF TurnInv, OnceInv
<1>2. /\ work[p].step # "receive" /\ work[p].req = r
      /\ SmName(r) \in Names /\ SemName(r) \in Names
      /\ smTime'[r] = smTime[r] /\ semTime'[r] = semTime[r]
      /\ SmName(r)' = SmName(r) /\ SemName(r)' = SemName(r)
  BY NamesStay, NamesInUse DEF Handles, Inv, SmName, SemName
<1>3. CASE Dies(p)
  BY <1>1, <1>3, TurnFollow DEF Turnover, Inv
<1>4. CASE ~Dies(p)
  <2> USE <1>2 DEF At, Then, Request, Segment
  <2>1. /\ UNCHANGED <<call, spam, shared, mq>>
        /\ \A x \in Procs : x # p => work'[x] = work[x]
    BY <1>4 DEF DetectorStep, ReceiveRequest, ReadMessage, unlink_shared_memory,
                WriteVerdict, CreateSemaphore, Release, callVars, ipcVars, Inv,
                TypeOK
  <2>2. /\ ~Queued(r)'
        /\ \A x \in Procs : Handles(x, r)' => x = p
        /\ Written(r)' = Written(r) /\ Verdicts(r)' = Verdicts(r)
    BY <1>1, <2>1 DEF Queued, Handles, Written, Verdicts
  <2>3. CASE ReadMessage(p)
    <3>1. /\ work[p].step = "read" /\ work'[p].step = "unlink"
          /\ shm[SmName(r)] # Nothing /\ work'[p].text = shm[SmName(r)]
          /\ UNCHANGED <<shm, semaphores>>
      BY <2>3 DEF ReadMessage, ipcVars, Inv, TypeOK
    <3>2. Asked(r)
      BY <1>1, <3>1 DEF Turn
    <3>3. ~Answered(r) /\ Judged(p, r)'
      BY <2>2, <3>1, <3>2, Distinct DEF Asked, Answered, Judged
    <3> HIDE DEF Handles, Asked, Answered, Judged, Queued, SmName, SemName,
                 Written, Verdicts
    <3> QED  BY <1>1, <2>1, <2>2, <3>1, <3>3 DEF Turn, Unsent
  <2>4. CASE unlink_shared_memory(p)
    <3>1. /\ work[p].step = "unlink" /\ work'[p].step = "write"
          /\ work'[p].text = work[p].text
          /\ shm'[SmName(r)] = Nothing /\ UNCHANGED semaphores
      BY <2>4 DEF unlink_shared_memory, Inv, TypeOK
    <3>2. Judged(p, r) /\ shm[SmName(r)] = work[p].text
      BY <1>1, <3>1 DEF Turn
    <3>3. ~Answered(r) /\ Judged(p, r)'
      BY <2>2, <3>1, <3>2, Distinct DEF Answered, Judged
    <3> HIDE DEF Handles, Asked, Answered, Judged, Queued, SmName, SemName,
                 Written, Verdicts
    <3> QED  BY <1>1, <2>1, <2>2, <3>1, <3>3 DEF Turn, Unsent
  <2>5. CASE WriteVerdict(p)
    <3>1. work[p].step = "write" /\ work'[p].step = "semaphore"
      BY <2>5 DEF WriteVerdict, Inv, TypeOK
    <3>2. Judged(p, r) /\ shm[SmName(r)] = Nothing
      BY <1>1, <3>1 DEF Turn
    <3>3. Nothing \notin Sent
      BY NothingAssumption DEF Texts
    <3>4. shm'[SmName(r)] = Judge(work[p].text) /\ UNCHANGED semaphores
      BY <2>5, <3>2, <3>3 DEF WriteVerdict, Inv, TypeOK
    <3>6. Judge(work[p].text) \in Verdicts(r)
      BY <3>2, Distinct DEF Judged
    <3>5. Answered(r)'
      BY <2>2, <3>4, <3>6 DEF Answered
    <3> HIDE DEF Handles, Asked, Answered, Judged, Queued, SmName, SemName,
                 Written, Verdicts
    <3> QED  BY <1>1, <2>1, <2>2, <3>1, <3>5 DEF Turn, Unsent
  <2>6. CASE CreateSemaphore(p)
    <3>1. /\ work[p].step = "semaphore" /\ work'[p].step = "release"
          /\ UNCHANGED shm
      BY <2>6 DEF CreateSemaphore, Inv, TypeOK
    <3>2. Answered(r) /\ Answered(r)'
      BY <1>1, <2>2, <3>1 DEF Turn, Answered
    <3>3. Asked(r)' <=> Asked(r)
      BY <2>2, <3>1 DEF Asked
    <3> HIDE DEF Handles, Asked, Answered, Judged, Queued, SmName, SemName,
                 Written, Verdicts
    <3> QED  BY <1>1, <2>1, <2>2, <3>1, <3>2, <3>3 DEF Turn, Unsent
  <2>7. CASE Release(p)
    <3>1. work'[p].step = "receive" /\ UNCHANGED <<shm, semaphores>>
      BY <2>7 DEF Release, Idle, Inv, TypeOK
    <3>2. \A x \in Procs : ~Handles(x, r)'
      BY <2>2, <3>1 DEF Handles
    <3> HIDE DEF Handles, Queued
    <3> QED  BY <1>1, <2>1, <2>2, <3>1, <3>2, TurnKept
  <2> QED
    BY <1>4, <2>3, <2>4, <2>5, <2>6, <2>7 DEF DetectorStep, ReceiveRequest
<1> QED  BY <1>3, <1>4

-----------------------------------------------------------------------------
(* All steps *)

\* A detector gets to a request only where it receives it.
LEMMA SameRequest ==
  ASSUME Inv, NEW p \in Procs,
         \/ ReadMessage(p) \/ unlink_shared_memory(p) \/ WriteVerdict(p)
         \/ CreateSemaphore(p) \/ Release(p)
  PROVE  /\ mq' = mq /\ call' = call
         /\ \A x \in Procs : work'[x].step # "receive" =>
              work[x].step # "receive" /\ work'[x].req = work[x].req
<1>1. mq' = mq /\ call' = call
  BY DEF ReadMessage, unlink_shared_memory, WriteVerdict, CreateSemaphore,
         Release, ipcVars, callVars
<1>2. work \in [Procs -> Work] /\ work[p] \in Work
  BY DEF Inv, TypeOK, Work, Steps
<1>3. CASE Release(p)
  BY <1>1, <1>2, <1>3 DEF Release, Idle
<1>4. CASE ~Release(p)
  <2>1. work[p].step # "receive"
    BY <1>4 DEF ReadMessage, unlink_shared_memory, WriteVerdict,
                CreateSemaphore, At
  <2>2. \A x \in Procs : x # p => work'[x] = work[x]
    BY <1>2, <1>4 DEF ReadMessage, unlink_shared_memory, WriteVerdict,
                      CreateSemaphore, Then
  <2>3. work'[p].req = work[p].req
    <3>1. CASE ReadMessage(p)
      BY <1>2, <3>1 DEF ReadMessage, Work
    <3>2. CASE unlink_shared_memory(p)
      BY <1>2, <3>2 DEF unlink_shared_memory, Then, Work
    <3>3. CASE WriteVerdict(p)
      BY <1>2, <3>3 DEF WriteVerdict, Then, Work
    <3>4. CASE CreateSemaphore(p)
      BY <1>2, <3>4 DEF CreateSemaphore, Work
    <3> QED  BY <1>4, <3>1, <3>2, <3>3, <3>4
  <2> QED  BY <1>1, <2>1, <2>2, <2>3
<1> QED  BY <1>3, <1>4

LEMMA OnceNext == ASSUME VerdictInv, [Next]_vars PROVE OnceInv'
<1> USE DEF VerdictInv
<1> USE DEF Inv
<1>1. ASSUME Turnover PROVE OnceInv'
  <2>1. \A s \in Slots : NothingNew(s)
    BY <1>1, Follows
  <2>2. \A p \in Procs, r \in Requests : Handles(p, r)' => Handles(p, r)
    BY <1>1, Follows DEF Handles, Idle
  <2>3. \A r \in Requests : call'[r] \in Unsent => call[r] \in Unsent
    BY <1>1, Follows DEF Unsent
  <2> QED  BY <2>1, <2>2, <2>3, OnceKept
<1>2. ASSUME NEW r \in Requests, CallStep(r), ~SendRequest(r) PROVE OnceInv'
  <2>1. /\ mq' = mq /\ work' = work
        /\ \A x \in Requests : call'[x] \in Unsent => call[x] \in Unsent
    BY <1>2
       DEF CallStep, ReadNumber, AdvanceNumber, NameSegment, NameSemaphore,
           interprocess_shared_memory_send, ShareFails, OpenQueue,
           OpenSemaphore, WaitSemaphore, ReadVerdict, ReadFails, Cleanup,
           Moves, ipcVars, Inv, TypeOK, Unsent
  <2> QED  BY <2>1, OnceKept DEF Handles, NothingNew
<1>3. ASSUME NEW r \in Requests, SendRequest(r) PROVE OnceInv'
  BY <1>3, OnceSend
<1>4. ASSUME NEW p \in Procs, ReceiveRequest(p) PROVE OnceInv'
  BY <1>4, OnceReceive
<1>5. ASSUME NEW p \in Procs,
             ReadMessage(p) \/ unlink_shared_memory(p) \/ WriteVerdict(p)
               \/ CreateSemaphore(p) \/ Release(p)
      PROVE  OnceInv'
  <2>1. /\ mq' = mq /\ call' = call
        /\ \A x \in Procs : work'[x].step # "receive" =>
             work[x].step # "receive" /\ work'[x].req = work[x].req
    BY <1>5, SameRequest
  <2>2. \A x \in Procs, r \in Requests : Handles(x, r)' => Handles(x, r)
    BY <2>1 DEF Handles
  <2> QED  BY <2>1, <2>2, OnceKept DEF NothingNew
<1>6. CASE UNCHANGED vars
  <2>1. mq' = mq /\ work' = work /\ call' = call
    BY <1>6 DEF vars, pipeVars, callVars, ipcVars
  <2> QED  BY <2>1, OnceKept DEF Handles, NothingNew
<1> QED
  BY <1>1, <1>2, <1>3, <1>4, <1>5, <1>6 DEF Next, Step, DetectorStep, Turnover

LEMMA OwnerNext == ASSUME VerdictInv, [Next]_vars PROVE OwnerInv'
<1> USE DEF VerdictInv
<1>1. ASSUME UNCHANGED <<shm, semaphores>> PROVE OwnerInv'
  BY <1>1, OwnerKept
<1>2. ASSUME NEW r \in Requests,
             interprocess_shared_memory_send(r) \/ ShareFails(r)
      PROVE  OwnerInv'
  <2>1. Named(r)
    BY <1>2 DEF interprocess_shared_memory_send, ShareFails, Moves, Inv, PipeInv
  <2>2. \A n \in Names : n # SmName(r) => shm'[n] = shm[n]
    BY <1>2 DEF interprocess_shared_memory_send, ShareFails, Inv, TypeOK
  <2>3. UNCHANGED semaphores
    BY <1>2 DEF interprocess_shared_memory_send, ShareFails
  <2> HIDE DEF Named, SmName, SemName
  <2> QED  BY <2>1, <2>2, <2>3, OwnerKept
<1>3. ASSUME NEW r \in Requests, Cleanup(r) PROVE OwnerInv'
  <2>1. /\ UNCHANGED shm
        /\ \A n \in Names : semaphores'[n] \in {semaphores[n], Nothing}
    BY <1>3 DEF Cleanup, Inv, TypeOK
  <2> QED  BY <2>1, OwnerKept
<1>4. ASSUME NEW p \in Procs, unlink_shared_memory(p) PROVE OwnerInv'
  <2>1. /\ UNCHANGED semaphores
        /\ \A n \in Names : shm'[n] \in {shm[n], Nothing}
    BY <1>4 DEF unlink_shared_memory, Inv, TypeOK
  <2> QED  BY <2>1, OwnerKept
<1>5. ASSUME NEW p \in Procs, WriteVerdict(p) \/ CreateSemaphore(p)
      PROVE  OwnerInv'
  <2>1. PICK r \in Requests : r = work[p].req /\ Named(r)
    BY <1>5 DEF WriteVerdict, CreateSemaphore, At, Inv, PipeInv
  <2>2. /\ \A n \in Names : n # SmName(r) => shm'[n] = shm[n]
        /\ \A n \in Names : n # SemName(r) => semaphores'[n] = semaphores[n]
    BY <1>5, <2>1 DEF WriteVerdict, CreateSemaphore, Request, Inv, TypeOK
  <2> HIDE DEF Named, SmName, SemName
  <2> QED  BY <2>1, <2>2, OwnerKept
<1>6. CASE \/ UNCHANGED vars
           \/ \E r \in Requests :
                /\ CallStep(r) /\ ~interprocess_shared_memory_send(r)
                /\ ~ShareFails(r) /\ ~Cleanup(r)
           \/ \E p \in Procs : ReceiveRequest(p) \/ ReadMessage(p) \/ Release(p)
  <2>1. UNCHANGED <<shm, semaphores>>
    BY <1>6
       DEF vars, pipeVars, ipcVars, CallStep, ReadNumber, AdvanceNumber,
           NameSegment, NameSemaphore, OpenQueue, SendRequest, OpenSemaphore,
           WaitSemaphore, ReadVerdict, ReadFails, ReceiveRequest, ReadMessage,
           Release
  <2> QED  BY <1>1, <2>1
<1>7. CASE Turnover
  <2>1. UNCHANGED <<shm, semaphores>>
    BY <1>7, Follows DEF Inv
  <2> QED  BY <1>1, <2>1
<1> QED
  BY <1>2, <1>3, <1>4, <1>5, <1>6, <1>7
     DEF Next, Step, DetectorStep, Turnover

LEMMA TurnNext == ASSUME VerdictInv, [Next]_vars, Inv' PROVE TurnInv'
<1> SUFFICES ASSUME NEW r \in Requests, Named(r)', Lonely(r)'
             PROVE  Turn(r)'
  BY DEF TurnInv
<1>1. CASE ~Named(r)
  <2>1. NameSemaphore(r)
    <3>1. semTime'[r] # semTime[r]
      BY <1>1 DEF Named
    <3>2. ASSUME NEW x \in Requests, NameSemaphore(x) PROVE x = r
      BY <3>1, <3>2 DEF NameSemaphore, VerdictInv, Inv, TypeOK
    <3> QED
      BY <3>1, <3>2
         DEF Next, Step, Follow, FollowWith, CallStep, ReadNumber,
             AdvanceNumber, NameSegment, interprocess_shared_memory_send, ShareFails,
             OpenQueue, SendRequest, OpenSemaphore, WaitSemaphore, ReadVerdict,
             ReadFails, Cleanup, DetectorStep, ReceiveRequest, ReadMessage,
             unlink_shared_memory, Dies, UnpackFails, DecodeFails, NoSegment,
             ClassifyFails, Raises, WriteVerdict, CreateSemaphore, Release,
             callVars, pipeVars, vars
  <2> QED  BY <2>1, TurnNamed
<1>2. CASE Named(r)
  <2>1. Lonely(r) /\ Turn(r)
    BY <1>2, LonelyBefore DEF VerdictInv, TurnInv
  <2>2. ASSUME NEW x \in Requests, CallStep(x) PROVE Turn(r)'
    BY <1>2, <2>1, <2>2, TurnOtherCall, TurnOwnCall DEF VerdictInv
  <2>3. ASSUME NEW p \in Procs, DetectorStep(p) PROVE Turn(r)'
    <3>1. CASE Handles(p, r)
      BY <1>2, <2>1, <2>3, <3>1, TurnOwnDetector
    <3>2. CASE ~Handles(p, r) /\ ~Handles(p, r)'
      BY <1>2, <2>1, <2>3, <3>2, TurnOtherDetector DEF VerdictInv
    <3>3. CASE ~Handles(p, r) /\ Handles(p, r)'
      <4>1. ReceiveRequest(p)
        <5>1. ~Dies(p)
          BY <3>3, Follows DEF Turnover, Handles, Idle, VerdictInv, Inv
        <5>2. ~(\/ ReadMessage(p) \/ unlink_shared_memory(p)
                \/ WriteVerdict(p) \/ CreateSemaphore(p) \/ Release(p))
          BY <3>3, SameRequest DEF Handles, VerdictInv
        <5> QED  BY <2>3, <5>1, <5>2 DEF DetectorStep
      <4> QED  BY <1>2, <2>1, <3>3, <4>1, TurnReceive
    <3> QED  BY <3>1, <3>2, <3>3
  <2>4. CASE Follow
    BY <2>1, <2>4, TurnFollow DEF Turnover, VerdictInv, Inv
  <2>5. CASE UNCHANGED vars
    <3>1. UNCHANGED <<call, smTime, semTime, spam, shared, shm, semaphores, mq,
                     work>>
      BY <2>5 DEF vars, pipeVars, callVars, ipcVars
    <3> QED  BY <2>1, <3>1, TurnKept DEF Queued, Handles
  <2> QED  BY <2>2, <2>3, <2>4, <2>5 DEF Next, Step
<1> QED  BY <1>1, <1>2

LEMMA VerdictInit == Init => VerdictInv
<1> SUFFICES ASSUME Init PROVE OnceInv /\ OwnerInv /\ TurnInv
  BY TypeInit DEF VerdictInv
<1>1. /\ \A s \in Slots : mq[s] = <<>>
      /\ \A p \in Procs : work[p].step = "receive"
      /\ \A r \in Requests : ~Named(r)
      /\ \A n \in Names : shm[n] = Nothing /\ semaphores[n] = Nothing
  BY DEF Init, Idle, Named
<1>2. OnceInv
  BY <1>1 DEF OnceInv, Queued, Handles
<1>3. OwnerInv /\ TurnInv
  BY <1>1 DEF OwnerInv, TurnInv
<1> QED  BY <1>2, <1>3

LEMMA VerdictNext == VerdictInv /\ [Next]_vars => VerdictInv'
BY TypeNext, OnceNext, OwnerNext, TurnNext DEF VerdictInv

\* A call that shares its names with no other reads the verdict on what its
\* thread has written, or nothing (interprocess_communication.c:51-82), whatever
\* calls of it fail and whatever processes die meanwhile.
THEOREM ReadsOwnVerdict == Spec => []OwnVerdict
<1>1. VerdictInv => OwnVerdict
  BY DEF VerdictInv, TurnInv, Turn, OwnVerdict, Inv, PipeInv
<1>2. Init => VerdictInv  BY VerdictInit
<1>3. VerdictInv /\ [Next]_vars => VerdictInv'  BY VerdictNext
<1> QED  BY <1>1, <1>2, <1>3, PTL DEF Spec

\* A detector that takes up such a call judges what its thread has written, and
\* writes the verdict to a segment that is new (main.py:27-29).
THEOREM FindsMessage == Spec => []DetectorFindsMessage
<1>1. VerdictInv => DetectorFindsMessage
  <2> SUFFICES ASSUME VerdictInv, NEW p \in Procs,
                      work[p].step # "receive", Lonely(Request(p))
               PROVE  /\ work[p].step = "read" =>
                           Segment(p) \in Written(Request(p))
                      /\ work[p].step = "unlink" =>
                           /\ work[p].text \in Written(Request(p))
                           /\ Segment(p) = work[p].text
                      /\ work[p].step = "write" =>
                           /\ work[p].text \in Written(Request(p))
                           /\ Segment(p) = Nothing
    BY DEF DetectorFindsMessage
  <2>1. PICK r \in Requests : r = Request(p) /\ Named(r)
    BY DEF VerdictInv, Inv, PipeInv, Request
  <2>2. Turn(r) /\ Handles(p, r)
    BY <2>1 DEF VerdictInv, TurnInv, Handles, Request
  <2> HIDE DEF Handles, Written
  <2> QED  BY <2>1, <2>2 DEF Turn, Asked, Judged, Segment
<1>2. Init => VerdictInv  BY VerdictInit
<1>3. VerdictInv /\ [Next]_vars => VerdictInv'  BY VerdictNext
<1> QED  BY <1>1, <1>2, <1>3, PTL DEF Spec

=============================================================================
