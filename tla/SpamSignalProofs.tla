--------------------------- MODULE SpamSignalProofs ---------------------------
(***************************************************************************)
(* SignalComes of SpamPipeline, for any number of detectors and calls.     *)
(*                                                                         *)
(* The thread learns of a signal only through a semaphore that the         *)
(* detector makes under a name both derive from the clock and from the two *)
(* users.  The inductive invariant adds to VerdictInv where a semaphore    *)
(* may be referred to from, and that from the moment there is a semaphore  *)
(* under the names of a call, its signal comes: it is there, or a detector *)
(* is about to give it, or the detector has ended.                         *)
(***************************************************************************)
EXTENDS SpamVerdictProofs

USE DEF Serving, NoProcess, Root, Steps, Calling

\* A request is in the queue, or with the detector, of the slot that
\* loadbalancer chose for it.
PlaceInv ==
  /\ \A s \in Slots : \A i \in 1 .. Len(mq[s]) : number[mq[s][i]] = s
  /\ \A p \in Procs, r \in Requests : Handles(p, r) => Slot(p) = number[r]

\* Whoever has a semaphore got it under the name of his own call, and it was
\* made for a call of that name.
SemInv ==
  /\ \A n \in Names : semaphores[n] # Nothing =>
       Named(semaphores[n]) /\ SemName(semaphores[n]) = n
  /\ \A r \in Requests : held[r] # Nothing =>
       Named(r) /\ Named(held[r]) /\ SemName(held[r]) = SemName(r)
  /\ \A p \in Procs : work[p].step = "release" =>
       /\ Named(work[p].semaphore)
       /\ SemName(work[p].semaphore) = SemName(work[p].req)

\* The call waits, or finds a semaphore to wait for.
Due(r) ==
  \/ call[r] = "semaphore" /\ semaphores[SemName(r)] # Nothing
  \/ call[r] = "wait"

Coming(r) ==
  \/ value[r] > 0
  \/ \E p \in Procs : Handles(p, r) /\ work[p].step = "release"
  \/ DetectorLost(number[r])

DueInv == \A r \in Requests : Named(r) /\ Lonely(r) /\ Due(r) => Coming(r)

SignalInv == VerdictInv /\ PlaceInv /\ SemInv /\ DueInv

-----------------------------------------------------------------------------
(* Processes that end *)

\* Where a process stands as long as it may be a detector or become one.
Young == {"none", "child", "load", "detect"}

\* A process that is no detector does not become one, and a detector stays one
\* until it has ended.
LEMMA ProcMoves ==
  ASSUME Inv, [Next]_vars, NEW q \in Procs
  PROVE  /\ pc[q] \notin Young => pc'[q] \notin Young
         /\ pc[q] = "detect" => pc'[q] = "detect" \/ pc'[q] \notin Young
<1> USE DEF Inv, ProcInv, Young
<1>1. ASSUME NEW p \in Procs, Fork(p)
      PROVE  pc'[q] = pc[q] \/ (pc[q] = "none" /\ pc'[q] = "child")
  <2>1. PICK i \in Slots : i = iter[p]
    BY <1>1 DEF Fork
  <2>2. PICK child \in Procs : child = p \cup {i}
    BY <2>1 DEF Procs
  <2>3. pc[child] = "none"
    <3>1. pc[p] = "fork"
      BY <1>1 DEF Fork
    <3>2. i \notin p /\ i >= FirstSlot(p) /\ child \ p = {i} \ p
      BY <2>1, <2>2, <3>1 DEF TreeInv, FirstSlot, Procs, Slots
    <3> QED  BY <2>2, <3>1, <3>2 DEF TreeInv
  <2>4. pc' = [pc EXCEPT ![child] = "child"]
    BY <1>1, <2>1, <2>2 DEF Fork
  <2> QED  BY <2>3, <2>4 DEF ProcTypeOK
<1>2. ASSUME NEW p \in Procs,
             \/ ForkFails(p) \/ stop_spam_detector(p)
             \/ start_spam_detector_process(p) \/ ExecFails(p) \/ Load(p)
             \/ LoadFails(p) \/ Bind(p) \/ BindFails(p) \/ MainReturns(p)
             \/ Deliver(p) \/ Leave(p) \/ ServerDies(p)
             \/ Dies(p)
      PROVE  /\ pc[q] \notin Young => pc'[q] \notin Young
             /\ pc[q] = "detect" => pc'[q] = "detect" \/ pc'[q] \notin Young
  BY <1>2
     DEF ForkFails, start_spam_detector_process, ExecFails, Child, Load,
         LoadFails, Bind, BindFails, stop_spam_detector, MainReturns, Deliver,
         Leave, ServerDies, StartsToStop, Goes, Ends, Dies, UnpackFails,
         DecodeFails, NoSegment, ClassifyFails, Raises, ProcTypeOK
<1>3. CASE \/ Interrupt \/ UNCHANGED vars
           \/ \E r \in Requests : CallStep(r)
           \/ \E p \in Procs : DetectorStep(p) /\ ~Dies(p)
  <2>1. pc' = pc
    BY <1>3
       DEF Interrupt, vars, procVars, CallStep, ReadNumber, AdvanceNumber,
           NameSegment, NameSemaphore, interprocess_shared_memory_send,
           ShareFails, OpenQueue, SendRequest, OpenSemaphore, WaitSemaphore,
           ReadVerdict, ReadFails, Cleanup, DetectorStep, ReceiveRequest,
           ReadMessage, unlink_shared_memory, WriteVerdict, CreateSemaphore,
           Release
  <2> QED  BY <2>1
<1> QED  BY <1>1, <1>2, <1>3 DEF Next, Step, ProcStep

LEMMA LostStays ==
  ASSUME Inv, [Next]_vars, NEW s \in Slots, DetectorLost(s)
  PROVE  DetectorLost(s)'
BY ProcMoves DEF DetectorLost, Young

-----------------------------------------------------------------------------
(* The slot of a request *)

\* loadbalancer is asked once.
LEMMA NumberStays ==
  ASSUME Inv, [Next]_vars, NEW r \in Requests, call[r] # "start"
  PROVE  number'[r] = number[r]
<1>1. ASSUME NEW x \in Requests, ReadNumber(x) PROVE number'[r] = number[r]
  BY <1>1 DEF ReadNumber, Moves, Inv, TypeOK
<1>2. CASE \A x \in Requests : ~ReadNumber(x)
  BY <1>2
     DEF Next, Step, Follow, FollowWith, CallStep, NameSegment, NameSemaphore,
         AdvanceNumber, interprocess_shared_memory_send, ShareFails, OpenQueue,
         SendRequest, OpenSemaphore, WaitSemaphore, ReadVerdict, ReadFails,
         Cleanup, DetectorStep, ReceiveRequest, ReadMessage,
         unlink_shared_memory, Dies, UnpackFails, DecodeFails, NoSegment,
         ClassifyFails, Raises, WriteVerdict, CreateSemaphore, Release,
         callVars, pipeVars, vars
<1> QED  BY <1>1, <1>2

\* A request is handed on only where it is sent and where it is received.
LEMMA HandedOn ==
  ASSUME Inv, [Next]_vars,
         \A r \in Requests : ~SendRequest(r),
         \A p \in Procs : ~ReceiveRequest(p)
  PROVE  /\ \A s \in Slots : NothingNew(s)
         /\ \A p \in Procs, r \in Requests : Handles(p, r)' => Handles(p, r)
<1>1. CASE Turnover
  BY <1>1, Follows DEF Handles, Idle, Inv
<1>2. CASE (\E r \in Requests : CallStep(r)) \/ UNCHANGED vars
  <2>1. mq' = mq /\ work' = work
    BY <1>2
       DEF CallStep, ReadNumber, AdvanceNumber, NameSegment, NameSemaphore,
           interprocess_shared_memory_send, ShareFails, OpenQueue,
           OpenSemaphore, WaitSemaphore, ReadVerdict, ReadFails, Cleanup,
           ipcVars, vars, pipeVars
  <2> QED  BY <2>1 DEF Handles, NothingNew
<1>3. ASSUME NEW p \in Procs,
             \/ ReadMessage(p) \/ unlink_shared_memory(p) \/ WriteVerdict(p)
             \/ CreateSemaphore(p) \/ Release(p)
      PROVE  /\ mq' = mq
             /\ \A x \in Procs, r \in Requests : Handles(x, r)' => Handles(x, r)
  BY <1>3, SameRequest DEF Handles
<1>4. mq' = mq => \A s \in Slots : NothingNew(s)
  BY DEF NothingNew
<1> HIDE DEF NothingNew, Handles
<1> QED
  BY <1>1, <1>2, <1>3, <1>4 DEF Next, Step, DetectorStep, Turnover

LEMMA PlaceNext ==
  ASSUME VerdictInv, PlaceInv, [Next]_vars
  PROVE  PlaceInv'
<1> USE DEF VerdictInv
<1>1. /\ \A s \in Slots : \A i \in 1 .. Len(mq[s]) :
           mq[s][i] \in Requests /\ call[mq[s][i]] # "start"
      /\ \A p \in Procs, r \in Requests : Handles(p, r) => call[r] # "start"
  <2>1. \A s \in Slots : \A i \in 1 .. Len(mq[s]) : mq[s][i] \in Requests
    BY ElementOfSeq DEF Inv, TypeOK
  <2> QED  BY <2>1 DEF OnceInv, Unsent, Queued
<1>2. /\ \A s \in Slots : \A i \in 1 .. Len(mq[s]) : number'[mq[s][i]] = s
      /\ \A p \in Procs, r \in Requests : Handles(p, r) => Slot(p) = number'[r]
  <2> HIDE DEF Handles, VerdictInv
  <2>1. Inv
    BY DEF VerdictInv
  <2> QED  BY <1>1, <2>1, NumberStays DEF PlaceInv
<1>3. ASSUME NEW r \in Requests, SendRequest(r) PROVE PlaceInv'
  <2>1. PICK s \in Slots, q \in Seq(Requests) : s = number[r] /\ q = mq[s]
    BY DEF Inv, TypeOK
  <2>2. /\ \A t \in Slots : mq'[t] = IF t = s THEN Append(q, r) ELSE mq[t]
        /\ number' = number /\ work' = work
    BY <1>3, <2>1 DEF SendRequest, Inv, TypeOK
  <2>3. \A i \in 1 .. Len(Append(q, r)) :
          \/ i \in 1 .. Len(q) /\ Append(q, r)[i] = q[i]
          \/ Append(q, r)[i] = r
    BY AppendProperties, LenProperties
  <2>4. ASSUME NEW t \in Slots, NEW i \in 1 .. Len(mq'[t])
        PROVE  number[mq'[t][i]] = t
    <3>1. CASE t = s
      <4>1. mq'[t] = Append(q, r)
        BY <2>2, <3>1
      <4>2. CASE mq'[t][i] = r
        BY <2>1, <3>1, <4>2
      <4>3. CASE mq'[t][i] # r
        <5>1. i \in 1 .. Len(q) /\ mq'[t][i] = q[i]
          BY <2>3, <4>1, <4>3
        <5> QED  BY <2>1, <3>1, <5>1 DEF PlaceInv
      <4> QED  BY <4>2, <4>3
    <3>2. CASE t # s
      <4>1. mq'[t] = mq[t]
        BY <2>2, <3>2
      <4> QED  BY <4>1 DEF PlaceInv
    <3> QED  BY <3>1, <3>2
  <2> QED  BY <1>2, <2>2, <2>4 DEF PlaceInv, Handles
<1>4. ASSUME NEW p \in Procs, ReceiveRequest(p) PROVE PlaceInv'
  <2>1. PICK s \in Slots : s = Slot(p)
    BY <1>4, SlotOfProcess DEF Inv, ProcInv, TreeInv, ReceiveRequest, At
  <2>2. PICK q \in Seq(Requests) : q = mq[s]
    BY <2>1 DEF Inv, TypeOK
  <2>3. /\ q # <<>> /\ number' = number
        /\ \A t \in Slots : mq'[t] = IF t = s THEN Tail(q) ELSE mq[t]
        /\ \A x \in Procs : x # p => work'[x] = work[x]
        /\ work'[p].step = "read" /\ work'[p].req = Head(q)
    BY <1>4, <2>1, <2>2 DEF ReceiveRequest, Inv, TypeOK, callVars
  <2>4. /\ Head(q) = q[1] /\ 1 \in 1 .. Len(q)
        /\ \A i \in 1 .. Len(Tail(q)) :
             i + 1 \in 1 .. Len(q) /\ Tail(q)[i] = q[i + 1]
    BY <2>3, HeadTailProperties, LenProperties
  <2>5. ASSUME NEW t \in Slots, NEW i \in 1 .. Len(mq'[t])
        PROVE  number[mq'[t][i]] = t
    <3>1. CASE t = s
      <4>1. mq'[t] = Tail(q)
        BY <2>3, <3>1
      <4>2. i + 1 \in 1 .. Len(q) /\ mq'[t][i] = q[i + 1]
        BY <2>4, <4>1
      <4> QED  BY <2>2, <3>1, <4>2 DEF PlaceInv
    <3>2. CASE t # s
      <4>1. mq'[t] = mq[t]
        BY <2>3, <3>2
      <4> QED  BY <4>1 DEF PlaceInv
    <3> QED  BY <3>1, <3>2
  <2>6. number[Head(q)] = s
    BY <2>2, <2>4 DEF PlaceInv
  <2> QED  BY <1>2, <2>1, <2>3, <2>5, <2>6 DEF PlaceInv, Handles
<1>5. CASE /\ \A r \in Requests : ~SendRequest(r)
           /\ \A p \in Procs : ~ReceiveRequest(p)
  <2>1. /\ \A s \in Slots : NothingNew(s)
        /\ \A p \in Procs, r \in Requests : Handles(p, r)' => Handles(p, r)
    BY <1>5, HandedOn
  <2>2. \A s \in Slots : \A i \in 1 .. Len(mq'[s]) :
          \E j \in 1 .. Len(mq[s]) : mq'[s][i] = mq[s][j]
    BY <2>1, Shifted DEF Inv
  <2> HIDE DEF Handles
  <2> QED  BY <1>2, <2>1, <2>2 DEF PlaceInv
<1> QED  BY <1>3, <1>4, <1>5

-----------------------------------------------------------------------------
(* Semaphores *)

\* Only one step of a detector takes it to where it has a semaphore.
LEMMA ReleaseKept ==
  ASSUME Inv, [Next]_vars, \A p \in Procs : ~CreateSemaphore(p)
  PROVE  \A x \in Procs : work'[x].step = "release" => work'[x] = work[x]
<1>1. CASE Turnover
  BY <1>1, Follows DEF Idle, Inv
<1>2. CASE (\E r \in Requests : CallStep(r)) \/ UNCHANGED vars
  BY <1>2
     DEF CallStep, ReadNumber, AdvanceNumber, NameSegment, NameSemaphore,
         interprocess_shared_memory_send, ShareFails, OpenQueue, SendRequest,
         OpenSemaphore, WaitSemaphore, ReadVerdict, ReadFails, Cleanup, vars,
         pipeVars
<1>3. ASSUME NEW p \in Procs,
             \/ ReceiveRequest(p) \/ ReadMessage(p) \/ unlink_shared_memory(p)
             \/ WriteVerdict(p) \/ Release(p)
      PROVE  \A x \in Procs : work'[x].step = "release" => work'[x] = work[x]
  <2>1. work \in [Procs -> Work] /\ work[p] \in Work
    BY DEF Inv, TypeOK, Work
  <2>2. \A x \in Procs : x # p => work'[x] = work[x]
    BY <1>3, <2>1 DEF ReceiveRequest, ReadMessage, unlink_shared_memory,
                      WriteVerdict, Release, Then
  <2>3. work'[p].step # "release"
    <3>1. CASE ReceiveRequest(p)
      BY <2>1, <3>1 DEF ReceiveRequest, Work
    <3>2. CASE ReadMessage(p)
      BY <2>1, <3>2 DEF ReadMessage, Work
    <3>3. CASE unlink_shared_memory(p) \/ WriteVerdict(p)
      BY <2>1, <3>3 DEF unlink_shared_memory, WriteVerdict, Then, Work
    <3>4. CASE Release(p)
      BY <2>1, <3>4 DEF Release, Idle
    <3> QED  BY <1>3, <3>1, <3>2, <3>3, <3>4
  <2> QED  BY <2>2, <2>3
<1> QED
  BY <1>1, <1>2, <1>3 DEF Next, Step, DetectorStep, Turnover

\* The step that does, for the semaphore there is under the name, or a new one.
LEMMA Creates ==
  ASSUME Inv, SemInv, NEW p \in Procs, CreateSemaphore(p)
  PROVE  \E r \in Requests :
           /\ r = work[p].req /\ Named(r) /\ Handles(p, r)
           /\ work'[p].step = "release" /\ work'[p].req = r
           /\ work'[p].semaphore = semaphores'[SemName(r)]
           /\ \A x \in Procs : x # p => work'[x] = work[x]
           /\ semaphores'[SemName(r)] \in Requests
           /\ Named(semaphores'[SemName(r)])
           /\ SemName(semaphores'[SemName(r)]) = SemName(r)
           /\ \A n \in Names : n # SemName(r) => semaphores'[n] = semaphores[n]
<1>1. PICK r \in Requests : r = work[p].req /\ Named(r)
  BY DEF CreateSemaphore, At, Inv, PipeInv
<1>2. PICK n \in Names : n = SemName(r)
  BY <1>1, NamesInUse DEF Inv
<1>3. work \in [Procs -> Work] /\ work[p] \in Work
  BY DEF Inv, TypeOK, Work
<1>4. /\ work[p].step = "semaphore"
      /\ semaphores' = [semaphores EXCEPT ![n] = IF @ = Nothing THEN r ELSE @]
      /\ work' = [work EXCEPT ![p].step = "release",
                              ![p].semaphore = semaphores'[n]]
  BY <1>1, <1>2 DEF CreateSemaphore, At, Request
<1>5. /\ work'[p].step = "release" /\ work'[p].req = r
      /\ work'[p].semaphore = semaphores'[n]
      /\ \A x \in Procs : x # p => work'[x] = work[x]
  BY <1>1, <1>3, <1>4 DEF Work
<1>6. /\ semaphores'[n] = IF semaphores[n] = Nothing THEN r ELSE semaphores[n]
      /\ \A m \in Names : m # n => semaphores'[m] = semaphores[m]
      /\ semaphores[n] \in {Nothing} \cup Requests
  BY <1>4 DEF Inv, TypeOK
<1>7. /\ semaphores'[n] \in Requests /\ Named(semaphores'[n])
      /\ SemName(semaphores'[n]) = n
  BY <1>1, <1>2, <1>6 DEF SemInv
<1>8. Handles(p, r)
  BY <1>1, <1>4 DEF Handles
<1> HIDE DEF Handles, Named, SemName
<1> QED  BY <1>1, <1>2, <1>5, <1>6, <1>7, <1>8

LEMMA SemNext ==
  ASSUME Inv, SemInv, [Next]_vars, Inv'
  PROVE  SemInv'
<1>1. \A q \in Requests : Named(q) => Named(q)' /\ SemName(q)' = SemName(q)
  BY NamesStay DEF SemName
<1>2. ASSUME NEW n \in Names, semaphores'[n] # Nothing
      PROVE  /\ semaphores'[n] \in Requests
             /\ Named(semaphores'[n]) /\ SemName(semaphores'[n]) = n
  <2>1. semaphores'[n] \in Requests
    BY <1>2 DEF Inv, TypeOK
  <2>2. ASSUME NEW p \in Procs, CreateSemaphore(p)
        PROVE  Named(semaphores'[n]) /\ SemName(semaphores'[n]) = n
    <3>1. \E r \in Requests :
            /\ Named(semaphores'[SemName(r)])
            /\ SemName(semaphores'[SemName(r)]) = SemName(r)
            /\ n # SemName(r) => semaphores'[n] = semaphores[n]
      BY <2>2, Creates
    <3> HIDE DEF Named, SemName
    <3> QED  BY <1>2, <3>1 DEF SemInv
  <2>3. CASE \A p \in Procs : ~CreateSemaphore(p)
    <3>1. semaphores'[n] = semaphores[n]
      BY <1>2, <2>3
         DEF Next, Step, Follow, FollowWith, CallStep, ReadNumber,
             AdvanceNumber, NameSegment, NameSemaphore,
             interprocess_shared_memory_send, ShareFails, OpenQueue,
             SendRequest, OpenSemaphore, WaitSemaphore, ReadVerdict, ReadFails,
             Cleanup, DetectorStep, ReceiveRequest, ReadMessage,
             unlink_shared_memory, Dies, UnpackFails, DecodeFails, NoSegment,
             ClassifyFails, Raises, WriteVerdict, Release, ipcVars, pipeVars,
             vars, Inv, TypeOK
    <3> QED  BY <1>2, <2>1, <3>1 DEF SemInv
  <2> QED  BY <2>1, <2>2, <2>3
<1>3. ASSUME NEW r \in Requests, held'[r] # Nothing
      PROVE  /\ held'[r] \in Requests /\ Named(r)
             /\ Named(held'[r]) /\ SemName(held'[r]) = SemName(r)
  <2>1. held'[r] \in Requests
    BY <1>3 DEF Inv, TypeOK
  <2>2. CASE OpenSemaphore(r)
    <3>1. held'[r] = semaphores[SemName(r)] /\ Named(r)
      <4>1. Named(r)
        BY <2>2 DEF OpenSemaphore, Moves, Inv, PipeInv
      <4>2. held'[r] = semaphores[SemName(r)]
        BY <2>2 DEF OpenSemaphore, Inv, TypeOK
      <4> QED  BY <4>1, <4>2
    <3>2. SemName(r) \in Names
      BY <3>1, NamesInUse DEF Inv
    <3> QED  BY <1>3, <2>1, <3>1, <3>2 DEF SemInv
  <2>3. CASE ~OpenSemaphore(r)
    <3>1. ASSUME NEW x \in Requests, CallStep(x) PROVE held'[r] = held[r]
      <4>1. CASE OpenSemaphore(x)
        BY <2>3, <4>1 DEF OpenSemaphore, Inv, TypeOK
      <4>2. CASE ~OpenSemaphore(x)
        BY <3>1, <4>2
           DEF CallStep, ReadNumber, AdvanceNumber, NameSegment, NameSemaphore,
               interprocess_shared_memory_send, ShareFails, OpenQueue,
               SendRequest, WaitSemaphore, ReadVerdict, ReadFails, Cleanup
      <4> QED  BY <4>1, <4>2
    <3>2. ASSUME \/ Follow
                 \/ UNCHANGED vars
                 \/ \E p \in Procs : DetectorStep(p)
          PROVE  held'[r] = held[r]
      BY <3>2
         DEF Follow, FollowWith, DetectorStep, ReceiveRequest, ReadMessage,
             unlink_shared_memory, Dies, UnpackFails, DecodeFails, NoSegment,
             ClassifyFails, Raises, WriteVerdict, CreateSemaphore, Release,
             callVars, pipeVars, vars
    <3>3. held'[r] = held[r]
      BY <3>1, <3>2 DEF Next, Step
    <3> QED  BY <1>3, <2>1, <3>3 DEF SemInv
  <2> QED  BY <2>1, <2>2, <2>3
<1>4. ASSUME NEW p \in Procs, work'[p].step = "release"
      PROVE  /\ work'[p].semaphore \in Requests /\ work'[p].req \in Requests
             /\ Named(work'[p].semaphore) /\ Named(work'[p].req)
             /\ SemName(work'[p].semaphore) = SemName(work'[p].req)
  <2>1. CASE work'[p] = work[p]
    BY <1>4, <2>1 DEF SemInv, Inv, PipeInv
  <2>2. CASE work'[p] # work[p]
    <3>1. PICK x \in Procs : CreateSemaphore(x)
      BY <1>4, <2>2, ReleaseKept
    <3>2. x = p
      BY <2>2, <3>1, Creates
    <3>3. CreateSemaphore(p)
      BY <3>1, <3>2
    <3>4. PICK r \in Requests :
            /\ Named(r) /\ work'[p].req = r
            /\ work'[p].semaphore = semaphores'[SemName(r)]
            /\ semaphores'[SemName(r)] \in Requests
            /\ Named(semaphores'[SemName(r)])
            /\ SemName(semaphores'[SemName(r)]) = SemName(r)
      BY <3>3, Creates
    <3> HIDE DEF Named, SemName
    <3> QED  BY <3>4
  <2> QED  BY <2>1, <2>2
<1> HIDE DEF Named, SemName
<1> QED  BY <1>1, <1>2, <1>3, <1>4 DEF SemInv

-----------------------------------------------------------------------------
(* Signals *)

\* Before the request is sent nobody has made a semaphore for the call.
LEMMA NoneYet ==
  ASSUME VerdictInv, NEW r \in Requests, Named(r), Lonely(r),
         call[r] \in {"share", "open", "send"}
  PROVE  semaphores[SemName(r)] = Nothing
<1>1. Turn(r)
  BY DEF VerdictInv, TurnInv
<1>2. Asked(r)
  BY <1>1 DEF Turn
<1>3. ~Answered(r)
  BY <1>2, Distinct DEF Asked, Answered
<1> QED  BY <1>1, <1>3 DEF Turn

\* A call has a semaphore to wait for only once a detector has made it.
LEMMA DueBefore ==
  ASSUME VerdictInv, SemInv, [Next]_vars, NEW r \in Requests, Due(r)',
         Lonely(r)', \A p \in Procs : CreateSemaphore(p) => work[p].req # r
  PROVE  Named(r) /\ Lonely(r) /\ Due(r)
<1> USE DEF VerdictInv
<1>1. /\ call'[r] = "semaphore" => call[r] \in {"semaphore", "open", "send"}
      /\ call'[r] = "wait" => call[r] = "wait" \/ OpenSemaphore(r)
      /\ call'[r] = "semaphore" /\ call[r] # "semaphore" =>
           semaphores' = semaphores
  <2>1. CASE Turnover
    BY <2>1, Follows DEF Inv
  <2>2. ASSUME NEW x \in Requests, CallStep(x), x # r PROVE call'[r] = call[r]
    BY <2>2
       DEF CallStep, ReadNumber, AdvanceNumber, NameSegment, NameSemaphore,
           interprocess_shared_memory_send, ShareFails, OpenQueue, SendRequest,
           OpenSemaphore, WaitSemaphore, ReadVerdict, ReadFails, Cleanup,
           Moves, Inv, TypeOK
  <2>3. CASE CallStep(r)
    <3>1. CASE OpenQueue(r) \/ SendRequest(r)
      BY <3>1 DEF OpenQueue, SendRequest, ipcVars, Moves, Inv, TypeOK
    <3>2. CASE ~OpenQueue(r) /\ ~SendRequest(r)
      BY <2>3, <3>2
         DEF CallStep, ReadNumber, AdvanceNumber, NameSegment, NameSemaphore,
             interprocess_shared_memory_send, ShareFails, OpenSemaphore,
             WaitSemaphore, ReadVerdict, ReadFails, Cleanup, Moves, Inv, TypeOK
    <3> QED  BY <3>1, <3>2
  <2>4. ASSUME \/ UNCHANGED vars
               \/ \E p \in Procs :
                    DetectorStep(p) /\ ~Dies(p)
        PROVE  call' = call
    BY <2>4
       DEF DetectorStep, ReceiveRequest, ReadMessage, unlink_shared_memory,
           WriteVerdict, CreateSemaphore, Release, callVars, pipeVars, vars
  <2> QED
    BY <2>1, <2>2, <2>3, <2>4 DEF Next, Step, Turnover
<1>2. Named(r) /\ (call[r] = "wait" \/ call[r] \in {"semaphore", "open", "send"})
  BY <1>1 DEF Due, OpenSemaphore, Moves, Inv, PipeInv
<1>3. Lonely(r) /\ SemName(r)' = SemName(r) /\ SemName(r) \in Names
  BY <1>2, LonelyBefore, NamesStay, NamesInUse DEF SemName, Inv
<1>4. semaphores'[SemName(r)] # Nothing => semaphores[SemName(r)] # Nothing
  <2>1. ASSUME NEW p \in Procs, CreateSemaphore(p)
        PROVE  semaphores'[SemName(r)] = semaphores[SemName(r)]
    <3>1. PICK q \in Requests :
            /\ q = work[p].req
            /\ \A n \in Names : n # SemName(q) => semaphores'[n] = semaphores[n]
      BY <2>1, Creates
    <3>2. SemName(q) # SemName(r)
      BY <1>3, <2>1, <3>1, LonelyNames
    <3> QED  BY <1>3, <3>1, <3>2
  <2>2. ASSUME \A p \in Procs : ~CreateSemaphore(p)
        PROVE  \A n \in Names : semaphores'[n] \in {semaphores[n], Nothing}
    BY <2>2
       DEF Next, Step, Follow, FollowWith, CallStep, ReadNumber, AdvanceNumber,
           NameSegment, NameSemaphore, interprocess_shared_memory_send,
           ShareFails, OpenQueue, SendRequest, OpenSemaphore, WaitSemaphore,
           ReadVerdict, ReadFails, Cleanup, DetectorStep, ReceiveRequest,
           ReadMessage, unlink_shared_memory, Dies, UnpackFails, DecodeFails,
           NoSegment, ClassifyFails, Raises, WriteVerdict, Release, ipcVars,
           pipeVars, vars, Inv, TypeOK
  <2> QED  BY <1>3, <2>1, <2>2
<1>5. CASE call'[r] = "wait"
  <2>1. ASSUME OpenSemaphore(r)
        PROVE  call[r] = "semaphore" /\ semaphores[SemName(r)] # Nothing
    BY <1>5, <2>1 DEF OpenSemaphore, Moves, Inv, TypeOK
  <2> QED  BY <1>1, <1>2, <1>3, <1>5, <2>1 DEF Due
<1>6. CASE call'[r] = "semaphore" /\ semaphores'[SemName(r)] # Nothing
  <2>1. call[r] \notin {"open", "send"}
    BY <1>1, <1>2, <1>3, <1>6, NoneYet
  <2> QED  BY <1>1, <1>2, <1>3, <1>4, <1>6, <2>1 DEF Due
<1> QED  BY <1>3, <1>5, <1>6 DEF Due

\* A signal that was given is taken by the call alone.
LEMMA ValueStays ==
  ASSUME Inv, SemInv, [Next]_vars, NEW r \in Requests, Lonely(r),
         ~WaitSemaphore(r), value[r] > 0
  PROVE  value'[r] > 0
<1>1. ASSUME NEW x \in Requests, WaitSemaphore(x) PROVE value'[r] = value[r]
  <2>1. x # r
    BY <1>1
  <2>2. held[x] \in Requests
    BY <1>1 DEF WaitSemaphore, Moves, Inv, PipeInv
  <2>3. SemName(held[x]) = SemName(x)
    BY <2>2, NothingAssumption DEF SemInv
  <2>4. held[x] # r
    BY <2>1, <2>2, <2>3, LonelyNames
  <2> QED  BY <1>1, <2>2, <2>4 DEF WaitSemaphore, Inv, TypeOK
<1>2. ASSUME NEW p \in Procs, Release(p) PROVE value'[r] > 0
  <2>1. value[r] \in Nat /\ value[r] + 1 > 0
    BY DEF Inv, TypeOK
  <2> QED  BY <1>2, <2>1 DEF Release, Inv, TypeOK
<1>3. ASSUME \A x \in Requests : ~WaitSemaphore(x), \A p \in Procs : ~Release(p)
      PROVE  value' = value
  BY <1>3
     DEF Next, Step, Follow, FollowWith, CallStep, ReadNumber, AdvanceNumber,
         NameSegment, NameSemaphore, interprocess_shared_memory_send,
         ShareFails, OpenQueue, SendRequest, OpenSemaphore, ReadVerdict,
         ReadFails, Cleanup, DetectorStep, ReceiveRequest, ReadMessage,
         unlink_shared_memory, Dies, UnpackFails, DecodeFails, NoSegment,
         ClassifyFails, Raises, WriteVerdict, CreateSemaphore, ipcVars,
         pipeVars, vars
<1> QED  BY <1>1, <1>2, <1>3

\* A detector that is about to signal does, to the call, or ends.
LEMMA ReleaseMoves ==
  ASSUME Inv, SemInv, [Next]_vars, NEW r \in Requests, Lonely(r),
         NEW p \in Procs, Handles(p, r), work[p].step = "release"
  PROVE  \/ work'[p] = work[p]
         \/ value'[r] > 0
         \/ pc'[p] \notin Young
<1>1. /\ pc[p] = "detect" /\ work[p].req = r
      /\ work[p].semaphore \in Requests /\ SemName(work[p].semaphore) = SemName(r)
  BY DEF Inv, TypeOK, PipeInv, SemInv, Handles, Idle
<1>2. work[p].semaphore = r
  BY <1>1, LonelyNames
<1>3. CASE Release(p)
  <2>1. value[r] \in Nat /\ value[r] + 1 > 0
    BY DEF Inv, TypeOK
  <2> QED  BY <1>2, <1>3, <2>1 DEF Release, Inv, TypeOK
<1>4. CASE Turnover
  BY <1>1, <1>4, Follows, ProcMoves DEF Inv
<1>5. ASSUME (\E x \in Requests : CallStep(x)) \/ UNCHANGED vars
      PROVE  work' = work
  BY <1>5
     DEF CallStep, ReadNumber, AdvanceNumber, NameSegment, NameSemaphore,
         interprocess_shared_memory_send, ShareFails, OpenQueue, SendRequest,
         OpenSemaphore, WaitSemaphore, ReadVerdict, ReadFails, Cleanup, vars,
         pipeVars
<1>6. ASSUME NEW x \in Procs,
             \/ ReceiveRequest(x) \/ ReadMessage(x) \/ unlink_shared_memory(x)
             \/ WriteVerdict(x) \/ CreateSemaphore(x) \/ Release(x), ~Release(p)
      PROVE  work'[p] = work[p]
  <2>1. x # p
    BY <1>6 DEF ReceiveRequest, ReadMessage, unlink_shared_memory, WriteVerdict,
                CreateSemaphore, At
  <2>2. work \in [Procs -> Work]
    BY DEF Inv, TypeOK, Work
  <2> QED
    BY <1>6, <2>1, <2>2
       DEF ReceiveRequest, ReadMessage, unlink_shared_memory, WriteVerdict,
           CreateSemaphore, Release, Then
<1> QED
  BY <1>3, <1>4, <1>5, <1>6 DEF Next, Step, DetectorStep, Turnover

LEMMA ComingKept ==
  ASSUME Inv, PlaceInv, SemInv, [Next]_vars, NEW r \in Requests, Named(r),
         Lonely(r), Coming(r), ~WaitSemaphore(r)
  PROVE  Coming(r)'
<1>1. PICK s \in Slots : number[r] = s /\ number'[r] = s
  <2>1. call[r] # "start"
    BY DEF Inv, PipeInv
  <2> QED  BY <2>1, NumberStays DEF Inv, TypeOK
<1>2. CASE value[r] > 0
  BY <1>2, ValueStays DEF Coming
<1>3. ASSUME NEW p \in Procs, Handles(p, r), work[p].step = "release"
      PROVE  Coming(r)'
  <2>1. CASE work'[p] = work[p]
    <3>1. Handles(p, r)'
      BY <1>3, <2>1 DEF Handles
    <3> QED  BY <1>3, <2>1, <3>1 DEF Coming
  <2>2. CASE value'[r] > 0
    BY <2>2 DEF Coming
  <2>3. CASE pc'[p] \notin Young
    <3>1. Slot(p) = s
      BY <1>1, <1>3 DEF PlaceInv
    <3>2. pc[p] = "detect"
      BY <1>3 DEF Inv, TypeOK, Idle
    <3>3. p # Root
      BY <3>2 DEF Inv, ProcInv, TreeInv
    <3>4. DetectorLost(s)'
      BY <2>3, <3>1, <3>3 DEF DetectorLost, Young
    <3> QED  BY <1>1, <3>4 DEF Coming, DetectorLost
  <2> QED  BY <1>3, <2>1, <2>2, <2>3, ReleaseMoves
<1>4. CASE DetectorLost(number[r])
  <2>1. DetectorLost(s)'
    BY <1>1, <1>4, LostStays
  <2> QED  BY <1>1, <2>1 DEF Coming, DetectorLost
<1> QED  BY <1>2, <1>3, <1>4 DEF Coming

LEMMA DueNext ==
  ASSUME VerdictInv, PlaceInv, SemInv, DueInv, [Next]_vars
  PROVE  DueInv'
<1> SUFFICES ASSUME NEW r \in Requests, Lonely(r)', Due(r)' PROVE Coming(r)'
  BY DEF DueInv
<1>1. ASSUME NEW p \in Procs, CreateSemaphore(p), work[p].req = r
      PROVE  Coming(r)'
  <2>1. work'[p].step = "release" /\ work'[p].req = r
    BY <1>1, Creates DEF VerdictInv
  <2> QED  BY <2>1 DEF Coming, Handles
<1>2. CASE \A p \in Procs : CreateSemaphore(p) => work[p].req # r
  <2>1. Named(r) /\ Lonely(r) /\ Due(r)
    BY <1>2, DueBefore
  <2>2. Coming(r)
    BY <2>1 DEF DueInv
  <2>3. ~WaitSemaphore(r)
    BY DEF WaitSemaphore, Moves, Due, VerdictInv, Inv, TypeOK
  <2> QED  BY <2>1, <2>2, <2>3, ComingKept DEF VerdictInv
<1> QED  BY <1>1, <1>2

-----------------------------------------------------------------------------
(* All steps *)

LEMMA SignalInit == Init => SignalInv
<1> SUFFICES ASSUME Init PROVE PlaceInv /\ SemInv /\ DueInv
  BY VerdictInit DEF SignalInv
<1>1. /\ \A s \in Slots : mq[s] = <<>>
      /\ \A p \in Procs : work[p].step = "receive"
      /\ \A n \in Names : semaphores[n] = Nothing
      /\ \A r \in Requests :
           ~Named(r) /\ held[r] = Nothing
  BY DEF Init, Idle, Named
<1> QED  BY <1>1 DEF PlaceInv, SemInv, DueInv, Handles

LEMMA SignalNext == SignalInv /\ [Next]_vars => SignalInv'
<1> SUFFICES ASSUME SignalInv, [Next]_vars PROVE SignalInv'
  OBVIOUS
<1>1. VerdictInv'
  BY VerdictNext DEF SignalInv
<1>2. PlaceInv'
  BY PlaceNext DEF SignalInv
<1>3. SemInv'
  BY <1>1, SemNext DEF SignalInv, VerdictInv
<1>4. DueInv'
  BY DueNext DEF SignalInv
<1> QED  BY <1>1, <1>2, <1>3, <1>4 DEF SignalInv

\* A call that shares its names with no other waits only for a signal that is
\* there, or that a detector is about to give, unless the detector of its slot
\* has ended (interprocess_communication.c:51-62): what the thread waits for
\* without a limit cannot have gone to somebody else.
THEOREM SignalsArrive == Spec => []SignalComes
<1>1. SignalInv => SignalComes
  <2> SUFFICES ASSUME SignalInv, NEW r \in Requests, call[r] = "wait", Lonely(r)
               PROVE  \/ value[held[r]] > 0
                      \/ \E p \in Procs :
                           work[p].step = "release" /\ work[p].semaphore = held[r]
                      \/ DetectorLost(number[r])
    BY DEF SignalComes
  <2> USE DEF SignalInv, VerdictInv
  <2>1. held[r] \in Requests /\ held[r] # Nothing /\ Named(r)
    BY NothingAssumption DEF Inv, PipeInv
  <2>2. held[r] = r
    BY <2>1, LonelyNames DEF SemInv
  <2>3. Coming(r)
    BY <2>1 DEF DueInv, Due
  <2>4. ASSUME NEW p \in Procs, Handles(p, r), work[p].step = "release"
        PROVE  work[p].semaphore = r
    <3>1. /\ work[p].semaphore \in Requests
          /\ SemName(work[p].semaphore) = SemName(r)
      BY <2>4 DEF Inv, PipeInv, SemInv, Handles
    <3> QED  BY <3>1, LonelyNames
  <2> QED  BY <2>2, <2>3, <2>4 DEF Coming
<1>2. Init => SignalInv  BY SignalInit
<1>3. SignalInv /\ [Next]_vars => SignalInv'  BY SignalNext
<1> QED  BY <1>1, <1>2, <1>3, PTL DEF Spec

=============================================================================
