----------------------------- MODULE SpamPipeline -----------------------------
(***************************************************************************)
(* detect_spam (spam_detection_interface.c, interprocess_communication.c)  *)
(* and the loop of the detectors (main.py, interprocess_communication.py), *)
(* together with the processes they run in.  A thread of the server writes *)
(* a message to a shared memory segment, sends the names of segment and    *)
(* semaphore to a detector's queue, and reads the verdict from the segment *)
(* when the detector has signalled the semaphore.                          *)
(***************************************************************************)
EXTENDS DetectorProcesses, Sequences

CONSTANTS
  Requests,   \* calls of detect_spam, each made once at most
  PairOf,     \* the names of the two users of a call, one after the other
  MaxTime,    \* how many times the clock ticks at most
  QueueSize,  \* mq_maxmsg
  Instances,  \* the budgets of faults and the calls that are made
  Nothing     \* no segment, no semaphore, no text

ASSUME PipelineAssumption ==
  /\ MaxTime \in Nat
  /\ QueueSize \in Nat \ {0}
  /\ Instances \subseteq [faults : Nat, calls : SUBSET Requests]

VARIABLES
  now,              \* time(NULL), when it was last read
  currentNumber,    \* of each process, static in loadbalancer
  call,             \* where each call stands
  number,           \* what loadbalancer returned
  smTime, semTime,  \* the times in sm_name and sem_name
  held,             \* the semaphore that sem_open returned
  spam,             \* what was read for a verdict
  shared,           \* history: the calls whose message was written
  mq,               \* the requests in the queue of each slot
  shm,              \* segments: the text under each name
  semaphores,       \* the semaphore under each name
  value,            \* of each semaphore
  work              \* what each detector does

callVars == <<currentNumber, call, number, smTime, semTime, held, spam, shared>>
ipcVars == <<mq, shm, semaphores, value>>
pipeVars == <<now, callVars, ipcVars, work>>
vars == <<procVars, pipeVars>>

Names == {PairOf[r] : r \in Requests} \X (0 .. MaxTime)
SmName(r) == <<PairOf[r], smTime[r]>>
SemName(r) == <<PairOf[r], semTime[r]>>

\* A verdict is written without an end: over a longer text it makes a mixture.
Message(r) == <<"message", r>>
Verdict(r) == <<"verdict", r>>
Mixture == <<"mixture", Nothing>>
\* A segment that was made, but not written, reads as a text without a byte.
Empty == <<"message", Nothing>>
\* What has a client's bytes in it.
Sent == {Message(r) : r \in Requests} \cup {Mixture}
Texts == Sent \cup {Verdict(r) : r \in Requests} \cup {Empty, Verdict(Nothing)}

ASSUME NothingAssumption == Nothing \notin Requests \cup Texts

\* The verdict on what a detector has read.
Judge(text) == IF text[1] = "message" THEN Verdict(text[2]) ELSE Mixture

Idle == [step |-> "receive", req |-> Nothing, text |-> Nothing,
         semaphore |-> Nothing]
Steps == {"receive", "read", "unlink", "write", "semaphore", "release"}
Calling == {"advance", "name", "time", "share", "open", "send", "semaphore",
            "wait", "read", "cleanup"}

\* A semaphore goes by the request whose handling created it.
TypeOK ==
  /\ ProcTypeOK
  /\ now \in 0 .. MaxTime
  /\ currentNumber \in [Procs -> Slots]
  /\ call \in [Requests -> Calling \cup {"never", "start", "returned", "gone"}]
  /\ number \in [Requests -> Slots]
  /\ smTime \in [Requests -> -1 .. MaxTime]
  /\ semTime \in [Requests -> -1 .. MaxTime]
  /\ held \in [Requests -> {Nothing} \cup Requests]
  /\ spam \in [Requests -> {Nothing} \cup Texts]
  /\ shared \subseteq Requests
  /\ mq \in [Slots -> Seq(Requests)]
  /\ shm \in [Names -> {Nothing} \cup Texts]
  /\ semaphores \in [Names -> {Nothing} \cup Requests]
  /\ value \in [Requests -> Nat]
  /\ work \in [Procs -> [step : Steps, req : {Nothing} \cup Requests,
                         text : {Nothing} \cup Texts,
                         semaphore : {Nothing} \cup Requests]]
  /\ \A s \in Slots : Len(mq[s]) <= QueueSize
  \* Only a thread of the server calls, only a detector handles a request.
  /\ \A r \in Requests : call[r] \in Calling => port # NoProcess
  /\ \A p \in Procs : work[p] # Idle => pc[p] = "detect"

Init ==
  /\ ProcInit
  /\ \E i \in Instances :
       /\ faults = i.faults
       /\ call = [r \in Requests |-> IF r \in i.calls THEN "start" ELSE "never"]
  /\ now = 0
  /\ currentNumber = [p \in Procs |-> 0]
  /\ number = [r \in Requests |-> 0]
  /\ smTime = [r \in Requests |-> -1]
  /\ semTime = [r \in Requests |-> -1]
  /\ held = [r \in Requests |-> Nothing]
  /\ spam = [r \in Requests |-> Nothing]
  /\ shared = {}
  /\ mq = [s \in Slots |-> <<>>]
  /\ shm = [n \in Names |-> Nothing]
  /\ semaphores = [n \in Names |-> Nothing]
  /\ value = [r \in Requests |-> 0]
  /\ work = [p \in Procs |-> Idle]

-----------------------------------------------------------------------------
(* A thread of the server: detect_spam *)

Moves(r, from, to) == call[r] = from /\ call' = [call EXCEPT ![r] = to]

\* loadbalancer reads and writes currentNumber without a lock.
ReadNumber(r) ==
  /\ port # NoProcess
  /\ Moves(r, "start", "advance")
  /\ number' = [number EXCEPT ![r] = currentNumber[port]]
  /\ UNCHANGED <<procVars, now, currentNumber, smTime, semTime, held, spam,
                 shared, ipcVars, work>>

AdvanceNumber(r) ==
  /\ Moves(r, "advance", "name")
  /\ currentNumber' =
       [currentNumber EXCEPT ![port] = (number[r] + 1) % NUM_SPAM_DETECTORS]
  /\ UNCHANGED <<procVars, now, number, smTime, semTime, held, spam, shared,
                 ipcVars, work>>

\* Each name has a reading of the clock of its own.  It has no other readers.
NameSegment(r) ==
  /\ Moves(r, "name", "time")
  /\ now' \in now .. MaxTime
  /\ smTime' = [smTime EXCEPT ![r] = now']
  /\ UNCHANGED <<procVars, currentNumber, number, semTime, held, spam, shared,
                 ipcVars, work>>

NameSemaphore(r) ==
  /\ Moves(r, "time", "share")
  /\ now' \in now .. MaxTime
  /\ semTime' = [semTime EXCEPT ![r] = now']
  /\ UNCHANGED <<procVars, currentNumber, number, smTime, held, spam, shared,
                 ipcVars, work>>

\* Mutant: the message is written under the other name.
ShareUnderSemName(r) ==
  /\ Moves(r, "share", "open")
  /\ shm' = [shm EXCEPT ![SemName(r)] = Message(r)]
  /\ shared' = shared \cup {r}
  /\ UNCHANGED <<procVars, now, currentNumber, number, smTime, semTime, held,
                 spam, mq, semaphores, value, work>>

interprocess_shared_memory_send(r) ==
  /\ Moves(r, "share", "open")
  /\ shm' = [shm EXCEPT ![SmName(r)] = Message(r)]
  /\ shared' = shared \cup {r}
  /\ UNCHANGED <<procVars, now, currentNumber, number, smTime, semTime, held,
                 spam, mq, semaphores, value, work>>

\* The segment cannot be made, or only not be mapped: then it is there, with
\* what it had in it or nothing but zeroes.  detect_spam ignores the result.
ShareFails(r) ==
  /\ Fault
  /\ Moves(r, "share", "open")
  /\ \/ UNCHANGED shm
     \/ shm' = [shm EXCEPT ![SmName(r)] = IF @ = Nothing THEN Empty ELSE @]
  /\ UNCHANGED <<pc, iter, spam_detector_process_ids, keepRunning, pending,
                 port, queues, copies, now, currentNumber, number, smTime,
                 semTime, held, spam, shared, mq, semaphores, value, work>>

\* mq_open of interprocess_message_queue_send, whose result is ignored too.
OpenQueue(r) ==
  /\ Moves(r, "open", IF number[r] \in queues THEN "send" ELSE "semaphore")
  /\ UNCHANGED <<procVars, now, currentNumber, number, smTime, semTime, held,
                 spam, shared, ipcVars, work>>

\* mq_send waits while the queue is full.
SendRequest(r) ==
  /\ Moves(r, "send", "semaphore")
  /\ Len(mq[number[r]]) < QueueSize
  /\ mq' = [mq EXCEPT ![number[r]] = Append(@, r)]
  /\ UNCHANGED <<procVars, now, currentNumber, number, smTime, semTime, held,
                 spam, shared, shm, semaphores, value, work>>

\* Mutant: without a semaphore, the segment is read at once.
ReadAnyway(r) ==
  /\ Moves(r, "semaphore",
           IF semaphores[SemName(r)] = Nothing THEN "read" ELSE "wait")
  /\ held' = [held EXCEPT ![r] = semaphores[SemName(r)]]
  /\ UNCHANGED <<procVars, now, currentNumber, number, smTime, semTime, spam,
                 shared, ipcVars, work>>

\* sem_open fails unless the detector was faster.
OpenSemaphore(r) ==
  /\ Moves(r, "semaphore",
           IF semaphores[SemName(r)] = Nothing THEN "returned" ELSE "wait")
  /\ held' = [held EXCEPT ![r] = semaphores[SemName(r)]]
  /\ UNCHANGED <<procVars, now, currentNumber, number, smTime, semTime, spam,
                 shared, ipcVars, work>>

WaitSemaphore(r) ==
  /\ Moves(r, "wait", "read")
  /\ value[held[r]] > 0
  /\ value' = [value EXCEPT ![held[r]] = @ - 1]
  /\ UNCHANGED <<procVars, now, currentNumber, number, smTime, semTime, held,
                 spam, shared, mq, shm, semaphores, work>>

\* A text longer than spam[2] may also end the server: see ServerDies.
ReadVerdict(r) ==
  /\ Moves(r, "read",
           IF shm[SmName(r)] = Nothing THEN "returned" ELSE "cleanup")
  /\ spam' = [spam EXCEPT ![r] = shm[SmName(r)]]
  /\ UNCHANGED <<procVars, now, currentNumber, number, smTime, semTime, held,
                 shared, ipcVars, work>>

\* The segment cannot be opened or mapped, and nothing is cleaned up.
ReadFails(r) ==
  /\ Fault
  /\ Moves(r, "read", "returned")
  /\ UNCHANGED <<pc, iter, spam_detector_process_ids, keepRunning, pending,
                 port, queues, copies, now, currentNumber, number, smTime,
                 semTime, held, spam, shared, ipcVars, work>>

\* sem_unlink is given the name of the segment.  The segment stays.
Cleanup(r) ==
  /\ Moves(r, "cleanup", "returned")
  /\ semaphores' = [semaphores EXCEPT ![SmName(r)] = Nothing]
  /\ UNCHANGED <<procVars, now, currentNumber, number, smTime, semTime, held,
                 spam, shared, mq, shm, value, work>>

CallStep(r) ==
  \/ ReadNumber(r) \/ AdvanceNumber(r) \/ NameSegment(r) \/ NameSemaphore(r)
  \/ interprocess_shared_memory_send(r) \/ ShareFails(r)
  \/ OpenQueue(r) \/ SendRequest(r)
  \/ OpenSemaphore(r) \/ WaitSemaphore(r) \/ ReadVerdict(r) \/ ReadFails(r)
  \/ Cleanup(r)

-----------------------------------------------------------------------------
(* What a process takes with it when it ends, or makes when it starts *)

\* The queues have the requests of m in them, or are new.
FollowWith(m) ==
  /\ call' = [r \in Requests |->
                IF call[r] \in Calling /\ port' = NoProcess THEN "gone"
                                                            ELSE call[r]]
  /\ work' = [p \in Procs |-> IF pc'[p] = "detect" THEN work[p] ELSE Idle]
  /\ mq' = [s \in Slots |-> IF s \in queues' \ queues THEN <<>> ELSE m[s]]
  /\ UNCHANGED <<now, currentNumber, number, smTime, semTime, held, spam, shared,
                 shm, semaphores, value>>

Follow == FollowWith(mq)

-----------------------------------------------------------------------------
(* A detector: SpamDetector.run *)

At(p, step) == pc[p] = "detect" /\ work[p].step = step
Then(p, step) == work' = [work EXCEPT ![p].step = step]
Request(p) == work[p].req
Segment(p) == shm[SmName(Request(p))]

ReceiveRequest(p) ==
  /\ At(p, "receive")
  /\ mq[Slot(p)] # <<>>
  /\ work' = [work EXCEPT ![p].step = "read", ![p].req = Head(mq[Slot(p)])]
  /\ mq' = [mq EXCEPT ![Slot(p)] = Tail(@)]
  /\ UNCHANGED <<procVars, now, callVars, shm, semaphores, value>>

ReadMessage(p) ==
  /\ At(p, "read")
  /\ Segment(p) # Nothing
  /\ work' = [work EXCEPT ![p].step = "unlink", ![p].text = Segment(p)]
  /\ UNCHANGED <<procVars, now, callVars, ipcVars>>

unlink_shared_memory(p) ==
  /\ At(p, "unlink")
  /\ Segment(p) # Nothing
  /\ Then(p, "write")
  /\ shm' = [shm EXCEPT ![SmName(Request(p))] = Nothing]
  /\ UNCHANGED <<procVars, now, callVars, mq, semaphores, value>>

\* An exception that nobody catches ends the detector.
Raises(p) ==
  /\ Ends(p, "gone")
  /\ UNCHANGED <<iter, spam_detector_process_ids, keepRunning, queues, copies>>

\* The request, which is taken, is not two names: one of them may hold a "|".
UnpackFails(p) ==
  /\ At(p, "receive")
  /\ mq[Slot(p)] # <<>>
  /\ Raises(p)
  /\ UNCHANGED faults
  /\ FollowWith([mq EXCEPT ![Slot(p)] = Tail(@)])

\* What a client has sent is not UTF-8.  The segment stays.
DecodeFails(p) ==
  /\ At(p, "read")
  /\ Segment(p) \in Sent
  /\ Raises(p)
  /\ UNCHANGED faults
  /\ Follow

\* The segment is not there.
NoSegment(p) ==
  /\ At(p, "read") \/ At(p, "unlink")
  /\ Segment(p) = Nothing
  /\ Raises(p)
  /\ UNCHANGED faults
  /\ Follow

\* The model cannot be loaded, or does not take the text.
ClassifyFails(p) ==
  /\ At(p, "write")
  /\ Fault
  /\ Raises(p)
  /\ Follow

WriteVerdict(p) ==
  /\ At(p, "write")
  /\ Then(p, "semaphore")
  /\ shm' = [shm EXCEPT ![SmName(Request(p))] =
               IF @ \in Sent THEN Mixture ELSE Judge(work[p].text)]
  /\ UNCHANGED <<procVars, now, callVars, mq, semaphores, value>>

\* Its value is 0 when it is new.
CreateSemaphore(p) ==
  /\ At(p, "semaphore")
  /\ semaphores' = [semaphores EXCEPT ![SemName(Request(p))] =
                      IF @ = Nothing THEN Request(p) ELSE @]
  /\ work' = [work EXCEPT ![p].step = "release",
                          ![p].semaphore = semaphores'[SemName(Request(p))]]
  /\ UNCHANGED <<procVars, now, callVars, mq, shm, value>>

\* Mutant: the semaphore is closed without being signalled.
CloseOnly(p) ==
  /\ At(p, "release")
  /\ work' = [work EXCEPT ![p] = Idle]
  /\ UNCHANGED <<procVars, now, callVars, ipcVars>>

\* The semaphore that was opened, whatever its name stands for by now.
Release(p) ==
  /\ At(p, "release")
  /\ work' = [work EXCEPT ![p] = Idle]
  /\ value' = [value EXCEPT ![work[p].semaphore] = @ + 1]
  /\ UNCHANGED <<procVars, now, callVars, mq, shm, semaphores>>

Dies(p) ==
  UnpackFails(p) \/ DecodeFails(p) \/ NoSegment(p) \/ ClassifyFails(p)

DetectorStep(p) ==
  \/ ReceiveRequest(p) \/ ReadMessage(p) \/ unlink_shared_memory(p) \/ Dies(p)
  \/ WriteVerdict(p) \/ CreateSemaphore(p) \/ Release(p)

-----------------------------------------------------------------------------
(* The service *)

\* What processes and threads do by themselves.  Nobody has to connect to a
\* server that waits in accept, so Leave is not among it.
Step ==
  \/ (\E p \in Procs : ProcStep(p)) /\ Follow
  \/ \E r \in Requests : CallStep(r)
  \/ \E p \in Procs : DetectorStep(p)

Next ==
  \/ Step
  \/ (Interrupt \/ \E p \in Procs : Leave(p) \/ ServerDies(p)) /\ Follow

Spec == Init /\ [][Next]_vars

\* Whatever can run does.  No step can be taken again and again, so that it
\* need not be asked of each process and thread.
Fairness == WF_vars(Step)

FairSpec == Spec /\ Fairness

-----------------------------------------------------------------------------
(* Properties *)

\* No other call has a name of this one.
Lonely(r) ==
  \A q \in Requests \ {r} :
    PairOf[q] = PairOf[r] => {smTime[q], semTime[q]} \cap {smTime[r], semTime[r]} = {}

\* What the thread of a call leaves in the segment, its message or, when that
\* fails, no segment or one that is empty, and the verdict on it.
Written(r) == IF r \in shared THEN {Message(r)} ELSE {Nothing, Empty}
Verdicts(r) == {Judge(text) : text \in Written(r) \ {Nothing}}

\* A call that shares its names with no other reads nothing or the verdict on
\* what its thread has written, its message if it could: not the message itself,
\* which lies in the same segment until the detector replaces it, nor what is
\* left there (interprocess_communication.c:51-82,
\* interprocess_communication.py:70-90).
OwnVerdict ==
  \A r \in Requests : Lonely(r) => spam[r] \in {Nothing} \cup Verdicts(r)

\* A detector that takes up such a call finds in its segment what the thread has
\* written, until it unlinks the segment; what it judges is that text, and the
\* verdict goes to a segment that is new, where no longer text shows behind it
\* (main.py:27-29).  The thread goes on meanwhile, and so do other threads and
\* detectors, without a lock.
DetectorFindsMessage ==
  \A p \in Procs :
    work[p].step # "receive" /\ Lonely(Request(p)) =>
      /\ work[p].step = "read" => Segment(p) \in Written(Request(p))
      /\ work[p].step = "unlink" =>
           work[p].text \in Written(Request(p)) /\ Segment(p) = work[p].text
      /\ work[p].step = "write" =>
           work[p].text \in Written(Request(p)) /\ Segment(p) = Nothing

\* The detector of a slot has ended, or was never one.
DetectorLost(s) ==
  \E p \in Procs \ {Root} :
    /\ Slot(p) = s
    /\ pc[p] \notin {"none", "child", "load", "detect"}

\* When such a call waits for its semaphore, the signal is there, or a detector
\* has the same semaphore and is about to give it, or the detector of the slot
\* has ended: the detector may make the semaphore before or after the thread
\* asks for it, and others come and go under their names, but no signal goes to
\* another semaphore or to another thread (interprocess_communication.c:51-62,
\* interprocess_communication.py:78-90).
SignalComes ==
  \A r \in Requests :
    call[r] = "wait" /\ Lonely(r) =>
      \/ value[held[r]] > 0
      \/ \E p \in Procs :
           work[p].step = "release" /\ work[p].semaphore = held[r]
      \/ DetectorLost(number[r])

\* A call that shares its names with no other does not wait for ever, on a full
\* queue or on its semaphore, if the detector of its slot lives
\* (interprocess_communication.c:59 and 151 have no time limit).
CallReturns ==
  \A r \in Requests :
    call[r] \in Calling
      ~> (call[r] \notin Calling \/ ~Lonely(r) \/ DetectorLost(number[r]))

\* A server that stops its detectors has a SIGINT on its way to each one that it
\* has come to and that still lives, also to those that were still starting: the
\* wait that follows, which has no limit (process_handler.c:57-85), is for none
\* that has not been told to end.  Servers with a copy are excepted: a copy is
\* told, but may go on.
AwaitedAreSignalled ==
  pc[Root] = "stop" /\ copies = {} =>
    \A p \in Alive \ {Root} : Slot(p) < iter[Root] => p \in pending

\* Once the server has left its loop, all processes end, although it waits for
\* them without a limit (process_handler.c:82): also detectors that were still
\* starting, and also when forks failed, for which it signals the whole group,
\* itself included (process_handler.c:60).  A copy of the server, or a SIGPIPE
\* before the detectors have been signalled, may leave processes behind.
StopEnds ==
  pc[Root] = "stop" ~> (Alive = {} \/ pc[Root] = "killed" \/ copies # {})

=============================================================================
