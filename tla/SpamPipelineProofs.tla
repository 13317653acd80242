------------------------- MODULE SpamPipelineProofs -------------------------
(***************************************************************************)
(* The types of SpamPipeline, for any number of detectors, any calls and   *)
(* any length of the queues, with what the steps of a call and of a        *)
(* detector rely on, and AwaitedAreSignalled.  The steps of                *)
(* DetectorProcesses, which has no specification of its own, come first.   *)
(* SpamVerdictProofs and SpamSignalProofs go on here.                      *)
(***************************************************************************)
EXTENDS SpamPipeline, FiniteSetTheorems, SequenceTheorems, TLAPS

USE DEF Serving, NoProcess, Root

\* The slots that a process has yet to fork at begin here.
FirstSlot(p) == IF pc[p] = "child" THEN iter[p] + 1 ELSE iter[p]

\* A process forks at every slot once: whatever it and its children may yet
\* fork has not been started, so that no process is started twice and no
\* child has the name of the server that listens.
TreeInv ==
  /\ \A p \in Procs : pc[p] \in {"fork", "child"} =>
       /\ \A k \in p : k < FirstSlot(p)
       /\ \A q \in Procs :
            p \subseteq q /\ p # q /\ (\A k \in q \ p : k >= FirstSlot(p))
              => pc[q] = "none"
  /\ \A p \in Procs : pc[p] = "child" => iter[p] \in Slots
  /\ \A p \in Procs : pc[p] \in {"child", "load", "detect"} => p # Root

ProcInv == ProcTypeOK /\ TreeInv

-----------------------------------------------------------------------------
(* Slots and processes *)

\* Every set of slots that is not empty has a greatest one.
LEMMA SlotType == ASSUME NEW p \in Procs, p # Root PROVE Slot(p) \in p
<1> DEFINE Above(k) == {j \in p : j > k}
           R == StrictSubsetOrdering(p)
           S == FiniteSubsetsOf(p)
           T == {Above(k) : k \in p}
<1>1. \A k \in p : k \in Int
  BY DEF Procs, Slots
<1>2. T # {} /\ T \subseteq S
  <2>1. IsFiniteSet(p)
    <3>1. IsFiniteSet(Slots)
      BY ProcessAssumption, FS_Interval DEF Slots
    <3> QED  BY <3>1, FS_Subset DEF Procs
  <2>2. ASSUME NEW k \in p PROVE Above(k) \in S
    <3>1. IsFiniteSet(Above(k))
      BY <2>1, FS_Subset
    <3> QED  BY <3>1 DEF FiniteSubsetsOf
  <2> HIDE DEF S, Above
  <2>3. T # {}
    OBVIOUS
  <2> QED  BY <2>2, <2>3
<1>3. PICK t \in T : \A u \in T : ~ (<<u, t>> \in R)
  <2>1. IsWellFoundedOn(R, S)
    BY FS_StrictSubsetOrderingWellFounded
  <2> HIDE DEF T, R, S
  <2> QED  BY <1>2, <2>1, WFMin
<1>4. PICK k \in p : t = Above(k)
  BY <1>3
<1>5. \A j \in p : k >= j
  <2> SUFFICES ASSUME NEW j \in p, j > k PROVE FALSE
    BY <1>1
  <2>1. Above(j) \subseteq Above(k) /\ j \in Above(k) /\ j \notin Above(j)
    BY <1>1
  <2>2. <<Above(j), Above(k)>> \in R
    BY <2>1 DEF StrictSubsetOrdering
  <2> QED  BY <1>3, <1>4, <2>2
<1> QED  BY <1>5 DEF Slot, Max

LEMMA SlotOfProcess == ASSUME NEW p \in Procs, p # Root PROVE Slot(p) \in Slots
BY SlotType DEF Procs

LEMMA NoProcessIsNone == NoProcess \notin Procs
BY DEF Procs, Slots

-----------------------------------------------------------------------------
(* The process tree *)

\* Steps that start no process, and in which none goes back to forking.
LEMMA TreeKept ==
  ASSUME ProcTypeOK, ProcTypeOK', TreeInv,
         \A q \in Procs :
           /\ pc[q] = "none" => pc'[q] = "none"
           /\ pc'[q] \in {"fork", "child"} =>
                pc[q] \in {"fork", "child"} /\ FirstSlot(q)' >= FirstSlot(q)
           /\ pc'[q] = "child" => pc[q] = "child" /\ iter'[q] = iter[q]
           /\ pc'[q] \in {"load", "detect"} =>
                pc[q] \in {"child", "load", "detect"}
  PROVE  TreeInv'
<1>1. \A q \in Procs : \A k \in q : k \in Int
  BY DEF Procs, Slots
<1>2. \A q \in Procs : FirstSlot(q) \in Int /\ FirstSlot(q)' \in Int
  BY ProcessAssumption DEF ProcTypeOK, FirstSlot
<1> HIDE DEF FirstSlot
<1>3. ASSUME NEW p \in Procs, pc'[p] \in {"fork", "child"}
      PROVE  /\ \A k \in p : k < FirstSlot(p)'
             /\ \A q \in Procs :
                  p \subseteq q /\ p # q /\ (\A k \in q \ p : k >= FirstSlot(p)')
                    => pc'[q] = "none"
  BY <1>1, <1>2, <1>3 DEF TreeInv
<1>4. \A p \in Procs : pc'[p] = "child" => iter'[p] \in Slots
  BY DEF TreeInv
<1>5. \A p \in Procs : pc'[p] \in {"child", "load", "detect"} => p # Root
  BY DEF TreeInv
<1> QED  BY <1>3, <1>4, <1>5 DEF TreeInv

\* The child has the name of no process that was started or that another one
\* may yet start.
LEMMA ForkStep == ASSUME ProcInv, NEW p \in Procs, Fork(p) PROVE ProcInv'
<1> USE DEF ProcInv
<1>0. PICK i \in Slots : i = iter[p]
  BY DEF Fork
<1> DEFINE child == p \cup {i}
<1>1. /\ pc[p] = "fork" /\ i \in Slots /\ i \in Int /\ child \in Procs
      /\ \A q \in Procs : \A k \in q : k \in Int
  BY <1>0 DEF Fork, Procs, Slots
<1>2. i \notin p /\ child # p /\ p \subseteq child /\ child \ p = {i}
      /\ \A k \in p : k < i
  BY <1>0, <1>1 DEF TreeInv, FirstSlot
<1>3. pc[child] = "none"
  BY <1>0, <1>1, <1>2 DEF TreeInv, FirstSlot
<1>4. /\ pc' = [pc EXCEPT ![child] = "child"]
      /\ iter' = [iter EXCEPT ![child] = i, ![p] = @ + 1]
      /\ spam_detector_process_ids' =
           [spam_detector_process_ids EXCEPT
              ![child] = spam_detector_process_ids[p], ![p][i] = child]
      /\ UNCHANGED <<keepRunning, pending, port, queues, copies, faults>>
  BY <1>0 DEF Fork
<1> HIDE DEF child
<1>5. ProcTypeOK'
  <2> USE ProcessAssumption DEF ProcTypeOK
  <2>1. pc' \in [Procs -> Serving \cup {"none", "fork", "child", "load",
                                        "detect", "gone", "killed"}]
    BY <1>1, <1>4
  <2>2. i + 1 \in 0 .. NUM_SPAM_DETECTORS /\ i \in 0 .. NUM_SPAM_DETECTORS
    BY <1>1 DEF Slots
  <2>3. iter' \in [Procs -> 0 .. NUM_SPAM_DETECTORS]
    BY <1>0, <1>1, <1>2, <1>4, <2>2
  <2>4. spam_detector_process_ids' \in [Procs -> [Slots -> Procs \cup {NoProcess}]]
    BY <1>1, <1>2, <1>4
  <2>5. pending' \subseteq Alive'
    BY <1>1, <1>4 DEF Alive
  <2>6. port' # NoProcess => pc'[port'] \in Serving
    BY <1>3, <1>4
  <2> QED  BY <1>4, <2>1, <2>3, <2>4, <2>5, <2>6
<1>6. /\ pc'[child] = "child" /\ iter'[child] = i
      /\ pc'[p] = "fork" /\ iter'[p] = i + 1
      /\ \A q \in Procs \ {p, child} : pc'[q] = pc[q] /\ iter'[q] = iter[q]
  BY <1>0, <1>1, <1>2, <1>4 DEF ProcTypeOK
<1>7. /\ FirstSlot(child)' = i + 1 /\ FirstSlot(p)' = i + 1
      /\ \A q \in Procs \ {p, child} : FirstSlot(q)' = FirstSlot(q)
      /\ FirstSlot(p) = i
      /\ \A q \in Procs : FirstSlot(q) \in Int
  BY <1>0, <1>1, <1>6, ProcessAssumption DEF FirstSlot, ProcTypeOK
<1>8. ASSUME NEW q \in Procs, pc'[q] \in {"fork", "child"}
      PROVE  \A k \in q : k < FirstSlot(q)'
  <2>1. CASE q = p  BY <1>1, <1>2, <1>7, <2>1
  <2>2. CASE q = child
    BY <1>1, <1>2, <1>7, <2>2 DEF child
  <2>3. CASE q \notin {p, child}
    BY <1>6, <1>7, <1>8, <2>3 DEF TreeInv
  <2> QED  BY <2>1, <2>2, <2>3
<1>9. ASSUME NEW q \in Procs, pc'[q] \in {"fork", "child"}, NEW x \in Procs,
             q \subseteq x, q # x, \A k \in x \ q : k >= FirstSlot(q)'
      PROVE  pc'[x] = "none"
  <2>1. CASE q = p
    <3>1. i \notin x  BY <1>1, <1>2, <1>7, <1>9, <2>1
    <3>2. x # child /\ x # p  BY <3>1, <1>9, <2>1 DEF child
    <3>3. \A k \in x \ p : k >= FirstSlot(p)
      BY <1>1, <1>7, <1>9, <2>1
    <3> QED  BY <1>1, <1>6, <1>9, <2>1, <3>2, <3>3 DEF TreeInv
  <2>2. CASE q = child
    <3>1. ASSUME NEW k \in x \ p PROVE k >= FirstSlot(p)
      <4>1. k \in Int  BY <1>1
      <4>2. CASE k = i  BY <1>1, <1>7, <4>2
      <4>3. CASE k # i
        <5>1. k \in x \ child  BY <4>3 DEF child
        <5>2. k >= FirstSlot(child)'  BY <1>9, <2>2, <5>1
        <5> QED  BY <1>1, <1>7, <4>1, <5>2
      <4> QED  BY <4>2, <4>3
    <3>2. p \subseteq x /\ x # p /\ x # child
      BY <1>2, <1>9, <2>2
    <3> QED  BY <1>1, <1>6, <3>1, <3>2 DEF TreeInv
  <2>3. CASE q \notin {p, child}
    <3>1. /\ pc[q] \in {"fork", "child"}
          /\ \A k \in x \ q : k >= FirstSlot(q)
          /\ \A k \in q : k < FirstSlot(q)
      BY <1>6, <1>7, <1>9, <2>3 DEF TreeInv
    <3>2. pc[x] = "none"
      BY <1>9, <3>1 DEF TreeInv
    <3>3. x # child
      <4> SUFFICES ASSUME x = child PROVE FALSE
        OBVIOUS
      <4>1. i \notin q
        <5> SUFFICES ASSUME i \in q PROVE FALSE
          OBVIOUS
        <5>1. PICK k \in child : k \notin q
          BY <1>9
        <5>2. k \in p
          BY <5>1 DEF child
        <5> QED  BY <1>1, <1>2, <1>7, <1>9, <3>1, <5>1, <5>2
      <4>2. q \subseteq p /\ p \ q \subseteq x \ q
        BY <4>1, <1>9 DEF child
      <4> QED  BY <1>1, <2>3, <3>1, <4>2 DEF TreeInv
    <3> QED  BY <1>1, <1>6, <3>2, <3>3
  <2> QED  BY <2>1, <2>2, <2>3
<1>10. \A q \in Procs : pc'[q] = "child" => iter'[q] \in Slots
  BY <1>1, <1>6 DEF TreeInv
<1>11. \A q \in Procs : pc'[q] \in {"child", "load", "detect"} => q # Root
  <2>1. child # Root  BY DEF child
  <2> QED  BY <1>1, <1>6, <2>1 DEF TreeInv
<1> QED  BY <1>5, <1>8, <1>9, <1>10, <1>11 DEF TreeInv

-----------------------------------------------------------------------------
(* The other steps of the processes *)

\* A living process ends.
LEMMA EndStep ==
  ASSUME ProcTypeOK, NEW p \in Alive, NEW how \in {"gone", "killed"},
         Ends(p, how),
         UNCHANGED <<iter, spam_detector_process_ids, keepRunning, queues, copies>>,
         faults' \in Nat
  PROVE  ProcTypeOK' /\ (TreeInv => TreeInv')
<1>1. ProcTypeOK'
  BY DEF ProcTypeOK, Ends, Goes, Alive
<1>2. /\ p \in Procs /\ pc[p] # "none"
      /\ pc' = [pc EXCEPT ![p] = how]
  BY DEF Alive, Ends, Goes
<1>3. ASSUME NEW q \in Procs
      PROVE  /\ pc[q] = "none" => pc'[q] = "none"
             /\ pc'[q] \in {"fork", "child", "load", "detect"} =>
                  pc'[q] = pc[q] /\ FirstSlot(q)' = FirstSlot(q)
  BY <1>2 DEF ProcTypeOK, FirstSlot
<1>4. \A q \in Procs : FirstSlot(q) \in Int
  BY ProcessAssumption DEF ProcTypeOK, FirstSlot
<1>5. ASSUME TreeInv PROVE TreeInv'
  <2> HIDE DEF FirstSlot
  <2>1. \A q \in Procs :
          /\ pc[q] = "none" => pc'[q] = "none"
          /\ pc'[q] \in {"fork", "child"} =>
               pc[q] \in {"fork", "child"} /\ FirstSlot(q)' >= FirstSlot(q)
          /\ pc'[q] = "child" => pc[q] = "child" /\ iter'[q] = iter[q]
          /\ pc'[q] \in {"load", "detect"} =>
               pc[q] \in {"child", "load", "detect"}
    BY <1>3, <1>4
  <2> QED  BY <1>1, <1>5, <2>1, TreeKept
<1> QED  BY <1>1, <1>5

\* The steps of a process that is there.
LEMMA StepType ==
  ASSUME ProcInv, NEW p \in Procs,
         ProcStep(p) \/ Leave(p) \/ ServerDies(p)
  PROVE  ProcInv'
<1> USE DEF ProcInv
<1>1. CASE Fork(p)
  BY <1>1, ForkStep
<1>2. CASE LoadFails(p)
  BY <1>2, EndStep DEF LoadFails, Fault, ProcTypeOK, Alive
<1>3. CASE MainReturns(p)
  BY <1>3, EndStep DEF MainReturns, ProcTypeOK, Alive
<1>4. CASE ServerDies(p)
  <2>1. p \in Alive
    BY <1>4, NoProcessIsNone DEF ServerDies, ProcTypeOK, Alive
  <2> QED  BY <1>4, <2>1, EndStep DEF ServerDies, Fault, ProcTypeOK
<1>5. CASE Deliver(p) /\ pc[p] \notin Serving
  BY <1>5, EndStep DEF Deliver, ProcTypeOK, Alive
<1>6. CASE \/ ForkFails(p) \/ start_spam_detector_process(p) \/ ExecFails(p)
           \/ Load(p) \/ Bind(p) \/ BindFails(p) \/ stop_spam_detector(p)
           \/ Deliver(p) /\ pc[p] \in Serving
           \/ Leave(p)
  <2>1. ProcTypeOK'
    <3> DEFINE to == pc'[p]
    <3>1. /\ pc' = [pc EXCEPT ![p] = to]
          /\ p \in Alive
          /\ to \in Serving \cup {"fork", "load", "detect"}
      BY <1>6
         DEF ForkFails, start_spam_detector_process, ExecFails, Child, Load, Bind,
             BindFails, stop_spam_detector, Deliver, Leave, StartsToStop, Goes,
             ProcTypeOK, Alive
    <3>2. Alive' = Alive
      BY <3>1 DEF Alive, ProcTypeOK
    <3> HIDE DEF to
    <3> USE ProcessAssumption DEF ProcTypeOK
    <3>3. CASE ForkFails(p)
      BY <3>2, <3>3 DEF ForkFails, Fault, Slots
    <3>4. CASE start_spam_detector_process(p) \/ ExecFails(p)
      <4>1. p # Root /\ iter[p] \in Slots /\ port # p
        BY <3>4, NoProcessIsNone
           DEF TreeInv, start_spam_detector_process, ExecFails, Child
      <4>2. Slot(p) \in Slots
        BY <4>1, SlotOfProcess
      <4>3. iter[p] + 1 \in 0 .. NUM_SPAM_DETECTORS
        BY <4>1 DEF Slots
      <4>4. /\ queues' = queues \cup {Slot(p)}
            /\ UNCHANGED <<spam_detector_process_ids, keepRunning, pending, port>>
        BY <3>4
           DEF start_spam_detector_process, ExecFails, Child,
               interprocess_open_message_queue
      <4>5. iter' \in [Procs -> 0 .. NUM_SPAM_DETECTORS]
        BY <3>4, <4>3 DEF start_spam_detector_process, ExecFails
      <4>6. copies' \subseteq Procs \ {Root} /\ faults' \in Nat
        BY <3>4, <4>1 DEF start_spam_detector_process, ExecFails, Fault
      <4> QED  BY <3>1, <3>2, <4>1, <4>2, <4>4, <4>5, <4>6
    <3>5. CASE Load(p)
      <4>1. p # Root /\ port # p
        BY <3>5, NoProcessIsNone DEF TreeInv, Load
      <4>2. Slot(p) \in Slots
        BY <4>1, SlotOfProcess
      <4> QED
        BY <3>2, <3>5, <4>1, <4>2
           DEF Load, Goes, interprocess_open_message_queue
    <3>6. CASE Bind(p) \/ BindFails(p) \/ Leave(p)
      <4>1. CASE Bind(p)
        BY <3>2, <4>1 DEF Bind, Goes
      <4>2. CASE BindFails(p) \/ Leave(p)
        <5>1. faults' \in Nat
          BY <4>2 DEF BindFails, Leave, Fault
        <5>2. /\ pc' = [pc EXCEPT ![p] = "stop"]
              /\ iter' = [iter EXCEPT ![p] = 0]
              /\ UNCHANGED <<spam_detector_process_ids, keepRunning, pending,
                             port, queues, copies>>
          BY <4>2 DEF BindFails, Leave, StartsToStop, Goes
        <5> QED  BY <3>2, <5>1, <5>2
      <4> QED  BY <3>6, <4>1, <4>2
    <3>7. CASE stop_spam_detector(p)
      <4>1. iter[p] + 1 \in 0 .. NUM_SPAM_DETECTORS
        BY <3>7 DEF stop_spam_detector, Slots
      <4>2. queues' \subseteq Slots
        BY <3>7 DEF stop_spam_detector, interprocess_message_queue_cleanup
      <4>3. pending' \subseteq Alive
        BY <3>7 DEF stop_spam_detector, Reached
      <4> QED  BY <3>2, <3>7, <4>1, <4>2, <4>3 DEF stop_spam_detector
    <3>8. CASE Deliver(p) /\ pc[p] \in Serving
      BY <3>2, <3>8 DEF Deliver
    <3> QED  BY <1>6, <3>3, <3>4, <3>5, <3>6, <3>7, <3>8
  <2>2. ASSUME NEW q \in Procs
        PROVE  /\ pc[q] = "none" => pc'[q] = "none"
               /\ pc'[q] \in {"fork", "child"} =>
                    pc[q] \in {"fork", "child"} /\ FirstSlot(q)' >= FirstSlot(q)
               /\ pc'[q] = "child" => pc[q] = "child" /\ iter'[q] = iter[q]
               /\ pc'[q] \in {"load", "detect"} =>
                    pc[q] \in {"child", "load", "detect"}
    <3>1. \A x \in Procs : iter[x] \in Int
      BY ProcessAssumption DEF ProcTypeOK
    <3> USE DEF ProcTypeOK
    <3> QED
      BY <1>6, <3>1
         DEF ForkFails, start_spam_detector_process, ExecFails, Child, Load, Bind,
             BindFails, stop_spam_detector, Deliver, Leave, StartsToStop, Goes,
             FirstSlot
  <2> QED  BY <2>1, <2>2, TreeKept
<1> QED
  BY <1>1, <1>2, <1>3, <1>4, <1>5, <1>6 DEF ProcStep

LEMMA InterruptStep == ASSUME ProcInv, Interrupt PROVE ProcInv'
<1>1. UNCHANGED <<pc, iter>>
  BY DEF Interrupt
<1>2. ProcTypeOK'
  <2>1. Alive' = Alive
    BY <1>1 DEF Alive
  <2>2. pending' \subseteq Alive
    BY DEF ProcInv, ProcTypeOK, Interrupt
  <2>3. /\ UNCHANGED <<spam_detector_process_ids, keepRunning, port, queues,
                       copies>>
        /\ faults' \in Nat
    BY DEF ProcInv, ProcTypeOK, Interrupt, Fault
  <2> QED  BY <1>1, <2>1, <2>2, <2>3 DEF ProcInv, ProcTypeOK
<1>3. TreeInv'
  BY <1>1 DEF ProcInv, TreeInv, FirstSlot
<1> QED  BY <1>2, <1>3 DEF ProcInv

LEMMA ProcStart == ASSUME ProcInit, faults \in Nat PROVE ProcInv
<1>1. ProcTypeOK
  BY ProcessAssumption DEF ProcInit, ProcTypeOK, Procs, Alive
<1>2. TreeInv
  BY ProcessAssumption DEF ProcInit, TreeInv, FirstSlot, Procs
<1> QED  BY <1>1, <1>2 DEF ProcInv

LEMMA ProcStays == ASSUME ProcInv, UNCHANGED procVars PROVE ProcInv'
BY DEF ProcInv, ProcTypeOK, TreeInv, procVars, Alive, FirstSlot

-----------------------------------------------------------------------------
(* The calls and the detectors *)

USE DEF Steps, Calling

\* Before that nothing has the names of the call, and nobody knows of it.
Named(r) == semTime[r] # -1

\* What the steps of a call and of a detector rely on.
PipeInv ==
  /\ \A r \in Requests :
       call[r] \in {"never", "start", "advance", "name", "time"} => ~Named(r)
  /\ \A r \in Requests :
       call[r] \in {"never", "start", "advance", "name"} => smTime[r] = -1
  /\ \A r \in Requests : call[r] = "time" => smTime[r] # -1
  /\ \A r \in Requests : call[r] \in Calling \ {"advance", "name", "time"} => Named(r)
  /\ \A r \in Requests : Named(r) => smTime[r] # -1
  /\ \A r \in Requests : ~Named(r) => spam[r] = Nothing /\ r \notin shared
  /\ \A r \in Requests : call[r] = "share" => spam[r] = Nothing
  /\ \A r \in Requests : call[r] = "wait" => held[r] \in Requests
  /\ \A s \in Slots : \A i \in 1 .. Len(mq[s]) : Named(mq[s][i])
  /\ \A p \in Procs : work[p].step # "receive" =>
       work[p].req \in Requests /\ Named(work[p].req)
  /\ \A p \in Procs : work[p].step \in {"unlink", "write"} =>
       work[p].text \in Texts
  /\ \A p \in Procs : work[p].step = "release" => work[p].semaphore \in Requests

Inv == ProcInv /\ TypeOK /\ PipeInv

-----------------------------------------------------------------------------
(* Types *)

LEMMA NextNumber ==
  ASSUME NEW n \in Slots
  PROVE  (n + 1) % NUM_SPAM_DETECTORS \in Slots
BY ProcessAssumption DEF Slots

LEMMA NamesInUse ==
  ASSUME TypeOK, PipeInv, NEW r \in Requests, Named(r)
  PROVE  SmName(r) \in Names /\ SemName(r) \in Names
<1>1. smTime[r] \in 0 .. MaxTime /\ semTime[r] \in 0 .. MaxTime
  BY PipelineAssumption DEF TypeOK, PipeInv, Named
<1> QED  BY <1>1 DEF SmName, SemName, Names

LEMMA JudgeType == ASSUME NEW text \in Texts PROVE Judge(text) \in Texts
<1>1. CASE \E r \in Requests : text = Message(r)
  BY <1>1 DEF Judge, Texts, Message, Verdict
<1>2. CASE \E r \in Requests : text = Verdict(r)
  BY <1>2 DEF Judge, Texts, Sent, Message, Verdict
<1>3. CASE text \in {Mixture, Empty, Verdict(Nothing)}
  BY <1>3 DEF Judge, Texts, Sent, Message, Verdict, Mixture, Empty
<1> QED  BY <1>1, <1>2, <1>3 DEF Texts, Sent

LEMMA TypeInit == Init => Inv
<1> SUFFICES ASSUME Init PROVE Inv
  OBVIOUS
<1>1. PICK i \in Instances :
        /\ faults = i.faults
        /\ call = [r \in Requests |-> IF r \in i.calls THEN "start" ELSE "never"]
  BY DEF Init
<1>2. faults \in Nat
  BY <1>1, PipelineAssumption
<1>3. ProcInv
  BY <1>2, ProcStart DEF Init
<1>4. 0 \in Slots /\ 0 \in 0 .. MaxTime /\ -1 \in -1 .. MaxTime
  BY ProcessAssumption, PipelineAssumption DEF Slots
<1>5. TypeOK
  BY <1>1, <1>3, <1>4, PipelineAssumption DEF Init, TypeOK, Idle, ProcInv
<1>6. PipeInv
  BY <1>1 DEF Init, PipeInv, Named, Idle
<1> QED  BY <1>3, <1>5, <1>6 DEF Inv

\* The steps of a thread of the server.
LEMMA CallType == ASSUME Inv, NEW r \in Requests, CallStep(r) PROVE Inv'
<1> USE DEF Inv
<1>1. ProcInv'
  <2>1. CASE ShareFails(r) \/ ReadFails(r)
    BY <2>1 DEF ShareFails, ReadFails, Fault, ProcInv, ProcTypeOK, TreeInv, Alive,
                FirstSlot
  <2>2. CASE ~ShareFails(r) /\ ~ReadFails(r)
    <3>1. UNCHANGED procVars
      BY <2>2 DEF CallStep, ReadNumber, AdvanceNumber, NameSegment,
                  NameSemaphore, interprocess_shared_memory_send, OpenQueue,
                  SendRequest, OpenSemaphore, WaitSemaphore, ReadVerdict,
                  ReadFails, Cleanup
    <3> QED  BY <3>1, ProcStays
  <2> QED  BY <2>1, <2>2
<1>2. /\ UNCHANGED <<pc, port, work>>
      /\ r \in Requests /\ ProcTypeOK'
  BY <1>1 DEF CallStep, ReadNumber, AdvanceNumber, NameSegment, NameSemaphore,
              interprocess_shared_memory_send, ShareFails, OpenQueue,
              SendRequest, OpenSemaphore, WaitSemaphore, ReadVerdict,
              ReadFails, Cleanup, procVars, ProcInv
<1> USE <1>2 DEF Moves
<1>3. Named(r) => SmName(r) \in Names /\ SemName(r) \in Names
  BY NamesInUse
<1>4. ASSUME ReadNumber(r) PROVE TypeOK' /\ PipeInv'
  BY <1>4, NoProcessIsNone DEF ReadNumber, TypeOK, PipeInv, Named, ipcVars, ProcTypeOK
<1>5. ASSUME AdvanceNumber(r) PROVE TypeOK' /\ PipeInv'
  <2>1. (number[r] + 1) % NUM_SPAM_DETECTORS \in Slots
    BY NextNumber DEF TypeOK
  <2>2. TypeOK'
    BY <1>5, <2>1 DEF AdvanceNumber, TypeOK, ipcVars
  <2>3. PipeInv'
    BY <1>5 DEF AdvanceNumber, TypeOK, PipeInv, Named, ipcVars
  <2> QED  BY <2>2, <2>3
<1>15. ASSUME NameSegment(r) PROVE TypeOK' /\ PipeInv'
  <2>1. /\ now' \in 0 .. MaxTime /\ now' # -1
        /\ smTime' = [smTime EXCEPT ![r] = now']
        /\ call' = [call EXCEPT ![r] = "time"] /\ call[r] = "name"
        /\ UNCHANGED <<currentNumber, number, semTime, held, spam, shared, mq,
                       shm, semaphores, value>>
    BY <1>15, PipelineAssumption DEF NameSegment, TypeOK, ipcVars
  <2>2. TypeOK'
    BY <2>1 DEF TypeOK
  <2>3. \A q \in Requests :
          /\ call'[q] = IF q = r THEN "time" ELSE call[q]
          /\ smTime'[q] = IF q = r THEN now' ELSE smTime[q]
    BY <2>1 DEF TypeOK
  <2>4. PipeInv'
    BY <2>1, <2>3 DEF PipeInv, Named
  <2> QED  BY <2>2, <2>4
<1>6. ASSUME NameSemaphore(r) PROVE TypeOK' /\ PipeInv'
  <2>2. /\ now' \in 0 .. MaxTime /\ now' # -1
        /\ semTime' = [semTime EXCEPT ![r] = now']
    BY <1>6, PipelineAssumption DEF NameSemaphore, TypeOK
  <2>3. /\ call' = [call EXCEPT ![r] = "share"] /\ call[r] = "time"
        /\ UNCHANGED <<currentNumber, number, smTime, held, spam, shared, mq,
                       shm, semaphores, value>>
    BY <1>6 DEF NameSemaphore, ipcVars
  <2>4. TypeOK'
    BY <2>2, <2>3 DEF TypeOK
  <2>5. \A q \in Requests : semTime'[q] # -1 <=> (q = r \/ semTime[q] # -1)
    BY <2>2 DEF TypeOK
  <2>6. \A s \in Slots : \A i \in 1 .. Len(mq[s]) : mq[s][i] \in Requests
    BY ElementOfSeq DEF TypeOK
  <2>7. \A s \in Slots : \A i \in 1 .. Len(mq[s]) : semTime'[mq[s][i]] # -1
    BY <2>5, <2>6 DEF PipeInv, Named
  <2>8. \A p \in Procs : work[p].step # "receive" =>
          work[p].req \in Requests /\ semTime'[work[p].req] # -1
    BY <2>5 DEF PipeInv, Named
  <2>9. \A q \in Requests :
          call'[q] = IF q = r THEN "share" ELSE call[q]
    BY <2>3 DEF TypeOK
  <2>10. PipeInv'
    BY <2>3, <2>5, <2>7, <2>8, <2>9 DEF PipeInv, Named
  <2> QED  BY <2>4, <2>10
<1>7. ASSUME interprocess_shared_memory_send(r) PROVE TypeOK' /\ PipeInv'
  <2>1. Message(r) \in Texts
    BY DEF Texts, Sent
  <2>2. TypeOK'
    BY <1>7, <2>1 DEF interprocess_shared_memory_send, TypeOK
  <2>4. /\ Named(r) /\ shared' = shared \cup {r}
        /\ \A q \in Requests : call'[q] = IF q = r THEN "open" ELSE call[q]
        /\ UNCHANGED <<smTime, semTime, spam, held, mq>>
    BY <1>7 DEF interprocess_shared_memory_send, TypeOK, PipeInv
  <2>3. PipeInv'
    BY <2>4 DEF PipeInv, Named
  <2> QED  BY <2>2, <2>3
<1>8. ASSUME ShareFails(r) PROVE TypeOK' /\ PipeInv'
  <2>1. shm' \in [Names -> {Nothing} \cup Texts]
    <3>1. Empty \in Texts
      BY DEF Texts
    <3> QED  BY <1>8, <3>1 DEF ShareFails, TypeOK
  <2>2. TypeOK'
    BY <1>8, <2>1 DEF ShareFails, TypeOK
  <2>3. PipeInv'
    BY <1>8 DEF ShareFails, TypeOK, PipeInv, Named
  <2> QED  BY <2>2, <2>3
<1>16. ASSUME ReadFails(r) PROVE TypeOK' /\ PipeInv'
  <2>1. TypeOK'
    BY <1>16 DEF ReadFails, TypeOK, ipcVars
  <2>2. /\ call[r] = "read"
        /\ call' = [call EXCEPT ![r] = "returned"]
        /\ UNCHANGED <<smTime, semTime, spam, shared, held, mq>>
    BY <1>16 DEF ReadFails, ipcVars
  <2>3. \A q \in Requests : call'[q] = IF q = r THEN "returned" ELSE call[q]
    BY <2>2 DEF TypeOK
  <2>4. PipeInv'
    BY <2>2, <2>3 DEF PipeInv, Named
  <2> QED  BY <2>1, <2>4
<1>9. ASSUME OpenQueue(r) PROVE TypeOK' /\ PipeInv'
  BY <1>9 DEF OpenQueue, TypeOK, PipeInv, Named, ipcVars
<1>10. ASSUME SendRequest(r) PROVE TypeOK' /\ PipeInv'
  <2> DEFINE s == number[r]
             q == mq[s]
  <2>1. /\ s \in Slots /\ q \in Seq(Requests) /\ Len(q) < QueueSize
        /\ mq' = [mq EXCEPT ![s] = Append(q, r)]
        /\ call[r] = "send" /\ call' = [call EXCEPT ![r] = "semaphore"]
        /\ UNCHANGED <<now, currentNumber, number, smTime, semTime, held, spam,
                       shared, shm, semaphores, value>>
    BY <1>10 DEF SendRequest, TypeOK
  <2>2. /\ Append(q, r) \in Seq(Requests)
        /\ Len(Append(q, r)) = Len(q) + 1 /\ Len(q) \in Nat
        /\ Append(q, r)[Len(q) + 1] = r
        /\ \A i \in 1 .. Len(q) : Append(q, r)[i] = q[i]
        /\ \A i \in 1 .. Len(q) + 1 : i \in 1 .. Len(q) \/ i = Len(q) + 1
    BY <2>1, AppendProperties, LenProperties
  <2>3. \A t \in Slots : mq'[t] = IF t = s THEN Append(q, r) ELSE mq[t]
    BY <2>1 DEF TypeOK
  <2> HIDE DEF s, q
  <2>4. \A t \in Slots : Len(mq'[t]) <= QueueSize
    <3>1. Len(q) + 1 <= QueueSize
      BY <2>1, <2>2, PipelineAssumption
    <3> QED  BY <2>2, <2>3, <3>1 DEF TypeOK
  <2>5. TypeOK'
    <3>1. mq' \in [Slots -> Seq(Requests)]
      BY <2>1, <2>2 DEF TypeOK
    <3> QED  BY <2>1, <2>4, <3>1 DEF TypeOK
  <2>6. \A t \in Slots : \A i \in 1 .. Len(mq'[t]) : Named(mq'[t][i])
    <3>1. Named(r)
      BY <2>1 DEF PipeInv
    <3>2. \A i \in 1 .. Len(q) : Named(q[i])
      BY <2>1 DEF PipeInv, q
    <3> QED  BY <2>2, <2>3, <3>1, <3>2 DEF PipeInv
  <2>7. PipeInv'
    BY <2>1, <2>6 DEF PipeInv, TypeOK, Named
  <2> QED  BY <2>5, <2>7
<1>11. ASSUME OpenSemaphore(r) PROVE TypeOK' /\ PipeInv'
  <2>1. Named(r) /\ semaphores[SemName(r)] \in {Nothing} \cup Requests
    <3>1. Named(r)
      BY <1>11 DEF OpenSemaphore, PipeInv
    <3> QED  BY <1>3, <3>1 DEF TypeOK
  <2>2. TypeOK'
    BY <1>11, <2>1 DEF OpenSemaphore, TypeOK, ipcVars
  <2>3. PipeInv'
    BY <1>11, <2>1 DEF OpenSemaphore, TypeOK, PipeInv, Named, ipcVars
  <2> QED  BY <2>2, <2>3
<1>12. ASSUME WaitSemaphore(r) PROVE TypeOK' /\ PipeInv'
  <2>1. /\ held[r] \in Requests
        /\ value[held[r]] - 1 \in Nat
    BY <1>12 DEF WaitSemaphore, TypeOK, PipeInv
  <2>2. value' \in [Requests -> Nat]
    BY <1>12, <2>1 DEF WaitSemaphore, TypeOK
  <2>3. TypeOK'
    BY <1>12, <2>2 DEF WaitSemaphore, TypeOK
  <2>4. PipeInv'
    BY <1>12 DEF WaitSemaphore, TypeOK, PipeInv, Named
  <2> QED  BY <2>3, <2>4
<1>13. ASSUME ReadVerdict(r) PROVE TypeOK' /\ PipeInv'
  <2>1. Named(r) /\ shm[SmName(r)] \in {Nothing} \cup Texts
    <3>1. Named(r)
      BY <1>13 DEF ReadVerdict, PipeInv
    <3> QED  BY <1>3, <3>1 DEF TypeOK
  <2>2. TypeOK'
    BY <1>13, <2>1 DEF ReadVerdict, TypeOK, ipcVars
  <2>3. PipeInv'
    BY <1>13, <2>1 DEF ReadVerdict, TypeOK, PipeInv, Named, ipcVars
  <2> QED  BY <2>2, <2>3
<1>14. ASSUME Cleanup(r) PROVE TypeOK' /\ PipeInv'
  <2>1. TypeOK'
    BY <1>14 DEF Cleanup, TypeOK
  <2>2. PipeInv'
    BY <1>14 DEF Cleanup, TypeOK, PipeInv, Named
  <2> QED  BY <2>1, <2>2
<1> QED
  BY <1>1, <1>4, <1>5, <1>6, <1>7, <1>8, <1>9, <1>10, <1>11, <1>12, <1>13,
     <1>14, <1>15, <1>16
     DEF CallStep

\* The steps with which processes start or end, and what follows from them: in no
\* queue is there anything new.
Turnover == Follow \/ \E p \in Procs : Dies(p)

NothingNew(s) ==
  \/ mq'[s] = mq[s]
  \/ mq'[s] = <<>>
  \/ mq[s] # <<>> /\ mq'[s] = Tail(mq[s])

LEMMA Follows ==
  ASSUME TypeOK, Turnover
  PROVE  /\ \A r \in Requests :
              call'[r] = IF call[r] \in Calling /\ port' = NoProcess THEN "gone"
                                                                    ELSE call[r]
         /\ \A p \in Procs :
              work'[p] = IF pc'[p] = "detect" THEN work[p] ELSE Idle
         /\ \A s \in Slots : NothingNew(s)
         /\ UNCHANGED <<now, currentNumber, number, smTime, semTime, held, spam,
                        shared, shm, semaphores, value>>
         /\ DOMAIN call' = Requests /\ DOMAIN work' = Procs /\ DOMAIN mq' = Slots
         /\ call' = [r \in Requests |-> call'[r]]
         /\ work' = [p \in Procs |-> work'[p]]
         /\ mq' = [s \in Slots |-> mq'[s]]
<1>1. CASE Follow
  BY <1>1 DEF Follow, FollowWith, NothingNew
<1>2. ASSUME NEW p \in Procs, Dies(p), ~Follow
      PROVE  \E m \in [Slots -> Seq(Requests)] :
               /\ FollowWith(m)
               /\ \A s \in Slots :
                    m[s] = mq[s] \/ (mq[s] # <<>> /\ m[s] = Tail(mq[s]))
  <2>1. UnpackFails(p)
    BY <1>2 DEF Dies, DecodeFails, NoSegment, ClassifyFails
  <2> DEFINE m == [mq EXCEPT ![Slot(p)] = Tail(@)]
  <2>2. FollowWith(m) /\ mq[Slot(p)] # <<>>
    BY <2>1 DEF UnpackFails
  <2>3. mq \in [Slots -> Seq(Requests)]
    BY DEF TypeOK
  <2>4. \A s \in Slots :
          m[s] = mq[s] \/ (mq[s] # <<>> /\ m[s] = Tail(mq[s]))
    BY <2>2, <2>3
  <2>5. m \in [Slots -> Seq(Requests)]
    <3>1. \A s \in Slots : m[s] \in Seq(Requests)
      BY <2>3, <2>4, HeadTailProperties
    <3> QED  BY <2>3, <3>1
  <2> HIDE DEF m
  <2> QED  BY <2>2, <2>4, <2>5
<1>3. CASE ~Follow
  <2>1. PICK m \in [Slots -> Seq(Requests)] :
          /\ FollowWith(m)
          /\ \A s \in Slots :
               m[s] = mq[s] \/ (mq[s] # <<>> /\ m[s] = Tail(mq[s]))
    BY <1>2, <1>3 DEF Turnover
  <2> QED  BY <2>1 DEF FollowWith, NothingNew
<1> QED  BY <1>1, <1>3

\* What is in a queue now was in it before, one place further on at most.
LEMMA Shifted ==
  ASSUME TypeOK, NEW s \in Slots, NothingNew(s)
  PROVE  /\ mq'[s] \in Seq(Requests) /\ Len(mq'[s]) <= Len(mq[s])
         /\ \E k \in {0, 1} : \A i \in 1 .. Len(mq'[s]) :
              i + k \in 1 .. Len(mq[s]) /\ mq'[s][i] = mq[s][i + k]
<1>1. PICK q \in Seq(Requests) : q = mq[s]
  BY DEF TypeOK
<1>2. Len(q) \in Nat
  BY LenProperties
<1>3. CASE mq'[s] = q
  BY <1>1, <1>2, <1>3
<1>4. CASE mq'[s] = <<>>
  BY <1>1, <1>2, <1>4
<1>5. CASE q # <<>> /\ mq'[s] = Tail(q)
  <2>1. /\ Tail(q) \in Seq(Requests) /\ Len(Tail(q)) = Len(q) - 1
        /\ \A i \in 1 .. Len(Tail(q)) : Tail(q)[i] = q[i + 1]
    BY <1>5, HeadTailProperties
  <2>2. \A i \in 1 .. Len(q) - 1 : i + 1 \in 1 .. Len(q)
    BY <1>2
  <2> QED  BY <1>1, <1>2, <1>5, <2>1, <2>2
<1> QED  BY <1>1, <1>3, <1>4, <1>5 DEF NothingNew

LEMMA FollowType == ASSUME Inv, ProcInv', Turnover PROVE Inv'
<1> USE DEF Inv
<1>1. /\ \A r \in Requests :
           call'[r] = IF call[r] \in Calling /\ port' = NoProcess THEN "gone"
                                                                 ELSE call[r]
      /\ \A p \in Procs : work'[p] = IF pc'[p] = "detect" THEN work[p] ELSE Idle
      /\ UNCHANGED <<now, currentNumber, number, smTime, semTime, held, spam,
                     shared, shm, semaphores, value>>
      /\ call' = [r \in Requests |-> call'[r]]
      /\ work' = [p \in Procs |-> work'[p]]
      /\ mq' = [s \in Slots |-> mq'[s]]
  BY Follows
<1>2. ProcTypeOK'
  BY DEF ProcInv
<1>3. call' \in [Requests -> Calling \cup {"never", "start", "returned", "gone"}]
  <2>1. \A r \in Requests :
          call'[r] \in Calling \cup {"never", "start", "returned", "gone"}
    BY <1>1 DEF TypeOK
  <2> QED  BY <1>1, <2>1
<1>8. \A s \in Slots :
        /\ mq'[s] \in Seq(Requests) /\ Len(mq'[s]) <= Len(mq[s])
        /\ \A i \in 1 .. Len(mq'[s]) :
             \E j \in 1 .. Len(mq[s]) : mq'[s][i] = mq[s][j]
  <2> SUFFICES ASSUME NEW s \in Slots
               PROVE  /\ mq'[s] \in Seq(Requests) /\ Len(mq'[s]) <= Len(mq[s])
                      /\ \A i \in 1 .. Len(mq'[s]) :
                           \E j \in 1 .. Len(mq[s]) : mq'[s][i] = mq[s][j]
    OBVIOUS
  <2>1. NothingNew(s)
    BY Follows
  <2> QED  BY <2>1, Shifted
<1>4. mq' \in [Slots -> Seq(Requests)] /\ \A s \in Slots : Len(mq'[s]) <= QueueSize
  <2>1. \A s \in Slots : mq[s] \in Seq(Requests) /\ Len(mq[s]) <= QueueSize
    BY DEF TypeOK
  <2>2. \A s \in Slots : Len(mq'[s]) <= QueueSize
    BY <1>8, <2>1, LenProperties, PipelineAssumption
  <2> QED  BY <1>1, <1>8, <2>2
<1>5. work' \in [Procs -> [step : Steps, req : {Nothing} \cup Requests,
                           text : {Nothing} \cup Texts,
                           semaphore : {Nothing} \cup Requests]]
  <2>1. \A p \in Procs : work'[p] \in {work[p], Idle}
    BY <1>1
  <2> QED  BY <1>1, <2>1 DEF TypeOK, Idle
<1>6. TypeOK'
  BY <1>1, <1>2, <1>3, <1>4, <1>5 DEF TypeOK
<1>7. PipeInv'
  <2>1. \A s \in Slots : \A i \in 1 .. Len(mq'[s]) : semTime[mq'[s][i]] # -1
    BY <1>8 DEF PipeInv, Named
  <2>2. \A p \in Procs : work'[p].step # "receive" => work'[p] = work[p]
    BY <1>1 DEF Idle
  <2> QED  BY <1>1, <2>1, <2>2 DEF PipeInv, Named
<1> QED  BY <1>6, <1>7

Work == [step : Steps, req : {Nothing} \cup Requests,
         text : {Nothing} \cup Texts, semaphore : {Nothing} \cup Requests]

\* What it takes of the steps that change the work of a detector and what it
\* shares with the threads.
LEMMA WorkType ==
  ASSUME Inv, ProcInv', NEW p \in Procs, pc[p] = "detect",
         UNCHANGED <<procVars, now, callVars>>,
         mq' \in [Slots -> Seq(Requests)],
         \A s \in Slots :
           /\ Len(mq'[s]) <= QueueSize
           /\ \A i \in 1 .. Len(mq'[s]) : Named(mq'[s][i]),
         shm' \in [Names -> {Nothing} \cup Texts],
         semaphores' \in [Names -> {Nothing} \cup Requests],
         value' \in [Requests -> Nat],
         work' \in [Procs -> Work],
         \A q \in Procs : q # p => work'[q] = work[q],
         work'[p].step # "receive" =>
           work'[p].req \in Requests /\ Named(work'[p].req),
         work'[p].step \in {"unlink", "write"} => work'[p].text \in Texts,
         work'[p].step = "release" => work'[p].semaphore \in Requests
  PROVE  Inv'
<1> USE DEF Inv
<1>1. /\ UNCHANGED <<pc, port, now, currentNumber, call, number, smTime, semTime,
                     held, spam, shared>>
      /\ ProcTypeOK'
  BY DEF procVars, callVars, ProcInv
<1>2. TypeOK'
  BY <1>1 DEF TypeOK, Work
<1>3. PipeInv'
  BY <1>1 DEF PipeInv, Named
<1> QED  BY <1>2, <1>3

\* The steps of a detector.
LEMMA DetectorType == ASSUME Inv, NEW p \in Procs, DetectorStep(p) PROVE Inv'
<1> USE DEF Inv
<1>1. CASE Dies(p)
  <2>1. p \in Alive /\ faults' \in Nat /\ Raises(p)
    BY <1>1 DEF Dies, UnpackFails, DecodeFails, NoSegment, ClassifyFails, At,
                Fault, ProcInv, ProcTypeOK, Alive
  <2>2. ProcInv'
    BY <2>1, EndStep DEF Raises, ProcInv
  <2> QED
    BY <1>1, <2>2, FollowType DEF Turnover
<1>2. CASE ~Dies(p)
  <2>1. /\ UNCHANGED procVars /\ UNCHANGED <<now, callVars>>
        /\ pc[p] = "detect"
    BY <1>2 DEF DetectorStep, ReceiveRequest, ReadMessage, unlink_shared_memory,
                WriteVerdict, CreateSemaphore, Release, At
  <2>2. ProcInv' /\ ProcTypeOK' /\ pc' = pc /\ port' = port
    BY <2>1, ProcStays DEF procVars, ProcInv
  <2>3. /\ work[p].step # "receive" =>
             /\ work[p].req \in Requests /\ Named(work[p].req)
             /\ SmName(work[p].req) \in Names /\ SemName(work[p].req) \in Names
        /\ work[p].step \in {"unlink", "write"} => work[p].text \in Texts
        /\ work[p].step = "release" => work[p].semaphore \in Requests
    BY NamesInUse DEF PipeInv
  <2>4. /\ mq \in [Slots -> Seq(Requests)]
        /\ \A s \in Slots :
             /\ Len(mq[s]) <= QueueSize
             /\ \A i \in 1 .. Len(mq[s]) : Named(mq[s][i])
        /\ shm \in [Names -> {Nothing} \cup Texts]
        /\ semaphores \in [Names -> {Nothing} \cup Requests]
        /\ value \in [Requests -> Nat]
        /\ work \in [Procs -> Work] /\ work[p] \in Work
    BY DEF TypeOK, PipeInv, Work
  <2> USE <2>1, <2>2 DEF At, Then, Request, Segment
  <2>5. ASSUME ReceiveRequest(p) PROVE Inv'
    <3>1. Slot(p) \in Slots
      BY SlotOfProcess DEF ProcInv, TreeInv
    <3>2. PICK q \in Seq(Requests) : q = mq[Slot(p)]
      BY <2>4, <3>1
    <3>3. /\ q # <<>> /\ UNCHANGED <<shm, semaphores, value>>
          /\ \A s \in Slots : mq'[s] = IF s = Slot(p) THEN Tail(q) ELSE mq[s]
          /\ mq' = [mq EXCEPT ![Slot(p)] = Tail(q)]
          /\ work' = [work EXCEPT ![p].step = "read", ![p].req = Head(q)]
      BY <2>4, <2>5, <3>2 DEF ReceiveRequest
    <3>4. /\ Head(q) \in Requests /\ Head(q) = q[1] /\ 1 \in 1 .. Len(q)
          /\ Tail(q) \in Seq(Requests) /\ Len(Tail(q)) = Len(q) - 1
          /\ \A i \in 1 .. Len(Tail(q)) :
               i + 1 \in 1 .. Len(q) /\ Tail(q)[i] = q[i + 1]
      BY <3>3, HeadTailProperties, LenProperties
    <3>5. Len(q) <= QueueSize /\ \A i \in 1 .. Len(q) : Named(q[i])
      BY <2>4, <3>1, <3>2
    <3>6. Len(Tail(q)) <= QueueSize
      BY <3>4, <3>5, LenProperties, PipelineAssumption
    <3>7. \A s \in Slots :
            /\ Len(mq'[s]) <= QueueSize
            /\ \A i \in 1 .. Len(mq'[s]) : Named(mq'[s][i])
      BY <2>4, <3>3, <3>4, <3>5, <3>6
    <3>8. /\ work' \in [Procs -> Work]
          /\ \A x \in Procs : x # p => work'[x] = work[x]
          /\ work'[p].step = "read" /\ work'[p].req = Head(q)
      BY <2>4, <3>3, <3>4 DEF Work
    <3>9. mq' \in [Slots -> Seq(Requests)]
      BY <2>4, <3>3, <3>4
    <3>10. /\ shm' \in [Names -> {Nothing} \cup Texts]
           /\ semaphores' \in [Names -> {Nothing} \cup Requests]
           /\ value' \in [Requests -> Nat]
      BY <2>4, <3>3
    <3>11. Head(q) \in Requests /\ Named(Head(q))
      BY <3>4, <3>5
    <3> QED  BY <3>7, <3>8, <3>9, <3>10, <3>11, WorkType
  <2>6. ASSUME ReadMessage(p) PROVE Inv'
    <3>1. shm[SmName(work[p].req)] \in Texts
      BY <2>3, <2>4, <2>6 DEF ReadMessage
    <3>2. /\ work' \in [Procs -> Work] /\ UNCHANGED ipcVars
          /\ \A x \in Procs : x # p => work'[x] = work[x]
          /\ work'[p].step = "unlink" /\ work'[p].req = work[p].req
          /\ work'[p].text \in Texts
      BY <2>4, <2>6, <3>1 DEF ReadMessage, Work
    <3> QED  BY <2>3, <2>4, <2>6, <3>2, WorkType DEF ReadMessage, ipcVars
  <2>7. ASSUME unlink_shared_memory(p) PROVE Inv'
    <3>1. /\ work' \in [Procs -> Work] /\ UNCHANGED <<mq, semaphores, value>>
          /\ \A x \in Procs : x # p => work'[x] = work[x]
          /\ work'[p].step = "write" /\ work'[p].req = work[p].req
          /\ work'[p].text = work[p].text
          /\ shm' \in [Names -> {Nothing} \cup Texts]
      BY <2>4, <2>7 DEF unlink_shared_memory, Work
    <3> QED  BY <2>3, <2>4, <2>7, <3>1, WorkType DEF unlink_shared_memory
  <2>8. ASSUME WriteVerdict(p) PROVE Inv'
    <3>1. Judge(work[p].text) \in Texts /\ Mixture \in Texts
      BY <2>3, <2>8, JudgeType DEF WriteVerdict, Texts, Sent
    <3>2. /\ work' \in [Procs -> Work] /\ UNCHANGED <<mq, semaphores, value>>
          /\ \A x \in Procs : x # p => work'[x] = work[x]
          /\ work'[p].step = "semaphore" /\ work'[p].req = work[p].req
      BY <2>4, <2>8 DEF WriteVerdict, Work
    <3>3. shm' \in [Names -> {Nothing} \cup Texts]
      BY <2>4, <2>8, <3>1 DEF WriteVerdict
    <3> QED  BY <2>3, <2>4, <2>8, <3>2, <3>3, WorkType DEF WriteVerdict
  <2>9. ASSUME CreateSemaphore(p) PROVE Inv'
    <3>1. PICK n \in Names : n = SemName(work[p].req)
      BY <2>3, <2>9 DEF CreateSemaphore
    <3>2. /\ semaphores' \in [Names -> {Nothing} \cup Requests]
          /\ semaphores'[n] \in Requests
      BY <2>3, <2>4, <2>9, <3>1 DEF CreateSemaphore
    <3>3. /\ UNCHANGED <<mq, shm, value>>
          /\ work' = [work EXCEPT ![p].step = "release",
                                  ![p].semaphore = semaphores'[n]]
      BY <2>9, <3>1 DEF CreateSemaphore
    <3>4. /\ work' \in [Procs -> Work]
          /\ \A x \in Procs : x # p => work'[x] = work[x]
          /\ work'[p].step = "release" /\ work'[p].req = work[p].req
          /\ work'[p].semaphore = semaphores'[n]
      BY <2>4, <3>2, <3>3 DEF Work
    <3> QED  BY <2>3, <2>4, <2>9, <3>2, <3>3, <3>4, WorkType DEF CreateSemaphore
  <2>10. ASSUME Release(p) PROVE Inv'
    <3>1. /\ work' \in [Procs -> Work] /\ UNCHANGED <<mq, shm, semaphores>>
          /\ \A x \in Procs : x # p => work'[x] = work[x]
          /\ work'[p].step = "receive"
          /\ value' \in [Requests -> Nat]
      BY <2>3, <2>4, <2>10 DEF Release, Work, Idle
    <3> QED  BY <2>4, <2>10, <3>1, WorkType DEF Release
  <2> QED
    BY <1>2, <2>5, <2>6, <2>7, <2>8, <2>9, <2>10 DEF DetectorStep
<1> QED  BY <1>1, <1>2

LEMMA TypeNext == Inv /\ [Next]_vars => Inv'
<1> SUFFICES ASSUME Inv, [Next]_vars PROVE Inv'
  OBVIOUS
<1>1. ASSUME NEW p \in Procs, ProcStep(p) \/ Leave(p) \/ ServerDies(p), Follow
      PROVE  Inv'
  BY <1>1, StepType, FollowType DEF Inv, Turnover
<1>2. ASSUME Interrupt, Follow PROVE Inv'
  BY <1>2, InterruptStep, FollowType DEF Inv, Turnover
<1>3. ASSUME NEW r \in Requests, CallStep(r) PROVE Inv'
  BY <1>3, CallType
<1>4. ASSUME NEW p \in Procs, DetectorStep(p) PROVE Inv'
  BY <1>4, DetectorType
<1>5. CASE UNCHANGED vars
  <2>1. ProcInv'
    BY <1>5, ProcStays DEF vars, Inv
  <2> QED
    BY <1>5, <2>1
       DEF vars, pipeVars, procVars, callVars, ipcVars, Inv, TypeOK, PipeInv,
           Named, ProcInv
<1> QED  BY <1>1, <1>2, <1>3, <1>4, <1>5 DEF Next, Step

\* All variables keep their types through failures and deaths at any point, no
\* queue overflows, only threads of a server that lives are in a call, and only
\* a detector that lives handles a request (main.py:19-30,
\* spam_detection_interface.c:18-71).
THEOREM TypeCorrect == Spec => []TypeOK
<1>1. Inv => TypeOK  BY DEF Inv
<1>2. Init => Inv  BY TypeInit
<1>3. Inv /\ [Next]_vars => Inv'  BY TypeNext
<1> QED  BY <1>1, <1>2, <1>3, PTL DEF Spec

-----------------------------------------------------------------------------
(* The end of a server without copies *)

\* As long as every exec has succeeded there are the server and its detectors,
\* each forked by the server at its slot and entered there in its array.
ChildrenInv ==
  /\ pc[Root] \in Serving \cup {"fork", "gone", "killed"}
  /\ \A p \in Procs \ {Root} : pc[p] # "none" =>
       /\ pc[p] \in {"child", "load", "detect", "gone"}
       /\ p = {Slot(p)}
       /\ spam_detector_process_ids[Root][Slot(p)] = p
       /\ pc[Root] = "fork" => Slot(p) < iter[Root]

LoneInv == copies = {} => ChildrenInv /\ AwaitedAreSignalled

LEMMA SlotOfChild == ASSUME NEW i \in Slots PROVE Slot({i}) = i
<1>1. {i} \in Procs /\ {i} # Root
  BY DEF Procs
<1> QED  BY <1>1, SlotType

\* Steps in which the server starts no process and signals none.
LEMMA LoneKept ==
  ASSUME ProcTypeOK, ProcTypeOK', ChildrenInv, AwaitedAreSignalled, copies = {},
         UNCHANGED spam_detector_process_ids,
         pc'[Root] \in Serving \cup {"fork", "gone", "killed"},
         pc'[Root] = "fork" => pc[Root] = "fork" /\ iter'[Root] >= iter[Root],
         pc'[Root] = "stop" =>
           iter'[Root] = 0 \/ (pc[Root] = "stop" /\ iter'[Root] = iter[Root]),
         \A p \in Procs \ {Root} :
           /\ pc'[p] \in {"none", "child", "load", "detect", "gone"}
           /\ pc[p] \in {"none", "gone"} => pc'[p] = pc[p]
           /\ pc'[p] # "gone" /\ p \in pending => p \in pending'
  PROVE  ChildrenInv' /\ AwaitedAreSignalled'
<1>1. iter[Root] \in Int /\ iter'[Root] \in Int
  BY ProcessAssumption DEF ProcTypeOK, Procs
<1>2. \A p \in Procs \ {Root} : pc[p] # "none" => Slot(p) \in Slots
  BY SlotOfProcess
<1>3. \A p \in Procs \ {Root} : Slot(p)' = Slot(p)
  BY DEF Slot
<1> HIDE DEF Slot
<1>4. ChildrenInv'
  BY <1>1, <1>2, <1>3 DEF ChildrenInv, Slots
<1>5. AwaitedAreSignalled'
  <2> SUFFICES ASSUME pc'[Root] = "stop", NEW p \in Procs \ {Root}, p \in Alive',
                      Slot(p) < iter'[Root]
               PROVE  p \in pending'
    BY <1>3 DEF AwaitedAreSignalled, Alive
  <2>1. p \in Alive /\ pc'[p] # "gone"
    <3>1. pc'[p] \notin {"none", "gone"} /\ p \in Procs
      BY DEF Alive
    <3>2. pc[p] \notin {"none", "gone"}
      BY <3>1
    <3> QED  BY <3>1, <3>2 DEF ChildrenInv, Alive
  <2>2. Slot(p) \in Nat
    BY <2>1, <1>2 DEF Alive, Slots
  <2>3. pc[Root] = "stop" /\ iter'[Root] = iter[Root]
    BY <2>2, <1>1
  <2> QED  BY <2>1, <2>3 DEF AwaitedAreSignalled
<1> QED  BY <1>4, <1>5

\* The server starts the detector of a slot and enters it.
LEMMA LoneFork ==
  ASSUME ProcInv, LoneInv, copies = {}, NEW p \in Procs, Fork(p)
  PROVE  ChildrenInv' /\ AwaitedAreSignalled'
<1> USE DEF LoneInv, ProcInv
<1>1. p = Root
  BY DEF Fork, ChildrenInv
<1>2. PICK i \in Slots : i = iter[Root]
  BY <1>1 DEF Fork
<1> DEFINE child == {i}
<1>3. p \cup {i} = child /\ child \in Procs /\ child # Root /\ Root \in Procs
  BY <1>1 DEF Procs
<1>4. /\ pc' = [pc EXCEPT ![child] = "child"]
      /\ iter' = [iter EXCEPT ![child] = i, ![Root] = @ + 1]
      /\ spam_detector_process_ids' =
           [spam_detector_process_ids EXCEPT
              ![child] = spam_detector_process_ids[Root], ![Root][i] = child]
      /\ pc[Root] = "fork"
  BY <1>1, <1>2, <1>3 DEF Fork
<1>5. Slot(child) = i
  BY SlotOfChild
<1> HIDE DEF child
<1>6. /\ pc'[Root] = "fork" /\ pc'[child] = "child" /\ iter'[Root] = i + 1
      /\ spam_detector_process_ids'[Root][i] = child
      /\ \A j \in Slots \ {i} :
           spam_detector_process_ids'[Root][j] = spam_detector_process_ids[Root][j]
      /\ \A q \in Procs \ {child} : pc'[q] = pc[q]
  BY <1>2, <1>3, <1>4 DEF ProcTypeOK
<1>7. \A q \in Procs \ {Root} : Slot(q) \in Slots
  BY SlotOfProcess
<1>8. \A q \in Procs : Slot(q)' = Slot(q)
  BY DEF Slot
<1>9. child = {Slot(child)}
  BY <1>5 DEF child
<1> HIDE DEF Slot
<1>10. ChildrenInv'
  <2> SUFFICES ASSUME NEW q \in Procs \ {Root}, pc'[q] # "none"
               PROVE  /\ pc'[q] \in {"child", "load", "detect", "gone"}
                      /\ q = {Slot(q)}
                      /\ spam_detector_process_ids'[Root][Slot(q)] = q
                      /\ Slot(q) < iter'[Root]
    BY <1>6, <1>8 DEF ChildrenInv
  <2>1. CASE q = child
    BY <1>5, <1>6, <1>9, <2>1 DEF Slots
  <2>2. CASE q # child
    <3>1. pc'[q] = pc[q] /\ pc[q] # "none"
      BY <1>6, <2>2
    <3>2. /\ pc[q] \in {"child", "load", "detect", "gone"}
          /\ q = {Slot(q)}
          /\ spam_detector_process_ids[Root][Slot(q)] = q
          /\ Slot(q) < i
      BY <1>2, <1>4, <3>1 DEF ChildrenInv
    <3>3. Slot(q) \in Slots \ {i} /\ Slot(q) < i + 1
      BY <1>7, <3>2 DEF Slots
    <3> QED  BY <1>6, <3>1, <3>2, <3>3
  <2> QED  BY <2>1, <2>2
<1>11. AwaitedAreSignalled'
  BY <1>6 DEF AwaitedAreSignalled
<1> QED  BY <1>10, <1>11

\* One round of the server's loop signals the detector of the slot, or the
\* whole group.
LEMMA LoneStop ==
  ASSUME ProcInv, LoneInv, copies = {}, NEW p \in Procs, stop_spam_detector(p)
  PROVE  ChildrenInv' /\ AwaitedAreSignalled'
<1> USE DEF LoneInv, ProcInv
<1>1. p = Root
  BY DEF stop_spam_detector, ChildrenInv
<1>2. PICK i \in Slots : i = iter[Root]
  BY <1>1 DEF stop_spam_detector
<1>3. /\ pc[Root] = "stop" /\ Root \in Procs
      /\ pending' = pending \cup Reached(spam_detector_process_ids[Root][i])
      /\ iter'[Root] = i + 1
      /\ UNCHANGED <<pc, spam_detector_process_ids>>
  BY <1>1, <1>2 DEF stop_spam_detector, ProcTypeOK
<1>4. \A q \in Procs \ {Root} : Slot(q) \in Slots /\ Slot(q)' = Slot(q)
  BY SlotOfProcess DEF Slot
<1> HIDE DEF Slot
<1>5. ChildrenInv'
  BY <1>3, <1>4 DEF ChildrenInv
<1>6. AwaitedAreSignalled'
  <2> SUFFICES ASSUME NEW q \in Procs \ {Root}, q \in Alive, Slot(q) < i + 1
               PROVE  q \in pending'
    BY <1>3, <1>4 DEF AwaitedAreSignalled, Alive
  <2>1. CASE Slot(q) = i
    <3>1. spam_detector_process_ids[Root][i] = q
      BY <2>1 DEF ChildrenInv, Alive
    <3> QED  BY <1>3, <3>1 DEF Reached
  <2>2. CASE Slot(q) # i
    <3>1. Slot(q) < iter[Root]
      BY <1>2, <1>4, <2>2 DEF Slots
    <3> QED  BY <1>3, <3>1 DEF AwaitedAreSignalled
  <2> QED  BY <2>1, <2>2
<1> QED  BY <1>5, <1>6

\* The steps of the processes.
LEMMA LoneStep ==
  ASSUME ProcInv, ProcInv', LoneInv, NEW p \in Procs,
         ProcStep(p) \/ Leave(p) \/ ServerDies(p)
  PROVE  LoneInv'
<1> USE DEF ProcInv
<1> SUFFICES ASSUME copies = {}, copies' = {}
             PROVE  ChildrenInv' /\ AwaitedAreSignalled'
  <2>1. copies' = {} => copies = {}
    BY DEF ProcStep, Fork, ForkFails, start_spam_detector_process, ExecFails, Load,
           LoadFails, Bind, BindFails, stop_spam_detector, MainReturns, Deliver,
           Leave, ServerDies
  <2> QED  BY <2>1 DEF LoneInv
<1>1. CASE Fork(p)
  BY <1>1, LoneFork
<1>2. CASE stop_spam_detector(p)
  BY <1>2, LoneStop
<1>3. CASE \/ ForkFails(p) \/ start_spam_detector_process(p) \/ Load(p)
           \/ LoadFails(p) \/ Bind(p) \/ BindFails(p) \/ MainReturns(p)
           \/ Deliver(p) \/ Leave(p) \/ ServerDies(p)
  <2>1. ChildrenInv /\ AwaitedAreSignalled
    BY DEF LoneInv
  <2>2. /\ pc[p] \in {"fork", "serve", "stop"} => p = Root
        /\ port # NoProcess => port = Root
        /\ pc[Root] \in Serving \cup {"fork", "gone", "killed"}
        /\ Root \in Procs
        /\ \A q \in Procs \ {Root} :
             pc[q] \in {"none", "child", "load", "detect", "gone"}
    BY <2>1 DEF ChildrenInv, ProcTypeOK, Procs
  <2>3. \A x \in Procs : iter[x] \in Int
    BY ProcessAssumption DEF ProcTypeOK
  <2>4. ASSUME p = Root
        PROVE  /\ pc'[Root] \in Serving \cup {"fork", "gone", "killed"}
               /\ pc'[Root] = "fork" =>
                    pc[Root] = "fork" /\ iter'[Root] >= iter[Root]
               /\ pc'[Root] = "stop" =>
                    iter'[Root] = 0 \/ (pc[Root] = "stop" /\ iter'[Root] = iter[Root])
    <3>1. CASE ForkFails(p) \/ Bind(p) \/ BindFails(p) \/ Leave(p)
      BY <2>2, <2>3, <2>4, <3>1
         DEF ForkFails, Bind, BindFails, Leave, StartsToStop, Goes, ProcTypeOK
    <3>2. CASE \/ start_spam_detector_process(p) \/ Load(p) \/ LoadFails(p)
               \/ MainReturns(p) \/ ServerDies(p)
      BY <2>2, <2>4, <3>2
         DEF start_spam_detector_process, Child, Load, LoadFails, MainReturns,
             ServerDies, Ends, Goes, ProcTypeOK
    <3>3. CASE Deliver(p)
      BY <2>2, <2>3, <2>4, <3>3 DEF Deliver, Ends, Goes, ProcTypeOK
    <3> QED  BY <1>3, <3>1, <3>2, <3>3
  <2>5. ASSUME p # Root
        PROVE  \/ pc'[p] \in {"load", "detect"} /\ pending' = pending
               \/ pc'[p] = "gone"
    BY <1>3, <2>2, <2>5, NoProcessIsNone
       DEF ForkFails, start_spam_detector_process, Child, Load, LoadFails, Bind,
           BindFails, MainReturns, Deliver, Leave, ServerDies, ProcTypeOK, Ends, Goes
  <2>6. /\ pc[p] \notin {"none", "gone"}
        /\ \A q \in Procs \ {p} : pc'[q] = pc[q] /\ iter'[q] = iter[q]
        /\ pending \subseteq pending' \cup {p}
        /\ UNCHANGED spam_detector_process_ids
    <3>1. CASE ForkFails(p) \/ start_spam_detector_process(p) \/ Load(p) \/ Bind(p)
      BY <3>1 DEF ForkFails, start_spam_detector_process, Child, Load, Bind, Goes,
                  ProcTypeOK
    <3>2. CASE BindFails(p) \/ Leave(p)
      BY <3>2 DEF BindFails, Leave, StartsToStop, Goes, ProcTypeOK
    <3>3. CASE LoadFails(p) \/ MainReturns(p) \/ ServerDies(p)
      BY <3>3, NoProcessIsNone
         DEF LoadFails, MainReturns, ServerDies, Ends, Goes, ProcTypeOK
    <3>4. CASE Deliver(p)
      BY <3>4 DEF Deliver, Ends, Goes, ProcTypeOK, Alive
    <3> QED  BY <1>3, <3>1, <3>2, <3>3, <3>4
  <2>7. /\ pc'[Root] \in Serving \cup {"fork", "gone", "killed"}
        /\ pc'[Root] = "fork" => pc[Root] = "fork" /\ iter'[Root] >= iter[Root]
        /\ pc'[Root] = "stop" =>
             iter'[Root] = 0 \/ (pc[Root] = "stop" /\ iter'[Root] = iter[Root])
    BY <2>2, <2>3, <2>4, <2>6
  <2>8. ASSUME NEW q \in Procs \ {Root}
        PROVE  /\ pc'[q] \in {"none", "child", "load", "detect", "gone"}
               /\ pc[q] \in {"none", "gone"} => pc'[q] = pc[q]
               /\ pc'[q] # "gone" /\ q \in pending => q \in pending'
    BY <2>2, <2>5, <2>6
  <2> QED  BY <2>1, <2>6, <2>7, <2>8, LoneKept
<1>4. CASE ExecFails(p)
  BY <1>4 DEF ExecFails
<1> QED  BY <1>1, <1>2, <1>3, <1>4 DEF ProcStep

\* What the steps of calls and detectors leave alone.
LEMMA LoneStays ==
  ASSUME LoneInv, UNCHANGED <<pc, iter, spam_detector_process_ids, pending, copies>>
  PROVE  LoneInv'
<1>1. \A p \in Procs : Slot(p)' = Slot(p)
  BY DEF Slot
<1>2. Alive' = Alive
  BY DEF Alive
<1> HIDE DEF Slot
<1> QED  BY <1>1, <1>2 DEF LoneInv, ChildrenInv, AwaitedAreSignalled, Alive

LEMMA LoneNext == Inv /\ LoneInv /\ [Next]_vars => LoneInv'
<1> SUFFICES ASSUME Inv, LoneInv, [Next]_vars PROVE LoneInv'
  OBVIOUS
<1>0. ProcInv /\ ProcInv'
  BY TypeNext DEF Inv
<1>1. ASSUME NEW p \in Procs, ProcStep(p) \/ Leave(p) \/ ServerDies(p) PROVE LoneInv'
  BY <1>0, <1>1, LoneStep
<1>2. ASSUME Interrupt PROVE LoneInv'
  <2>1. /\ UNCHANGED <<pc, iter, spam_detector_process_ids, copies>>
        /\ pending \subseteq pending'
    BY <1>2 DEF Interrupt
  <2>2. \A p \in Procs : Slot(p)' = Slot(p)
    BY DEF Slot
  <2>3. Alive' = Alive
    BY <2>1 DEF Alive
  <2> HIDE DEF Slot
  <2> QED
    BY <2>1, <2>2, <2>3 DEF LoneInv, ChildrenInv, AwaitedAreSignalled, Alive
<1>3. ASSUME NEW r \in Requests, CallStep(r) PROVE LoneInv'
  BY <1>3, LoneStays
     DEF CallStep, ReadNumber, AdvanceNumber, NameSegment, NameSemaphore,
         ShareFails, interprocess_shared_memory_send, OpenQueue, SendRequest,
         OpenSemaphore, WaitSemaphore, ReadVerdict, ReadFails, Cleanup,
         procVars
<1>4. ASSUME NEW p \in Procs, DetectorStep(p) PROVE LoneInv'
  <2>1. CASE Dies(p)
    <3>1. /\ pc[p] = "detect" /\ pc' = [pc EXCEPT ![p] = "gone"]
          /\ pending' = pending \ {p}
          /\ UNCHANGED <<iter, spam_detector_process_ids, copies>>
      BY <2>1 DEF Dies, UnpackFails, DecodeFails, NoSegment, ClassifyFails,
                  Raises, At, Ends, Goes
    <3>2. CASE copies = {}
      <4>1. ChildrenInv /\ AwaitedAreSignalled /\ p # Root
        BY <1>0, <3>1, <3>2 DEF LoneInv, ProcInv, TreeInv
      <4>2. /\ \A q \in Procs : pc'[q] = IF q = p THEN "gone" ELSE pc[q]
            /\ Root \in Procs /\ iter[Root] \in Int
        BY <1>0, <3>1, ProcessAssumption DEF ProcInv, ProcTypeOK, Procs
      <4>3. \A q \in Procs \ {Root} :
              pc[q] \in {"none", "child", "load", "detect", "gone"}
        BY <4>1 DEF ChildrenInv
      <4>4. ChildrenInv' /\ AwaitedAreSignalled'
        <5>1. ProcTypeOK /\ ProcTypeOK'
          BY <1>0 DEF ProcInv
        <5>2. /\ pc'[Root] = pc[Root] /\ iter'[Root] >= iter[Root]
              /\ iter'[Root] = iter[Root]
          BY <3>1, <4>1, <4>2
        <5> QED
          BY <3>1, <3>2, <4>1, <4>2, <4>3, <5>1, <5>2, LoneKept DEF ChildrenInv
      <4> QED  BY <4>4 DEF LoneInv
    <3> QED  BY <3>1, <3>2 DEF LoneInv
  <2>2. CASE ~Dies(p)
    BY <1>4, <2>2, LoneStays
       DEF DetectorStep, ReceiveRequest, ReadMessage, unlink_shared_memory,
           WriteVerdict, CreateSemaphore, Release, procVars
  <2> QED  BY <2>1, <2>2
<1>5. CASE UNCHANGED vars
  BY <1>5, LoneStays DEF vars, procVars
<1> QED  BY <1>1, <1>2, <1>3, <1>4, <1>5 DEF Next, Step

\* A server none of whose execs failed waits only for detectors that it has told
\* to end (process_handler.c:57-85): the entries of its array are those of all
\* its children, whatever forks failed and whenever it was interrupted, and no
\* signal to a detector is lost before it takes effect.
THEOREM StopTellsAll == Spec => []AwaitedAreSignalled
<1>1. LoneInv => AwaitedAreSignalled  BY DEF LoneInv, AwaitedAreSignalled
<1>2. Init => Inv /\ LoneInv
  <2>1. Init => LoneInv
    BY DEF Init, ProcInit, LoneInv, ChildrenInv, AwaitedAreSignalled, Procs
  <2> QED  BY <2>1, TypeInit
<1>3. Inv /\ LoneInv /\ [Next]_vars => Inv' /\ LoneInv'
  BY TypeNext, LoneNext
<1> QED  BY <1>1, <1>2, <1>3, PTL DEF Spec

=============================================================================
