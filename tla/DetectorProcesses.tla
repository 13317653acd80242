-------------------------- MODULE DetectorProcesses --------------------------
(***************************************************************************)
(* The processes of the service: main of server.c and process_handler.c,   *)
(* which start the spam detectors, stop them and wait for them.            *)
(*                                                                         *)
(* The child that the server forks at a slot becomes the detector of that  *)
(* slot.  When its exec fails it returns into the loop of its parent and   *)
(* goes on as a copy of the server.  A process is named by the slots at    *)
(* which it and its ancestors were forked.                                 *)
(***************************************************************************)
EXTENDS Integers, FiniteSets, FiniteSetsExt

CONSTANT NUM_SPAM_DETECTORS

ASSUME ProcessAssumption == NUM_SPAM_DETECTORS \in Nat \ {0}

Slots == 0 .. NUM_SPAM_DETECTORS - 1
Procs == SUBSET Slots
Root == {}
Slot(p) == Max(p)
NoProcess == {-1}
Children(p) == {p \cup {i} : i \in {j \in Slots : \A k \in p : k < j}}

VARIABLES
  pc,           \* where each process stands
  iter,         \* its loop index, when it forks and when it stops detectors
  spam_detector_process_ids,  \* its own array of that name
  keepRunning,  \* its own flag of that name
  pending,      \* processes with a SIGINT that is not delivered yet
  port,         \* the process that listens on PORT
  queues,       \* slots whose message queue has its name
  copies,       \* history: the processes whose exec failed
  faults        \* how many failures, signals and deaths may still happen

procVars == <<pc, iter, spam_detector_process_ids, keepRunning, pending, port,
              queues, copies, faults>>

\* Where signal_handler is in place.
Serving == {"serve", "stop"}
Alive == {p \in Procs : pc[p] \notin {"none", "gone", "killed"}}

ProcTypeOK ==
  /\ pc \in [Procs -> Serving \cup {"none", "fork", "child", "load", "detect",
                                    "gone", "killed"}]
  /\ iter \in [Procs -> 0 .. NUM_SPAM_DETECTORS]
  /\ spam_detector_process_ids \in [Procs -> [Slots -> Procs \cup {NoProcess}]]
  /\ keepRunning \in [Procs -> BOOLEAN]
  /\ pending \subseteq Alive
  /\ port \in Procs \cup {NoProcess}
  /\ queues \subseteq Slots
  /\ copies \subseteq Procs \ {Root}
  /\ faults \in Nat
  \* Whoever listens is there to accept, until it exits.
  /\ port # NoProcess => pc[port] \in Serving

ProcInit ==
  /\ pc = [p \in Procs |-> IF p = Root THEN "fork" ELSE "none"]
  /\ iter = [p \in Procs |-> 0]
  /\ spam_detector_process_ids = [p \in Procs |-> [i \in Slots |-> NoProcess]]
  /\ keepRunning = [p \in Procs |-> TRUE]
  /\ pending = {}
  /\ port = NoProcess
  /\ queues = {}
  /\ copies = {}

\* One more of what may go wrong does.
Fault == faults > 0 /\ faults' = faults - 1

Goes(p, to) == pc' = [pc EXCEPT ![p] = to]

\* What is left of a process is its exit status.
Ends(p, how) ==
  /\ Goes(p, how)
  /\ pending' = pending \ {p}
  /\ port' = IF port = p THEN NoProcess ELSE port

-----------------------------------------------------------------------------
(* fork_and_start_multiple_spam_detectors *)

\* The child is a copy, and its array has no entry for itself.
Fork(p) ==
  /\ pc[p] = "fork"
  /\ iter[p] \in Slots
  /\ LET child == p \cup {iter[p]} IN
       /\ pc' = [pc EXCEPT ![child] = "child"]
       /\ iter' = [iter EXCEPT ![child] = iter[p], ![p] = @ + 1]
       /\ spam_detector_process_ids' =
            [spam_detector_process_ids EXCEPT
               ![child] = spam_detector_process_ids[p],
               ![p][iter[p]] = child]
  /\ UNCHANGED <<keepRunning, pending, port, queues, copies, faults>>

\* Mutant: the loop has one round too many.
ForkFailsOnceMore(p) ==
  /\ Fault
  /\ pc[p] = "fork"
  /\ iter[p] <= NUM_SPAM_DETECTORS
  /\ iter' = [iter EXCEPT ![p] = @ + 1]
  /\ UNCHANGED <<pc, spam_detector_process_ids, keepRunning, pending, port,
                 queues, copies>>

ForkFails(p) ==
  /\ Fault
  /\ pc[p] = "fork"
  /\ iter[p] \in Slots
  /\ iter' = [iter EXCEPT ![p] = @ + 1]
  /\ UNCHANGED <<pc, spam_detector_process_ids, keepRunning, pending, port,
                 queues, copies>>

\* The queue under the slot's name is opened, and created if there is none.
interprocess_open_message_queue(slot) == queues' = queues \cup {slot}

\* The child's branch: it creates the queue of its slot, whatever follows.
Child(p, next) ==
  /\ pc[p] = "child"
  /\ Goes(p, next)
  /\ interprocess_open_message_queue(Slot(p))
  /\ UNCHANGED <<spam_detector_process_ids, keepRunning, pending, port>>

start_spam_detector_process(p) ==
  /\ Child(p, "load")
  /\ UNCHANGED <<iter, copies, faults>>

\* The loop goes on in the child.
ExecFails(p) ==
  /\ Fault
  /\ Child(p, "fork")
  /\ iter' = [iter EXCEPT ![p] = @ + 1]
  /\ copies' = copies \cup {p}

\* main.py up to its loop.
Load(p) ==
  /\ pc[p] = "load"
  /\ Goes(p, "detect")
  /\ interprocess_open_message_queue(Slot(p))
  /\ UNCHANGED <<iter, spam_detector_process_ids, keepRunning, pending, port,
                 copies, faults>>

\* An import, the configuration or the queue fails it.
LoadFails(p) ==
  /\ Fault
  /\ pc[p] = "load"
  /\ Ends(p, "gone")
  /\ UNCHANGED <<iter, spam_detector_process_ids, keepRunning, queues, copies>>

-----------------------------------------------------------------------------
(* run_server *)

\* signal_handler is put in place, and the port is free.
Bind(p) ==
  /\ pc[p] = "fork"
  /\ iter[p] = NUM_SPAM_DETECTORS
  /\ port = NoProcess
  /\ port' = p
  /\ Goes(p, "serve")
  /\ UNCHANGED <<iter, spam_detector_process_ids, keepRunning, pending, queues,
                 copies, faults>>

StartsToStop(p) ==
  /\ Goes(p, "stop")
  /\ iter' = [iter EXCEPT ![p] = 0]

\* The port is taken, here or by an earlier run; thread_handler returns.
BindFails(p) ==
  /\ pc[p] = "fork"
  /\ iter[p] = NUM_SPAM_DETECTORS
  /\ IF port = NoProcess THEN Fault ELSE UNCHANGED faults
  /\ StartsToStop(p)
  /\ UNCHANGED <<spam_detector_process_ids, keepRunning, pending, port, queues,
                 copies>>

\* handle_clients sees the flag, if need be after one more client.
Leave(p) ==
  /\ pc[p] = "serve"
  /\ ~keepRunning[p]
  /\ StartsToStop(p)
  /\ UNCHANGED <<spam_detector_process_ids, keepRunning, pending, port, queues,
                 copies, faults>>

-----------------------------------------------------------------------------
(* stop_all_spam_detectors, wait_for_child_processes *)

\* Process id 0 stands for the whole process group, the caller included.
Reached(pid) == IF pid = NoProcess THEN Alive ELSE {pid} \cap Alive

\* The name goes; a process that has the queue open can still use it.
interprocess_message_queue_cleanup(slot) == queues' = queues \ {slot}

\* Mutant: the loop begins with the second slot.
StopDetectorsFromOne(p) ==
  /\ pc[p] = "stop"
  /\ iter[p] \in Slots
  /\ pending' = pending \cup (IF iter[p] = 0 THEN {} ELSE
                     Reached(spam_detector_process_ids[p][iter[p]]))
  /\ interprocess_message_queue_cleanup(iter[p])
  /\ iter' = [iter EXCEPT ![p] = @ + 1]
  /\ UNCHANGED <<pc, spam_detector_process_ids, keepRunning, port, copies, faults>>

\* One round: the detector is signalled, its queue unlinked.
stop_spam_detector(p) ==
  /\ pc[p] = "stop"
  /\ iter[p] \in Slots
  /\ pending' = pending \cup Reached(spam_detector_process_ids[p][iter[p]])
  /\ interprocess_message_queue_cleanup(iter[p])
  /\ iter' = [iter EXCEPT ![p] = @ + 1]
  /\ UNCHANGED <<pc, spam_detector_process_ids, keepRunning, port, copies, faults>>

\* wait_for_child_processes has no children left, and main returns.
MainReturns(p) ==
  /\ pc[p] = "stop"
  /\ iter[p] = NUM_SPAM_DETECTORS
  /\ Children(p) \cap Alive = {}
  /\ Ends(p, "gone")
  /\ UNCHANGED <<iter, spam_detector_process_ids, keepRunning, queues, copies,
                 faults>>

-----------------------------------------------------------------------------
(* Signals *)

\* The operator interrupts the server, or all processes from a terminal.
Interrupt ==
  /\ Fault
  /\ Root \in Alive
  /\ \E targets \in {{Root}, Alive} : pending' = pending \cup targets
  /\ UNCHANGED <<pc, iter, spam_detector_process_ids, keepRunning, port, queues,
                 copies>>

\* Mutant: signal_handler is put in place before the forks.
DeliverToEarlyHandler(p) ==
  /\ p \in pending
  /\ IF pc[p] \in Serving \cup {"fork", "child"}
       THEN /\ keepRunning' = [keepRunning EXCEPT ![p] = FALSE]
            /\ pending' = pending \ {p}
            /\ UNCHANGED <<pc, port>>
       ELSE /\ Ends(p, "gone")
            /\ UNCHANGED keepRunning
  /\ UNCHANGED <<iter, spam_detector_process_ids, queues, copies, faults>>

\* signal_handler where it is in place.  sigint_handler of main.py and the
\* default action end the process.
Deliver(p) ==
  /\ p \in pending
  /\ IF pc[p] \in Serving
       THEN /\ keepRunning' = [keepRunning EXCEPT ![p] = FALSE]
            /\ pending' = pending \ {p}
            /\ UNCHANGED <<pc, port>>
       ELSE /\ Ends(p, "gone")
            /\ UNCHANGED keepRunning
  /\ UNCHANGED <<iter, spam_detector_process_ids, queues, copies, faults>>

\* A session's thread gets SIGPIPE.
ServerDies(p) ==
  /\ Fault
  /\ port = p
  /\ Ends(p, "killed")
  /\ UNCHANGED <<iter, spam_detector_process_ids, keepRunning, queues, copies>>

\* What a process does by itself.
ProcStep(p) ==
  \/ Fork(p) \/ ForkFails(p)
  \/ start_spam_detector_process(p) \/ ExecFails(p)
  \/ Load(p) \/ LoadFails(p)
  \/ Bind(p) \/ BindFails(p)
  \/ stop_spam_detector(p) \/ MainReturns(p)
  \/ Deliver(p)

=============================================================================
