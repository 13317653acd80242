--------------------------- MODULE MCSpamPipeline ---------------------------
(* Instances of SpamPipeline for TLC. *)
EXTENDS SpamPipeline, TLC

CONSTANTS r1, r2, pair

\* All calls are of the same two users.
SamePair == [r \in Requests |-> pair]

\* Two faults without a call, and fewer with calls.
FaultsAndCalls == {[faults |-> 2, calls |-> {}],
                   [faults |-> 1, calls |-> {r1}],
                   [faults |-> 0, calls |-> {r1, r2}]}
=============================================================================
