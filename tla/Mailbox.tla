------------------------------- MODULE Mailbox -------------------------------
(***************************************************************************)
(* What the server promises about a message, whatever fails: it goes to a  *)
(* connection, into the table, or is lost; what is in the table is taken   *)
(* from it once, and goes to a connection or is lost.                      *)
(***************************************************************************)
VARIABLE status  \* "new", "held", "stored", "fetched", "shown" or "lost"

Init == status = "new"

Receive == status = "new" /\ status' = "held"
Store == status = "held" /\ status' = "stored"
Fetch == status = "stored" /\ status' = "fetched"
Show == status \in {"held", "fetched"} /\ status' = "shown"
Lose == status \in {"held", "stored", "fetched"} /\ status' = "lost"

Next == Receive \/ Store \/ Fetch \/ Show \/ Lose

Spec == Init /\ [][Next]_status

=============================================================================
