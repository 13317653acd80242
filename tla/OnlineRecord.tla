---------------------------- MODULE OnlineRecord ----------------------------
(***************************************************************************)
(* What the functions of online_record_datastruct.c do, seen through       *)
(* is_online: a map from users to sockets.  It is the behaviour of the     *)
(* code, which in set_online is not what the comment above that function   *)
(* says: a user on record keeps the socket it has (the property            *)
(* SetOnlineTakesSocket of MessageRouting).  The balanced tree behind it   *)
(* is module AvlRecord; MessageRouting uses the record through this module.*)
(***************************************************************************)

CONSTANTS
  Users,     \* user names
  Sockets,   \* socket descriptors, all of them positive in the code
  NotOnline  \* what is_online answers for an unknown user: -1, no socket

VARIABLE record  \* the socket recorded for each user

TypeOK == record \in [Users -> Sockets \cup {NotOnline}]

Init == record = [u \in Users |-> NotOnline]

\* The answer of is_online for a user.
is_online(username) == record[username]

\* insert returns the node it finds as it is: the socket given is dropped.
set_online(username, socket) ==
  record' = [record EXCEPT ![username] = IF @ = NotOnline THEN socket ELSE @]

set_offline(username) == record' = [record EXCEPT ![username] = NotOnline]

\* A user that is not in the record stays out of it.
update(username, newValue) ==
  record' = [record EXCEPT ![username] = IF @ = NotOnline THEN @ ELSE newValue]

Next ==
  \E username \in Users :
    \/ set_offline(username)
    \/ \E socket \in Sockets : \/ set_online(username, socket)
                               \/ update(username, socket)

Spec == Init /\ [][Next]_record

=============================================================================
