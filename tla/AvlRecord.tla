------------------------------ MODULE AvlRecord ------------------------------
(***************************************************************************)
(* The AVL tree of online_record_datastruct.c, run by one thread at a      *)
(* time.  A node is a record, a subtree is the value of its root node, and *)
(* an assignment through a pointer builds the changed node.  Keys are      *)
(* compared with < where the code uses strcmp.                             *)
(***************************************************************************)
EXTENDS Integers, FiniteSets

CONSTANTS
  Users,    \* keys: user names, as integers in strcmp order
  Sockets   \* values: socket descriptors

ASSUME RecordAssumption ==
  /\ Users \subseteq Int /\ IsFiniteSet(Users)
  /\ Sockets \subseteq Int \ {-1}

VARIABLE root

NULL == [height |-> 0]

\* The subtrees of at most n levels: NULL, or a Node over two smaller ones.
TreesTo[n \in 0 .. Cardinality(Users)] ==
  IF n = 0 THEN {NULL}
  ELSE LET subtrees == TreesTo[n - 1]
       IN  {NULL} \cup [key : Users, value : Sockets, height : Nat,
                        left : subtrees, right : subtrees]

\* A tree that holds no user twice has no more levels than there are users.
Trees == TreesTo[Cardinality(Users)]

newNode(key, value) ==
  [key |-> key, value |-> value, left |-> NULL, right |-> NULL, height |-> 1]

height(N) == N.height

max(a, b) == IF a > b THEN a ELSE b

\* A node whose stored height is brought up to date from its children.
Measured(N) == [N EXCEPT !.height = 1 + max(height(N.left), height(N.right))]

getBalance(N) == IF N = NULL THEN 0 ELSE height(N.left) - height(N.right)

\* Mutant: the wrong subtree of x changes sides.
rightRotateOuter(y) ==
  LET x == y.left
  IN  Measured([x EXCEPT !.right = Measured([y EXCEPT !.left = x.left])])

rightRotate(y) ==
  LET x == y.left
  IN  Measured([x EXCEPT !.right = Measured([y EXCEPT !.left = x.right])])

leftRotate(x) ==
  LET y == x.right
  IN  Measured([y EXCEPT !.left = Measured([x EXCEPT !.right = y.left])])

-----------------------------------------------------------------------------
(* insert *)

\* The rotation insert applies to a node after key went in below it.
BalancedAfterInsert(node, key) ==
  LET balance == getBalance(node)
  IN  CASE balance > 1 /\ key < node.left.key -> rightRotate(node)
        [] balance < -1 /\ key > node.right.key -> leftRotate(node)
        [] balance > 1 /\ key > node.left.key ->
             rightRotate([node EXCEPT !.left = leftRotate(@)])
        [] balance < -1 /\ key < node.right.key ->
             leftRotate([node EXCEPT !.right = rightRotate(@)])
        [] OTHER -> node

insert(tree, key, value) ==
  LET Up(changed) == BalancedAfterInsert(Measured(changed), key)
      inserted[node \in Trees] ==
        IF node = NULL THEN newNode(key, value)
        ELSE CASE key < node.key -> Up([node EXCEPT !.left = inserted[@]])
               [] key > node.key -> Up([node EXCEPT !.right = inserted[@]])
               [] OTHER -> node
  IN  inserted[tree]

-----------------------------------------------------------------------------
(* deleteNode *)

\* The leftmost node.
minValueNode[node \in Trees \ {NULL}] ==
  IF node.left = NULL THEN node ELSE minValueNode[node.left]

\* Mutant: single rotations only.
RotatedOnceAfterDelete(node) ==
  LET balance == getBalance(node)
  IN  CASE balance > 1 -> rightRotate(node)
        [] balance < -1 -> leftRotate(node)
        [] OTHER -> node

\* The rotation deleteNode applies to a node on its way back up.
BalancedAfterDelete(node) ==
  LET balance == getBalance(node)
  IN  CASE balance > 1 /\ getBalance(node.left) >= 0 -> rightRotate(node)
        [] balance > 1 /\ getBalance(node.left) < 0 ->
             rightRotate([node EXCEPT !.left = leftRotate(@)])
        [] balance < -1 /\ getBalance(node.right) <= 0 -> leftRotate(node)
        [] balance < -1 /\ getBalance(node.right) > 0 ->
             leftRotate([node EXCEPT !.right = rightRotate(@)])
        [] OTHER -> node

\* Mutant: the value stays that of the node deleted.
SucceededKeyOnly(node, successor) == [node EXCEPT !.key = successor.key]

\* The node takes over its successor's key and value.
Succeeded(node, successor) ==
  [node EXCEPT !.key = successor.key, !.value = successor.value]

deleteNode(tree, username) ==
  LET Up(changed) == BalancedAfterDelete(Measured(changed))
      deleted[call \in Trees \X Users] ==
        LET node == call[1]
            key == call[2]
        IN  IF node = NULL THEN NULL
            ELSE CASE key < node.key ->
                        Up([node EXCEPT !.left = deleted[<<@, key>>]])
                   [] key > node.key ->
                        Up([node EXCEPT !.right = deleted[<<@, key>>]])
                   [] key = node.key /\ node.left = NULL ->
                        IF node.right = NULL THEN NULL ELSE Up(node.right)
                   [] key = node.key /\ node.left # NULL /\ node.right = NULL ->
                        Up(node.left)
                   [] OTHER ->
                        LET temp == minValueNode[node.right]
                        IN  Up([Succeeded(node, temp) EXCEPT
                                  !.right = deleted[<<@, temp.key>>]])
  IN  deleted[<<tree, username>>]

-----------------------------------------------------------------------------
(* search, update and the operations on the global root *)

search(tree, key) ==
  LET found[node \in Trees] ==
        IF node = NULL THEN NULL
        ELSE CASE node.key < key -> found[node.right]
               [] node.key > key -> found[node.left]
               [] OTHER -> node
  IN  found[tree]

is_online(username) ==
  LET found == search(root, username)
  IN  IF found = NULL THEN -1 ELSE found.value

set_online(username, socket) == root' = insert(root, username, socket)

set_offline(username) == root' = deleteNode(root, username)

\* The node that search finds gets the new value, in place.
Updated(tree, key, newValue) ==
  LET updated[node \in Trees] ==
        IF node = NULL THEN NULL
        ELSE CASE node.key < key -> [node EXCEPT !.right = updated[@]]
               [] node.key > key -> [node EXCEPT !.left = updated[@]]
               [] OTHER -> [node EXCEPT !.value = newValue]
  IN  updated[tree]

update(username, newValue) == root' = Updated(root, username, newValue)

Init == root = NULL

Next ==
  \E username \in Users :
    \/ set_offline(username)
    \/ \E socket \in Sockets : \/ set_online(username, socket)
                               \/ update(username, socket)

Spec == Init /\ [][Next]_root

-----------------------------------------------------------------------------
(* Properties *)

Depth[node \in Trees] ==
  IF node = NULL THEN 0 ELSE 1 + max(Depth[node.left], Depth[node.right])

AllNodes[node \in Trees] ==
  IF node = NULL THEN {}
  ELSE {node} \cup AllNodes[node.left] \cup AllNodes[node.right]

Keys(node) == {n.key : n \in AllNodes[node]}

\* The tree holds users only, each with a socket, and stays ordered: left
\* keys are smaller and right keys larger at every node.  It is what search
\* (online_record_datastruct.c:261-271) relies on when it descends, and every
\* rotation and the successor copy of deleteNode must keep it.
SearchTreeOrder ==
  \A node \in AllNodes[root] :
    /\ node.key \in Users /\ node.value \in Sockets
    /\ \A k \in Keys(node.left) : k < node.key
    /\ \A k \in Keys(node.right) : k > node.key

\* At every node the real depths of the two subtrees differ by at most one
\* and the stored height is the real depth: the rotations of insert and
\* deleteNode, steered by stored heights only, keep the tree an AVL tree
\* (online_record_datastruct.c:139-160 and 230-248).
HeightBalanced ==
  \A node \in AllNodes[root] :
    /\ node.height = Depth[node]
    /\ Depth[node.left] - Depth[node.right] \in -1 .. 1

Record == INSTANCE OnlineRecord
            WITH NotOnline <- -1, record <- [u \in Users |-> is_online(u)]

\* Seen through is_online, the tree behaves like the map of OnlineRecord: no
\* rotation, no successor copied over a deleted node (lines 222-236) and no
\* update loses or changes the entry of another user.  On the user it is
\* called for set_online does what insert does (lines 135-137), which for one
\* already on record is nothing, whatever lines 309-312 say of it.
ImplementsRecord == Record!Spec

=============================================================================
