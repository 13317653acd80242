--------------------------- MODULE AvlRecordProofs ---------------------------
(***************************************************************************)
(* Theorems about AvlRecord, for any finite set of users and any sockets:  *)
(* the tree of online_record_datastruct.c stays a balanced search tree and *)
(* behaves like the map of OnlineRecord.                                   *)
(*                                                                         *)
(* The inductive invariant, TreeInv, says that root is an Avl tree: a      *)
(* member of Trees, Ordered, and Balanced by the heights it stores.  The   *)
(* lemmas go from the data to the operations:                              *)
(*   - induction over the levels of a tree (TreeInduction), from the       *)
(*     least element of a set of finite sets;                              *)
(*   - the recursive functions satisfy the equations that define them,     *)
(*     since a function that does exists for the trees of each level;      *)
(*   - a node over two Avl trees whose heights differ by one at most, and  *)
(*     with a key between theirs, is an Avl tree (NodeJoins); if they      *)
(*     differ by two, the rotation that the code picks makes one;          *)
(*   - so insert, deleteNode and update of an Avl tree give an Avl tree,   *)
(*     with the entries they should have (Added, Removed, Rewritten).      *)
(***************************************************************************)
EXTENDS AvlRecord, FiniteSetTheorems, TLAPS

-----------------------------------------------------------------------------
(* Induction *)

\* Induction over the natural numbers, for a set.
LEMMA Induction ==
  ASSUME NEW S, 0 \in S, \A n \in Nat : n \in S => n + 1 \in S
  PROVE  Nat \subseteq S
<1> SUFFICES ASSUME NEW k \in Nat, k \notin S PROVE FALSE
  OBVIOUS
<1> DEFINE R == StrictSubsetOrdering(0 .. k)
           F == FiniteSubsetsOf(0 .. k)
           T == {0 .. j : j \in {i \in 0 .. k : i \notin S}}
<1>1. T # {} /\ T \subseteq F
  <2>1. ASSUME NEW j \in 0 .. k PROVE 0 .. j \in F
    BY FS_Interval DEF FiniteSubsetsOf
  <2> HIDE DEF F
  <2> QED  BY <2>1
<1>2. PICK t \in T : \A u \in T : ~ (<<u, t>> \in R)
  <2>1. IsWellFoundedOn(R, F)
    BY FS_Interval, FS_StrictSubsetOrderingWellFounded
  <2> HIDE DEF T, R, F
  <2> QED  BY <1>1, <2>1, WFMin
<1>3. PICK j \in 0 .. k : j \notin S /\ t = 0 .. j
  BY <1>2
<1>4. j - 1 \in 0 .. k /\ j - 1 \notin S
  <2>1. j # 0
    BY <1>3
  <2>2. j - 1 \in Nat /\ (j - 1) + 1 = j
    BY <2>1
  <2> QED  BY <1>3, <2>2
<1>5. <<0 .. (j - 1), t>> \in R
  <2>1. j \in 0 .. j /\ j \notin 0 .. (j - 1)
    OBVIOUS
  <2> QED  BY <1>3, <1>4, <2>1 DEF StrictSubsetOrdering
<1> QED  BY <1>2, <1>4, <1>5

\* The bound on the levels is a number.
LEMMA Levels == Cardinality(Users) \in Nat
BY RecordAssumption, FS_CardinalityType

\* The levels of subtrees satisfy the equation that defines them.
LEMMA TreesToDef ==
  \A n \in 0 .. Cardinality(Users) :
    TreesTo[n] = IF n = 0 THEN {NULL}
                 ELSE {NULL} \cup [key : Users, value : Sockets, height : Nat,
                                   left : TreesTo[n - 1], right : TreesTo[n - 1]]
<1> DEFINE E(f, n) == IF n = 0 THEN {NULL}
                      ELSE LET subtrees == f[n - 1]
                           IN  {NULL} \cup [key : Users, value : Sockets,
                                 height : Nat, left : subtrees, right : subtrees]
           S == {m \in Nat : \E f : f = [n \in 0 .. m |-> E(f, n)]}
<1>1. 0 \in S
  <2> DEFINE f == [n \in 0 .. 0 |-> {NULL}]
  <2>1. f = [n \in 0 .. 0 |-> E(f, n)]
    OBVIOUS
  <2> QED  BY <2>1
<1>2. ASSUME NEW m \in Nat, m \in S PROVE m + 1 \in S
  <2>1. PICK f : f = [n \in 0 .. m |-> E(f, n)]
    BY <1>2
  <2> DEFINE g == [n \in 0 .. m + 1 |-> E(f, n)]
  <2>2. \A n \in 0 .. m : g[n] = f[n]
    <3> HIDE DEF E
    <3> QED  BY <2>1
  <2>3. ASSUME NEW n \in 0 .. m + 1 PROVE E(f, n) = E(g, n)
    <3>1. n = 0 \/ n - 1 \in 0 .. m
      OBVIOUS
    <3> HIDE DEF g
    <3> QED  BY <2>2, <3>1
  <2>4. g = [n \in 0 .. m + 1 |-> E(g, n)]
    <3> HIDE DEF E
    <3> QED  BY <2>3
  <2> HIDE DEF E, g
  <2> QED  BY <2>4
<1>3. PICK f : f = [n \in 0 .. Cardinality(Users) |-> E(f, n)]
  BY <1>1, <1>2, Induction, Levels
<1>4. TreesTo = [n \in 0 .. Cardinality(Users) |-> E(TreesTo, n)]
  BY <1>3 DEF TreesTo
<1> HIDE DEF E
<1>5. \A n \in 0 .. Cardinality(Users) : TreesTo[n] = E(TreesTo, n)
  BY <1>4
<1> QED  BY <1>5 DEF E

\* No levels, no nodes.
LEMMA LevelZero == TreesTo[0] = {NULL}
<1>1. 0 \in 0 .. Cardinality(Users)
  BY Levels
<1> QED  BY <1>1, TreesToDef

\* A tree of n levels at most is one of n + 1 levels at most.
LEMMA LevelsGrow ==
  \A n \in Nat : n + 1 \in 0 .. Cardinality(Users) =>
    TreesTo[n] \subseteq TreesTo[n + 1]
<1> DEFINE S == {n \in Nat : n + 1 \in 0 .. Cardinality(Users) =>
                               TreesTo[n] \subseteq TreesTo[n + 1]}
<1>1. 0 \in S
  <2>1. 1 \in 0 .. Cardinality(Users) => NULL \in TreesTo[1]
    BY TreesToDef
  <2> QED  BY <2>1, LevelZero
<1>2. ASSUME NEW n \in Nat, n \in S PROVE n + 1 \in S
  <2> SUFFICES ASSUME (n + 1) + 1 \in 0 .. Cardinality(Users)
               PROVE  TreesTo[n + 1] \subseteq TreesTo[(n + 1) + 1]
    OBVIOUS
  <2>1. n + 1 \in 0 .. Cardinality(Users) /\ n + 1 # 0 /\ (n + 1) + 1 # 0
        /\ (n + 1) - 1 = n /\ ((n + 1) + 1) - 1 = n + 1
    BY Levels
  <2>2. TreesTo[n] \subseteq TreesTo[n + 1]
    BY <1>2, <2>1
  <2> DEFINE Nodes(T) == [key : Users, value : Sockets, height : Nat,
                          left : T, right : T]
  <2>3. TreesTo[n + 1] = {NULL} \cup Nodes(TreesTo[n])
    BY <2>1, TreesToDef
  <2>4. TreesTo[(n + 1) + 1] = {NULL} \cup Nodes(TreesTo[n + 1])
    BY <2>1, TreesToDef
  <2>5. Nodes(TreesTo[n]) \subseteq Nodes(TreesTo[n + 1])
    BY <2>2
  <2> HIDE DEF Nodes
  <2> QED  BY <2>3, <2>4, <2>5
<1> HIDE DEF S
<1>3. Nat \subseteq S
  BY <1>1, <1>2, Induction
<1> QED  BY <1>3 DEF S

\* A node is not the empty tree.
LEMMA NodeIsNotNull ==
  ASSUME NEW k, NEW v, NEW h, NEW l, NEW r
  PROVE  [key |-> k, value |-> v, height |-> h, left |-> l, right |-> r] # NULL
BY DEF NULL

\* A tree of some levels is NULL or a node over two trees of one level less.
LEMMA LevelShape ==
  ASSUME NEW n \in 0 .. Cardinality(Users), NEW t \in TreesTo[n], t # NULL
  PROVE  /\ n - 1 \in 0 .. Cardinality(Users)
         /\ t.key \in Users /\ t.value \in Sockets /\ t.height \in Nat
         /\ t.left \in TreesTo[n - 1] /\ t.right \in TreesTo[n - 1]
         /\ t.left \in TreesTo[n] /\ t.right \in TreesTo[n]
         /\ t = [key |-> t.key, value |-> t.value, height |-> t.height,
                 left |-> t.left, right |-> t.right]
<1>1. n # 0 /\ t \in [key : Users, value : Sockets, height : Nat,
                      left : TreesTo[n - 1], right : TreesTo[n - 1]]
  BY TreesToDef
<1>2. n - 1 \in Nat /\ (n - 1) + 1 = n /\ n - 1 \in 0 .. Cardinality(Users)
  BY <1>1, Levels
<1>3. TreesTo[n - 1] \subseteq TreesTo[n]
  BY <1>2, LevelsGrow
<1> QED  BY <1>1, <1>2, <1>3

\* The subtrees of a node have a level less.
LEMMA ChildLevels ==
  ASSUME NEW n \in Nat, n + 1 \in 0 .. Cardinality(Users),
         NEW t \in TreesTo[n + 1], t # NULL
  PROVE  t.left \in TreesTo[n] /\ t.right \in TreesTo[n]
<1>1. (n + 1) - 1 = n
  OBVIOUS
<1> QED  BY <1>1, LevelShape

\* The fields of a node.
LEMMA Shape ==
  ASSUME NEW t \in Trees, t # NULL
  PROVE  /\ t.key \in Users /\ t.value \in Sockets /\ t.height \in Nat
         /\ t.left \in Trees /\ t.right \in Trees
         /\ t = [key |-> t.key, value |-> t.value, height |-> t.height,
                 left |-> t.left, right |-> t.right]
BY LevelShape, Levels DEF Trees

\* The bound on the levels may be raised.
LEMMA LevelsOrdered ==
  ASSUME NEW m \in Nat, NEW n \in Nat, m <= n, n \in 0 .. Cardinality(Users)
  PROVE  TreesTo[m] \subseteq TreesTo[n]
<1> DEFINE S == {d \in Nat : m + d \in 0 .. Cardinality(Users) =>
                               TreesTo[m] \subseteq TreesTo[m + d]}
<1>1. 0 \in S
  OBVIOUS
<1>2. ASSUME NEW d \in Nat, d \in S PROVE d + 1 \in S
  <2> SUFFICES ASSUME m + (d + 1) \in 0 .. Cardinality(Users)
               PROVE  TreesTo[m] \subseteq TreesTo[m + (d + 1)]
    OBVIOUS
  <2>1. /\ m + d \in Nat /\ (m + d) + 1 = m + (d + 1)
        /\ m + d \in 0 .. Cardinality(Users)
    BY Levels
  <2>2. TreesTo[m + d] \subseteq TreesTo[m + (d + 1)]
    BY <2>1, LevelsGrow
  <2> QED  BY <1>2, <2>1, <2>2
<1>3. n - m \in S
  <2> HIDE DEF S
  <2>1. Nat \subseteq S
    BY <1>1, <1>2, Induction
  <2> QED  BY <2>1
<1>4. m + (n - m) = n
  OBVIOUS
<1> QED  BY <1>3, <1>4

\* The trees of each level are trees.
LEMMA LevelsAreTrees ==
  \A n \in 0 .. Cardinality(Users) : TreesTo[n] \subseteq Trees
BY LevelsOrdered, Levels DEF Trees

\* The empty tree is a tree.
LEMMA NullIsATree == NULL \in Trees
<1>1. Cardinality(Users) \in 0 .. Cardinality(Users)
  BY Levels
<1> QED  BY <1>1, TreesToDef DEF Trees

\* What holds of NULL, and of a node when it holds of both its subtrees, holds
\* of every tree.
LEMMA TreeInduction ==
  ASSUME NEW S, NULL \in S,
         \A t \in Trees \ {NULL} : t.left \in S /\ t.right \in S => t \in S
  PROVE  Trees \subseteq S
<1> DEFINE L == {n \in Nat : n \in 0 .. Cardinality(Users) =>
                               TreesTo[n] \cap Trees \subseteq S}
<1>1. 0 \in L
  BY LevelZero
<1>2. ASSUME NEW n \in Nat, n \in L PROVE n + 1 \in L
  <2> SUFFICES ASSUME n + 1 \in 0 .. Cardinality(Users),
                      NEW t \in TreesTo[n + 1], t \in Trees, t # NULL
               PROVE  t \in S
    OBVIOUS
  <2>1. (n + 1) - 1 = n /\ n \in 0 .. Cardinality(Users)
    BY Levels
  <2>2. t.left \in TreesTo[n] /\ t.right \in TreesTo[n]
    BY <2>1, LevelShape
  <2>3. t.left \in Trees /\ t.right \in Trees
    BY Shape
  <2> QED  BY <1>2, <2>1, <2>2, <2>3
<1> HIDE DEF L
<1>3. Nat \subseteq L
  BY <1>1, <1>2, Induction
<1> QED  BY <1>3, Levels DEF L, Trees

-----------------------------------------------------------------------------
(* The recursive functions satisfy the equations that define them *)

\* A node that got another subtree, and its height brought up to date.
WithLeft(N, l) == Measured([N EXCEPT !.left = l])

WithRight(N, r) == Measured([N EXCEPT !.right = r])

\* The equations of Depth.
LEMMA DepthDef ==
  /\ Depth[NULL] = 0
  /\ \A t \in Trees \ {NULL} :
       Depth[t] = 1 + max(Depth[t.left], Depth[t.right])
<1> DEFINE E(f, t) ==
             IF t = NULL THEN 0 ELSE 1 + max(f[t.left], f[t.right])
           S == {n \in Nat : n \in 0 .. Cardinality(Users) =>
                  \E f : f = [t \in TreesTo[n] |-> E(f, t)]}
<1>1. 0 \in S
  <2>1. \E f : f = [t \in TreesTo[0] |-> 0]
    OBVIOUS
  <2>2. \A f : \A t \in TreesTo[0] : E(f, t) = 0
    BY LevelZero
  <2> HIDE DEF E
  <2> QED  BY <2>1, <2>2
<1> HIDE DEF E
<1>2. ASSUME NEW n \in Nat, n \in S PROVE n + 1 \in S
  <2> SUFFICES ASSUME n + 1 \in 0 .. Cardinality(Users)
               PROVE  \E g : g = [t \in TreesTo[n + 1] |-> E(g, t)]
    OBVIOUS
  <2>1. PICK f : f = [t \in TreesTo[n] |-> E(f, t)]
    <3>1. n \in 0 .. Cardinality(Users)
      BY Levels
    <3> QED  BY <1>2, <3>1
  <2> DEFINE g == [t \in TreesTo[n + 1] |-> E(f, t)]
  <2>2. \A t \in TreesTo[n] : g[t] = f[t]
    BY <2>1, LevelsGrow
  <2>3. ASSUME NEW t \in TreesTo[n + 1] PROVE E(f, t) = E(g, t)
    <3>1. CASE t = NULL
      BY <3>1 DEF E
    <3>2. CASE t # NULL
      <4>1. t.left \in TreesTo[n] /\ t.right \in TreesTo[n]
        BY <3>2, ChildLevels
      <4> HIDE DEF g
      <4> QED  BY <2>2, <3>2, <4>1 DEF E
    <3> QED  BY <3>1, <3>2
  <2>4. g = [t \in TreesTo[n + 1] |-> E(g, t)]
    BY <2>3
  <2> HIDE DEF g
  <2> QED  BY <2>4
<1>3. PICK h : h = [t \in Trees |-> E(h, t)]
  <2>1. Nat \subseteq S
    <3> HIDE DEF S
    <3> QED  BY <1>1, <1>2, Induction
  <2>2. Cardinality(Users) \in S
        /\ Cardinality(Users) \in 0 .. Cardinality(Users)
    <3> HIDE DEF S
    <3> QED  BY <2>1, Levels
  <2> QED  BY <2>2 DEF Trees
<1>4. Depth = [t \in Trees |-> E(Depth, t)]
  BY <1>3 DEF Depth, E
<1>5. \A t \in Trees : Depth[t] = E(Depth, t)
  BY <1>4
<1> QED  BY <1>5, NullIsATree, Shape DEF E

\* The equations of AllNodes.
LEMMA AllNodesDef ==
  /\ AllNodes[NULL] = {}
  /\ \A t \in Trees \ {NULL} :
       AllNodes[t] = {t} \cup AllNodes[t.left] \cup AllNodes[t.right]
<1> DEFINE E(f, t) ==
             IF t = NULL THEN {}
             ELSE {t} \cup f[t.left] \cup f[t.right]
           S == {n \in Nat : n \in 0 .. Cardinality(Users) =>
                  \E f : f = [t \in TreesTo[n] |-> E(f, t)]}
<1>1. 0 \in S
  <2>1. \E f : f = [t \in TreesTo[0] |-> {}]
    OBVIOUS
  <2>2. \A f : \A t \in TreesTo[0] : E(f, t) = {}
    BY LevelZero
  <2> HIDE DEF E
  <2> QED  BY <2>1, <2>2
<1> HIDE DEF E
<1>2. ASSUME NEW n \in Nat, n \in S PROVE n + 1 \in S
  <2> SUFFICES ASSUME n + 1 \in 0 .. Cardinality(Users)
               PROVE  \E g : g = [t \in TreesTo[n + 1] |-> E(g, t)]
    OBVIOUS
  <2>1. PICK f : f = [t \in TreesTo[n] |-> E(f, t)]
    <3>1. n \in 0 .. Cardinality(Users)
      BY Levels
    <3> QED  BY <1>2, <3>1
  <2> DEFINE g == [t \in TreesTo[n + 1] |-> E(f, t)]
  <2>2. \A t \in TreesTo[n] : g[t] = f[t]
    BY <2>1, LevelsGrow
  <2>3. ASSUME NEW t \in TreesTo[n + 1] PROVE E(f, t) = E(g, t)
    <3>1. CASE t = NULL
      BY <3>1 DEF E
    <3>2. CASE t # NULL
      <4>1. t.left \in TreesTo[n] /\ t.right \in TreesTo[n]
        BY <3>2, ChildLevels
      <4> HIDE DEF g
      <4> QED  BY <2>2, <3>2, <4>1 DEF E
    <3> QED  BY <3>1, <3>2
  <2>4. g = [t \in TreesTo[n + 1] |-> E(g, t)]
    BY <2>3
  <2> HIDE DEF g
  <2> QED  BY <2>4
<1>3. PICK h : h = [t \in Trees |-> E(h, t)]
  <2>1. Nat \subseteq S
    <3> HIDE DEF S
    <3> QED  BY <1>1, <1>2, Induction
  <2>2. Cardinality(Users) \in S
        /\ Cardinality(Users) \in 0 .. Cardinality(Users)
    <3> HIDE DEF S
    <3> QED  BY <2>1, Levels
  <2> QED  BY <2>2 DEF Trees
<1>4. AllNodes = [t \in Trees |-> E(AllNodes, t)]
  BY <1>3 DEF AllNodes, E
<1>5. \A t \in Trees : AllNodes[t] = E(AllNodes, t)
  BY <1>4
<1> QED  BY <1>5, NullIsATree, Shape DEF E

\* The equations of search.
LEMMA searchDef ==
  ASSUME NEW key \in Users
  PROVE  /\ search(NULL, key) = NULL
         /\ \A t \in Trees \ {NULL} :
              /\ t.key < key => search(t, key) = search(t.right, key)
              /\ t.key > key => search(t, key) = search(t.left, key)
              /\ t.key = key => search(t, key) = t
<1> DEFINE E(f, t) ==
             IF t = NULL THEN NULL
             ELSE CASE t.key < key -> f[t.right]
                    [] t.key > key -> f[t.left]
                    [] OTHER -> t
           S == {n \in Nat : n \in 0 .. Cardinality(Users) =>
                  \E f : f = [t \in TreesTo[n] |-> E(f, t)]}
<1>1. 0 \in S
  <2>1. \E f : f = [t \in TreesTo[0] |-> NULL]
    OBVIOUS
  <2>2. \A f : \A t \in TreesTo[0] : E(f, t) = NULL
    BY LevelZero
  <2> HIDE DEF E
  <2> QED  BY <2>1, <2>2
<1> HIDE DEF E
<1>2. ASSUME NEW n \in Nat, n \in S PROVE n + 1 \in S
  <2> SUFFICES ASSUME n + 1 \in 0 .. Cardinality(Users)
               PROVE  \E g : g = [t \in TreesTo[n + 1] |-> E(g, t)]
    OBVIOUS
  <2>1. PICK f : f = [t \in TreesTo[n] |-> E(f, t)]
    <3>1. n \in 0 .. Cardinality(Users)
      BY Levels
    <3> QED  BY <1>2, <3>1
  <2> DEFINE g == [t \in TreesTo[n + 1] |-> E(f, t)]
  <2>2. \A t \in TreesTo[n] : g[t] = f[t]
    BY <2>1, LevelsGrow
  <2>3. ASSUME NEW t \in TreesTo[n + 1] PROVE E(f, t) = E(g, t)
    <3>1. CASE t = NULL
      BY <3>1 DEF E
    <3>2. CASE t # NULL
      <4>1. t.left \in TreesTo[n] /\ t.right \in TreesTo[n]
        BY <3>2, ChildLevels
      <4> HIDE DEF g
      <4> QED  BY <2>2, <3>2, <4>1 DEF E
    <3> QED  BY <3>1, <3>2
  <2>4. g = [t \in TreesTo[n + 1] |-> E(g, t)]
    BY <2>3
  <2> HIDE DEF g
  <2> QED  BY <2>4
<1>3. PICK h : h = [t \in Trees |-> E(h, t)]
  <2>1. Nat \subseteq S
    <3> HIDE DEF S
    <3> QED  BY <1>1, <1>2, Induction
  <2>2. Cardinality(Users) \in S
        /\ Cardinality(Users) \in 0 .. Cardinality(Users)
    <3> HIDE DEF S
    <3> QED  BY <2>1, Levels
  <2> QED  BY <2>2 DEF Trees
<1> DEFINE F == CHOOSE f : f = [t \in Trees |-> E(f, t)]
<1>4. \A t : search(t, key) = F[t]
  BY DEF search, E, WithLeft, WithRight
<1>5. F = [t \in Trees |-> E(F, t)]
  BY <1>3
<1> HIDE DEF F
<1>6. \A t \in Trees : F[t] = E(F, t)
  BY <1>5
<1>7. F[NULL] = NULL
  BY <1>6, NullIsATree DEF E
<1> SUFFICES ASSUME NEW t \in Trees \ {NULL}
             PROVE  /\ t.key < key => search(t, key) = search(t.right, key)
                    /\ t.key > key => search(t, key) = search(t.left, key)
                    /\ t.key = key => search(t, key) = t
  BY <1>4, <1>7
<1>8. t.left \in Trees /\ t.right \in Trees /\ key \in Int /\ t.key \in Int
  BY Shape, RecordAssumption
<1>9. F[t] = E(F, t)
  BY <1>6
<1> QED  BY <1>4, <1>8, <1>9 DEF E

\* The equations of update.
LEMMA UpdatedDef ==
  ASSUME NEW key \in Users, NEW w
  PROVE  /\ Updated(NULL, key, w) = NULL
         /\ \A t \in Trees \ {NULL} :
              /\ t.key < key =>
                   Updated(t, key, w) =
                     [t EXCEPT !.right = Updated(t.right, key, w)]
              /\ t.key > key =>
                   Updated(t, key, w) =
                     [t EXCEPT !.left = Updated(t.left, key, w)]
              /\ t.key = key => Updated(t, key, w) = [t EXCEPT !.value = w]
<1> DEFINE E(f, t) ==
             IF t = NULL THEN NULL
             ELSE CASE t.key < key -> [t EXCEPT !.right = f[@]]
                    [] t.key > key -> [t EXCEPT !.left = f[@]]
                    [] OTHER -> [t EXCEPT !.value = w]
           S == {n \in Nat : n \in 0 .. Cardinality(Users) =>
                  \E f : f = [t \in TreesTo[n] |-> E(f, t)]}
<1>1. 0 \in S
  <2>1. \E f : f = [t \in TreesTo[0] |-> NULL]
    OBVIOUS
  <2>2. \A f : \A t \in TreesTo[0] : E(f, t) = NULL
    BY LevelZero
  <2> HIDE DEF E
  <2> QED  BY <2>1, <2>2
<1> HIDE DEF E
<1>2. ASSUME NEW n \in Nat, n \in S PROVE n + 1 \in S
  <2> SUFFICES ASSUME n + 1 \in 0 .. Cardinality(Users)
               PROVE  \E g : g = [t \in TreesTo[n + 1] |-> E(g, t)]
    OBVIOUS
  <2>1. PICK f : f = [t \in TreesTo[n] |-> E(f, t)]
    <3>1. n \in 0 .. Cardinality(Users)
      BY Levels
    <3> QED  BY <1>2, <3>1
  <2> DEFINE g == [t \in TreesTo[n + 1] |-> E(f, t)]
  <2>2. \A t \in TreesTo[n] : g[t] = f[t]
    BY <2>1, LevelsGrow
  <2>3. ASSUME NEW t \in TreesTo[n + 1] PROVE E(f, t) = E(g, t)
    <3>1. CASE t = NULL
      BY <3>1 DEF E
    <3>2. CASE t # NULL
      <4>1. t.left \in TreesTo[n] /\ t.right \in TreesTo[n]
        BY <3>2, ChildLevels
      <4> HIDE DEF g
      <4> QED  BY <2>2, <3>2, <4>1 DEF E
    <3> QED  BY <3>1, <3>2
  <2>4. g = [t \in TreesTo[n + 1] |-> E(g, t)]
    BY <2>3
  <2> HIDE DEF g
  <2> QED  BY <2>4
<1>3. PICK h : h = [t \in Trees |-> E(h, t)]
  <2>1. Nat \subseteq S
    <3> HIDE DEF S
    <3> QED  BY <1>1, <1>2, Induction
  <2>2. Cardinality(Users) \in S
        /\ Cardinality(Users) \in 0 .. Cardinality(Users)
    <3> HIDE DEF S
    <3> QED  BY <2>1, Levels
  <2> QED  BY <2>2 DEF Trees
<1> DEFINE F == CHOOSE f : f = [t \in Trees |-> E(f, t)]
<1>4. \A t : Updated(t, key, w) = F[t]
  BY DEF Updated, E, WithLeft, WithRight
<1>5. F = [t \in Trees |-> E(F, t)]
  BY <1>3
<1> HIDE DEF F
<1>6. \A t \in Trees : F[t] = E(F, t)
  BY <1>5
<1>7. F[NULL] = NULL
  BY <1>6, NullIsATree DEF E
<1> SUFFICES ASSUME NEW t \in Trees \ {NULL}
             PROVE  /\ t.key < key =>
                         Updated(t, key, w) =
                           [t EXCEPT !.right = Updated(t.right, key, w)]
                    /\ t.key > key =>
                         Updated(t, key, w) =
                           [t EXCEPT !.left = Updated(t.left, key, w)]
                    /\ t.key = key =>
                         Updated(t, key, w) = [t EXCEPT !.value = w]
  BY <1>4, <1>7
<1>8. t.left \in Trees /\ t.right \in Trees /\ key \in Int /\ t.key \in Int
  BY Shape, RecordAssumption
<1>9. F[t] = E(F, t)
  BY <1>6
<1> QED  BY <1>4, <1>8, <1>9 DEF E

\* The equations of insert.
LEMMA insertDef ==
  ASSUME NEW key \in Users, NEW value
  PROVE  /\ insert(NULL, key, value) = newNode(key, value)
         /\ \A t \in Trees \ {NULL} :
              /\ key < t.key =>
                   insert(t, key, value) =
                     BalancedAfterInsert(
                       WithLeft(t, insert(t.left, key, value)), key)
              /\ key > t.key =>
                   insert(t, key, value) =
                     BalancedAfterInsert(
                       WithRight(t, insert(t.right, key, value)), key)
              /\ key = t.key => insert(t, key, value) = t
<1> DEFINE E(f, t) ==
             IF t = NULL THEN newNode(key, value)
             ELSE CASE key < t.key ->
                         BalancedAfterInsert(WithLeft(t, f[t.left]), key)
                    [] key > t.key ->
                         BalancedAfterInsert(WithRight(t, f[t.right]), key)
                    [] OTHER -> t
           S == {n \in Nat : n \in 0 .. Cardinality(Users) =>
                  \E f : f = [t \in TreesTo[n] |-> E(f, t)]}
<1>1. 0 \in S
  <2>1. \E f : f = [t \in TreesTo[0] |-> newNode(key, value)]
    OBVIOUS
  <2>2. \A f : \A t \in TreesTo[0] : E(f, t) = newNode(key, value)
    BY LevelZero
  <2> HIDE DEF E
  <2> QED  BY <2>1, <2>2
<1> HIDE DEF E
<1>2. ASSUME NEW n \in Nat, n \in S PROVE n + 1 \in S
  <2> SUFFICES ASSUME n + 1 \in 0 .. Cardinality(Users)
               PROVE  \E g : g = [t \in TreesTo[n + 1] |-> E(g, t)]
    OBVIOUS
  <2>1. PICK f : f = [t \in TreesTo[n] |-> E(f, t)]
    <3>1. n \in 0 .. Cardinality(Users)
      BY Levels
    <3> QED  BY <1>2, <3>1
  <2> DEFINE g == [t \in TreesTo[n + 1] |-> E(f, t)]
  <2>2. \A t \in TreesTo[n] : g[t] = f[t]
    BY <2>1, LevelsGrow
  <2>3. ASSUME NEW t \in TreesTo[n + 1] PROVE E(f, t) = E(g, t)
    <3>1. CASE t = NULL
      BY <3>1 DEF E
    <3>2. CASE t # NULL
      <4>1. t.left \in TreesTo[n] /\ t.right \in TreesTo[n]
        BY <3>2, ChildLevels
      <4> HIDE DEF g
      <4> QED  BY <2>2, <3>2, <4>1 DEF E
    <3> QED  BY <3>1, <3>2
  <2>4. g = [t \in TreesTo[n + 1] |-> E(g, t)]
    BY <2>3
  <2> HIDE DEF g
  <2> QED  BY <2>4
<1>3. PICK h : h = [t \in Trees |-> E(h, t)]
  <2>1. Nat \subseteq S
    <3> HIDE DEF S
    <3> QED  BY <1>1, <1>2, Induction
  <2>2. Cardinality(Users) \in S
        /\ Cardinality(Users) \in 0 .. Cardinality(Users)
    <3> HIDE DEF S
    <3> QED  BY <2>1, Levels
  <2> QED  BY <2>2 DEF Trees
<1> DEFINE F == CHOOSE f : f = [t \in Trees |-> E(f, t)]
<1>4. \A t : insert(t, key, value) = F[t]
  BY DEF insert, E, WithLeft, WithRight
<1>5. F = [t \in Trees |-> E(F, t)]
  BY <1>3
<1> HIDE DEF F
<1>6. \A t \in Trees : F[t] = E(F, t)
  BY <1>5
<1>7. F[NULL] = newNode(key, value)
  BY <1>6, NullIsATree DEF E
<1> SUFFICES ASSUME NEW t \in Trees \ {NULL}
             PROVE  /\ key < t.key =>
                         insert(t, key, value) =
                           BalancedAfterInsert(
                             WithLeft(t, insert(t.left, key, value)), key)
                    /\ key > t.key =>
                         insert(t, key, value) =
                           BalancedAfterInsert(
                             WithRight(t, insert(t.right, key, value)), key)
                    /\ key = t.key => insert(t, key, value) = t
  BY <1>4, <1>7
<1>8. t.left \in Trees /\ t.right \in Trees /\ key \in Int /\ t.key \in Int
  BY Shape, RecordAssumption
<1>9. F[t] = E(F, t)
  BY <1>6
<1> QED  BY <1>4, <1>8, <1>9 DEF E

\* The equations of minValueNode.
LEMMA minValueNodeDef ==
  \A t \in Trees \ {NULL} :
    minValueNode[t] = IF t.left = NULL THEN t ELSE minValueNode[t.left]
<1> DEFINE E(f, t) ==
             IF t.left = NULL THEN t ELSE f[t.left]
           S == {n \in Nat : n \in 0 .. Cardinality(Users) =>
                  \E f : f = [t \in TreesTo[n] \ {NULL} |-> E(f, t)]}
<1>1. 0 \in S
  <2>1. \E f : f = [t \in {} |-> t]
    OBVIOUS
  <2>2. \A f : \A t \in TreesTo[0] \ {NULL} : E(f, t) = t
    BY LevelZero
  <2> HIDE DEF E
  <2> QED  BY <2>1, <2>2
<1> HIDE DEF E
<1>2. ASSUME NEW n \in Nat, n \in S PROVE n + 1 \in S
  <2> SUFFICES ASSUME n + 1 \in 0 .. Cardinality(Users)
               PROVE  \E g : g = [t \in TreesTo[n + 1] \ {NULL} |-> E(g, t)]
    OBVIOUS
  <2>1. PICK f : f = [t \in TreesTo[n] \ {NULL} |-> E(f, t)]
    <3>1. n \in 0 .. Cardinality(Users)
      BY Levels
    <3> QED  BY <1>2, <3>1
  <2> DEFINE g == [t \in TreesTo[n + 1] \ {NULL} |-> E(f, t)]
  <2>2. \A t \in TreesTo[n] \ {NULL} : g[t] = f[t]
    BY <2>1, LevelsGrow
  <2>3. ASSUME NEW t \in TreesTo[n + 1] \ {NULL} PROVE E(f, t) = E(g, t)
    <3>1. t.left \in TreesTo[n]
      BY ChildLevels
    <3> HIDE DEF g
    <3> QED  BY <2>2, <3>1 DEF E
  <2>4. g = [t \in TreesTo[n + 1] \ {NULL} |-> E(g, t)]
    BY <2>3
  <2> HIDE DEF g
  <2> QED  BY <2>4
<1>3. PICK h : h = [t \in Trees \ {NULL} |-> E(h, t)]
  <2>1. Nat \subseteq S
    <3> HIDE DEF S
    <3> QED  BY <1>1, <1>2, Induction
  <2>2. Cardinality(Users) \in S
        /\ Cardinality(Users) \in 0 .. Cardinality(Users)
    <3> HIDE DEF S
    <3> QED  BY <2>1, Levels
  <2> QED  BY <2>2 DEF Trees
<1>4. minValueNode = [t \in Trees \ {NULL} |-> E(minValueNode, t)]
  BY <1>3 DEF minValueNode, E
<1>5. \A t \in Trees \ {NULL} : minValueNode[t] = E(minValueNode, t)
  BY <1>4
<1> QED  BY <1>5, NullIsATree, Shape DEF E

\* The leftmost node is a node.
LEMMA MinValueNodeType ==
  ASSUME NEW t \in Trees, t # NULL
  PROVE  minValueNode[t] \in Trees \ {NULL}
<1> DEFINE S == {u \in Trees : u # NULL => minValueNode[u] \in Trees \ {NULL}}
<1>1. ASSUME NEW u \in Trees \ {NULL}, u.left \in S, u.right \in S
      PROVE  u \in S
  BY <1>1, minValueNodeDef, Shape
<1> HIDE DEF S
<1>2. Trees \subseteq S
  <2>1. NULL \in S
    BY NullIsATree DEF S
  <2> QED  BY <1>1, <2>1, TreeInduction
<1> QED  BY <1>2 DEF S

\* The equations of deleteNode.
LEMMA deleteNodeDef ==
  /\ \A key \in Users : deleteNode(NULL, key) = NULL
  /\ \A t \in Trees \ {NULL} : \A key \in Users :
       /\ key < t.key =>
            deleteNode(t, key) =
              BalancedAfterDelete(WithLeft(t, deleteNode(t.left, key)))
       /\ key > t.key =>
            deleteNode(t, key) =
              BalancedAfterDelete(WithRight(t, deleteNode(t.right, key)))
       /\ key = t.key /\ t.left = NULL =>
            deleteNode(t, key) = IF t.right = NULL THEN NULL
                                 ELSE BalancedAfterDelete(Measured(t.right))
       /\ key = t.key /\ t.left # NULL /\ t.right = NULL =>
            deleteNode(t, key) = BalancedAfterDelete(Measured(t.left))
       /\ key = t.key /\ t.left # NULL /\ t.right # NULL =>
            LET temp == minValueNode[t.right]
            IN  deleteNode(t, key) =
                  BalancedAfterDelete(
                    WithRight(Succeeded(t, temp),
                              deleteNode(t.right, temp.key)))
<1> DEFINE E(f, t, key) ==
             IF t = NULL THEN NULL
             ELSE CASE key < t.key ->
                         BalancedAfterDelete(WithLeft(t, f[<<t.left, key>>]))
                    [] key > t.key ->
                         BalancedAfterDelete(WithRight(t, f[<<t.right, key>>]))
                    [] key = t.key /\ t.left = NULL ->
                         IF t.right = NULL THEN NULL
                         ELSE BalancedAfterDelete(Measured(t.right))
                    [] key = t.key /\ t.left # NULL /\ t.right = NULL ->
                         BalancedAfterDelete(Measured(t.left))
                    [] OTHER ->
                         LET temp == minValueNode[t.right]
                         IN  BalancedAfterDelete(
                               WithRight(Succeeded(t, temp),
                                 f[<<Succeeded(t, temp).right, temp.key>>]))
           S == {n \in Nat : n \in 0 .. Cardinality(Users) =>
                  \E f : f = [c \in TreesTo[n] \X Users |-> E(f, c[1], c[2])]}
<1>1. 0 \in S
  <2>1. \E f : f = [c \in TreesTo[0] \X Users |-> NULL]
    OBVIOUS
  <2>2. \A f : \A t \in TreesTo[0] : \A key \in Users : E(f, t, key) = NULL
    BY LevelZero
  <2> HIDE DEF E
  <2> QED  BY <2>1, <2>2
<1> HIDE DEF E
<1>2. ASSUME NEW n \in Nat, n \in S PROVE n + 1 \in S
  <2> SUFFICES ASSUME n + 1 \in 0 .. Cardinality(Users)
               PROVE  \E g : g = [c \in TreesTo[n + 1] \X Users |->
                                    E(g, c[1], c[2])]
    OBVIOUS
  <2>1. PICK f : f = [c \in TreesTo[n] \X Users |-> E(f, c[1], c[2])]
    <3>1. n \in 0 .. Cardinality(Users)
      BY Levels
    <3> QED  BY <1>2, <3>1
  <2> DEFINE g == [c \in TreesTo[n + 1] \X Users |-> E(f, c[1], c[2])]
  <2>2. \A t \in TreesTo[n] : \A key \in Users : g[<<t, key>>] = f[<<t, key>>]
    BY <2>1, LevelsGrow
  <2>3. ASSUME NEW t \in TreesTo[n + 1], NEW key \in Users
        PROVE  E(f, t, key) = E(g, t, key)
    <3>1. CASE t = NULL
      BY <3>1 DEF E
    <3>2. CASE t # NULL
      <4>1. t.left \in TreesTo[n] /\ t.right \in TreesTo[n]
        BY <3>2, ChildLevels
      <4>2. t.right # NULL => minValueNode[t.right].key \in Users
        BY <4>1, LevelsAreTrees, MinValueNodeType, Shape, Levels
      <4>3. \A temp : Succeeded(t, temp).right = t.right
        BY <3>2, LevelShape DEF Succeeded
      <4>4. key \in Int /\ t.key \in Int
        BY <3>2, LevelShape, RecordAssumption
      <4> HIDE DEF g
      <4> QED  BY <2>2, <3>2, <4>1, <4>2, <4>3, <4>4 DEF E
    <3> QED  BY <3>1, <3>2
  <2>4. g = [c \in TreesTo[n + 1] \X Users |-> E(g, c[1], c[2])]
    BY <2>3
  <2> HIDE DEF g
  <2> QED  BY <2>4
<1>3. PICK h : h = [c \in Trees \X Users |-> E(h, c[1], c[2])]
  <2>1. Nat \subseteq S
    <3> HIDE DEF S
    <3> QED  BY <1>1, <1>2, Induction
  <2>2. Cardinality(Users) \in S
        /\ Cardinality(Users) \in 0 .. Cardinality(Users)
    <3> HIDE DEF S
    <3> QED  BY <2>1, Levels
  <2> QED  BY <2>2 DEF Trees
<1> DEFINE F == CHOOSE f : f = [c \in Trees \X Users |-> E(f, c[1], c[2])]
<1>4. \A t, key : deleteNode(t, key) = F[<<t, key>>]
  BY DEF deleteNode, E, WithLeft, WithRight
<1>5. F = [c \in Trees \X Users |-> E(F, c[1], c[2])]
  BY <1>3
<1> HIDE DEF F
<1>6. \A t \in Trees : \A key \in Users : F[<<t, key>>] = E(F, t, key)
  BY <1>5
<1>7. \A key \in Users : F[<<NULL, key>>] = NULL
  BY <1>6, NullIsATree DEF E
<1>8. ASSUME NEW t \in Trees \ {NULL}, NEW key \in Users
      PROVE  /\ key < t.key => F[<<t, key>>] =
                  BalancedAfterDelete(WithLeft(t, F[<<t.left, key>>]))
             /\ key > t.key => F[<<t, key>>] =
                  BalancedAfterDelete(WithRight(t, F[<<t.right, key>>]))
             /\ key = t.key /\ t.left = NULL =>
                  F[<<t, key>>] = IF t.right = NULL THEN NULL
                                  ELSE BalancedAfterDelete(Measured(t.right))
             /\ key = t.key /\ t.left # NULL /\ t.right = NULL =>
                  F[<<t, key>>] = BalancedAfterDelete(Measured(t.left))
             /\ key = t.key /\ t.left # NULL /\ t.right # NULL =>
                  LET temp == minValueNode[t.right]
                  IN  F[<<t, key>>] =
                        BalancedAfterDelete(
                          WithRight(Succeeded(t, temp),
                                    F[<<t.right, temp.key>>]))
  <2>1. key \in Int /\ t.key \in Int
    BY Shape, RecordAssumption
  <2>2. F[<<t, key>>] = E(F, t, key)
    BY <1>6
  <2>3. \A temp : Succeeded(t, temp).right = t.right
    BY Shape DEF Succeeded
  <2> QED  BY <2>1, <2>2, <2>3 DEF E
<1> QED  BY <1>4, <1>7, <1>8

-----------------------------------------------------------------------------
(* Search trees and balanced trees *)

\* What a tree records: a user's name and socket at every node.
Entries(node) == {<<n.key, n.value>> : n \in AllNodes[node]}

\* A node over two subtrees whose stored height is up to date.
Node(k, v, l, r) ==
  [key |-> k, value |-> v, height |-> 1 + max(height(l), height(r)),
   left |-> l, right |-> r]

Ordered(t) ==
  /\ t \in Trees
  /\ \A n \in AllNodes[t] : /\ \A k \in Keys(n.left) : k < n.key
                            /\ \A k \in Keys(n.right) : k > n.key

Balanced(t) ==
  \A n \in AllNodes[t] : /\ n.height = 1 + max(height(n.left), height(n.right))
                         /\ height(n.left) - height(n.right) \in -1 .. 1

Avl(t) == Ordered(t) /\ Balanced(t)

\* The node's key separates the keys of the two subtrees.
Between(l, k, r) == /\ \A x \in Keys(l) : x < k
                    /\ \A x \in Keys(r) : x > k

\* t is a balanced search tree that holds what l and r hold, and one more.
Joins(t, k, v, l, r) ==
  /\ Avl(t) /\ t # NULL
  /\ Keys(t) = Keys(l) \cup {k} \cup Keys(r)
  /\ Entries(t) = Entries(l) \cup {<<k, v>>} \cup Entries(r)

\* Reading the fields of a node.
LEMMA NodeFields ==
  ASSUME NEW k, NEW v, NEW l, NEW r
  PROVE  /\ Node(k, v, l, r) # NULL
         /\ Node(k, v, l, r).key = k /\ Node(k, v, l, r).value = v
         /\ Node(k, v, l, r).left = l /\ Node(k, v, l, r).right = r
         /\ height(Node(k, v, l, r)) = 1 + max(height(l), height(r))
BY NodeIsNotNull DEF Node, height

\* The empty tree is a balanced search tree.
LEMMA NullHoldsNothing ==
  /\ Keys(NULL) = {} /\ Entries(NULL) = {} /\ height(NULL) = 0
  /\ Avl(NULL)
BY AllNodesDef, NullIsATree
   DEF Keys, Entries, height, NULL, Avl, Ordered, Balanced

\* The nodes of a tree are trees, and its keys users.
LEMMA NodesAreTrees ==
  ASSUME NEW t \in Trees
  PROVE  AllNodes[t] \subseteq Trees \ {NULL} /\ Keys(t) \subseteq Users
<1> DEFINE S == {u \in Trees : AllNodes[u] \subseteq Trees \ {NULL}}
<1>1. Trees \subseteq S
  <2>1. NULL \in S
    BY NullIsATree, AllNodesDef
  <2>2. ASSUME NEW u \in Trees \ {NULL}, u.left \in S, u.right \in S
        PROVE  u \in S
    BY <2>2, AllNodesDef
  <2> HIDE DEF S
  <2> QED  BY <2>1, <2>2, TreeInduction
<1>2. AllNodes[t] \subseteq Trees \ {NULL}
  BY <1>1
<1> QED  BY <1>2, Shape DEF Keys

\* Stored heights are numbers.
LEMMA HeightType == ASSUME NEW t \in Trees PROVE height(t) \in Nat
BY Shape DEF height, NULL

\* What a tree holds is what its root and its subtrees hold.
LEMMA Contents ==
  ASSUME NEW t \in Trees, t # NULL
  PROVE  /\ Keys(t) = Keys(t.left) \cup {t.key} \cup Keys(t.right)
         /\ Entries(t) =
              Entries(t.left) \cup {<<t.key, t.value>>} \cup Entries(t.right)
<1>1. AllNodes[t] = {t} \cup AllNodes[t.left] \cup AllNodes[t.right]
  BY AllNodesDef
<1>2. Keys(t) = Keys(t.left) \cup {t.key} \cup Keys(t.right)
  BY <1>1 DEF Keys
<1>3. Entries(t) =
        Entries(t.left) \cup {<<t.key, t.value>>} \cup Entries(t.right)
  BY <1>1 DEF Entries
<1> QED  BY <1>2, <1>3

\* Every key has an entry, and every entry a key.
LEMMA KeysOfEntries ==
  ASSUME NEW t
  PROVE  /\ \A k, v : <<k, v>> \in Entries(t) => k \in Keys(t)
         /\ \A e \in Entries(t) : e = <<e[1], e[2]>> /\ e[1] \in Keys(t)
BY DEF Entries, Keys

\* A search tree is taken apart into two search trees.
LEMMA OrderedParts ==
  ASSUME NEW t, t # NULL, Ordered(t)
  PROVE  /\ Ordered(t.left) /\ Ordered(t.right)
         /\ Between(t.left, t.key, t.right)
BY AllNodesDef, Shape DEF Ordered, Between

\* A balanced search tree is taken apart into two.
LEMMA AvlParts ==
  ASSUME NEW t, t # NULL, Avl(t)
  PROVE  /\ t \in Trees /\ t.key \in Users /\ t.value \in Sockets
         /\ Avl(t.left) /\ Avl(t.right) /\ Between(t.left, t.key, t.right)
         /\ height(t.left) - height(t.right) \in -1 .. 1
         /\ t = Node(t.key, t.value, t.left, t.right)
         /\ height(t) = 1 + max(height(t.left), height(t.right))
         /\ height(t) \in Nat /\ height(t.left) \in Nat /\ height(t.right) \in Nat
<1>1. t \in Trees
  BY DEF Avl, Ordered
<1>2. AllNodes[t] = {t} \cup AllNodes[t.left] \cup AllNodes[t.right]
  BY <1>1, AllNodesDef
<1>3. Balanced(t) /\ Balanced(t.left) /\ Balanced(t.right)
  BY <1>2 DEF Avl, Balanced
<1>4. /\ Ordered(t.left) /\ Ordered(t.right) /\ Between(t.left, t.key, t.right)
  BY OrderedParts DEF Avl
<1>5. /\ t.height = 1 + max(height(t.left), height(t.right))
      /\ height(t.left) - height(t.right) \in -1 .. 1
  BY <1>2, <1>3 DEF Balanced
<1>6. t = Node(t.key, t.value, t.left, t.right)
  BY <1>1, <1>5, Shape DEF Node
<1> QED  BY <1>1, <1>3, <1>4, <1>5, <1>6, Shape, HeightType DEF Avl, height

\* A search tree has no more levels than keys.
LEMMA LevelsOfKeys ==
  ASSUME NEW t, Ordered(t)
  PROVE  /\ Cardinality(Keys(t)) \in 0 .. Cardinality(Users)
         /\ t \in TreesTo[Cardinality(Keys(t))]
<1> DEFINE Fits(u) == /\ Cardinality(Keys(u)) \in 0 .. Cardinality(Users)
                      /\ u \in TreesTo[Cardinality(Keys(u))]
           S == {u \in Trees : Ordered(u) => Fits(u)}
<1>1. NULL \in S
  <2>1. Cardinality(Keys(NULL)) = 0
    BY NullHoldsNothing, FS_EmptySet
  <2> QED  BY <2>1, NullIsATree, LevelZero, Levels
<1>2. ASSUME NEW u \in Trees \ {NULL}, u.left \in S, u.right \in S
      PROVE  u \in S
  <2> SUFFICES ASSUME Ordered(u) PROVE Fits(u)
    OBVIOUS
  <2> DEFINE n == Cardinality(Keys(u))
  <2>1. Fits(u.left) /\ Fits(u.right) /\ Between(u.left, u.key, u.right)
    BY <1>2, OrderedParts
  <2>2. /\ IsFiniteSet(Users) /\ Keys(u) \subseteq Users
        /\ u.key \in Int /\ u.key \in Keys(u)
    BY RecordAssumption, NodesAreTrees, Contents
  <2>3. IsFiniteSet(Keys(u)) /\ n \in Nat /\ n <= Cardinality(Users)
    BY <2>2, FS_Subset, FS_CardinalityType
  <2>4. IsFiniteSet(Keys(u) \ {u.key}) /\ Cardinality(Keys(u) \ {u.key}) = n - 1
    BY <2>2, <2>3, FS_RemoveElement
  <2>5. ASSUME NEW c \in {u.left, u.right}
        PROVE  c \in TreesTo[n - 1]
    <3>1. Keys(c) \subseteq Keys(u) \ {u.key}
      BY <2>1, <2>2, Contents DEF Between
    <3>2. Cardinality(Keys(c)) <= n - 1
      BY <2>4, <3>1, FS_Subset
    <3>3. Fits(c)
      BY <2>1
    <3>4. n - 1 \in 0 .. Cardinality(Users)
      BY <2>3, <3>2, <3>3, Levels
    <3> HIDE DEF n
    <3> QED  BY <3>2, <3>3, <3>4, LevelsOrdered
  <2>6. n # 0 /\ n \in 0 .. Cardinality(Users)
    BY <2>2, <2>3, FS_EmptySet, Levels
  <2>7. u \in [key : Users, value : Sockets, height : Nat,
               left : TreesTo[n - 1], right : TreesTo[n - 1]]
    <3> HIDE DEF n
    <3> QED  BY <2>5, Shape
  <2> HIDE DEF n
  <2>8. u \in TreesTo[n]
    BY <2>6, <2>7, TreesToDef
  <2> QED  BY <2>6, <2>8 DEF n
<1> HIDE DEF S
<1>3. Trees \subseteq S
  BY <1>1, <1>2, TreeInduction
<1> QED  BY <1>3 DEF S, Ordered

\* Two balanced search trees of nearly the same height, and a key between
\* theirs, make a balanced search tree.
LEMMA NodeJoins ==
  ASSUME NEW k \in Users, NEW v \in Sockets, NEW l, NEW r, Avl(l), Avl(r),
         Between(l, k, r), height(l) - height(r) \in -1 .. 1
  PROVE  Joins(Node(k, v, l, r), k, v, l, r)
<1> DEFINE t == Node(k, v, l, r)
<1>1. l \in Trees /\ r \in Trees /\ Ordered(l) /\ Ordered(r)
  BY DEF Avl, Ordered
<1>2. ASSUME NEW c \in {l, r} PROVE c \in TreesTo[Cardinality(Users) - 1]
  <2>1. IsFiniteSet(Users) /\ k \in Int
    BY RecordAssumption
  <2>2. /\ IsFiniteSet(Users \ {k})
        /\ Cardinality(Users \ {k}) = Cardinality(Users) - 1
    BY <2>1, FS_RemoveElement
  <2>3. Keys(c) \subseteq Users \ {k}
    BY <1>1, <2>1, NodesAreTrees DEF Between
  <2>4. Cardinality(Keys(c)) <= Cardinality(Users) - 1
    BY <2>2, <2>3, FS_Subset
  <2>5. /\ Cardinality(Keys(c)) \in 0 .. Cardinality(Users)
        /\ c \in TreesTo[Cardinality(Keys(c))]
    BY <1>1, LevelsOfKeys
  <2>6. Cardinality(Users) - 1 \in 0 .. Cardinality(Users)
    BY <2>4, <2>5, Levels
  <2> QED  BY <2>4, <2>5, <2>6, LevelsOrdered
<1>3. height(l) \in Nat /\ height(r) \in Nat
  BY <1>1, HeightType
<1>4. t \in Trees
  <2>1. Cardinality(Users) # 0 /\ Cardinality(Users) \in 0 .. Cardinality(Users)
    BY RecordAssumption, FS_EmptySet, Levels
  <2>2. 1 + max(height(l), height(r)) \in Nat
    BY <1>3 DEF max
  <2>3. t \in [key : Users, value : Sockets, height : Nat,
               left : TreesTo[Cardinality(Users) - 1],
               right : TreesTo[Cardinality(Users) - 1]]
    BY <1>2, <2>2 DEF Node
  <2> HIDE DEF t
  <2> QED  BY <2>1, <2>3, TreesToDef DEF Trees
<1>5. /\ t # NULL /\ t.key = k /\ t.value = v /\ t.left = l /\ t.right = r
      /\ t.height = 1 + max(height(l), height(r))
  BY NodeFields DEF height
<1> HIDE DEF t
<1>6. AllNodes[t] = {t} \cup AllNodes[l] \cup AllNodes[r]
  BY <1>4, <1>5, AllNodesDef
<1>7. Ordered(t)
  BY <1>1, <1>4, <1>5, <1>6 DEF Ordered, Between
<1>8. Balanced(t)
  BY <1>5, <1>6 DEF Avl, Balanced
<1>9. /\ Keys(t) = Keys(l) \cup {k} \cup Keys(r)
      /\ Entries(t) = Entries(l) \cup {<<k, v>>} \cup Entries(r)
  BY <1>4, <1>5, Contents
<1> QED  BY <1>5, <1>7, <1>8, <1>9 DEF Joins, Avl, t

-----------------------------------------------------------------------------
(* Rotations *)

Cell(k, v, h, l, r) ==
  [key |-> k, value |-> v, height |-> h, left |-> l, right |-> r]

\* A node and its fields, whatever height it stores.
LEMMA Cells ==
  ASSUME NEW k, NEW v, NEW h, NEW l, NEW r
  PROVE  /\ Cell(k, v, h, l, r).key = k /\ Cell(k, v, h, l, r).value = v
         /\ Cell(k, v, h, l, r).height = h
         /\ Cell(k, v, h, l, r).left = l /\ Cell(k, v, h, l, r).right = r
         /\ \A x : [Cell(k, v, h, l, r) EXCEPT !.left = x] = Cell(k, v, h, x, r)
         /\ \A x : [Cell(k, v, h, l, r) EXCEPT !.right = x] = Cell(k, v, h, l, x)
         /\ \A x : [Cell(k, v, h, l, r) EXCEPT !.height = x] = Cell(k, v, x, l, r)
         /\ Node(k, v, l, r) = Cell(k, v, 1 + max(height(l), height(r)), l, r)
<1>1. /\ Cell(k, v, h, l, r).key = k /\ Cell(k, v, h, l, r).value = v
      /\ Cell(k, v, h, l, r).height = h
      /\ Cell(k, v, h, l, r).left = l /\ Cell(k, v, h, l, r).right = r
  BY DEF Cell
<1>2. \A x : [Cell(k, v, h, l, r) EXCEPT !.left = x] = Cell(k, v, h, x, r)
  BY DEF Cell
<1>3. \A x : [Cell(k, v, h, l, r) EXCEPT !.right = x] = Cell(k, v, h, l, x)
  BY DEF Cell
<1>4. \A x : [Cell(k, v, h, l, r) EXCEPT !.height = x] = Cell(k, v, x, l, r)
  BY DEF Cell
<1>5. Node(k, v, l, r) = Cell(k, v, 1 + max(height(l), height(r)), l, r)
  BY DEF Cell, Node
<1> QED  BY <1>1, <1>2, <1>3, <1>4, <1>5

\* A stale height is forgotten when it is brought up to date.
LEMMA MeasuredCells ==
  ASSUME NEW k, NEW v, NEW h, NEW l, NEW r
  PROVE  Measured(Cell(k, v, h, l, r)) = Node(k, v, l, r)
BY Cells DEF Measured

\* A node that gets another subtree.
LEMMA MeasuredNodes ==
  ASSUME NEW t \in Trees, t # NULL
  PROVE  /\ \A l : WithLeft(t, l) = Node(t.key, t.value, l, t.right)
         /\ \A r : WithRight(t, r) = Node(t.key, t.value, t.left, r)
<1>1. t = Cell(t.key, t.value, t.height, t.left, t.right)
  BY Shape DEF Cell
<1>2. \A l : [t EXCEPT !.left = l] = Cell(t.key, t.value, t.height, l, t.right)
  BY <1>1, Cells
<1>3. \A r : [t EXCEPT !.right = r] = Cell(t.key, t.value, t.height, t.left, r)
  BY <1>1, Cells
<1> QED  BY <1>2, <1>3, MeasuredCells DEF WithLeft, WithRight

\* The rotations, on nodes whose parts are known.
LEMMA RotatedCells ==
  ASSUME NEW k, NEW v, NEW h, NEW k1, NEW v1, NEW h1, NEW a, NEW b, NEW c
  PROVE  /\ rightRotate(Cell(k, v, h, Cell(k1, v1, h1, a, b), c))
              = Node(k1, v1, a, Node(k, v, b, c))
         /\ leftRotate(Cell(k, v, h, a, Cell(k1, v1, h1, b, c)))
              = Node(k1, v1, Node(k, v, a, b), c)
<1> DEFINE l == Cell(k1, v1, h1, a, b)
           r == Cell(k1, v1, h1, b, c)
<1>1. /\ Measured([Cell(k, v, h, l, c) EXCEPT !.left = b]) = Node(k, v, b, c)
      /\ Measured([Cell(k, v, h, a, r) EXCEPT !.right = b]) = Node(k, v, a, b)
  <2> HIDE DEF l, r
  <2>1. [Cell(k, v, h, l, c) EXCEPT !.left = b] = Cell(k, v, h, b, c)
    BY DEF Cell
  <2>2. [Cell(k, v, h, a, r) EXCEPT !.right = b] = Cell(k, v, h, a, b)
    BY DEF Cell
  <2>3. /\ Measured(Cell(k, v, h, b, c)) = Node(k, v, b, c)
        /\ Measured(Cell(k, v, h, a, b)) = Node(k, v, a, b)
    BY MeasuredCells
  <2> QED  BY <2>1, <2>2, <2>3, Zenon
<1>2. ASSUME NEW x
      PROVE  /\ Measured([l EXCEPT !.right = x]) = Node(k1, v1, a, x)
             /\ Measured([r EXCEPT !.left = x]) = Node(k1, v1, x, c)
  <2>1. [l EXCEPT !.right = x] = Cell(k1, v1, h1, a, x)
    BY DEF Cell
  <2>2. [r EXCEPT !.left = x] = Cell(k1, v1, h1, x, c)
    BY DEF Cell
  <2>3. /\ Measured(Cell(k1, v1, h1, a, x)) = Node(k1, v1, a, x)
        /\ Measured(Cell(k1, v1, h1, x, c)) = Node(k1, v1, x, c)
    BY MeasuredCells
  <2> HIDE DEF l, r
  <2> QED  BY <2>1, <2>2, <2>3, Zenon
<1>3. /\ l.right = b /\ r.left = b
      /\ Cell(k, v, h, l, c).left = l /\ Cell(k, v, h, a, r).right = r
  BY Cells
<1> HIDE DEF l, r
<1>4. rightRotate(Cell(k, v, h, l, c)) = Node(k1, v1, a, Node(k, v, b, c))
  BY <1>1, <1>2, <1>3 DEF rightRotate
<1>5. leftRotate(Cell(k, v, h, a, r)) = Node(k1, v1, Node(k, v, a, b), c)
  BY <1>1, <1>2, <1>3 DEF leftRotate
<1> QED  BY <1>4, <1>5 DEF l, r

\* The rotations, on nodes whose heights are up to date.
LEMMA RotatedNodes ==
  ASSUME NEW k, NEW v, NEW k1, NEW v1, NEW a, NEW b, NEW c
  PROVE  /\ rightRotate(Node(k, v, Node(k1, v1, a, b), c))
              = Node(k1, v1, a, Node(k, v, b, c))
         /\ leftRotate(Node(k, v, a, Node(k1, v1, b, c)))
              = Node(k1, v1, Node(k, v, a, b), c)
<1> DEFINE l == Node(k1, v1, a, b)
           r == Node(k1, v1, b, c)
           h1 == 1 + max(height(a), height(b))
           g1 == 1 + max(height(b), height(c))
           h == 1 + max(height(l), height(c))
           g == 1 + max(height(a), height(r))
<1>1. l = Cell(k1, v1, h1, a, b) /\ Node(k, v, l, c) = Cell(k, v, h, l, c)
  BY Cells
<1>2. r = Cell(k1, v1, g1, b, c) /\ Node(k, v, a, r) = Cell(k, v, g, a, r)
  BY Cells
<1> HIDE DEF h, h1, g, g1
<1>3. /\ rightRotate(Cell(k, v, h, Cell(k1, v1, h1, a, b), c))
           = Node(k1, v1, a, Node(k, v, b, c))
      /\ leftRotate(Cell(k, v, g, a, Cell(k1, v1, g1, b, c)))
           = Node(k1, v1, Node(k, v, a, b), c)
  BY RotatedCells
<1> QED  BY <1>1, <1>2, <1>3, Zenon

LeftRight(N) == rightRotate([N EXCEPT !.left = leftRotate(@)])

RightLeft(N) == leftRotate([N EXCEPT !.right = rightRotate(@)])

\* The double rotations.
LEMMA TwiceRotatedNodes ==
  ASSUME NEW k, NEW v, NEW k1, NEW v1, NEW k2, NEW v2,
         NEW a, NEW b, NEW c, NEW d
  PROVE  /\ LeftRight(Node(k, v, Node(k1, v1, a, Node(k2, v2, b, c)), d))
              = Node(k2, v2, Node(k1, v1, a, b), Node(k, v, c, d))
         /\ RightLeft(Node(k, v, a, Node(k1, v1, Node(k2, v2, b, c), d)))
              = Node(k2, v2, Node(k, v, a, b), Node(k1, v1, c, d))
<1> DEFINE x == Node(k1, v1, a, Node(k2, v2, b, c))
           y == Node(k1, v1, Node(k2, v2, b, c), d)
           p == Node(k1, v1, a, b)
           q == Node(k1, v1, c, d)
           x1 == Node(k2, v2, p, c)
           y1 == Node(k2, v2, b, q)
<1>1. leftRotate(x) = x1 /\ rightRotate(y) = y1
  BY RotatedNodes
<1>2. Node(k, v, x, d).left = x /\ Node(k, v, a, y).right = y
  BY NodeFields
<1> DEFINE f == 1 + max(height(p), height(c))
           g == 1 + max(height(b), height(q))
<1>3. x1 = Cell(k2, v2, f, p, c) /\ y1 = Cell(k2, v2, g, b, q)
  <2> HIDE DEF p, q
  <2> QED  BY Cells
<1> HIDE DEF x, y, p, q, x1, y1, f, g
<1>4. PICK h : [Node(k, v, x, d) EXCEPT !.left = x1] = Cell(k, v, h, x1, d)
  BY DEF Node, Cell
<1>5. PICK h1 : [Node(k, v, a, y) EXCEPT !.right = y1] = Cell(k, v, h1, a, y1)
  BY DEF Node, Cell
<1>6. LeftRight(Node(k, v, x, d)) = rightRotate(Cell(k, v, h, x1, d))
  BY <1>1, <1>2, <1>4, Zenon DEF LeftRight
<1>7. RightLeft(Node(k, v, a, y)) = leftRotate(Cell(k, v, h1, a, y1))
  BY <1>1, <1>2, <1>5, Zenon DEF RightLeft
<1>8. /\ rightRotate(Cell(k, v, h, x1, d)) = Node(k2, v2, p, Node(k, v, c, d))
      /\ leftRotate(Cell(k, v, h1, a, y1)) = Node(k2, v2, Node(k, v, a, b), q)
  BY <1>3, RotatedCells
<1> QED  BY <1>6, <1>7, <1>8 DEF x, y, p, q

\* The height of a node is that of its higher subtree and one.
LEMMA HeightOfNode ==
  ASSUME NEW k, NEW v, NEW l, NEW r, height(l) \in Nat, height(r) \in Nat
  PROVE  /\ height(Node(k, v, l, r)) \in Nat \ {0}
         /\ height(l) >= height(r) => height(Node(k, v, l, r)) = 1 + height(l)
         /\ height(r) >= height(l) => height(Node(k, v, l, r)) = 1 + height(r)
BY NodeFields DEF max

\* The heights in a balanced tree.
LEMMA AvlHeights ==
  ASSUME NEW t, Avl(t)
  PROVE  /\ height(t) \in Nat
         /\ t = NULL <=> height(t) = 0
         /\ t # NULL => /\ height(t.left) \in Nat /\ height(t.right) \in Nat
                        /\ height(t.left) - height(t.right) \in -1 .. 1
                        /\ height(t.left) >= height(t.right) =>
                             height(t) = 1 + height(t.left)
                        /\ height(t.right) >= height(t.left) =>
                             height(t) = 1 + height(t.right)
<1>1. CASE t = NULL
  BY <1>1, NullHoldsNothing
<1>2. CASE t # NULL
  BY <1>2, AvlParts DEF max
<1> QED  BY <1>1, <1>2

\* A left subtree too high by one level whose own left side is not the lower:
\* one rotation to the right.
LEMMA RightRotated ==
  ASSUME NEW k \in Users, NEW v \in Sockets, NEW l, NEW r, Avl(l), Avl(r),
         Between(l, k, r), height(l) = height(r) + 2,
         height(l.left) >= height(l.right)
  PROVE  LET t == rightRotate(Node(k, v, l, r))
         IN  /\ Joins(t, k, v, l, r)
             /\ height(t) = IF height(l.left) = height(l.right)
                            THEN height(l) + 1 ELSE height(l)
<1>1. l # NULL /\ height(r) \in Nat /\ k \in Int
  BY AvlHeights, NullHoldsNothing, RecordAssumption
<1>2. /\ Avl(l.left) /\ Avl(l.right) /\ Between(l.left, l.key, l.right)
      /\ l = Node(l.key, l.value, l.left, l.right) /\ l \in Trees
      /\ l.key \in Users /\ l.key \in Int /\ l.value \in Sockets
  BY <1>1, AvlParts, RecordAssumption
<1>3. /\ height(l.left) = height(r) + 1
      /\ height(l.right) \in {height(r), height(r) + 1}
      /\ height(l.right) \in Nat /\ height(l.left) \in Nat
  BY <1>1, AvlHeights
<1>4. /\ Keys(l) = Keys(l.left) \cup {l.key} \cup Keys(l.right)
      /\ Entries(l) =
           Entries(l.left) \cup {<<l.key, l.value>>} \cup Entries(l.right)
  BY <1>1, <1>2, Contents
<1> DEFINE s == Node(k, v, l.right, r)
           t == Node(l.key, l.value, l.left, s)
<1>5. rightRotate(Node(k, v, l, r)) = t
  BY <1>2, RotatedNodes
<1>6. Joins(s, k, v, l.right, r)
  <2>1. Between(l.right, k, r)
    BY <1>4 DEF Between
  <2>2. height(l.right) - height(r) \in -1 .. 1
    BY <1>1, <1>3
  <2> QED  BY <1>2, <2>1, <2>2, NodeJoins
<1>7. height(s) = height(l.right) + 1 /\ height(s) \in Nat
  BY <1>1, <1>3, HeightOfNode
<1> HIDE DEF s
<1>8. Joins(t, l.key, l.value, l.left, s)
  <2>1. l.key < k /\ \A x \in Keys(r) : x \in Int /\ x > k
    BY <1>2, <1>4, RecordAssumption, NodesAreTrees DEF Between, Avl, Ordered
  <2>2. \A x \in Keys(s) : x > l.key
    BY <1>1, <1>2, <1>6, <2>1 DEF Joins, Between
  <2>3. Between(l.left, l.key, s)
    BY <1>2, <2>2 DEF Between
  <2>4. height(l.left) - height(s) \in -1 .. 1
    BY <1>1, <1>3, <1>7
  <2> QED  BY <1>2, <1>6, <2>3, <2>4, NodeJoins DEF Joins
<1>9. height(t) = IF height(l.left) = height(l.right)
                  THEN height(l) + 1 ELSE height(l)
  BY <1>1, <1>3, <1>7, HeightOfNode
<1> HIDE DEF t
<1> QED  BY <1>4, <1>5, <1>6, <1>8, <1>9 DEF Joins

\* A right subtree too high by one level whose own right side is not the lower:
\* one rotation to the left.
LEMMA LeftRotated ==
  ASSUME NEW k \in Users, NEW v \in Sockets, NEW l, NEW r, Avl(l), Avl(r),
         Between(l, k, r), height(r) = height(l) + 2,
         height(r.right) >= height(r.left)
  PROVE  LET t == leftRotate(Node(k, v, l, r))
         IN  /\ Joins(t, k, v, l, r)
             /\ height(t) = IF height(r.left) = height(r.right)
                            THEN height(r) + 1 ELSE height(r)
<1>1. r # NULL /\ height(l) \in Nat /\ k \in Int
  BY AvlHeights, NullHoldsNothing, RecordAssumption
<1>2. /\ Avl(r.left) /\ Avl(r.right) /\ Between(r.left, r.key, r.right)
      /\ r = Node(r.key, r.value, r.left, r.right) /\ r \in Trees
      /\ r.key \in Users /\ r.key \in Int /\ r.value \in Sockets
  BY <1>1, AvlParts, RecordAssumption
<1>3. /\ height(r.right) = height(l) + 1
      /\ height(r.left) \in {height(l), height(l) + 1}
      /\ height(r.right) \in Nat /\ height(r.left) \in Nat
  BY <1>1, AvlHeights
<1>4. /\ Keys(r) = Keys(r.left) \cup {r.key} \cup Keys(r.right)
      /\ Entries(r) =
           Entries(r.left) \cup {<<r.key, r.value>>} \cup Entries(r.right)
  BY <1>1, <1>2, Contents
<1> DEFINE s == Node(k, v, l, r.left)
           t == Node(r.key, r.value, s, r.right)
<1>5. leftRotate(Node(k, v, l, r)) = t
  BY <1>2, RotatedNodes
<1>6. Joins(s, k, v, l, r.left)
  <2>1. Between(l, k, r.left)
    BY <1>4 DEF Between
  <2>2. height(l) - height(r.left) \in -1 .. 1
    BY <1>1, <1>3
  <2> QED  BY <1>2, <2>1, <2>2, NodeJoins
<1>7. height(s) = height(r.left) + 1 /\ height(s) \in Nat
  BY <1>1, <1>3, HeightOfNode
<1> HIDE DEF s
<1>8. Joins(t, r.key, r.value, s, r.right)
  <2>1. r.key > k /\ \A x \in Keys(l) : x \in Int /\ x < k
    BY <1>2, <1>4, RecordAssumption, NodesAreTrees DEF Between, Avl, Ordered
  <2>2. \A x \in Keys(s) : x < r.key
    BY <1>1, <1>2, <1>6, <2>1 DEF Joins, Between
  <2>3. Between(s, r.key, r.right)
    BY <1>2, <2>2 DEF Between
  <2>4. height(s) - height(r.right) \in -1 .. 1
    BY <1>1, <1>3, <1>7
  <2> QED  BY <1>2, <1>6, <2>3, <2>4, NodeJoins DEF Joins
<1>9. height(t) = IF height(r.left) = height(r.right)
                  THEN height(r) + 1 ELSE height(r)
  BY <1>1, <1>3, <1>7, HeightOfNode
<1> HIDE DEF t
<1> QED  BY <1>4, <1>5, <1>6, <1>8, <1>9 DEF Joins

\* A left subtree too high whose own right side is the higher: a rotation to
\* the left below, then one to the right.
LEMMA LeftRightRotated ==
  ASSUME NEW k \in Users, NEW v \in Sockets, NEW l, NEW r, Avl(l), Avl(r),
         Between(l, k, r), height(l) = height(r) + 2,
         height(l.left) < height(l.right)
  PROVE  LET t == LeftRight(Node(k, v, l, r))
         IN  Joins(t, k, v, l, r) /\ height(t) = height(l)
<1>1. l # NULL /\ height(r) \in Nat /\ k \in Int
  BY AvlHeights, NullHoldsNothing, RecordAssumption
<1>2. /\ Avl(l.left) /\ Avl(l.right) /\ Between(l.left, l.key, l.right)
      /\ l = Node(l.key, l.value, l.left, l.right) /\ l \in Trees
      /\ l.key \in Users /\ l.key \in Int /\ l.value \in Sockets
  BY <1>1, AvlParts, RecordAssumption
<1> DEFINE m == l.right
<1>3. /\ height(l.left) = height(r) /\ height(m) = height(r) + 1
  BY <1>1, AvlHeights
<1>4. m # NULL
  BY <1>1, <1>3, NullHoldsNothing
<1>5. /\ Avl(m.left) /\ Avl(m.right) /\ Between(m.left, m.key, m.right)
      /\ m = Node(m.key, m.value, m.left, m.right) /\ m \in Trees
      /\ m.key \in Users /\ m.key \in Int /\ m.value \in Sockets
  BY <1>2, <1>4, AvlParts, RecordAssumption
<1>6. /\ height(m.left) \in {height(r), height(r) - 1}
      /\ height(m.right) \in {height(r), height(r) - 1}
      /\ height(m.left) \in Nat /\ height(m.right) \in Nat
  <2> HIDE DEF m
  <2>1. Avl(m)
    BY <1>2 DEF m
  <2> QED  BY <1>1, <1>3, <1>4, <2>1, AvlHeights
<1> HIDE DEF m
<1>7. /\ Keys(l) = Keys(l.left) \cup {l.key} \cup Keys(m)
      /\ Entries(l) = Entries(l.left) \cup {<<l.key, l.value>>} \cup Entries(m)
      /\ Keys(m) = Keys(m.left) \cup {m.key} \cup Keys(m.right)
      /\ Entries(m) =
           Entries(m.left) \cup {<<m.key, m.value>>} \cup Entries(m.right)
  BY <1>1, <1>2, <1>4, <1>5, Contents DEF m
<1>8. /\ l.key < m.key /\ m.key < k
      /\ \A x \in Keys(l.left) : x \in Int /\ x < l.key
      /\ \A x \in Keys(r) : x \in Int /\ x > k
  BY <1>2, <1>5, <1>7, RecordAssumption, NodesAreTrees
     DEF Between, Avl, Ordered, m
<1> DEFINE a == Node(l.key, l.value, l.left, m.left)
           b == Node(k, v, m.right, r)
           t == Node(m.key, m.value, a, b)
<1>9. LeftRight(Node(k, v, l, r)) = t
  <2>1. l = Node(l.key, l.value, l.left,
                 Node(m.key, m.value, m.left, m.right))
    BY <1>2, <1>5 DEF m
  <2> HIDE DEF m
  <2>2. LeftRight(Node(k, v, Node(l.key, l.value, l.left,
                                  Node(m.key, m.value, m.left, m.right)), r))
          = Node(m.key, m.value, Node(l.key, l.value, l.left, m.left),
                 Node(k, v, m.right, r))
    BY TwiceRotatedNodes
  <2> HIDE DEF t
  <2>3. t = Node(m.key, m.value, Node(l.key, l.value, l.left, m.left),
                 Node(k, v, m.right, r))
    BY DEF t
  <2> QED  BY <2>1, <2>2, <2>3, Zenon
<1>10. Joins(a, l.key, l.value, l.left, m.left)
  <2>1. Between(l.left, l.key, m.left)
    BY <1>2, <1>7 DEF Between, m
  <2>2. height(l.left) - height(m.left) \in -1 .. 1
    BY <1>1, <1>3, <1>6
  <2> QED  BY <1>2, <1>5, <2>1, <2>2, NodeJoins
<1>11. Joins(b, k, v, m.right, r)
  <2>1. Between(m.right, k, r)
    BY <1>7 DEF Between, m
  <2>2. height(m.right) - height(r) \in -1 .. 1
    BY <1>1, <1>6
  <2> QED  BY <1>5, <2>1, <2>2, NodeJoins
<1>12. height(a) = height(r) + 1 /\ height(b) = height(r) + 1
  BY <1>1, <1>3, <1>6, HeightOfNode
<1> HIDE DEF a, b
<1>13. Joins(t, m.key, m.value, a, b)
  <2>1. \A x \in Keys(a) : x < m.key
    BY <1>2, <1>5, <1>8, <1>10 DEF Joins, Between
  <2>2. \A x \in Keys(b) : x > m.key
    BY <1>1, <1>5, <1>8, <1>11 DEF Joins, Between
  <2>3. height(a) - height(b) \in -1 .. 1
    BY <1>1, <1>12
  <2> QED  BY <1>5, <1>10, <1>11, <2>1, <2>2, <2>3, NodeJoins DEF Joins, Between
<1>14. height(t) = height(l)
  BY <1>1, <1>12, HeightOfNode
<1> HIDE DEF t
<1> QED  BY <1>7, <1>9, <1>10, <1>11, <1>13, <1>14 DEF Joins

\* The mirror image: the left side of the right subtree is the higher one.
LEMMA RightLeftRotated ==
  ASSUME NEW k \in Users, NEW v \in Sockets, NEW l, NEW r, Avl(l), Avl(r),
         Between(l, k, r), height(r) = height(l) + 2,
         height(r.right) < height(r.left)
  PROVE  LET t == RightLeft(Node(k, v, l, r))
         IN  Joins(t, k, v, l, r) /\ height(t) = height(r)
<1>1. r # NULL /\ height(l) \in Nat /\ k \in Int
  BY AvlHeights, NullHoldsNothing, RecordAssumption
<1>2. /\ Avl(r.left) /\ Avl(r.right) /\ Between(r.left, r.key, r.right)
      /\ r = Node(r.key, r.value, r.left, r.right) /\ r \in Trees
      /\ r.key \in Users /\ r.key \in Int /\ r.value \in Sockets
  BY <1>1, AvlParts, RecordAssumption
<1> DEFINE m == r.left
<1>3. /\ height(r.right) = height(l) /\ height(m) = height(l) + 1
  <2>1. /\ height(r.left) \in Nat /\ height(r.right) \in Nat
        /\ height(r.left) - height(r.right) \in -1 .. 1
        /\ height(r) = 1 + height(r.left)
    BY <1>1, AvlHeights
  <2> QED  BY <1>1, <2>1
<1>4. m # NULL
  BY <1>1, <1>3, NullHoldsNothing
<1>5. /\ Avl(m.left) /\ Avl(m.right) /\ Between(m.left, m.key, m.right)
      /\ m = Node(m.key, m.value, m.left, m.right) /\ m \in Trees
      /\ m.key \in Users /\ m.key \in Int /\ m.value \in Sockets
  BY <1>2, <1>4, AvlParts, RecordAssumption
<1>6. /\ height(m.left) \in {height(l), height(l) - 1}
      /\ height(m.right) \in {height(l), height(l) - 1}
      /\ height(m.left) \in Nat /\ height(m.right) \in Nat
  <2> HIDE DEF m
  <2>1. Avl(m)
    BY <1>2 DEF m
  <2>2. /\ height(m.left) \in Nat /\ height(m.right) \in Nat
        /\ height(m.left) - height(m.right) \in -1 .. 1
        /\ \/ height(m) = 1 + height(m.left) /\ height(m.left) >= height(m.right)
           \/ height(m) = 1 + height(m.right) /\ height(m.right) >= height(m.left)
    BY <1>4, <2>1, AvlHeights
  <2> QED  BY <1>1, <1>3, <2>2
<1> HIDE DEF m
<1>7. /\ Keys(r) = Keys(m) \cup {r.key} \cup Keys(r.right)
      /\ Entries(r) = Entries(m) \cup {<<r.key, r.value>>} \cup Entries(r.right)
      /\ Keys(m) = Keys(m.left) \cup {m.key} \cup Keys(m.right)
      /\ Entries(m) =
           Entries(m.left) \cup {<<m.key, m.value>>} \cup Entries(m.right)
  BY <1>1, <1>2, <1>4, <1>5, Contents DEF m
<1>8. /\ k < m.key /\ m.key < r.key
      /\ \A x \in Keys(l) : x \in Int /\ x < k
      /\ \A x \in Keys(r.right) : x \in Int /\ x > r.key
  BY <1>2, <1>5, <1>7, RecordAssumption, NodesAreTrees
     DEF Between, Avl, Ordered, m
<1> DEFINE a == Node(k, v, l, m.left)
           b == Node(r.key, r.value, m.right, r.right)
           t == Node(m.key, m.value, a, b)
<1>9. RightLeft(Node(k, v, l, r)) = t
  <2>1. r = Node(r.key, r.value,
                 Node(m.key, m.value, m.left, m.right), r.right)
    BY <1>2, <1>5 DEF m
  <2> HIDE DEF m
  <2>2. RightLeft(Node(k, v, l, Node(r.key, r.value,
                               Node(m.key, m.value, m.left, m.right), r.right)))
          = Node(m.key, m.value, Node(k, v, l, m.left),
                 Node(r.key, r.value, m.right, r.right))
    BY TwiceRotatedNodes
  <2> HIDE DEF t
  <2>3. t = Node(m.key, m.value, Node(k, v, l, m.left),
                 Node(r.key, r.value, m.right, r.right))
    BY DEF t
  <2> QED  BY <2>1, <2>2, <2>3, Zenon
<1>10. Joins(a, k, v, l, m.left)
  <2>1. Between(l, k, m.left)
    BY <1>7 DEF Between, m
  <2>2. height(l) - height(m.left) \in -1 .. 1
    BY <1>1, <1>6
  <2> QED  BY <1>5, <2>1, <2>2, NodeJoins
<1>11. Joins(b, r.key, r.value, m.right, r.right)
  <2>1. Between(m.right, r.key, r.right)
    BY <1>2, <1>7 DEF Between, m
  <2>2. height(m.right) - height(r.right) \in -1 .. 1
    BY <1>1, <1>3, <1>6
  <2> QED  BY <1>2, <1>5, <2>1, <2>2, NodeJoins
<1>12. height(a) = height(l) + 1 /\ height(b) = height(l) + 1
  BY <1>1, <1>3, <1>6, HeightOfNode
<1> HIDE DEF a, b
<1>13. Joins(t, m.key, m.value, a, b)
  <2>1. \A x \in Keys(a) : x < m.key
    BY <1>1, <1>5, <1>8, <1>10 DEF Joins, Between
  <2>2. \A x \in Keys(b) : x > m.key
    BY <1>2, <1>5, <1>8, <1>11 DEF Joins, Between
  <2>3. height(a) - height(b) \in -1 .. 1
    BY <1>1, <1>12
  <2> QED  BY <1>5, <1>10, <1>11, <2>1, <2>2, <2>3, NodeJoins DEF Joins, Between
<1>14. height(t) = height(r)
  BY <1>1, <1>12, HeightOfNode
<1> HIDE DEF t
<1> QED  BY <1>7, <1>9, <1>10, <1>11, <1>13, <1>14 DEF Joins

-----------------------------------------------------------------------------
(* insert *)

\* The tree is left as it was, or the user is added at a new node.
Added(u, t, key, value) ==
  /\ Avl(u) /\ u # NULL
  /\ Keys(u) = Keys(t) \cup {key}
  /\ Entries(u) = IF key \in Keys(t) THEN Entries(t)
                  ELSE Entries(t) \cup {<<key, value>>}

\* A tree that grew is not turned: the side of the key is its higher one.
Grown(u, t, key) ==
  /\ height(u) \in {height(t), height(t) + 1}
  /\ height(u) = height(t) + 1 /\ t # NULL =>
       \/ key < u.key /\ height(u.left) = height(u.right) + 1
       \/ key > u.key /\ height(u.right) = height(u.left) + 1

\* The node gets the left subtree that insert returned.
LEMMA InsertedLeft ==
  ASSUME NEW k \in Users, NEW v \in Sockets, NEW l, NEW r, NEW key \in Users,
         Avl(l), l # NULL, Avl(r), Between(l, k, r), key < k,
         height(l) - height(r) \in -1 .. 2,
         height(l) = height(r) + 2 =>
           \/ key < l.key /\ height(l.left) = height(l.right) + 1
           \/ key > l.key /\ height(l.right) = height(l.left) + 1
  PROVE  LET u == BalancedAfterInsert(Node(k, v, l, r), key)
         IN  /\ Joins(u, k, v, l, r)
             /\ height(l) # height(r) + 2 => u = Node(k, v, l, r)
             /\ height(l) = height(r) + 2 => height(u) = height(l)
<1> DEFINE N == Node(k, v, l, r)
           u == BalancedAfterInsert(N, key)
<1>1. /\ N # NULL /\ N.left = l /\ N.right = r
  BY NodeFields
<1>2. /\ height(l) \in Nat /\ height(r) \in Nat
      /\ key \in Int /\ l.key \in Int
      /\ height(l.left) \in Nat /\ height(l.right) \in Nat
  BY AvlHeights, AvlParts, RecordAssumption
<1> HIDE DEF N
<1>3. getBalance(N) = height(l) - height(r)
  BY <1>1 DEF getBalance
<1>4. CASE height(l) # height(r) + 2
  <2>1. u = N
    <3>1. ~ (getBalance(N) > 1) /\ ~ (getBalance(N) < -1)
      BY <1>2, <1>3, <1>4
    <3> QED  BY <3>1 DEF BalancedAfterInsert
  <2>2. Joins(N, k, v, l, r)
    BY <1>2, <1>4, NodeJoins DEF N
  <2> QED  BY <1>4, <2>1, <2>2 DEF N
<1>5. CASE height(l) = height(r) + 2
  <2>1. getBalance(N) > 1 /\ ~ (getBalance(N) < -1)
    BY <1>2, <1>3, <1>5
  <2>2. CASE key < l.key
    <3>1. u = rightRotate(N)
      BY <1>1, <1>2, <2>1, <2>2 DEF BalancedAfterInsert
    <3>2. height(l.left) = height(l.right) + 1
      BY <1>2, <1>5, <2>2
    <3> QED  BY <1>2, <1>5, <3>1, <3>2, RightRotated DEF N
  <2>3. CASE key > l.key
    <3>1. u = LeftRight(N)
      BY <1>1, <1>2, <2>1, <2>3 DEF BalancedAfterInsert, LeftRight
    <3>2. height(l.right) = height(l.left) + 1
      BY <1>2, <1>5, <2>3
    <3> QED  BY <1>2, <1>5, <3>1, <3>2, LeftRightRotated DEF N
  <2> QED  BY <1>5, <2>2, <2>3
<1> QED  BY <1>4, <1>5 DEF N

\* The node gets the right subtree that insert returned.
LEMMA InsertedRight ==
  ASSUME NEW k \in Users, NEW v \in Sockets, NEW l, NEW r, NEW key \in Users,
         Avl(l), Avl(r), r # NULL, Between(l, k, r), key > k,
         height(r) - height(l) \in -1 .. 2,
         height(r) = height(l) + 2 =>
           \/ key < r.key /\ height(r.left) = height(r.right) + 1
           \/ key > r.key /\ height(r.right) = height(r.left) + 1
  PROVE  LET u == BalancedAfterInsert(Node(k, v, l, r), key)
         IN  /\ Joins(u, k, v, l, r)
             /\ height(r) # height(l) + 2 => u = Node(k, v, l, r)
             /\ height(r) = height(l) + 2 => height(u) = height(r)
<1> DEFINE N == Node(k, v, l, r)
           u == BalancedAfterInsert(N, key)
<1>1. /\ N # NULL /\ N.left = l /\ N.right = r
  BY NodeFields
<1>2. /\ height(l) \in Nat /\ height(r) \in Nat
      /\ key \in Int /\ r.key \in Int
      /\ height(r.left) \in Nat /\ height(r.right) \in Nat
  BY AvlHeights, AvlParts, RecordAssumption
<1> HIDE DEF N
<1>3. getBalance(N) = height(l) - height(r)
  BY <1>1 DEF getBalance
<1>4. CASE height(r) # height(l) + 2
  <2>1. u = N
    <3>1. ~ (getBalance(N) > 1) /\ ~ (getBalance(N) < -1)
      BY <1>2, <1>3, <1>4
    <3> QED  BY <3>1 DEF BalancedAfterInsert
  <2>2. Joins(N, k, v, l, r)
    BY <1>2, <1>4, NodeJoins DEF N
  <2> QED  BY <1>4, <2>1, <2>2 DEF N
<1>5. CASE height(r) = height(l) + 2
  <2>1. getBalance(N) < -1 /\ ~ (getBalance(N) > 1)
    BY <1>2, <1>3, <1>5
  <2>2. CASE key > r.key
    <3>1. u = leftRotate(N)
      BY <1>1, <1>2, <2>1, <2>2 DEF BalancedAfterInsert
    <3>2. height(r.right) = height(r.left) + 1
      BY <1>2, <1>5, <2>2
    <3> QED  BY <1>2, <1>5, <3>1, <3>2, LeftRotated DEF N
  <2>3. CASE key < r.key
    <3>1. u = RightLeft(N)
      BY <1>1, <1>2, <2>1, <2>3 DEF BalancedAfterInsert, RightLeft
    <3>2. height(r.left) = height(r.right) + 1
      BY <1>2, <1>5, <2>3
    <3> QED  BY <1>2, <1>5, <3>1, <3>2, RightLeftRotated DEF N
  <2> QED  BY <1>5, <2>2, <2>3
<1> QED  BY <1>4, <1>5 DEF N

\* The equations of insert, for a tree whose heights are up to date.
LEMMA InsertNode ==
  ASSUME NEW t \in Trees, t # NULL, NEW key \in Users, NEW value
  PROVE  /\ key < t.key =>
              insert(t, key, value) =
                BalancedAfterInsert(
                  Node(t.key, t.value, insert(t.left, key, value), t.right), key)
         /\ key > t.key =>
              insert(t, key, value) =
                BalancedAfterInsert(
                  Node(t.key, t.value, t.left, insert(t.right, key, value)), key)
         /\ key = t.key => insert(t, key, value) = t
<1>1. /\ WithLeft(t, insert(t.left, key, value))
           = Node(t.key, t.value, insert(t.left, key, value), t.right)
      /\ WithRight(t, insert(t.right, key, value))
           = Node(t.key, t.value, t.left, insert(t.right, key, value))
  BY MeasuredNodes
<1>2. /\ key < t.key =>
           insert(t, key, value) =
             BalancedAfterInsert(WithLeft(t, insert(t.left, key, value)), key)
      /\ key > t.key =>
           insert(t, key, value) =
             BalancedAfterInsert(WithRight(t, insert(t.right, key, value)), key)
      /\ key = t.key => insert(t, key, value) = t
  BY insertDef
<1> QED  BY <1>1, <1>2

\* insert keeps the tree balanced and ordered, and adds the user if missing.
LEMMA InsertAdds ==
  ASSUME NEW t, Avl(t), NEW key \in Users, NEW value \in Sockets
  PROVE  Added(insert(t, key, value), t, key, value)
<1> DEFINE I(u) == insert(u, key, value)
           Claim(u) == Added(I(u), u, key, value) /\ Grown(I(u), u, key)
           S == {u \in Trees : Avl(u) => Claim(u)}
<1>0. key \in Int
  BY RecordAssumption
<1>1. NULL \in S
  <2>1. I(NULL) = Node(key, value, NULL, NULL)
    BY insertDef, NullHoldsNothing DEF newNode, Node, max
  <2>2. Joins(Node(key, value, NULL, NULL), key, value, NULL, NULL)
    BY NullHoldsNothing, NodeJoins DEF Between
  <2>3. height(Node(key, value, NULL, NULL)) = 1
    BY NullHoldsNothing, HeightOfNode
  <2>4. Added(I(NULL), NULL, key, value)
    BY <2>1, <2>2, NullHoldsNothing DEF Joins, Added
  <2>5. Grown(I(NULL), NULL, key)
    BY <2>1, <2>3, NullHoldsNothing DEF Grown
  <2> QED  BY <2>4, <2>5, NullIsATree
<1>2. ASSUME NEW u \in Trees \ {NULL}, u.left \in S, u.right \in S
      PROVE  u \in S
  <2> SUFFICES ASSUME Avl(u) PROVE Claim(u)
    OBVIOUS
  <2> DEFINE k == u.key  v == u.value  l == u.left  r == u.right
  <2>1. /\ k \in Users /\ k \in Int /\ v \in Sockets
        /\ Avl(l) /\ Avl(r) /\ Between(l, k, r)
        /\ height(l) - height(r) \in -1 .. 1
        /\ u = Node(k, v, l, r) /\ height(u) = 1 + max(height(l), height(r))
        /\ height(u) \in Nat /\ height(l) \in Nat /\ height(r) \in Nat
    BY AvlParts, RecordAssumption
  <2>2. /\ Keys(u) = Keys(l) \cup {k} \cup Keys(r)
        /\ Entries(u) = Entries(l) \cup {<<k, v>>} \cup Entries(r)
    BY Contents
  <2>3. /\ \A x \in Keys(l) : x \in Int /\ x < k
        /\ \A x \in Keys(r) : x \in Int /\ x > k
    BY <2>1, RecordAssumption, NodesAreTrees DEF Between, Avl, Ordered
  <2>4. CASE key < k
    <3> DEFINE m == I(l)
    <3>1. Added(m, l, key, value) /\ Grown(m, l, key)
      BY <1>2, <2>1
    <3>2. I(u) = BalancedAfterInsert(Node(k, v, m, r), key)
      BY <2>4, InsertNode
    <3> HIDE DEF m
    <3>3. /\ height(m) \in {height(l), height(l) + 1} /\ height(m) \in Nat
          /\ Avl(m) /\ m # NULL
      BY <2>1, <3>1 DEF Added, Grown
    <3>4. Between(m, k, r)
      BY <2>1, <2>3, <2>4, <3>1 DEF Added, Between
    <3>5. height(m) = height(r) + 2 => height(m) = height(l) + 1 /\ l # NULL
      BY <2>1, <3>3, NullHoldsNothing
    <3>6. LET w == BalancedAfterInsert(Node(k, v, m, r), key)
          IN  /\ Joins(w, k, v, m, r)
              /\ height(m) # height(r) + 2 => w = Node(k, v, m, r)
              /\ height(m) = height(r) + 2 => height(w) = height(m)
      <4>1. height(m) - height(r) \in -1 .. 2
        BY <2>1, <3>3
      <4>2. height(m) = height(r) + 2 =>
              \/ key < m.key /\ height(m.left) = height(m.right) + 1
              \/ key > m.key /\ height(m.right) = height(m.left) + 1
        BY <3>1, <3>5 DEF Grown
      <4> QED  BY <2>1, <2>4, <3>3, <3>4, <4>1, <4>2, InsertedLeft
    <3> DEFINE w == I(u)
    <3>7. /\ Joins(w, k, v, m, r)
          /\ height(m) # height(r) + 2 => w = Node(k, v, m, r)
          /\ height(m) = height(r) + 2 => height(w) = height(m)
      BY <3>2, <3>6
    <3> HIDE DEF w
    <3>8. Added(w, u, key, value)
      <4>1. key \in Keys(u) <=> key \in Keys(l)
        BY <1>0, <2>1, <2>2, <2>3, <2>4
      <4> QED  BY <2>2, <3>1, <3>7, <4>1 DEF Added, Joins
    <3>9. Grown(w, u, key)
      <4>1. CASE height(m) = height(r) + 2
        <5>1. height(u) = 1 + height(l)
          BY <2>1, <3>5, <4>1 DEF max
        <5> QED  BY <2>1, <3>5, <3>7, <4>1, <5>1 DEF Grown
      <4>2. CASE height(m) # height(r) + 2
        <5>1. w.key = k /\ w.left = m /\ w.right = r
              /\ height(w) = 1 + max(height(m), height(r))
          BY <3>7, <4>2, NodeFields
        <5>2. height(w) \in {height(u), height(u) + 1}
          BY <2>1, <3>3, <5>1 DEF max
        <5>3. height(w) = height(u) + 1 => height(m) = height(r) + 1
          BY <2>1, <3>3, <4>2, <5>1 DEF max
        <5> QED  BY <2>4, <5>1, <5>2, <5>3 DEF Grown
      <4> QED  BY <4>1, <4>2
    <3> QED  BY <3>8, <3>9 DEF w
  <2>5. CASE key > k
    <3> DEFINE m == I(r)
    <3>1. Added(m, r, key, value) /\ Grown(m, r, key)
      BY <1>2, <2>1
    <3>2. I(u) = BalancedAfterInsert(Node(k, v, l, m), key)
      BY <2>5, InsertNode
    <3> HIDE DEF m
    <3>3. /\ height(m) \in {height(r), height(r) + 1} /\ height(m) \in Nat
          /\ Avl(m) /\ m # NULL
      BY <2>1, <3>1 DEF Added, Grown
    <3>4. Between(l, k, m)
      BY <2>1, <2>3, <2>5, <3>1 DEF Added, Between
    <3>5. height(m) = height(l) + 2 => height(m) = height(r) + 1 /\ r # NULL
      BY <2>1, <3>3, NullHoldsNothing
    <3>6. LET w == BalancedAfterInsert(Node(k, v, l, m), key)
          IN  /\ Joins(w, k, v, l, m)
              /\ height(m) # height(l) + 2 => w = Node(k, v, l, m)
              /\ height(m) = height(l) + 2 => height(w) = height(m)
      <4>1. height(m) - height(l) \in -1 .. 2
        BY <2>1, <3>3
      <4>2. height(m) = height(l) + 2 =>
              \/ key < m.key /\ height(m.left) = height(m.right) + 1
              \/ key > m.key /\ height(m.right) = height(m.left) + 1
        BY <3>1, <3>5 DEF Grown
      <4> QED  BY <2>1, <2>5, <3>3, <3>4, <4>1, <4>2, InsertedRight
    <3> DEFINE w == I(u)
    <3>7. /\ Joins(w, k, v, l, m)
          /\ height(m) # height(l) + 2 => w = Node(k, v, l, m)
          /\ height(m) = height(l) + 2 => height(w) = height(m)
      BY <3>2, <3>6
    <3> HIDE DEF w
    <3>8. Added(w, u, key, value)
      <4>1. key \in Keys(u) <=> key \in Keys(r)
        BY <1>0, <2>1, <2>2, <2>3, <2>5
      <4> QED  BY <2>2, <3>1, <3>7, <4>1 DEF Added, Joins
    <3>9. Grown(w, u, key)
      <4>1. CASE height(m) = height(l) + 2
        <5>1. height(u) = 1 + height(r)
          BY <2>1, <3>5, <4>1 DEF max
        <5> QED  BY <2>1, <3>5, <3>7, <4>1, <5>1 DEF Grown
      <4>2. CASE height(m) # height(l) + 2
        <5>1. w.key = k /\ w.left = l /\ w.right = m
              /\ height(w) = 1 + max(height(l), height(m))
          BY <3>7, <4>2, NodeFields
        <5>2. height(w) \in {height(u), height(u) + 1}
          BY <2>1, <3>3, <5>1 DEF max
        <5>3. height(w) = height(u) + 1 => height(m) = height(l) + 1
          BY <2>1, <3>3, <4>2, <5>1 DEF max
        <5> QED  BY <2>5, <5>1, <5>2, <5>3 DEF Grown
      <4> QED  BY <4>1, <4>2
    <3> QED  BY <3>8, <3>9 DEF w
  <2>6. CASE key = k
    <3>1. I(u) = u
      BY <2>6, InsertNode
    <3>2. Added(u, u, key, value)
      BY <2>2, <2>6 DEF Added
    <3>3. Grown(u, u, key)
      BY <2>1 DEF Grown
    <3> QED  BY <3>1, <3>2, <3>3
  <2> QED  BY <1>0, <2>1, <2>4, <2>5, <2>6
<1> HIDE DEF S, Claim
<1>3. Trees \subseteq S
  BY <1>1, <1>2, TreeInduction
<1>4. Claim(t)
  BY <1>3 DEF S, Avl, Ordered
<1> QED  BY <1>4 DEF Claim

-----------------------------------------------------------------------------
(* deleteNode *)

\* A search tree holds one socket for each of its users.
LEMMA OneEntryPerKey ==
  ASSUME NEW t, Ordered(t), NEW k, NEW v, NEW w,
         <<k, v>> \in Entries(t), <<k, w>> \in Entries(t)
  PROVE  v = w
<1> DEFINE S == {u \in Trees : Ordered(u) =>
                   \A x, y, z : <<x, y>> \in Entries(u) /\ <<x, z>> \in Entries(u)
                                  => y = z}
<1>1. NULL \in S
  BY NullHoldsNothing, NullIsATree
<1>2. ASSUME NEW u \in Trees \ {NULL}, u.left \in S, u.right \in S
      PROVE  u \in S
  <2> SUFFICES ASSUME Ordered(u), NEW x, NEW y, NEW z,
                      <<x, y>> \in Entries(u), <<x, z>> \in Entries(u)
               PROVE  y = z
    OBVIOUS
  <2>1. /\ Ordered(u.left) /\ Ordered(u.right)
        /\ Between(u.left, u.key, u.right)
        /\ u.left \in Trees /\ u.right \in Trees /\ u.key \in Int
    BY OrderedParts, Shape, RecordAssumption
  <2>2. Entries(u) =
          Entries(u.left) \cup {<<u.key, u.value>>} \cup Entries(u.right)
    BY Contents
  <2>3. /\ \A q \in Keys(u.left) : q \in Int /\ q < u.key
        /\ \A q \in Keys(u.right) : q \in Int /\ q > u.key
    BY <2>1, RecordAssumption, NodesAreTrees DEF Between
  <2>4. \A p, q : /\ <<p, q>> \in Entries(u.left) => p \in Keys(u.left)
                  /\ <<p, q>> \in Entries(u.right) => p \in Keys(u.right)
    BY KeysOfEntries
  <2>5. CASE x = u.key
    <3>1. x \notin Keys(u.left) /\ x \notin Keys(u.right)
      BY <2>1, <2>3, <2>5
    <3>2. y = u.value /\ z = u.value
      BY <2>2, <2>4, <3>1
    <3> QED  BY <3>2
  <2>6. CASE x # u.key /\ x \in Keys(u.left)
    <3>1. x \notin Keys(u.right)
      BY <2>1, <2>3, <2>6
    <3>2. <<x, y>> \in Entries(u.left) /\ <<x, z>> \in Entries(u.left)
      BY <2>2, <2>4, <2>6, <3>1
    <3> QED  BY <1>2, <2>1, <3>2
  <2>7. CASE x # u.key /\ x \notin Keys(u.left)
    <3>1. <<x, y>> \in Entries(u.right) /\ <<x, z>> \in Entries(u.right)
      BY <2>2, <2>4, <2>7
    <3> QED  BY <1>2, <2>1, <3>1
  <2> QED  BY <2>5, <2>6, <2>7
<1> HIDE DEF S
<1>3. Trees \subseteq S
  BY <1>1, <1>2, TreeInduction
<1> QED  BY <1>3 DEF S, Ordered

\* The leftmost node has the least key.
LEMMA LeastKey ==
  ASSUME NEW t, t # NULL, Avl(t)
  PROVE  LET m == minValueNode[t]
         IN  /\ m.key \in Users /\ m.value \in Sockets
             /\ m.key \in Keys(t) /\ <<m.key, m.value>> \in Entries(t)
             /\ \A x \in Keys(t) : x >= m.key
<1> DEFINE M(u) == minValueNode[u]
           Claim(u) == /\ M(u).key \in Keys(u)
                       /\ <<M(u).key, M(u).value>> \in Entries(u)
                       /\ \A x \in Keys(u) : x >= M(u).key
           S == {u \in Trees : Avl(u) /\ u # NULL => Claim(u)}
<1>1. NULL \in S
  BY NullIsATree
<1>2. ASSUME NEW u \in Trees \ {NULL}, u.left \in S, u.right \in S
      PROVE  u \in S
  <2> SUFFICES ASSUME Avl(u) PROVE Claim(u)
    OBVIOUS
  <2>1. /\ Avl(u.left) /\ Avl(u.right) /\ Between(u.left, u.key, u.right)
        /\ u.left \in Trees /\ u.right \in Trees /\ u.key \in Int
    BY AvlParts, Shape, RecordAssumption
  <2>2. /\ Keys(u) = Keys(u.left) \cup {u.key} \cup Keys(u.right)
        /\ Entries(u) =
             Entries(u.left) \cup {<<u.key, u.value>>} \cup Entries(u.right)
    BY Contents
  <2>3. /\ \A q \in Keys(u.left) : q \in Int /\ q < u.key
        /\ \A q \in Keys(u.right) : q \in Int /\ q > u.key
    BY <2>1, RecordAssumption, NodesAreTrees DEF Between
  <2>4. CASE u.left = NULL
    <3>1. M(u) = u
      BY <2>4, minValueNodeDef
    <3>2. Keys(u.left) = {}
      BY <2>4, NullHoldsNothing
    <3> QED  BY <2>1, <2>2, <2>3, <3>1, <3>2
  <2>5. CASE u.left # NULL
    <3>1. M(u) = M(u.left)
      BY <2>5, minValueNodeDef
    <3>2. Claim(u.left)
      BY <1>2, <2>1, <2>5
    <3> HIDE DEF M
    <3>3. M(u).key \in Int /\ M(u).key < u.key
      BY <2>3, <3>1, <3>2
    <3>4. \A x \in Keys(u) : x >= M(u).key
      BY <2>1, <2>2, <2>3, <3>1, <3>2, <3>3
    <3> QED  BY <2>2, <3>1, <3>2, <3>4
  <2> QED  BY <2>4, <2>5
<1> HIDE DEF S, Claim
<1>3. Trees \subseteq S
  BY <1>1, <1>2, TreeInduction
<1>4. Claim(t) /\ M(t) \in Trees \ {NULL}
  BY <1>3, MinValueNodeType DEF S, Avl, Ordered
<1>5. M(t).key \in Users /\ M(t).value \in Sockets
  <2> HIDE DEF M
  <2> QED  BY <1>4, Shape
<1> QED  BY <1>4, <1>5 DEF Claim

\* A node one of whose subtrees may have lost a level.
LEMMA Rebalanced ==
  ASSUME NEW k \in Users, NEW v \in Sockets, NEW l, NEW r, Avl(l), Avl(r),
         Between(l, k, r), height(l) - height(r) \in -2 .. 2
  PROVE  LET u == BalancedAfterDelete(Node(k, v, l, r))
             h == height(Node(k, v, l, r))
         IN  /\ Joins(u, k, v, l, r)
             /\ height(l) - height(r) \in -1 .. 1 => height(u) = h
             /\ height(u) \in {h, h - 1}
<1> DEFINE N == Node(k, v, l, r)
           u == BalancedAfterDelete(N)
<1>1. /\ N # NULL /\ N.left = l /\ N.right = r
      /\ height(N) = 1 + max(height(l), height(r))
  BY NodeFields
<1>2. /\ height(l) \in Nat /\ height(r) \in Nat
      /\ l # NULL => height(l.left) \in Nat /\ height(l.right) \in Nat
      /\ r # NULL => height(r.left) \in Nat /\ height(r.right) \in Nat
      /\ height(l) > 0 => l # NULL
      /\ height(r) > 0 => r # NULL
  BY AvlHeights
<1> HIDE DEF N
<1>3. getBalance(N) = height(l) - height(r)
  BY <1>1 DEF getBalance
<1>4. CASE height(l) - height(r) \in -1 .. 1
  <2>1. u = N
    <3>1. ~ (getBalance(N) > 1) /\ ~ (getBalance(N) < -1)
      BY <1>2, <1>3, <1>4
    <3> QED  BY <3>1 DEF BalancedAfterDelete
  <2>2. Joins(N, k, v, l, r)
    BY <1>2, <1>4, NodeJoins DEF N
  <2> QED  BY <2>1, <2>2 DEF N
<1>5. CASE height(l) = height(r) + 2
  <2>1. getBalance(N) > 1 /\ ~ (getBalance(N) < -1) /\ l # NULL
    BY <1>2, <1>3, <1>5
  <2>2. getBalance(l) = height(l.left) - height(l.right)
    BY <2>1 DEF getBalance
  <2>3. height(N) = height(l) + 1
    BY <1>1, <1>2, <1>5 DEF max
  <2>4. CASE height(l.left) >= height(l.right)
    <3>1. u = rightRotate(N)
      BY <1>1, <1>2, <2>1, <2>2, <2>4 DEF BalancedAfterDelete
    <3>2. /\ Joins(u, k, v, l, r)
          /\ height(u) \in {height(l), height(l) + 1}
      BY <1>5, <2>4, <3>1, RightRotated DEF N
    <3> QED  BY <1>2, <1>5, <2>3, <3>2 DEF N
  <2>5. CASE height(l.left) < height(l.right)
    <3>1. u = LeftRight(N)
      BY <1>1, <1>2, <2>1, <2>2, <2>5 DEF BalancedAfterDelete, LeftRight
    <3>2. Joins(u, k, v, l, r) /\ height(u) = height(l)
      BY <1>5, <2>5, <3>1, LeftRightRotated DEF N
    <3> QED  BY <1>2, <1>5, <2>3, <3>2 DEF N
  <2> QED  BY <1>2, <2>1, <2>4, <2>5
<1>6. CASE height(r) = height(l) + 2
  <2>1. getBalance(N) < -1 /\ ~ (getBalance(N) > 1) /\ r # NULL
    BY <1>2, <1>3, <1>6
  <2>2. getBalance(r) = height(r.left) - height(r.right)
    BY <2>1 DEF getBalance
  <2>3. height(N) = height(r) + 1
    BY <1>1, <1>2, <1>6 DEF max
  <2>4. CASE height(r.right) >= height(r.left)
    <3>1. u = leftRotate(N)
      BY <1>1, <1>2, <2>1, <2>2, <2>4 DEF BalancedAfterDelete
    <3>2. /\ Joins(u, k, v, l, r)
          /\ height(u) \in {height(r), height(r) + 1}
      BY <1>6, <2>4, <3>1, LeftRotated DEF N
    <3> QED  BY <1>2, <1>6, <2>3, <3>2 DEF N
  <2>5. CASE height(r.right) < height(r.left)
    <3>1. u = RightLeft(N)
      BY <1>1, <1>2, <2>1, <2>2, <2>5 DEF BalancedAfterDelete, RightLeft
    <3>2. Joins(u, k, v, l, r) /\ height(u) = height(r)
      BY <1>6, <2>5, <3>1, RightLeftRotated DEF N
    <3> QED  BY <1>2, <1>6, <2>3, <3>2 DEF N
  <2> QED  BY <1>2, <2>1, <2>4, <2>5
<1> QED  BY <1>2, <1>4, <1>5, <1>6

\* Only the key and the value come from the successor.
LEMMA SucceededCells ==
  ASSUME NEW k, NEW v, NEW h, NEW l, NEW r, NEW s
  PROVE  Succeeded(Cell(k, v, h, l, r), s) = Cell(s.key, s.value, h, l, r)
<1> DEFINE k1 == s.key  v1 == s.value
<1> HIDE DEF k1, v1
<1>1. [Cell(k, v, h, l, r) EXCEPT !.key = k1] = Cell(k1, v, h, l, r)
  BY DEF Cell
<1>2. [Cell(k1, v, h, l, r) EXCEPT !.value = v1] = Cell(k1, v1, h, l, r)
  BY DEF Cell
<1>3. ASSUME NEW n
      PROVE  Succeeded(n, s) = [[n EXCEPT !.key = k1] EXCEPT !.value = v1]
  BY DEF Succeeded, k1, v1
<1>4. Succeeded(Cell(k, v, h, l, r), s)
        = [[Cell(k, v, h, l, r) EXCEPT !.key = k1] EXCEPT !.value = v1]
  BY <1>3
<1> QED  BY <1>1, <1>2, <1>4, Zenon DEF k1, v1

\* The equations of deleteNode, for a tree whose heights are up to date.
LEMMA DeleteNode ==
  ASSUME NEW t \in Trees, t # NULL, NEW key \in Users
  PROVE  /\ key < t.key =>
              deleteNode(t, key) =
                BalancedAfterDelete(
                  Node(t.key, t.value, deleteNode(t.left, key), t.right))
         /\ key > t.key =>
              deleteNode(t, key) =
                BalancedAfterDelete(
                  Node(t.key, t.value, t.left, deleteNode(t.right, key)))
         /\ key = t.key /\ t.left # NULL /\ t.right # NULL =>
              LET temp == minValueNode[t.right]
              IN  deleteNode(t, key) =
                    BalancedAfterDelete(
                      Node(temp.key, temp.value, t.left,
                           deleteNode(t.right, temp.key)))
<1> DEFINE temp == minValueNode[t.right]
           m == deleteNode(t.right, temp.key)
<1>1. /\ WithLeft(t, deleteNode(t.left, key))
           = Node(t.key, t.value, deleteNode(t.left, key), t.right)
      /\ WithRight(t, deleteNode(t.right, key))
           = Node(t.key, t.value, t.left, deleteNode(t.right, key))
  BY MeasuredNodes
<1>2. WithRight(Succeeded(t, temp), m) = Node(temp.key, temp.value, t.left, m)
  <2> HIDE DEF temp, m
  <2>1. t = Cell(t.key, t.value, t.height, t.left, t.right)
    BY Shape DEF Cell
  <2>2. Succeeded(t, temp)
          = Cell(temp.key, temp.value, t.height, t.left, t.right)
    BY <2>1, SucceededCells
  <2>3. [Succeeded(t, temp) EXCEPT !.right = m]
          = Cell(temp.key, temp.value, t.height, t.left, m)
    BY <2>2 DEF Cell
  <2>4. Measured(Cell(temp.key, temp.value, t.height, t.left, m))
          = Node(temp.key, temp.value, t.left, m)
    BY MeasuredCells
  <2> QED  BY <2>3, <2>4, Zenon DEF WithRight
<1>3. /\ key < t.key =>
           deleteNode(t, key) =
             BalancedAfterDelete(WithLeft(t, deleteNode(t.left, key)))
      /\ key > t.key =>
           deleteNode(t, key) =
             BalancedAfterDelete(WithRight(t, deleteNode(t.right, key)))
      /\ key = t.key /\ t.left # NULL /\ t.right # NULL =>
           deleteNode(t, key) =
             BalancedAfterDelete(WithRight(Succeeded(t, temp), m))
  BY deleteNodeDef
<1> HIDE DEF m
<1> QED  BY <1>1, <1>2, <1>3 DEF m

\* A balanced tree needs no rotation.
LEMMA LeftAlone ==
  ASSUME NEW t, t # NULL, Avl(t)
  PROVE  BalancedAfterDelete(Measured(t)) = t
<1>1. /\ t = Node(t.key, t.value, t.left, t.right)
      /\ height(t.left) - height(t.right) \in -1 .. 1
      /\ height(t.left) \in Nat /\ height(t.right) \in Nat
  BY AvlParts
<1>2. Measured(t) = t
  <2> DEFINE h == 1 + max(height(t.left), height(t.right))
  <2>1. t = Cell(t.key, t.value, h, t.left, t.right)
    BY <1>1, Cells
  <2> HIDE DEF h
  <2>2. Measured(Cell(t.key, t.value, h, t.left, t.right))
          = Node(t.key, t.value, t.left, t.right)
    BY MeasuredCells
  <2> QED  BY <1>1, <2>1, <2>2
<1>3. ~ (getBalance(t) > 1) /\ ~ (getBalance(t) < -1)
  BY <1>1 DEF getBalance
<1> QED  BY <1>2, <1>3 DEF BalancedAfterDelete

\* The user is gone and everything else is kept.
Removed(u, t, key) ==
  /\ Avl(u)
  /\ Keys(u) = Keys(t) \ {key}
  /\ Entries(u) = {e \in Entries(t) : e[1] # key}

\* deleteNode keeps the tree balanced and ordered, and takes one user out.
LEMMA DeleteRemoves ==
  ASSUME NEW t, Avl(t), NEW key \in Users
  PROVE  Removed(deleteNode(t, key), t, key)
<1> DEFINE D(u, x) == deleteNode(u, x)
           Claim(u, x) == /\ Removed(D(u, x), u, x)
                          /\ height(D(u, x)) \in {height(u), height(u) - 1}
           S == {u \in Trees : Avl(u) => \A x \in Users : Claim(u, x)}
<1>1. NULL \in S
  <2>1. ASSUME NEW x \in Users PROVE Claim(NULL, x)
    <3>1. D(NULL, x) = NULL
      BY deleteNodeDef
    <3> QED  BY <3>1, NullHoldsNothing DEF Removed
  <2> HIDE DEF Claim
  <2> QED  BY <2>1, NullIsATree
<1>2. ASSUME NEW u \in Trees \ {NULL}, u.left \in S, u.right \in S
      PROVE  u \in S
  <2> SUFFICES ASSUME Avl(u), NEW x \in Users PROVE Claim(u, x)
    OBVIOUS
  <2> DEFINE k == u.key  v == u.value  l == u.left  r == u.right
  <2>1. /\ k \in Users /\ k \in Int /\ x \in Int /\ v \in Sockets
        /\ Avl(l) /\ Avl(r) /\ Between(l, k, r)
        /\ height(l) - height(r) \in -1 .. 1
        /\ height(u) \in Nat /\ height(l) \in Nat /\ height(r) \in Nat
    BY AvlParts, RecordAssumption
  <2>2. /\ Keys(u) = Keys(l) \cup {k} \cup Keys(r)
        /\ Entries(u) = Entries(l) \cup {<<k, v>>} \cup Entries(r)
    BY Contents
  <2>3. /\ \A y \in Keys(l) : y \in Int /\ y < k
        /\ \A y \in Keys(r) : y \in Int /\ y > k
    BY <2>1, RecordAssumption, NodesAreTrees DEF Between, Avl, Ordered
  <2>4. /\ \A e \in Entries(l) : e[1] \in Keys(l)
        /\ \A e \in Entries(r) : e[1] \in Keys(r) /\ e = <<e[1], e[2]>>
    BY KeysOfEntries
  <2>5. height(u) = 1 + max(height(l), height(r))
    BY AvlParts
  <2>6. CASE x < k
    <3> DEFINE m == D(l, x)
               w == D(u, x)
               n == Node(k, v, m, r)
    <3>1. Removed(m, l, x) /\ height(m) \in {height(l), height(l) - 1}
      BY <1>2, <2>1
    <3>2. w = BalancedAfterDelete(n)
      BY <2>6, DeleteNode
    <3> HIDE DEF m, w
    <3>3. Avl(m) /\ height(m) \in Nat /\ Between(m, k, r)
      BY <2>1, <2>3, <3>1, AvlHeights DEF Removed, Between
    <3>4. height(m) - height(r) \in -2 .. 2
      BY <2>1, <3>1
    <3>5. /\ Joins(w, k, v, m, r)
          /\ height(m) - height(r) \in -1 .. 1 => height(w) = height(n)
          /\ height(w) \in {height(n), height(n) - 1}
      BY <2>1, <3>2, <3>3, <3>4, Rebalanced
    <3>6. x # k /\ x \notin Keys(r)
      BY <2>1, <2>3, <2>6
    <3>7. Removed(w, u, x)
      <4>1. Keys(w) = Keys(u) \ {x}
        BY <2>2, <3>1, <3>5, <3>6 DEF Removed, Joins
      <4>2. Entries(w) = {e \in Entries(u) : e[1] # x}
        BY <2>2, <2>4, <3>1, <3>5, <3>6 DEF Removed, Joins
      <4> QED  BY <3>5, <4>1, <4>2 DEF Removed, Joins
    <3>8. height(w) \in {height(u), height(u) - 1}
      <4>1. height(n) = 1 + max(height(m), height(r))
        BY NodeFields
      <4> HIDE DEF n
      <4>2. CASE height(m) - height(r) \in -1 .. 1
        <5>1. height(w) = 1 + max(height(m), height(r))
          BY <3>5, <4>1, <4>2
        <5> QED  BY <2>1, <2>5, <3>1, <3>3, <5>1 DEF max
      <4>3. CASE height(r) = height(m) + 2
        <5>1. height(l) = height(m) + 1
          BY <2>1, <3>1, <3>3, <4>3
        <5>2. height(n) = height(u)
          BY <2>1, <2>5, <3>3, <4>1, <4>3, <5>1 DEF max
        <5> QED  BY <3>5, <5>2
      <4> QED  BY <2>1, <3>1, <3>3, <4>2, <4>3
    <3> QED  BY <3>7, <3>8 DEF w
  <2>7. CASE x > k
    <3> DEFINE m == D(r, x)
               w == D(u, x)
               n == Node(k, v, l, m)
    <3>1. Removed(m, r, x) /\ height(m) \in {height(r), height(r) - 1}
      BY <1>2, <2>1
    <3>2. w = BalancedAfterDelete(n)
      BY <2>7, DeleteNode
    <3> HIDE DEF m, w
    <3>3. Avl(m) /\ height(m) \in Nat /\ Between(l, k, m)
      BY <2>1, <2>3, <3>1, AvlHeights DEF Removed, Between
    <3>4. height(l) - height(m) \in -2 .. 2
      BY <2>1, <3>1
    <3>5. /\ Joins(w, k, v, l, m)
          /\ height(l) - height(m) \in -1 .. 1 => height(w) = height(n)
          /\ height(w) \in {height(n), height(n) - 1}
      BY <2>1, <3>2, <3>3, <3>4, Rebalanced
    <3>6. x # k /\ x \notin Keys(l)
      BY <2>1, <2>3, <2>7
    <3>7. Removed(w, u, x)
      <4>1. Keys(w) = Keys(u) \ {x}
        BY <2>2, <3>1, <3>5, <3>6 DEF Removed, Joins
      <4>2. Entries(w) = {e \in Entries(u) : e[1] # x}
        BY <2>2, <2>4, <3>1, <3>5, <3>6 DEF Removed, Joins
      <4> QED  BY <3>5, <4>1, <4>2 DEF Removed, Joins
    <3>8. height(w) \in {height(u), height(u) - 1}
      <4>1. height(n) = 1 + max(height(l), height(m))
        BY NodeFields
      <4> HIDE DEF n
      <4>2. CASE height(l) - height(m) \in -1 .. 1
        <5>1. height(w) = 1 + max(height(l), height(m))
          BY <3>5, <4>1, <4>2
        <5> QED  BY <2>1, <2>5, <3>1, <3>3, <5>1 DEF max
      <4>3. CASE height(l) = height(m) + 2
        <5>1. height(r) = height(m) + 1
          BY <2>1, <3>1, <3>3, <4>3
        <5>2. height(n) = height(u)
          BY <2>1, <2>5, <3>3, <4>1, <4>3, <5>1 DEF max
        <5> QED  BY <3>5, <5>2
      <4> QED  BY <2>1, <3>1, <3>3, <4>2, <4>3
    <3> QED  BY <3>7, <3>8 DEF w
  <2>8. CASE x = k
    <3>1. k \notin Keys(l) /\ k \notin Keys(r)
      BY <2>1, <2>3
    <3>2. CASE l = NULL /\ r = NULL
      <4>1. D(u, x) = NULL
        BY <2>8, <3>2, deleteNodeDef
      <4>2. Keys(u) = {k} /\ Entries(u) = {<<k, v>>} /\ height(u) = 1
        BY <2>2, <2>5, <3>2, NullHoldsNothing DEF max
      <4> QED  BY <2>8, <4>1, <4>2, NullHoldsNothing DEF Removed
    <3>3. CASE l = NULL /\ r # NULL
      <4>1. D(u, x) = BalancedAfterDelete(Measured(r))
        BY <2>8, <3>3, deleteNodeDef
      <4>2. BalancedAfterDelete(Measured(r)) = r
        BY <2>1, <3>3, LeftAlone
      <4>3. Removed(r, u, x)
        BY <2>1, <2>2, <2>4, <2>8, <3>1, <3>3, NullHoldsNothing DEF Removed
      <4>4. height(r) = height(u) - 1
        BY <2>1, <2>5, <3>3, NullHoldsNothing DEF max
      <4> QED  BY <4>1, <4>2, <4>3, <4>4
    <3>4. CASE l # NULL /\ r = NULL
      <4>1. D(u, x) = BalancedAfterDelete(Measured(l))
        BY <2>8, <3>4, deleteNodeDef
      <4>2. BalancedAfterDelete(Measured(l)) = l
        BY <2>1, <3>4, LeftAlone
      <4>3. Removed(l, u, x)
        BY <2>1, <2>2, <2>4, <2>8, <3>1, <3>4, NullHoldsNothing DEF Removed
      <4>4. height(l) = height(u) - 1
        BY <2>1, <2>5, <3>4, NullHoldsNothing DEF max
      <4> QED  BY <4>1, <4>2, <4>3, <4>4
    <3>5. CASE l # NULL /\ r # NULL
      <4> DEFINE temp == minValueNode[r]
                 s == temp.key
                 m == D(r, s)
                 w == D(u, x)
                 n == Node(s, temp.value, l, m)
      <4>1. /\ s \in Users /\ temp.value \in Sockets
            /\ s \in Keys(r) /\ <<s, temp.value>> \in Entries(r)
            /\ \A y \in Keys(r) : y >= s
        BY <2>1, <3>5, LeastKey
      <4>2. w = BalancedAfterDelete(n)
        BY <2>8, <3>5, DeleteNode
      <4> HIDE DEF temp
      <4>3. Removed(m, r, s) /\ height(m) \in {height(r), height(r) - 1}
        BY <1>2, <2>1, <4>1
      <4> HIDE DEF m, w, s
      <4>4. Avl(m) /\ height(m) \in Nat /\ s \in Int /\ s > k
        BY <2>3, <4>1, <4>3, AvlHeights DEF Removed
      <4>5. Between(l, s, m)
        BY <2>1, <2>3, <4>1, <4>3, <4>4 DEF Removed, Between
      <4>6. height(l) - height(m) \in -2 .. 2
        BY <2>1, <4>3
      <4>7. /\ Joins(w, s, temp.value, l, m)
            /\ height(l) - height(m) \in -1 .. 1 => height(w) = height(n)
            /\ height(w) \in {height(n), height(n) - 1}
        BY <2>1, <4>1, <4>2, <4>4, <4>5, <4>6, Rebalanced
      <4>8. Removed(w, u, x)
        <5>1. Keys(w) = Keys(u) \ {x}
          BY <2>2, <2>8, <3>1, <4>1, <4>3, <4>7 DEF Removed, Joins
        <5>2. Entries(r) = Entries(m) \cup {<<s, temp.value>>}
          <6>1. ASSUME NEW e \in Entries(r), e[1] = s
                PROVE  e = <<s, temp.value>>
            <7>1. e = <<s, e[2]>>
              BY <2>4, <6>1
            <7> QED  BY <2>1, <4>1, <7>1, OneEntryPerKey DEF Avl
          <6> QED  BY <4>1, <4>3, <6>1 DEF Removed
        <5>3. Entries(w) = {e \in Entries(u) : e[1] # x}
          BY <2>2, <2>4, <2>8, <3>1, <4>7, <5>2 DEF Joins
        <5> QED  BY <4>7, <5>1, <5>3 DEF Removed, Joins
      <4>9. height(w) \in {height(u), height(u) - 1}
        <5>1. height(n) = 1 + max(height(l), height(m))
          BY NodeFields
        <5> HIDE DEF n
        <5>2. CASE height(l) - height(m) \in -1 .. 1
          <6>1. height(w) = 1 + max(height(l), height(m))
            BY <4>7, <5>1, <5>2
          <6> QED  BY <2>1, <2>5, <4>3, <4>4, <6>1 DEF max
        <5>3. CASE height(l) = height(m) + 2
          <6>1. height(r) = height(m) + 1
            BY <2>1, <4>3, <4>4, <5>3
          <6>2. height(n) = height(u)
            BY <2>1, <2>5, <4>4, <5>1, <5>3, <6>1 DEF max
          <6> QED  BY <4>7, <6>2
        <5> QED  BY <2>1, <4>3, <4>4, <5>2, <5>3
      <4> QED  BY <4>8, <4>9 DEF w
    <3> QED  BY <3>2, <3>3, <3>4, <3>5
  <2> QED  BY <2>1, <2>6, <2>7, <2>8
<1> HIDE DEF S, Claim
<1>3. Trees \subseteq S
  BY <1>1, <1>2, TreeInduction
<1>4. Claim(t, key)
  BY <1>3 DEF S, Avl, Ordered
<1> QED  BY <1>4 DEF Claim

-----------------------------------------------------------------------------
(* search and update *)

\* What is_online answers when the tree is t.
Answer(t, key) ==
  LET found == search(t, key) IN IF found = NULL THEN -1 ELSE found.value

\* The descent of search finds a user exactly when it is there.
LEMMA SearchFinds ==
  ASSUME NEW t, Avl(t), NEW key \in Users
  PROVE  /\ search(t, key) = NULL <=> key \notin Keys(t)
         /\ search(t, key) # NULL =>
              <<key, search(t, key).value>> \in Entries(t)
<1> DEFINE F(u) == search(u, key)
           Claim(u) == /\ F(u) = NULL <=> key \notin Keys(u)
                       /\ F(u) # NULL => <<key, F(u).value>> \in Entries(u)
           S == {u \in Trees : Avl(u) => Claim(u)}
<1>1. NULL \in S
  BY searchDef, NullHoldsNothing, NullIsATree
<1>2. ASSUME NEW u \in Trees \ {NULL}, u.left \in S, u.right \in S
      PROVE  u \in S
  <2> SUFFICES ASSUME Avl(u) PROVE Claim(u)
    OBVIOUS
  <2>1. /\ Avl(u.left) /\ Avl(u.right) /\ Between(u.left, u.key, u.right)
        /\ u.left \in Trees /\ u.right \in Trees /\ u.key \in Int /\ key \in Int
    BY AvlParts, Shape, RecordAssumption
  <2>2. /\ Keys(u) = Keys(u.left) \cup {u.key} \cup Keys(u.right)
        /\ Entries(u) =
             Entries(u.left) \cup {<<u.key, u.value>>} \cup Entries(u.right)
    BY Contents
  <2>3. Claim(u.left) /\ Claim(u.right)
    BY <1>2, <2>1
  <2>4. /\ \A q \in Keys(u.left) : q \in Int /\ q < u.key
        /\ \A q \in Keys(u.right) : q \in Int /\ q > u.key
    BY <2>1, RecordAssumption, NodesAreTrees DEF Between
  <2>5. CASE u.key < key
    <3>1. F(u) = F(u.right)
      BY <2>5, searchDef
    <3> HIDE DEF F
    <3>2. key \notin Keys(u.left) /\ key # u.key
      BY <2>1, <2>4, <2>5
    <3> QED  BY <2>2, <2>3, <3>1, <3>2
  <2>6. CASE u.key > key
    <3>1. F(u) = F(u.left)
      BY <2>6, searchDef
    <3> HIDE DEF F
    <3>2. key \notin Keys(u.right) /\ key # u.key
      BY <2>1, <2>4, <2>6
    <3> QED  BY <2>2, <2>3, <3>1, <3>2
  <2>7. CASE u.key = key
    <3>1. F(u) = u
      BY <2>7, searchDef
    <3> HIDE DEF F
    <3> QED  BY <2>2, <2>7, <3>1
  <2> QED  BY <2>1, <2>5, <2>6, <2>7
<1> HIDE DEF S, Claim
<1>3. Trees \subseteq S
  BY <1>1, <1>2, TreeInduction
<1>4. Claim(t)
  BY <1>3 DEF S, Avl, Ordered
<1> QED  BY <1>4 DEF Claim

\* is_online answers with the one socket recorded, or with -1.
LEMMA AnswerIs ==
  ASSUME NEW t, Avl(t), NEW key \in Users
  PROVE  /\ key \notin Keys(t) => Answer(t, key) = -1
         /\ key \in Keys(t) => /\ Answer(t, key) \in Sockets
                               /\ Answer(t, key) # -1
                               /\ <<key, Answer(t, key)>> \in Entries(t)
         /\ \A v : <<key, v>> \in Entries(t) => Answer(t, key) = v
<1>1. key \notin Keys(t) => Answer(t, key) = -1
  BY SearchFinds DEF Answer
<1>2. key \in Keys(t) => <<key, Answer(t, key)>> \in Entries(t)
  BY SearchFinds DEF Answer
<1>3. \A v : <<key, v>> \in Entries(t) => Answer(t, key) = v
  BY <1>2, KeysOfEntries, OneEntryPerKey DEF Avl
<1>4. \A e \in Entries(t) : e[2] \in Sockets
  BY NodesAreTrees, Shape DEF Entries, Avl, Ordered
<1>5. key \in Keys(t) => Answer(t, key) \in Sockets
  BY <1>2, <1>4
<1> QED  BY <1>1, <1>2, <1>3, <1>5, RecordAssumption

\* One socket is replaced, if its user is there.
Rewritten(u, t, key, value) ==
  /\ Avl(u) /\ height(u) = height(t) /\ Keys(u) = Keys(t)
  /\ \A k, v : <<k, v>> \in Entries(u) <=>
                 \/ k # key /\ <<k, v>> \in Entries(t)
                 \/ k = key /\ v = value /\ key \in Keys(t)

\* The equations of update, for a tree whose heights are up to date.
LEMMA UpdatedNode ==
  ASSUME NEW t, t # NULL, Avl(t), NEW key \in Users, NEW w,
         height(Updated(t.left, key, w)) = height(t.left),
         height(Updated(t.right, key, w)) = height(t.right)
  PROVE  /\ t.key < key =>
              Updated(t, key, w)
                = Node(t.key, t.value, t.left, Updated(t.right, key, w))
         /\ t.key > key =>
              Updated(t, key, w)
                = Node(t.key, t.value, Updated(t.left, key, w), t.right)
         /\ t.key = key => Updated(t, key, w) = Node(t.key, w, t.left, t.right)
<1> DEFINE l == Updated(t.left, key, w)
           r == Updated(t.right, key, w)
           h == 1 + max(height(t.left), height(t.right))
<1>1. t \in Trees /\ t = Node(t.key, t.value, t.left, t.right)
  BY AvlParts
<1>2. t = Cell(t.key, t.value, h, t.left, t.right)
  BY <1>1, Cells
<1>3. /\ t.key < key => Updated(t, key, w) = [t EXCEPT !.right = r]
      /\ t.key > key => Updated(t, key, w) = [t EXCEPT !.left = l]
      /\ t.key = key => Updated(t, key, w) = [t EXCEPT !.value = w]
  BY <1>1, UpdatedDef
<1>4. /\ Node(t.key, t.value, t.left, r) = Cell(t.key, t.value, h, t.left, r)
      /\ Node(t.key, t.value, l, t.right) = Cell(t.key, t.value, h, l, t.right)
      /\ Node(t.key, w, t.left, t.right) = Cell(t.key, w, h, t.left, t.right)
  BY Cells
<1> HIDE DEF l, r, h
<1>5. /\ [Cell(t.key, t.value, h, t.left, t.right) EXCEPT !.right = r]
           = Cell(t.key, t.value, h, t.left, r)
      /\ [Cell(t.key, t.value, h, t.left, t.right) EXCEPT !.left = l]
           = Cell(t.key, t.value, h, l, t.right)
      /\ [Cell(t.key, t.value, h, t.left, t.right) EXCEPT !.value = w]
           = Cell(t.key, w, h, t.left, t.right)
  BY DEF Cell
<1>6. /\ [t EXCEPT !.right = r] = Node(t.key, t.value, t.left, r)
      /\ [t EXCEPT !.left = l] = Node(t.key, t.value, l, t.right)
      /\ [t EXCEPT !.value = w] = Node(t.key, w, t.left, t.right)
  BY <1>2, <1>4, <1>5, Zenon
<1> QED  BY <1>3, <1>6, Zenon DEF l, r

\* update keeps the tree, but for one socket.
LEMMA UpdateRewrites ==
  ASSUME NEW t, Avl(t), NEW key \in Users, NEW value \in Sockets
  PROVE  Rewritten(Updated(t, key, value), t, key, value)
<1> DEFINE U(u) == Updated(u, key, value)
           Claim(u) == Rewritten(U(u), u, key, value)
           S == {u \in Trees : Avl(u) => Claim(u)}
<1>1. NULL \in S
  <2>1. U(NULL) = NULL
    BY UpdatedDef
  <2> QED  BY <2>1, NullHoldsNothing, NullIsATree DEF Rewritten
<1>2. ASSUME NEW u \in Trees \ {NULL}, u.left \in S, u.right \in S
      PROVE  u \in S
  <2> SUFFICES ASSUME Avl(u) PROVE Claim(u)
    OBVIOUS
  <2> DEFINE k == u.key  v == u.value  l == u.left  r == u.right
  <2>1. /\ k \in Users /\ k \in Int /\ key \in Int /\ v \in Sockets
        /\ Avl(l) /\ Avl(r) /\ Between(l, k, r)
        /\ height(l) - height(r) \in -1 .. 1
        /\ height(u) = 1 + max(height(l), height(r))
    BY AvlParts, RecordAssumption
  <2>2. /\ Keys(u) = Keys(l) \cup {k} \cup Keys(r)
        /\ Entries(u) = Entries(l) \cup {<<k, v>>} \cup Entries(r)
    BY Contents
  <2>3. Claim(l) /\ Claim(r)
    BY <1>2, <2>1
  <2>4. height(U(l)) = height(l) /\ height(U(r)) = height(r)
    BY <2>3 DEF Rewritten
  <2>5. /\ \A q \in Keys(l) : q \in Int /\ q < k
        /\ \A q \in Keys(r) : q \in Int /\ q > k
    BY <2>1, RecordAssumption, NodesAreTrees DEF Between, Avl, Ordered
  <2>6. \A q, x : /\ <<q, x>> \in Entries(l) => q \in Keys(l)
                  /\ <<q, x>> \in Entries(r) => q \in Keys(r)
    BY KeysOfEntries
  <2>7. CASE k < key
    <3> DEFINE m == U(r)
               n == U(u)
    <3>1. n = Node(k, v, l, m)
      BY <2>4, <2>7, UpdatedNode
    <3>2. Rewritten(m, r, key, value)
      BY <2>3
    <3> HIDE DEF m, n
    <3>3. Joins(n, k, v, l, m)
      <4>1. Avl(m) /\ Between(l, k, m) /\ height(l) - height(m) \in -1 .. 1
        BY <2>1, <3>2 DEF Rewritten, Between
      <4> QED  BY <2>1, <3>1, <4>1, NodeJoins
    <3>4. height(n) = height(u)
      BY <2>1, <3>1, <3>2, NodeFields DEF Rewritten
    <3>5. key \notin Keys(l) /\ key # k
      BY <2>1, <2>5, <2>7
    <3> QED  BY <2>2, <2>6, <3>2, <3>3, <3>4, <3>5 DEF n, Rewritten, Joins
  <2>8. CASE k > key
    <3> DEFINE m == U(l)
               n == U(u)
    <3>1. n = Node(k, v, m, r)
      BY <2>4, <2>8, UpdatedNode
    <3>2. Rewritten(m, l, key, value)
      BY <2>3
    <3> HIDE DEF m, n
    <3>3. Joins(n, k, v, m, r)
      <4>1. Avl(m) /\ Between(m, k, r) /\ height(m) - height(r) \in -1 .. 1
        BY <2>1, <3>2 DEF Rewritten, Between
      <4> QED  BY <2>1, <3>1, <4>1, NodeJoins
    <3>4. height(n) = height(u)
      BY <2>1, <3>1, <3>2, NodeFields DEF Rewritten
    <3>5. key \notin Keys(r) /\ key # k
      BY <2>1, <2>5, <2>8
    <3> QED  BY <2>2, <2>6, <3>2, <3>3, <3>4, <3>5 DEF n, Rewritten, Joins
  <2>9. CASE k = key
    <3> DEFINE n == U(u)
    <3>1. n = Node(k, value, l, r)
      BY <2>4, <2>9, UpdatedNode
    <3> HIDE DEF n
    <3>2. Joins(n, k, value, l, r)
      BY <2>1, <3>1, NodeJoins
    <3>3. height(n) = height(u)
      BY <2>1, <3>1, NodeFields
    <3>4. key \notin Keys(l) /\ key \notin Keys(r)
      BY <2>1, <2>5, <2>9
    <3> QED  BY <2>2, <2>6, <2>9, <3>2, <3>3, <3>4 DEF n, Rewritten, Joins
  <2> QED  BY <2>1, <2>7, <2>8, <2>9
<1> HIDE DEF S, Claim
<1>3. Trees \subseteq S
  BY <1>1, <1>2, TreeInduction
<1>4. Claim(t)
  BY <1>3 DEF S, Avl, Ordered
<1> QED  BY <1>4 DEF Claim

-----------------------------------------------------------------------------
(* The invariant *)

\* The subtrees of a balanced search tree are balanced search trees.
LEMMA AvlNodes ==
  ASSUME NEW t, Avl(t), NEW n \in AllNodes[t]
  PROVE  n \in Trees \ {NULL} /\ Avl(n)
<1> DEFINE S == {u \in Trees : Avl(u) => \A m \in AllNodes[u] : Avl(m)}
<1>1. NULL \in S
  BY AllNodesDef, NullIsATree
<1>2. ASSUME NEW u \in Trees \ {NULL}, u.left \in S, u.right \in S
      PROVE  u \in S
  BY <1>2, AllNodesDef, AvlParts
<1> HIDE DEF S
<1>3. Trees \subseteq S
  BY <1>1, <1>2, TreeInduction
<1> QED  BY <1>3, NodesAreTrees DEF S, Avl, Ordered

\* A balanced tree's stored height is its depth.
LEMMA HeightIsDepth ==
  ASSUME NEW t, Avl(t)
  PROVE  height(t) = Depth[t]
<1> DEFINE S == {u \in Trees : Avl(u) => height(u) = Depth[u]}
<1>1. NULL \in S
  BY DepthDef, NullHoldsNothing, NullIsATree
<1>2. ASSUME NEW u \in Trees \ {NULL}, u.left \in S, u.right \in S
      PROVE  u \in S
  BY <1>2, DepthDef, AvlParts
<1> HIDE DEF S
<1>3. Trees \subseteq S
  BY <1>1, <1>2, TreeInduction
<1> QED  BY <1>3 DEF S, Avl, Ordered

\* The invariant: the tree is a balanced search tree, by its stored heights.
TreeInv == Avl(root)

\* The invariant is inductive: every operation keeps it.
LEMMA InvHolds == Spec => []TreeInv
<1>1. Init => TreeInv
  BY NullHoldsNothing DEF Init, TreeInv
<1>2. TreeInv /\ [Next]_root => TreeInv'
  <2> SUFFICES ASSUME TreeInv, [Next]_root PROVE TreeInv'
    OBVIOUS
  <2>1. ASSUME NEW username \in Users, set_offline(username)
        PROVE  TreeInv'
    BY <2>1, DeleteRemoves DEF set_offline, Removed, TreeInv
  <2>2. ASSUME NEW username \in Users, NEW socket \in Sockets,
               set_online(username, socket)
        PROVE  TreeInv'
    BY <2>2, InsertAdds DEF set_online, Added, TreeInv
  <2>3. ASSUME NEW username \in Users, NEW socket \in Sockets,
               update(username, socket)
        PROVE  TreeInv'
    BY <2>3, UpdateRewrites DEF update, Rewritten, TreeInv
  <2>4. CASE UNCHANGED root
    BY <2>4 DEF TreeInv
  <2> QED  BY <2>1, <2>2, <2>3, <2>4 DEF Next
<1> QED  BY <1>1, <1>2, PTL DEF Spec

\* Whatever is inserted, deleted and updated, and in which order, the tree
\* holds users only, each with a socket, and its keys stay in search order.
THEOREM TreeIsOrdered == Spec => []SearchTreeOrder
<1>1. TreeInv => SearchTreeOrder
  <2> SUFFICES ASSUME TreeInv, NEW n \in AllNodes[root]
               PROVE  /\ n.key \in Users /\ n.value \in Sockets
                      /\ \A k \in Keys(n.left) : k < n.key
                      /\ \A k \in Keys(n.right) : k > n.key
    BY DEF SearchTreeOrder
  <2>1. n \in Trees \ {NULL}
    BY AvlNodes DEF TreeInv
  <2> QED  BY <2>1, Shape DEF TreeInv, Avl, Ordered
<1> QED  BY <1>1, InvHolds, PTL

\* The stored heights are the real depths, and the rotations they steer keep
\* the depths of two sibling subtrees within one of each other.
THEOREM TreeIsBalanced == Spec => []HeightBalanced
<1>1. TreeInv => HeightBalanced
  <2> SUFFICES ASSUME TreeInv, NEW n \in AllNodes[root]
               PROVE  /\ n.height = Depth[n]
                      /\ Depth[n.left] - Depth[n.right] \in -1 .. 1
    BY DEF HeightBalanced
  <2>1. n # NULL /\ Avl(n)
    BY AvlNodes DEF TreeInv
  <2>2. /\ Avl(n.left) /\ Avl(n.right)
        /\ height(n.left) - height(n.right) \in -1 .. 1
    BY <2>1, AvlParts
  <2> QED  BY <2>1, <2>2, HeightIsDepth DEF height
<1> QED  BY <1>1, InvHolds, PTL

-----------------------------------------------------------------------------
(* The tree implements the map *)

\* The map that a tree stands for.
MapOf(t) == [u \in Users |-> Answer(t, u)]

\* insert adds a missing user and keeps the socket of one that is there.
LEMMA InsertInMap ==
  ASSUME NEW t, Avl(t), NEW key \in Users, NEW value \in Sockets
  PROVE  MapOf(insert(t, key, value)) =
           [MapOf(t) EXCEPT ![key] = IF @ = -1 THEN value ELSE @]
<1> DEFINE u == insert(t, key, value)
<1>1. Added(u, t, key, value)
  BY InsertAdds
<1> HIDE DEF u
<1>2. Avl(u)
  BY <1>1 DEF Added
<1>3. CASE key \in Keys(t)
  <2>1. ASSUME NEW x \in Users PROVE Answer(u, x) = Answer(t, x)
    BY <1>1, <1>2, <1>3, AnswerIs DEF Added
  <2>2. Answer(t, key) # -1
    BY <1>3, AnswerIs
  <2> QED  BY <2>1, <2>2 DEF MapOf, u
<1>4. CASE key \notin Keys(t)
  <2>1. Answer(u, key) = value /\ Answer(t, key) = -1
    BY <1>1, <1>2, <1>4, AnswerIs DEF Added
  <2>2. ASSUME NEW x \in Users, x # key PROVE Answer(u, x) = Answer(t, x)
    BY <1>1, <1>2, <1>4, <2>2, AnswerIs DEF Added
  <2> QED  BY <2>1, <2>2 DEF MapOf, u
<1> QED  BY <1>3, <1>4

\* deleteNode takes out one user.
LEMMA DeleteInMap ==
  ASSUME NEW t, Avl(t), NEW key \in Users
  PROVE  MapOf(deleteNode(t, key)) = [MapOf(t) EXCEPT ![key] = -1]
<1> DEFINE u == deleteNode(t, key)
<1>1. Removed(u, t, key)
  BY DeleteRemoves
<1> HIDE DEF u
<1>2. Avl(u)
  BY <1>1 DEF Removed
<1>3. Answer(u, key) = -1
  BY <1>1, <1>2, AnswerIs DEF Removed
<1>4. ASSUME NEW x \in Users, x # key PROVE Answer(u, x) = Answer(t, x)
  <2>1. x \in Keys(t) <=> x \in Keys(u)
    BY <1>1, <1>4 DEF Removed
  <2>2. \A v : <<x, v>> \in Entries(t) => <<x, v>> \in Entries(u)
    BY <1>1, <1>4 DEF Removed
  <2> QED  BY <1>2, <2>1, <2>2, AnswerIs
<1> QED  BY <1>3, <1>4 DEF MapOf, u

\* update gives a user that is there another socket.
LEMMA UpdateInMap ==
  ASSUME NEW t, Avl(t), NEW key \in Users, NEW value \in Sockets
  PROVE  MapOf(Updated(t, key, value)) =
           [MapOf(t) EXCEPT ![key] = IF @ = -1 THEN @ ELSE value]
<1> DEFINE u == Updated(t, key, value)
<1>1. Rewritten(u, t, key, value)
  BY UpdateRewrites
<1> HIDE DEF u
<1>2. Avl(u) /\ Keys(u) = Keys(t)
  BY <1>1 DEF Rewritten
<1>3. Answer(u, key) = IF Answer(t, key) = -1 THEN -1 ELSE value
  <2>1. CASE key \in Keys(t)
    <3>1. <<key, value>> \in Entries(u)
      BY <1>1, <2>1 DEF Rewritten
    <3> QED  BY <1>2, <2>1, <3>1, AnswerIs
  <2>2. CASE key \notin Keys(t)
    BY <1>2, <2>2, AnswerIs
  <2> QED  BY <2>1, <2>2
<1>4. ASSUME NEW x \in Users, x # key PROVE Answer(u, x) = Answer(t, x)
  <2>1. \A v : <<x, v>> \in Entries(t) => <<x, v>> \in Entries(u)
    BY <1>1, <1>4 DEF Rewritten
  <2> QED  BY <1>2, <2>1, AnswerIs
<1> QED  BY <1>3, <1>4 DEF MapOf, u

\* Seen through is_online, every operation on the tree is the operation of
\* the same name on the map of OnlineRecord.
THEOREM TreeIsRecord == Spec => ImplementsRecord
<1>1. [u \in Users |-> is_online(u)] = MapOf(root)
  BY DEF MapOf, Answer, is_online
<1>2. Init => Record!Init
  BY <1>1, NullHoldsNothing, AnswerIs DEF Init, Record!Init, MapOf
<1>3. TreeInv /\ [Next]_root => [Record!Next]_[u \in Users |-> is_online(u)]
  <2> SUFFICES ASSUME TreeInv, [Next]_root
               PROVE  [Record!Next]_[u \in Users |-> is_online(u)]
    OBVIOUS
  <2>1. /\ [u \in Users |-> is_online(u)] = MapOf(root)
        /\ [u \in Users |-> is_online(u)]' = MapOf(root')
    BY DEF MapOf, Answer, is_online
  <2>2. ASSUME NEW username \in Users, set_offline(username)
        PROVE  Record!set_offline(username)
    BY <2>1, <2>2, DeleteInMap DEF set_offline, Record!set_offline, TreeInv
  <2>3. ASSUME NEW username \in Users, NEW socket \in Sockets,
               set_online(username, socket)
        PROVE  Record!set_online(username, socket)
    BY <2>1, <2>3, InsertInMap DEF set_online, Record!set_online, TreeInv
  <2>4. ASSUME NEW username \in Users, NEW socket \in Sockets,
               update(username, socket)
        PROVE  Record!update(username, socket)
    BY <2>1, <2>4, UpdateInMap DEF update, Record!update, TreeInv
  <2>5. CASE UNCHANGED root
    BY <2>1, <2>5
  <2> QED  BY <2>2, <2>3, <2>4, <2>5 DEF Next, Record!Next
<1> QED  BY <1>2, <1>3, InvHolds, PTL DEF Spec, ImplementsRecord, Record!Spec

=============================================================================
