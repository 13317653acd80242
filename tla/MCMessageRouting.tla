------------------------- MODULE MCMessageRouting -------------------------
(* Instances of MessageRouting for TLC. *)
EXTENDS MessageRouting, TLC

CONSTANTS alice, bob, carol, a1, b1, b2, c1

\* Bob has two sessions, and alice writes to him.
BobTwice == a1 :> alice @@ b1 :> bob @@ b2 :> bob
ToEachOther == a1 :> bob @@ b1 :> alice @@ b2 :> alice
AliceWritesOnce == a1 :> 1 @@ b1 :> 0 @@ b2 :> 0

\* Three users have a session each, and alice writes to bob.
OneEach == a1 :> alice @@ b1 :> bob @@ c1 :> carol
AliceToBob == a1 :> bob @@ b1 :> alice @@ c1 :> alice
AliceWrites == a1 :> 1 @@ b1 :> 0 @@ c1 :> 0
=============================================================================
