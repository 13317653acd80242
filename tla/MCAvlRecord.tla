---------------------------- MODULE MCAvlRecord ----------------------------
(* Instances of AvlRecord for TLC. *)
EXTENDS AvlRecord

\* Seven users make a tree of height four possible, the least in which a
\* deletion rotates below the root and again above it.
MCUsers == 1 .. 7

MCSockets == {5, 6}

=============================================================================
