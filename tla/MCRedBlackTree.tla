--------------------------- MODULE MCRedBlackTree ---------------------------
(* The tree with a few keys.                                               *)
EXTENDS RedBlackTree
=============================================================================
