------------------------------ MODULE MCTreap ------------------------------
(* A small instance of the registry: the root's name has one before and four after it. *)
EXTENDS TreeWalks
=============================================================================
