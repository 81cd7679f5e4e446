--------------------------- MODULE MCThreadManager ---------------------------
(* Three connections at a time: a list with a first, a middle and a last   *)
(* entry, so that SLIST_REMOVE meets each case and a walk has to pass      *)
(* entries of others.  Connections are not told apart.                     *)
EXTENDS ThreadManager, TLC

MCSymmetry == Permutations(Conn)
=============================================================================
