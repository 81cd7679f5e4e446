----------------------------- MODULE BoundedLog -----------------------------
(***************************************************************************)
(* A log that keeps its last `capacity' elements, oldest first: the one    *)
(* operation the abstract specifications of the circular buffer and of the *)
(* device have in common.                                                  *)
(***************************************************************************)
EXTENDS Naturals, Sequences

BoundedAppend(log, e, capacity) ==
  IF Len(log) = capacity THEN Append(Tail(log), e) ELSE Append(log, e)
=============================================================================
