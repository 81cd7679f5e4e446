----------------------------- MODULE CommandLog -----------------------------
(***************************************************************************)
(* What the circular buffer promises its callers, with no ring in it: a    *)
(* log of the last Capacity entries added, oldest first.  Adding to a full *)
(* log drops the oldest entry and hands its buffptr back, for the caller   *)
(* to free; adding to a log with room hands back NULL.                     *)
(***************************************************************************)
EXTENDS BoundedLog

CONSTANTS Capacity, Entries, NULL

VARIABLES
  log,      \* the entries retained, oldest first
  dropped   \* what the last addition handed back

Init ==
  /\ log = << >>
  /\ dropped = NULL

Add(e) ==
  /\ log' = BoundedAppend(log, e, Capacity)
  /\ dropped' = IF Len(log) = Capacity THEN Head(log).buffptr ELSE NULL

Next == \E e \in Entries : Add(e)

Spec == Init /\ [][Next]_<<log, dropped>>
=============================================================================
