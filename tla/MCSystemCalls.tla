--------------------------- MODULE MCSystemCalls ---------------------------
(* A caller, a child, and a child of a child that goes on as a caller.     *)
EXTENDS SystemCalls
=============================================================================
