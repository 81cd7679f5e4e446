-------------------------- MODULE MCCircularBuffer --------------------------
(* The circular buffer with the ten slots of the code and entries of two   *)
(* different sizes, so that positions and slots never line up by accident. *)
EXTENDS CircularBufferSpec

MCEntries == {[buffptr |-> "a", size |-> 1], [buffptr |-> "bcd", size |-> 3]}
=============================================================================
