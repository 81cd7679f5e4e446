-------------------------- MODULE MCServerProcess --------------------------
(* The main thread and the handlers of two connections.                    *)
EXTENDS ServerProcess
=============================================================================
