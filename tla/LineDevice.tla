----------------------------- MODULE LineDevice -----------------------------
(***************************************************************************)
(* What /dev/aesdchar promises the processes that use it, with no ring, no *)
(* lock and no memory in it.  Bytes written gather in a partial command;   *)
(* whenever that holds a newline, the command up to and including it moves *)
(* to a log of the last Capacity commands, before anything else is read or *)
(* written.  A reader sees the commands of the log end to end, and gets at *)
(* least one byte of them unless it asked for none or stands at their end. *)
(***************************************************************************)
EXTENDS BoundedLog, SequencesExt

CONSTANTS Proc, Capacity, NewLine, Inputs, Counts

VARIABLES
  log,      \* the commands retained, oldest first
  partial,  \* bytes written after the last newline
  pos,      \* each process's position in the contents
  data      \* what each process's read, if it was its last call, returned

Contents == FlattenSeq(log)

Pending == NewLine \in Range(partial)

Init ==
  /\ log = << >>
  /\ partial = << >>
  /\ pos = [p \in Proc |-> 0]
  /\ data = [p \in Proc |-> << >>]

Receive(buf) ==
  /\ ~ Pending
  /\ partial' = partial \o buf
  /\ UNCHANGED <<log, pos, data>>

Complete ==
  LET n == SelectInSeq(partial, LAMBDA c : c = NewLine)
  IN  /\ Pending
      /\ log' = BoundedAppend(log, SubSeq(partial, 1, n), Capacity)
      /\ partial' = SubSeq(partial, n + 1, Len(partial))
      /\ UNCHANGED <<pos, data>>

(* n bytes are returned: a reader may get fewer than it asked for, as it   *)
(* does at the end of each command.                                        *)
Read(p, count) ==
  LET available == Len(Contents) - pos[p]
  IN  \E n \in 0 .. count :
        /\ count > 0 => ~ Pending
        /\ n = 0 <=> count = 0 \/ available <= 0
        /\ n > 0 => n <= available
        /\ data' = [data EXCEPT ![p] = SubSeq(Contents, pos[p] + 1, pos[p] + n)]
        /\ pos' = [pos EXCEPT ![p] = @ + n]
        /\ UNCHANGED <<log, partial>>

(* Open, release and the two seeks, and the start of a call, after which   *)
(* what was read before is of no account; where a seek may land is not     *)
(* said here.                                                              *)
Place(p) ==
  /\ pos'[p] \in Nat
  /\ pos' = [pos EXCEPT ![p] = pos'[p]]
  /\ data' \in {data, [data EXCEPT ![p] = << >>]}
  /\ UNCHANGED <<log, partial>>

(* The module is unloaded and loaded again.                                *)
Reset ==
  /\ log' = << >>
  /\ partial' = << >>
  /\ UNCHANGED <<pos, data>>

Next ==
  \/ \E buf \in Inputs : Receive(buf)
  \/ Complete
  \/ \E p \in Proc : Place(p) \/ \E count \in Counts : Read(p, count)
  \/ Reset

Spec == Init /\ [][Next]_<<log, partial, pos, data>>
=============================================================================
