------------------------- MODULE CircularBufferSpec -------------------------
(***************************************************************************)
(* The circular buffer on its own: one caller that adds entries for ever.  *)
(* Look-ups change nothing, so they appear in the properties, evaluated in *)
(* every state the ring can reach, and not as actions.                     *)
(***************************************************************************)
EXTENDS AesdCircularBuffer, SequencesExt

CONSTANT Entries   \* the entries a caller may add

ASSUME EntriesAssumption ==
  \A e \in Entries : e.buffptr # NULL /\ e.size \in Nat

VARIABLES
  circular_buffer,  \* struct aesd_circular_buffer
  old_entry         \* the pointer the last add_entry returned

vars == <<circular_buffer, old_entry>>

Init ==
  /\ circular_buffer = aesd_circular_buffer_init
  /\ old_entry = NULL

Add(e) ==
  /\ circular_buffer' = AddEntry(circular_buffer, e)
  /\ old_entry' = Overwritten(circular_buffer)

Next == \E e \in Entries : Add(e)

Spec == Init /\ [][Next]_vars

-----------------------------------------------------------------------------
(* The ring is a struct aesd_circular_buffer with its offsets in range.    *)
TypeOK == IsBuffer(circular_buffer, Entries)

(* Filling, wrapping and the full flag agree: in_offs meets out_offs only  *)
(* when the ring is empty or full, the flag tells which (the comment on    *)
(* aesd_circular_buffer_add_entry), and a full ring holds no empty slot.   *)
RingInv == TypeOK /\ RingShape(circular_buffer, Entries)

(* The commands end to end: one element for each byte, naming the command  *)
(* the byte belongs to and its place in it.                                *)
Concatenation ==
  LET bytes(e) == [j \in 1 .. e.size |-> [buffptr |-> e.buffptr, at |-> j-1]]
      log      == LogOf(circular_buffer)
  IN  FlattenSeq([k \in 1 .. Len(log) |-> bytes(log[k])])

(* find_entry_offset_for_fpos answers as if all the strings were           *)
(* concatenated end to end, oldest first (its doc comment): position pos   *)
(* is byte pos of the concatenation, and NULL is returned for a position   *)
(* beyond it, wherever the ring happens to start.                          *)
FindFollowsConcatenation ==
  LET bytes == Concatenation
  IN  \A pos \in 0 .. Len(bytes) + 1 :
        LET found == FindEntryOffset(circular_buffer, pos)
        IN  IF pos < Len(bytes)
              THEN /\ found # NULL
                   /\ bytes[pos+1] =
                        [buffptr |-> circular_buffer.entry[found.slot].buffptr,
                         at      |-> found.offset]
              ELSE found = NULL

(* The ring implements the log of the last entries: nothing is lost,       *)
(* reordered or kept too long, and the pointer handed back for freeing is  *)
(* that of the entry that has just left the log.                           *)
Log == INSTANCE CommandLog
         WITH Capacity <- AESDCHAR_MAX_WRITE_OPERATIONS_SUPPORTED,
              log      <- LogOf(circular_buffer),
              dropped  <- old_entry

ImplementsCommandLog == Log!Spec
=============================================================================
