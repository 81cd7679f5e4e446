------------------------- MODULE AesdCircularBuffer -------------------------
(***************************************************************************)
(* The operators of aesd-char-driver/aesd-circular-buffer.c: a ring of the *)
(* last AESDCHAR_MAX_WRITE_OPERATIONS_SUPPORTED commands written to the    *)
(* device.  Nothing here has state of its own: every operator takes the    *)
(* ring as an argument, as the C functions take a pointer to it, and the   *)
(* caller does the locking (CircularBufferSpec and AesdChar are callers).  *)
(*                                                                         *)
(* A ring is a record [entry, in_offs, out_offs, full]; an entry is a      *)
(* record [buffptr, size], and a slot that was never written holds the     *)
(* zeroes memset put there, EmptyEntry.                                    *)
(***************************************************************************)
EXTENDS Integers, Sequences

CONSTANTS
  AESDCHAR_MAX_WRITE_OPERATIONS_SUPPORTED,  \* number of slots, 10 in the code
  NULL                                      \* the null pointer

ASSUME SlotsAssumption ==
  AESDCHAR_MAX_WRITE_OPERATIONS_SUPPORTED \in Nat \ {0}

Slots == 0 .. AESDCHAR_MAX_WRITE_OPERATIONS_SUPPORTED - 1

(* The null pointer is the address of no entry.                            *)
ASSUME NullAssumption == NULL \notin [slot : Slots, offset : Nat]

EmptyEntry == [buffptr |-> NULL, size |-> 0]

aesd_circular_buffer_init ==
  [entry |-> [i \in Slots |-> EmptyEntry],
   in_offs |-> 0, out_offs |-> 0, full |-> FALSE]

(* The slot k steps after slot i, going round.                             *)
Advance(i, k) == (i + k) % AESDCHAR_MAX_WRITE_OPERATIONS_SUPPORTED

-----------------------------------------------------------------------------
(***************************************************************************)
(* aesd_circular_buffer_add_entry: the ring after entry e was added, and   *)
(* the pointer the call returns for its caller to free.                    *)
(***************************************************************************)
OutStays(buffer) == buffer.out_offs      \* variant: the oldest is not passed
OutAfterAdd(buffer) ==
  IF buffer.full THEN Advance(buffer.out_offs, 1) ELSE buffer.out_offs

AddEntry(buffer, e) ==
  LET in  == Advance(buffer.in_offs, 1)
      out == OutAfterAdd(buffer)
  IN  [entry    |-> [buffer.entry EXCEPT ![buffer.in_offs] = e],
       in_offs  |-> in,
       out_offs |-> out,
       full     |-> buffer.full \/ in = out]

OverwrittenLate(buffer) ==               \* variant: read after out_offs moved
  IF buffer.full THEN buffer.entry[Advance(buffer.out_offs, 1)].buffptr ELSE NULL
OverwrittenNever(buffer) == NULL         \* variant: nothing is handed back
Overwritten(buffer) ==
  IF buffer.full THEN buffer.entry[buffer.in_offs].buffptr ELSE NULL

(* What k slots add up to, from slot `first' on and going round.           *)
SizesFrom(buffer, first) ==
  LET sum[k \in 0 .. AESDCHAR_MAX_WRITE_OPERATIONS_SUPPORTED] ==
        IF k = 0 THEN 0 ELSE sum[k-1] + buffer.entry[Advance(first, k-1)].size
  IN  sum

(* The seek command counts from slot 0, wherever the oldest entry is.      *)
PassedFromSlotZero(buffer) == SizesFrom(buffer, 0)

(***************************************************************************)
(* aesd_circular_buffer_find_entry_offset_for_fpos: walk the slots from    *)
(* out_offs, subtracting the size of each slot passed from char_offset,    *)
(* and stop at the first slot the rest falls inside, or after one round.   *)
(* Passed(buffer)[k] is what has been subtracted when k slots were passed. *)
(***************************************************************************)
Passed(buffer) == SizesFrom(buffer, buffer.out_offs)

FindEntryOffset(buffer, char_offset) ==
  LET passed    == Passed(buffer)
      Inside(k) == char_offset - passed[k]
                     < buffer.entry[Advance(buffer.out_offs, k)].size
      First(k)  == Inside(k) /\ \A j \in 0 .. k-1 : ~ Inside(j)
  IN  IF \E k \in Slots : Inside(k)
        THEN LET k == CHOOSE k \in Slots : First(k)
             IN  [slot   |-> Advance(buffer.out_offs, k),
                  offset |-> char_offset - passed[k]]
        ELSE NULL

-----------------------------------------------------------------------------
(***************************************************************************)
(* What the ring stands for: the entries it holds, oldest first.           *)
(***************************************************************************)
Held(buffer) ==
  IF buffer.full
    THEN AESDCHAR_MAX_WRITE_OPERATIONS_SUPPORTED
    ELSE (buffer.in_offs - buffer.out_offs)
           % AESDCHAR_MAX_WRITE_OPERATIONS_SUPPORTED

LogOf(buffer) ==
  [k \in 1 .. Held(buffer) |-> buffer.entry[Advance(buffer.out_offs, k-1)]]

(* When the entries are commands: their bytes.                             *)
CommandsOf(buffer) == [k \in 1 .. Held(buffer) |-> LogOf(buffer)[k].buffptr]

(* A ring whose used slots hold members of Entries.                        *)
IsBuffer(buffer, Entries) ==
  /\ buffer \in [entry    : [Slots -> Entries \cup {EmptyEntry}],
                 in_offs  : Slots,
                 out_offs : Slots,
                 full     : BOOLEAN]

(***************************************************************************)
(* The shape add_entry keeps: the ring fills from slot 0 with out_offs at  *)
(* 0, unused slots stay zeroed, and once it is full the next slot to write *)
(* is the oldest one.                                                      *)
(***************************************************************************)
RingShape(buffer, Entries) ==
  IF buffer.full
    THEN /\ buffer.in_offs = buffer.out_offs
         /\ \A i \in Slots : buffer.entry[i] \in Entries
    ELSE /\ buffer.out_offs = 0
         /\ \A i \in Slots : IF i < buffer.in_offs
                               THEN buffer.entry[i] \in Entries
                               ELSE buffer.entry[i] = EmptyEntry
=============================================================================
