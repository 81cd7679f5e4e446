------------------------ MODULE CircularBufferProofs ------------------------
(***************************************************************************)
(* The circular buffer, for every number of slots and every set of         *)
(* entries: the ring invariant holds, and the ring implements CommandLog.  *)
(***************************************************************************)
EXTENDS CircularBufferSpec, CircularBufferLemmas

LEMMA RingInvInit == Init => RingInv
BY InitShape DEF Init, RingInv, TypeOK

LEMMA RingInvStep == RingInv /\ [Next]_vars => RingInv'
<1> SUFFICES ASSUME RingInv, [Next]_vars
             PROVE  RingInv'
  OBVIOUS
<1>1. ASSUME NEW e \in Entries, Add(e)
      PROVE  RingInv'
  BY <1>1, AddKeepsShape DEF Add, RingInv, TypeOK
<1>2. CASE UNCHANGED vars
  BY <1>2 DEF vars, RingInv, TypeOK
<1>. QED  BY <1>1, <1>2 DEF Next

(* The offsets and the full flag of aesd-circular-buffer.c always agree on *)
(* which slots are used, whatever is added.                                *)
THEOREM RingAlwaysWellShaped == Spec => []RingInv
BY RingInvInit, RingInvStep, PTL DEF Spec

(* Where the ring starts is of no account to a look-up: in a well-shaped   *)
(* ring the walk from out_offs passes the commands of the log, and then    *)
(* slots of size zero.                                                     *)
LEMMA FindIsRight == RingInv => FindFollowsConcatenation
<1> SUFFICES ASSUME RingInv
             PROVE  FindFollowsConcatenation
  OBVIOUS
<1> DEFINE buffer  == circular_buffer
           log     == LogOf(buffer)
           n       == Len(log)
           passed  == Passed(buffer)
           byte(e, j) == [buffptr |-> e.buffptr, at |-> j - 1]
           bytes(e) == [j \in 1 .. e.size |-> byte(e, j)]
           T       == {byte(e, j) : e \in Entries, j \in Nat}
           ss      == [k \in 1 .. n |-> bytes(log[k])]
           at      == [k \in 0 .. n |-> passed[k]]
           slot(k) == Advance(buffer.out_offs, k)
<1>1. /\ IsBuffer(buffer, Entries)
      /\ RingShape(buffer, Entries)
      /\ MaxOps \in Nat \ {0}
      /\ Slots = 0 .. MaxOps - 1
  BY SlotsAssumption DEF RingInv, TypeOK, Slots, MaxOps
<1>2. /\ buffer.out_offs \in Slots
      /\ \A i \in Slots : buffer.entry[i].size \in Nat
  <2>1. \A i \in Slots : buffer.entry[i] \in Entries \cup {EmptyEntry}
    BY <1>1 DEF IsBuffer
  <2>. QED  BY <1>1, <2>1, EntriesAssumption DEF IsBuffer, EmptyEntry
<1>3. /\ log \in Seq(Entries)
      /\ n \in 0 .. MaxOps
      /\ \A k \in 1 .. n : log[k] = buffer.entry[slot(k-1)]
  <2>1. Held(buffer) \in 0 .. MaxOps
    BY <1>1, HeldValue DEF MaxOps
  <2>. QED  BY <1>1, <2>1, LogIsSeq
<1>4. /\ passed \in [0 .. MaxOps -> Nat]
      /\ passed[0] = 0
      /\ \A k \in Slots : passed[k+1] = passed[k] + buffer.entry[slot(k)].size
  BY <1>2, PassedValue
(* Beyond the log the slots are empty.                                     *)
<1>5. \A k \in Slots : k >= n => buffer.entry[slot(k)].size = 0
  <2> SUFFICES ASSUME NEW k \in Slots, k >= n
               PROVE  buffer.entry[slot(k)].size = 0
    OBVIOUS
  <2>1. n = IF buffer.full THEN MaxOps ELSE buffer.in_offs
    BY <1>1, HeldValue, LogIsSeq DEF MaxOps
  <2>2. ~ buffer.full /\ k >= buffer.in_offs /\ k \in 0 .. MaxOps
    BY <1>1, <2>1
  <2>3. buffer.out_offs = 0 /\ buffer.entry[k] = EmptyEntry
    BY <1>1, <2>2 DEF RingShape, IsBuffer
  <2>4. slot(k) = k
    <3>1. slot(k) = IF 0 + k < MaxOps THEN 0 + k ELSE 0 + k - MaxOps
      BY <1>2, <2>2, <2>3, AdvanceValue DEF MaxOps
    <3>. QED  BY <1>1, <3>1
  <2>. QED  BY <2>3, <2>4 DEF EmptyEntry
<1> HIDE DEF passed, log, buffer, slot
<1>6. \A k \in 1 .. n : /\ log[k] \in Entries
                        /\ log[k].size \in Nat
                        /\ passed[k] = passed[k-1] + log[k].size
  <2> TAKE k \in 1 .. n
  <2>1. log[k] \in Entries
    BY <1>3
  <2> DEFINE j == k - 1
  <2>2. j \in Slots /\ j + 1 = k
    BY <1>1, <1>3
  <2> HIDE DEF j
  <2>3. passed[j+1] = passed[j] + buffer.entry[slot(j)].size
    BY <1>4, <2>2
  <2>4. log[k] = buffer.entry[slot(j)]
    BY <1>3 DEF j
  <2>. QED  BY <2>1, <2>2, <2>3, <2>4, EntriesAssumption DEF j
<1>7. /\ ss \in Seq(Seq(T))
      /\ Len(ss) = n
      /\ \A k \in 1 .. n : ss[k] = bytes(log[k]) /\ Len(ss[k]) = log[k].size
  <2>1. ASSUME NEW k \in 1 .. n
        PROVE  bytes(log[k]) \in Seq(T) /\ Len(bytes(log[k])) = log[k].size
    <3>1. bytes(log[k]) \in [1 .. log[k].size -> T]
      BY <1>6
    <3>. HIDE DEF T, byte
    <3>. QED  BY <1>6, <3>1
  <2> HIDE DEF T, bytes
  <2>. QED  BY <1>3, <2>1
<1>8. EndsAt(ss, at)
  <2>1. n \in Nat /\ \A k \in 0 .. n : k \in 0 .. MaxOps
    BY <1>1, <1>3
  <2>2. at \in [0 .. n -> Nat] /\ at[0] = 0
    BY <1>4, <2>1
  <2>3. \A k \in 1 .. n : at[k] = at[k-1] + Len(ss[k])
    <3> TAKE k \in 1 .. n
    <3>1. k \in 0 .. n /\ k - 1 \in 0 .. n
      BY <2>1
    <3>2. at[k] = passed[k] /\ at[k-1] = passed[k-1]
      BY <3>1
    <3> HIDE DEF at, ss, bytes, T
    <3>3. passed[k] = passed[k-1] + log[k].size /\ Len(ss[k]) = log[k].size
      BY <1>6, <1>7
    <3>. QED  BY <3>2, <3>3
  <2> HIDE DEF at, ss
  <2>. QED  BY <1>7, <2>2, <2>3 DEF EndsAt
<1>9. Concatenation = FlattenSeq(ss)
  BY DEF Concatenation, buffer, log
<1> DEFINE all == FlattenSeq(ss)
<1> HIDE DEF T, ss, bytes
<1>10. InPlace(ss, at, T, n, all)
  BY <1>7, <1>8, FlattenPositions
<1>11. /\ Len(all) = passed[n]
       /\ passed[n] \in Nat
       /\ \A k \in 1 .. n : \A j \in 1 .. log[k].size :
            all[passed[k-1] + j] = byte(log[k], j)
  <2>1. n \in Nat /\ n \in 0 .. n /\ n \in 0 .. MaxOps
    BY <1>1, <1>3
  <2>2. at[n] = passed[n] /\ passed[n] \in Nat
    BY <1>4, <2>1
  <2>3. ASSUME NEW k \in 1 .. n, NEW j \in 1 .. log[k].size
        PROVE  all[passed[k-1] + j] = byte(log[k], j)
    <3>1. k - 1 \in 0 .. n
      BY <2>1
    <3>2. at[k-1] = passed[k-1]
      BY <3>1
    <3>3. ss[k] = bytes(log[k]) /\ Len(ss[k]) = log[k].size
      BY <1>7
    <3>4. all[at[k-1] + j] = ss[k][j]
      <4> HIDE DEF at, all, byte
      <4>. QED  BY <1>10, <3>3 DEF InPlace
    <3>5. bytes(log[k])[j] = byte(log[k], j)
      BY DEF bytes
    <3> HIDE DEF at, all, byte
    <3>. QED  BY <3>2, <3>3, <3>4, <3>5
  <2> HIDE DEF at, all, byte
  <2>. QED  BY <1>10, <2>2, <2>3 DEF InPlace
<1> HIDE DEF at, all
<1>12. \A i \in 0 .. MaxOps : \A k \in i .. MaxOps : passed[i] <= passed[k]
  <2>1. \A k \in 1 .. MaxOps : passed[k-1] <= passed[k]
    <3> TAKE k \in 1 .. MaxOps
    <3> DEFINE j == k - 1
    <3>1. j \in Slots /\ j + 1 = k /\ j \in 0 .. MaxOps
      BY <1>1
    <3> HIDE DEF j
    <3>2. passed[j+1] = passed[j] + buffer.entry[slot(j)].size
      BY <1>4, <3>1
    <3>3. slot(j) \in Slots
      BY <1>2, <3>1, AdvanceValue DEF slot, MaxOps
    <3>4. passed[j] \in Nat /\ buffer.entry[slot(j)].size \in Nat
      BY <1>2, <1>4, <3>1, <3>3
    <3>5. passed[j] <= passed[j+1]
      BY <3>2, <3>4
    <3>. QED  BY <3>1, <3>5 DEF j
  <2>. QED  BY <1>1, <1>4, <2>1, StepwiseGrowth
<1>13. ASSUME NEW pos \in Nat
       PROVE  LET found == FindEntryOffset(buffer, pos)
              IN  IF pos < Len(all)
                    THEN /\ found # NULL
                         /\ all[pos+1] = [buffptr |-> buffer.entry[found.slot].buffptr,
                                          at      |-> found.offset]
                    ELSE found = NULL
  <2> DEFINE found == FindEntryOffset(buffer, pos)
  <2>1. /\ pos < passed[MaxOps] => found # NULL
        /\ found # NULL =>
             \E k \in Slots :
               /\ passed[k] <= pos
               /\ pos < passed[k+1]
               /\ found = [slot |-> slot(k), offset |-> pos - passed[k]]
    BY <1>2, FindStops DEF passed, slot
  <2> HIDE DEF found
  <2>2. pos < passed[n] => found # NULL
    <3>1. n \in 0 .. MaxOps /\ MaxOps \in n .. MaxOps /\ MaxOps \in 0 .. MaxOps
      BY <1>1, <1>3
    <3>2. passed[n] <= passed[MaxOps] /\ passed[MaxOps] \in Nat
      BY <1>4, <1>12, <3>1
    <3>. QED  BY <1>11, <2>1, <3>2
  <2>3. ASSUME found # NULL
        PROVE  /\ pos < passed[n]
               /\ all[pos+1] = [buffptr |-> buffer.entry[found.slot].buffptr,
                                at      |-> found.offset]
    <3>1. PICK k \in Slots :
            /\ passed[k] <= pos
            /\ pos < passed[k+1]
            /\ found = [slot |-> slot(k), offset |-> pos - passed[k]]
      BY <2>1, <2>3
    <3> DEFINE i   == k + 1
               off == pos - passed[k]
    <3>2. k \in 0 .. MaxOps /\ i \in 1 .. MaxOps /\ i \in 0 .. MaxOps /\ i - 1 = k
      BY <1>1
    <3>3. /\ passed[i] = passed[k] + buffer.entry[slot(k)].size
          /\ passed[k] \in Nat /\ passed[i] \in Nat
      BY <1>4, <3>2
    <3>4. k < n
      <4>1. CASE k >= n
        <5>1. buffer.entry[slot(k)].size = 0
          BY <1>5, <4>1
        <5>. QED  BY <3>1, <3>3, <5>1
      <4>. QED  BY <1>3, <3>2, <4>1
    <3>5. i \in 1 .. n /\ n \in i .. MaxOps
      BY <1>1, <1>3, <3>2, <3>4
    <3> HIDE DEF i
    <3>6. pos < passed[n]
      <4>1. passed[i] <= passed[n]
        <5>1. n \in i .. MaxOps
          BY <3>5
        <5>. QED  BY <1>12, <3>2, <5>1
      <4>. QED  BY <1>11, <3>1, <3>3, <4>1 DEF i
    <3>7. log[i] = buffer.entry[slot(k)]
      <4>1. log[i] = buffer.entry[slot(i-1)]
        BY <1>3, <3>5
      <4>. QED  BY <3>2, <4>1
    <3>8. off \in Nat /\ off + 1 \in 1 .. log[i].size /\ passed[k] + (off + 1) = pos + 1
          /\ off + 1 - 1 = off
      <4>1. log[i].size \in Nat
        BY <1>6, <3>5
      <4> DEFINE size == buffer.entry[slot(k)].size
      <4>2. size \in Nat /\ passed[i] = passed[k] + size /\ pos < passed[i]
        BY <3>1, <3>3, <3>7, <4>1 DEF i
      <4> HIDE DEF size
      <4>3. off \in Nat /\ off + 1 \in 1 .. size /\ passed[k] + (off + 1) = pos + 1
            /\ off + 1 - 1 = off
        BY <3>1, <3>3, <4>2
      <4>. QED  BY <3>7, <4>3 DEF size
    <3> HIDE DEF off
    <3>9. all[passed[i-1] + (off + 1)] = byte(log[i], off + 1)
      <4> HIDE DEF byte
      <4>. QED  BY <1>11, <3>5, <3>8
    <3>10. all[pos + 1] = [buffptr |-> buffer.entry[slot(k)].buffptr, at |-> off]
      BY <3>2, <3>7, <3>8, <3>9
    <3>11. found.slot = slot(k) /\ found.offset = off
      BY <3>1 DEF off
    <3>. QED  BY <3>6, <3>10, <3>11
  <2>. QED  BY <1>11, <2>2, <2>3 DEF found
<1>. QED
  <2> HIDE DEF byte
  <2>1. Len(all) \in Nat
    BY <1>11
  <2>. QED  BY <1>9, <1>13, <2>1 DEF FindFollowsConcatenation, all, buffer

(* aesd_circular_buffer_find_entry_offset_for_fpos answers as if all the   *)
(* commands were concatenated end to end, for every position in every ring *)
(* the driver can build.                                                   *)
THEOREM RingFindFollowsConcatenation == Spec => []FindFollowsConcatenation
BY FindIsRight, RingAlwaysWellShaped, PTL

(* aesd_circular_buffer_add_entry implements the log of the last entries:  *)
(* the initial ring is the empty log, and every step of the ring is        *)
(* CommandLog's Add of the same entry, the pointer handed back included.   *)
THEOREM RingImplementsCommandLog == Spec => ImplementsCommandLog
<1>1. Init => Log!Init
  BY InitShape DEF Init, Log!Init
<1>2. RingInv /\ [Next]_vars => [Log!Next]_<<LogOf(circular_buffer), old_entry>>
  <2> SUFFICES ASSUME RingInv, [Next]_vars
               PROVE  [Log!Next]_<<LogOf(circular_buffer), old_entry>>
    OBVIOUS
  <2>1. ASSUME NEW e \in Entries, Add(e)
        PROVE  Log!Add(e)
    <3>1. /\ IsBuffer(circular_buffer, Entries)
          /\ RingShape(circular_buffer, Entries)
      BY DEF RingInv, TypeOK
    <3>2. /\ circular_buffer' = AddEntry(circular_buffer, e)
          /\ old_entry' = Overwritten(circular_buffer)
      BY <2>1 DEF Add
    <3>3. LogOf(circular_buffer') =
            BoundedAppend(LogOf(circular_buffer), e,
                          AESDCHAR_MAX_WRITE_OPERATIONS_SUPPORTED)
      BY <3>1, <3>2, AddIsBoundedAppend
    <3>4. Overwritten(circular_buffer) =
            IF Len(LogOf(circular_buffer))
                 = AESDCHAR_MAX_WRITE_OPERATIONS_SUPPORTED
              THEN Head(LogOf(circular_buffer)).buffptr ELSE NULL
      BY <3>1, AddIsBoundedAppend
    <3>. QED  BY <3>2, <3>3, <3>4 DEF Log!Add, Log!BoundedAppend, BoundedAppend
  <2>2. CASE UNCHANGED vars
    BY <2>2 DEF vars
  <2>. QED  BY <2>1, <2>2 DEF Next, Log!Next
<1>. QED
  BY <1>1, <1>2, RingAlwaysWellShaped, PTL DEF Spec, ImplementsCommandLog, Log!Spec
=============================================================================
