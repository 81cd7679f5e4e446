------------------------ MODULE CircularBufferLemmas ------------------------
(***************************************************************************)
(* Facts about the operators of AesdCircularBuffer, for every number of    *)
(* slots and every set of entries: add_entry keeps the shape of the ring,  *)
(* and on the log the ring stands for it is BoundedAppend.  The proofs     *)
(* about the two state machines that call it cite these facts.             *)
(***************************************************************************)
EXTENDS AesdCircularBuffer, BoundedLog, SequencesExt, WellFoundedInduction, TLAPS

(* Sequences with the same elements are equal.                             *)
LEMMA SeqEqual ==
  ASSUME NEW S, NEW s \in Seq(S), NEW t \in Seq(S),
         Len(s) = Len(t), \A k \in 1 .. Len(s) : s[k] = t[k]
  PROVE  s = t
OBVIOUS

(* Going round: one conditional subtraction instead of the remainder.      *)
LEMMA AdvanceValue ==
  ASSUME NEW i \in Slots,
         NEW k \in 0 .. AESDCHAR_MAX_WRITE_OPERATIONS_SUPPORTED
  PROVE  /\ Advance(i, k) \in Slots
         /\ Advance(i, k) =
              IF i + k < AESDCHAR_MAX_WRITE_OPERATIONS_SUPPORTED
                THEN i + k
                ELSE i + k - AESDCHAR_MAX_WRITE_OPERATIONS_SUPPORTED
BY SlotsAssumption DEF Advance, Slots

(* A freshly initialised ring is empty and well shaped                     *)
(* (aesd_circular_buffer_init).                                            *)
LEMMA InitShape ==
  ASSUME NEW Entries
  PROVE  /\ IsBuffer(aesd_circular_buffer_init, Entries)
         /\ RingShape(aesd_circular_buffer_init, Entries)
         /\ LogOf(aesd_circular_buffer_init) = << >>
BY SlotsAssumption
   DEF aesd_circular_buffer_init, IsBuffer, RingShape, Slots, LogOf, Held

(* How many entries a well-shaped ring holds.                              *)
LEMMA HeldValue ==
  ASSUME NEW Entries, NEW buffer,
         IsBuffer(buffer, Entries), RingShape(buffer, Entries)
  PROVE  /\ Held(buffer) = IF buffer.full
                             THEN AESDCHAR_MAX_WRITE_OPERATIONS_SUPPORTED
                             ELSE buffer.in_offs
         /\ Held(buffer) \in 0 .. AESDCHAR_MAX_WRITE_OPERATIONS_SUPPORTED
BY SlotsAssumption DEF Held, IsBuffer, RingShape, Slots

(* add_entry keeps the shape of the ring.                                  *)
LEMMA AddKeepsShape ==
  ASSUME NEW Entries, NEW buffer, NEW e \in Entries,
         IsBuffer(buffer, Entries), RingShape(buffer, Entries)
  PROVE  /\ IsBuffer(AddEntry(buffer, e), Entries)
         /\ RingShape(AddEntry(buffer, e), Entries)
<1> DEFINE new == AddEntry(buffer, e)
<1>1. /\ buffer.in_offs \in Slots
      /\ buffer.out_offs \in Slots
      /\ buffer.full \in BOOLEAN
      /\ buffer.entry \in [Slots -> Entries \cup {EmptyEntry}]
  BY DEF IsBuffer
<1>2. 1 \in 0 .. AESDCHAR_MAX_WRITE_OPERATIONS_SUPPORTED
  BY SlotsAssumption
<1>3. /\ new.entry = [buffer.entry EXCEPT ![buffer.in_offs] = e]
      /\ new.in_offs = Advance(buffer.in_offs, 1)
      /\ new.out_offs = IF buffer.full THEN Advance(buffer.out_offs, 1)
                                       ELSE buffer.out_offs
      /\ new.full <=> buffer.full \/ new.in_offs = new.out_offs
  BY DEF AddEntry, OutAfterAdd
<1>4. IsBuffer(new, Entries)
  BY <1>1, <1>2, <1>3, AdvanceValue DEF IsBuffer, AddEntry, OutAfterAdd
<1>5. RingShape(new, Entries)
  <2> HIDE DEF new
  <2>1. CASE buffer.full
    <3>1. /\ new.full
          /\ new.in_offs = new.out_offs
      BY <1>1, <1>2, <1>3, <2>1 DEF RingShape
    <3>2. \A i \in Slots : new.entry[i] \in Entries
      BY <1>1, <1>3, <2>1 DEF RingShape
    <3>. QED  BY <3>1, <3>2 DEF RingShape
  <2>2. CASE ~ buffer.full
    <3>0. Advance(buffer.in_offs, 1) =
            IF buffer.in_offs + 1 < AESDCHAR_MAX_WRITE_OPERATIONS_SUPPORTED
              THEN buffer.in_offs + 1
              ELSE buffer.in_offs + 1 - AESDCHAR_MAX_WRITE_OPERATIONS_SUPPORTED
      BY <1>1, <1>2, AdvanceValue
    <3>1. /\ new.out_offs = 0
          /\ new.in_offs = IF buffer.in_offs + 1
                                 < AESDCHAR_MAX_WRITE_OPERATIONS_SUPPORTED
                             THEN buffer.in_offs + 1 ELSE 0
          /\ new.full <=> new.in_offs = 0
      <4>1. new.out_offs = 0
        BY <1>3, <2>2 DEF RingShape
      <4>2. new.in_offs = IF buffer.in_offs + 1
                                 < AESDCHAR_MAX_WRITE_OPERATIONS_SUPPORTED
                             THEN buffer.in_offs + 1 ELSE 0
        BY <1>1, <1>3, <3>0, SlotsAssumption DEF Slots
      <4>3. new.full <=> new.in_offs = 0
        BY <1>3, <2>2, <4>1
      <4>. QED  BY <4>1, <4>2, <4>3
    <3>2. /\ new.entry[buffer.in_offs] = e
          /\ \A i \in Slots : i # buffer.in_offs => new.entry[i] = buffer.entry[i]
      BY <1>1, <1>3
    <3>3. \A i \in Slots : i <= buffer.in_offs => new.entry[i] \in Entries
      BY <1>1, <2>2, <3>2 DEF RingShape, Slots
    <3>4. \A i \in Slots : i > buffer.in_offs => new.entry[i] = EmptyEntry
      BY <1>1, <2>2, <3>2 DEF RingShape, Slots
    <3>. QED
      BY <1>1, <3>1, <3>3, <3>4, SlotsAssumption DEF RingShape, Slots
  <2>. QED  BY <2>1, <2>2
<1>. QED  BY <1>4, <1>5

(* The log a well-shaped ring stands for is a sequence of its entries.     *)
LEMMA LogIsSeq ==
  ASSUME NEW Entries, NEW buffer,
         IsBuffer(buffer, Entries), RingShape(buffer, Entries)
  PROVE  /\ LogOf(buffer) \in Seq(Entries)
         /\ Len(LogOf(buffer)) = Held(buffer)
         /\ \A k \in 1 .. Held(buffer) :
              LogOf(buffer)[k] = buffer.entry[Advance(buffer.out_offs, k-1)]
<1>1. Held(buffer) \in 0 .. AESDCHAR_MAX_WRITE_OPERATIONS_SUPPORTED
  BY HeldValue
<1>2. \A k \in 1 .. Held(buffer) :
         buffer.entry[Advance(buffer.out_offs, k-1)] \in Entries
  <2> TAKE k \in 1 .. Held(buffer)
  <2>1. /\ buffer.out_offs \in Slots
        /\ k-1 \in 0 .. AESDCHAR_MAX_WRITE_OPERATIONS_SUPPORTED
    BY <1>1, SlotsAssumption DEF IsBuffer
  <2>2. Advance(buffer.out_offs, k-1) \in Slots
    BY <2>1, AdvanceValue
  <2>3. CASE ~ buffer.full
    <3>1. buffer.out_offs = 0 /\ Held(buffer) = buffer.in_offs
      BY <2>3, HeldValue DEF RingShape
    <3>2. buffer.in_offs \in Slots
      BY DEF IsBuffer
    <3>3. Advance(0, k-1) = k-1
      BY <2>1, <3>1, <3>2, AdvanceValue, SlotsAssumption DEF Slots
    <3>. QED  BY <2>2, <2>3, <3>1, <3>2, <3>3 DEF RingShape, Slots
  <2>. QED  BY <2>2, <2>3 DEF RingShape
<1>3. LogOf(buffer) \in [1 .. Held(buffer) -> Entries]
  BY <1>2 DEF LogOf
<1>. QED  BY <1>1, <1>3, SlotsAssumption DEF LogOf

(* On the log, add_entry is BoundedAppend, and the pointer it returns is   *)
(* that of the oldest entry when the log was full, NULL otherwise.         *)
LEMMA AddIsBoundedAppend ==
  ASSUME NEW Entries, NEW buffer, NEW e \in Entries,
         IsBuffer(buffer, Entries), RingShape(buffer, Entries)
  PROVE  /\ LogOf(AddEntry(buffer, e)) =
               BoundedAppend(LogOf(buffer), e,
                             AESDCHAR_MAX_WRITE_OPERATIONS_SUPPORTED)
         /\ Overwritten(buffer) =
              IF Len(LogOf(buffer)) = AESDCHAR_MAX_WRITE_OPERATIONS_SUPPORTED
                THEN Head(LogOf(buffer)).buffptr ELSE NULL
<1> DEFINE N   == AESDCHAR_MAX_WRITE_OPERATIONS_SUPPORTED
           new == AddEntry(buffer, e)
<1>1. /\ buffer.in_offs \in Slots
      /\ buffer.out_offs \in Slots
      /\ buffer.entry \in [Slots -> Entries \cup {EmptyEntry}]
      /\ N \in Nat \ {0}
  BY SlotsAssumption DEF IsBuffer
<1>2. /\ new.entry = [buffer.entry EXCEPT ![buffer.in_offs] = e]
      /\ new.in_offs = Advance(buffer.in_offs, 1)
      /\ new.out_offs = IF buffer.full THEN Advance(buffer.out_offs, 1)
                                       ELSE buffer.out_offs
      /\ new.full <=> buffer.full \/ new.in_offs = new.out_offs
  BY DEF AddEntry, OutAfterAdd
<1>3. IsBuffer(new, Entries) /\ RingShape(new, Entries)
  BY AddKeepsShape
<1>4. /\ LogOf(buffer) \in Seq(Entries)
      /\ Len(LogOf(buffer)) = Held(buffer)
      /\ \A k \in 1 .. Held(buffer) :
           LogOf(buffer)[k] = buffer.entry[Advance(buffer.out_offs, k-1)]
  BY LogIsSeq
<1>5. /\ LogOf(new) \in Seq(Entries)
      /\ Len(LogOf(new)) = Held(new)
      /\ \A k \in 1 .. Held(new) :
           LogOf(new)[k] = new.entry[Advance(new.out_offs, k-1)]
  BY <1>3, LogIsSeq
<1> HIDE DEF new
<1>6. CASE buffer.full
  <2>1. /\ Held(buffer) = N
        /\ Held(new) = N
        /\ buffer.in_offs = buffer.out_offs
    BY <1>2, <1>3, <1>6, HeldValue DEF RingShape
  <2>2. LogOf(buffer)[1] = buffer.entry[buffer.out_offs]
    <3>1. 0 \in 0 .. N /\ 1 \in 1 .. N /\ 1-1 = 0
      BY <1>1
    <3>2. Advance(buffer.out_offs, 0) =
            IF buffer.out_offs + 0 < N THEN buffer.out_offs + 0
                                       ELSE buffer.out_offs + 0 - N
      BY <1>1, <3>1, AdvanceValue
    <3>3. Advance(buffer.out_offs, 0) = buffer.out_offs
      BY <1>1, <3>2 DEF Slots
    <3>. QED  BY <1>4, <2>1, <3>1, <3>3
  <2>3. \A k \in 1 .. N : LogOf(new)[k] =
                              IF k < N THEN LogOf(buffer)[k+1] ELSE e
    <3> TAKE k \in 1 .. N
    <3>1. /\ k \in 0 .. N /\ k-1 \in 0 .. N /\ 1 \in 0 .. N
          /\ k < N => k+1 \in 1 .. N /\ k+1-1 = k
      BY <1>1
    <3>2. /\ Advance(buffer.out_offs, k) \in Slots
          /\ Advance(buffer.out_offs, k) =
               IF buffer.out_offs + k < N THEN buffer.out_offs + k
                                          ELSE buffer.out_offs + k - N
      BY <1>1, <3>1, AdvanceValue
    <3>3. /\ new.out_offs \in Slots
          /\ new.out_offs = IF buffer.out_offs + 1 < N THEN buffer.out_offs + 1
                                                       ELSE buffer.out_offs + 1 - N
      BY <1>1, <1>2, <1>6, <3>1, AdvanceValue
    <3>4. Advance(new.out_offs, k-1) =
            IF new.out_offs + (k-1) < N THEN new.out_offs + (k-1)
                                        ELSE new.out_offs + (k-1) - N
      BY <3>1, <3>3, AdvanceValue
    <3>5. Advance(new.out_offs, k-1) =
            IF k < N THEN Advance(buffer.out_offs, k) ELSE buffer.out_offs
      BY <1>1, <3>2, <3>3, <3>4 DEF Slots
    <3>6. k < N => Advance(buffer.out_offs, k) # buffer.out_offs
      BY <1>1, <3>2 DEF Slots
    <3>7. LogOf(new)[k] = new.entry[Advance(new.out_offs, k-1)]
      BY <1>5, <2>1
    <3>8. CASE k < N
      BY <1>1, <1>2, <1>4, <2>1, <3>1, <3>2, <3>5, <3>6, <3>7, <3>8
    <3>9. CASE ~ k < N
      BY <1>1, <1>2, <2>1, <3>5, <3>7, <3>9
    <3>. QED  BY <3>8, <3>9
  <2>4. LogOf(new) = Append(Tail(LogOf(buffer)), e)
    BY <1>1, <1>4, <1>5, <2>1, <2>3
  <2>5. Len(LogOf(buffer)) = N /\ Head(LogOf(buffer)) = LogOf(buffer)[1]
    BY <1>1, <1>4, <2>1
  <2>. QED
    BY <1>6, <2>1, <2>2, <2>4, <2>5 DEF BoundedAppend, Overwritten, new
<1>7. CASE ~ buffer.full
  <2>1. /\ Held(buffer) = buffer.in_offs
        /\ buffer.out_offs = 0
        /\ new.out_offs = 0
    BY <1>2, <1>7, HeldValue DEF RingShape
  <2>2. Held(new) = buffer.in_offs + 1
    <3>1. 1 \in 0 .. N
      BY <1>1
    <3>2. new.in_offs = IF buffer.in_offs + 1 < N THEN buffer.in_offs + 1
                                                  ELSE buffer.in_offs + 1 - N
      BY <1>1, <1>2, <3>1, AdvanceValue
    <3>3. Held(new) = IF new.full THEN N ELSE new.in_offs
      BY <1>3, HeldValue
    <3>4. new.full <=> new.in_offs = 0
      BY <1>2, <1>7, <2>1
    <3>. QED  BY <1>1, <3>2, <3>3, <3>4 DEF Slots
  <2>3. \A k \in 1 .. Held(new) :
          LogOf(new)[k] = IF k <= buffer.in_offs THEN LogOf(buffer)[k] ELSE e
    <3> TAKE k \in 1 .. Held(new)
    <3>1. k-1 \in 0 .. N /\ k-1 \in Slots /\ 0 \in Slots /\ k-1 <= buffer.in_offs
      BY <1>1, <2>2 DEF Slots
    <3>2. Advance(0, k-1) = k-1
      <4>1. Advance(0, k-1) = IF 0 + (k-1) < N THEN 0 + (k-1)
                                               ELSE 0 + (k-1) - N
        BY <3>1, AdvanceValue
      <4>. QED  BY <1>1, <3>1, <4>1 DEF Slots
    <3>3. LogOf(new)[k] = new.entry[k-1]
      BY <1>5, <2>1, <3>2
    <3>4. CASE k <= buffer.in_offs
      <4>1. k \in 1 .. Held(buffer) /\ k-1 # buffer.in_offs
        BY <1>1, <2>1, <2>2, <3>4 DEF Slots
      <4>2. LogOf(buffer)[k] = buffer.entry[k-1]
        BY <1>4, <2>1, <3>2, <4>1
      <4>. QED  BY <1>1, <1>2, <3>1, <3>3, <3>4, <4>1, <4>2
    <3>5. CASE ~ k <= buffer.in_offs
      <4>1. k-1 = buffer.in_offs
        BY <1>1, <3>1, <3>5 DEF Slots
      <4>. QED  BY <1>1, <1>2, <3>3, <3>5, <4>1
    <3>. QED  BY <3>4, <3>5
  <2>4. LogOf(new) = Append(LogOf(buffer), e)
    <3>1. buffer.in_offs \in Nat
      BY <1>1 DEF Slots
    <3>2. /\ LogOf(new) \in Seq(Entries)
          /\ Append(LogOf(buffer), e) \in Seq(Entries)
          /\ Len(LogOf(new)) = Len(Append(LogOf(buffer), e))
      BY <1>4, <1>5, <2>1, <2>2, <3>1
    <3>3. \A k \in 1 .. Len(LogOf(new)) :
             LogOf(new)[k] = Append(LogOf(buffer), e)[k]
      BY <1>4, <1>5, <2>1, <2>2, <2>3, <3>1
    <3>. HIDE DEF new
    <3>. QED  BY <3>2, <3>3, SeqEqual
  <2>5. Len(LogOf(buffer)) # N
    BY <1>1, <1>4, <2>1 DEF Slots
  <2>. QED
    BY <1>7, <2>4, <2>5 DEF BoundedAppend, Overwritten, new
<1>. QED  BY <1>6, <1>7

-----------------------------------------------------------------------------
(* Induction and sequences.                                                *)

(* Induction on the natural numbers, about a set instead of a predicate.   *)
LEMMA NatSetInduction ==
  ASSUME NEW S, 0 \in S, \A n \in Nat : n \in S => n + 1 \in S
  PROVE  Nat \subseteq S
<1> DEFINE R == {ss \in Nat \X Nat : ss[1] < ss[2]}
<1>1. IsWellFoundedOn(R, Nat)
  BY NatLessThanWellFounded DEF OpToRel
<1> SUFFICES ASSUME Nat \ S # {}
             PROVE  FALSE
  OBVIOUS
<1>2. PICK n \in Nat \ S : \A m \in Nat \ S : ~ (<<m, n>> \in R)
  <2> HIDE DEF R
  <2>. QED  BY <1>1, WFMin
<1>3. n \in Nat /\ n # 0 /\ n - 1 \in Nat /\ n - 1 < n
  OBVIOUS
<1>4. <<n - 1, n>> \in R
  BY <1>3
<1>5. n - 1 \in S
  <2> HIDE DEF R
  <2>. QED  BY <1>2, <1>3, <1>4
<1>6. n - 1 + 1 = n
  BY <1>3
<1>7. n \in S
  BY <1>3, <1>5, <1>6
<1>. QED  BY <1>7

(* A set of natural numbers has a least element.                           *)
LEMMA LeastElement ==
  ASSUME NEW S \in SUBSET Nat, S # {}
  PROVE  \E n \in S : \A m \in S : n <= m
<1> DEFINE R == {ss \in Nat \X Nat : ss[1] < ss[2]}
<1>1. IsWellFoundedOn(R, Nat)
  BY NatLessThanWellFounded DEF OpToRel
<1>2. PICK n \in S : \A m \in S : ~ (<<m, n>> \in R)
  <2> HIDE DEF R
  <2>. QED  BY <1>1, WFMin
<1>3. ASSUME NEW m \in S
      PROVE  n <= m
  <2>1. m \in Nat /\ n \in Nat
    OBVIOUS
  <2>2. ~ m < n
    BY <1>2, <2>1
  <2>. QED  BY <2>1, <2>2
<1>. QED  BY <1>3

(* A sequence has a length.                                                *)
LEMMA LenNat ==
  ASSUME NEW S, NEW s \in Seq(S)
  PROVE  Len(s) \in Nat
OBVIOUS

(* What never falls from one step to the next never falls.                 *)
LEMMA StepwiseGrowth ==
  ASSUME NEW n \in Nat, NEW at \in [0 .. n -> Nat],
         \A i \in 1 .. n : at[i-1] <= at[i]
  PROVE  \A i \in 0 .. n : \A k \in i .. n : at[i] <= at[k]
<1> TAKE i \in 0 .. n
<1> DEFINE S == {m \in Nat : i + m <= n => at[i] <= at[i + m]}
<1>1. 0 \in S
  <2>1. i + 0 = i /\ at[i] \in Nat
    OBVIOUS
  <2>. QED  BY <2>1
<1>2. ASSUME NEW m \in Nat, m \in S
      PROVE  m + 1 \in S
  <2>1. i + (m + 1) <= n => at[i] <= at[i + (m + 1)]
    <3> SUFFICES ASSUME i + (m + 1) <= n
                 PROVE  at[i] <= at[i + (m + 1)]
      OBVIOUS
    <3>1. /\ i + m \in 0 .. n /\ i + (m + 1) \in 1 .. n
          /\ i + (m + 1) \in 0 .. n /\ i + (m + 1) - 1 = i + m
      OBVIOUS
    <3>2. at[i + m] <= at[i + (m + 1)]
      BY <3>1
    <3>3. at[i] <= at[i + m]
      BY <1>2, <3>1
    <3>4. at[i] \in Nat /\ at[i + m] \in Nat /\ at[i + (m + 1)] \in Nat
      BY <3>1
    <3>. QED  BY <3>2, <3>3, <3>4
  <2>2. m + 1 \in Nat
    OBVIOUS
  <2>. QED  BY <2>1, <2>2
<1>3. Nat \subseteq S
  <2> HIDE DEF S
  <2>. QED  BY <1>1, <1>2, NatSetInduction
<1>4. ASSUME NEW k \in i .. n
      PROVE  at[i] <= at[k]
  <2>1. k - i \in S /\ i + (k - i) = k /\ k <= n
    <3>1. k - i \in Nat /\ i + (k - i) = k /\ k <= n
      OBVIOUS
    <3>. QED  BY <1>3, <3>1
  <2>. QED  BY <2>1
<1>. QED  BY <1>4

(* A concatenation holds both its parts.                                   *)
LEMMA ConcatParts ==
  ASSUME NEW S, NEW a \in Seq(S), NEW b \in Seq(S)
  PROVE  /\ a \o b \in Seq(S)
         /\ Len(a \o b) = Len(a) + Len(b)
         /\ \A i \in 1 .. Len(a) : (a \o b)[i] = a[i]
         /\ \A j \in 1 .. Len(b) : (a \o b)[Len(a) + j] = b[j]
<1>1. Len(a) \in Nat /\ Len(b) \in Nat
  OBVIOUS
<1>2. a \o b \in Seq(S) /\ Len(a \o b) = Len(a) + Len(b)
  OBVIOUS
<1>3. \A i \in 1 .. Len(a) : (a \o b)[i] = a[i]
  BY <1>1
<1>4. ASSUME NEW j \in 1 .. Len(b)
      PROVE  (a \o b)[Len(a) + j] = b[j]
  BY <1>1
<1>. QED  BY <1>2, <1>3, <1>4

(* FlattenSeq puts the parts end to end one by one.                        *)
LEMMA FlattenIs ==
  ASSUME NEW ss, Len(ss) \in Nat, Len(ss) # 0
  PROVE  \E f : /\ \A i \in 1 .. Len(ss) :
                       f[i] = IF i = 1 THEN ss[i] ELSE f[i-1] \o ss[i]
                /\ FlattenSeq(ss) = f[Len(ss)]
<1> DEFINE S == {m \in Nat :
                   \E f : f = [i \in 1 .. m |->
                                 IF i = 1 THEN ss[i] ELSE f[i-1] \o ss[i]]}
<1>1. 0 \in S
  <2> DEFINE e == [i \in 1 .. 0 |-> 0]
  <2>1. e = [i \in 1 .. 0 |-> IF i = 1 THEN ss[i] ELSE e[i-1] \o ss[i]]
    OBVIOUS
  <2>. QED  BY <2>1
<1>2. ASSUME NEW m \in Nat, m \in S
      PROVE  m + 1 \in S
  <2>1. PICK f : f = [i \in 1 .. m |->
                        IF i = 1 THEN ss[i] ELSE f[i-1] \o ss[i]]
    BY <1>2
  <2> DEFINE t == [i \in 1 .. m + 1 |->
                     IF i <= m THEN f[i] ELSE
                     IF i = 1 THEN ss[i] ELSE f[i-1] \o ss[i]]
  <2>2. ASSUME NEW i \in 1 .. m + 1
        PROVE  t[i] = IF i = 1 THEN ss[i] ELSE t[i-1] \o ss[i]
    <3>1. t[i] = IF i = 1 THEN ss[i] ELSE f[i-1] \o ss[i]
      <4>1. i <= m => i \in 1 .. m
        OBVIOUS
      <4>2. \A k \in 1 .. m : f[k] = IF k = 1 THEN ss[k] ELSE f[k-1] \o ss[k]
        BY <2>1, Zenon
      <4>. QED  BY <4>1, <4>2
    <3>2. i # 1 => t[i-1] = f[i-1]
      OBVIOUS
    <3>. QED  BY <3>1, <3>2
  <2>3. t = [i \in 1 .. m + 1 |-> IF i = 1 THEN ss[i] ELSE t[i-1] \o ss[i]]
    <3>1. t = [i \in 1 .. m + 1 |-> t[i]]
      OBVIOUS
    <3> HIDE DEF t
    <3>. QED  BY <2>2, <3>1
  <2> HIDE DEF t
  <2>4. m + 1 \in Nat
    OBVIOUS
  <2>. QED  BY <2>3, <2>4
<1>3. Nat \subseteq S
  <2> HIDE DEF S
  <2>. QED  BY <1>1, <1>2, NatSetInduction
<1>4. Len(ss) \in S
  BY <1>3
<1>5. \E f : f = [i \in 1 .. Len(ss) |->
                    IF i = 1 THEN ss[i] ELSE f[i-1] \o ss[i]]
  BY <1>4
<1> DEFINE g == CHOOSE f : f = [i \in 1 .. Len(ss) |->
                    IF i = 1 THEN ss[i] ELSE f[i-1] \o ss[i]]
<1>6. g = [i \in 1 .. Len(ss) |-> IF i = 1 THEN ss[i] ELSE g[i-1] \o ss[i]]
  BY <1>5
<1>7. FlattenSeq(ss) = g[Len(ss)]
  BY DEF FlattenSeq
<1>. QED
  <2> HIDE DEF g
  <2>1. \A i \in 1 .. Len(ss) : g[i] = IF i = 1 THEN ss[i] ELSE g[i-1] \o ss[i]
    BY <1>6, Zenon
  <2>. QED  BY <1>7, <2>1

(* at is where the parts of ss end when they are put end to end, and f the *)
(* parts put together one by one.                                          *)
EndsAt(ss, at) ==
  /\ at \in [0 .. Len(ss) -> Nat]
  /\ at[0] = 0
  /\ \A i \in 1 .. Len(ss) : at[i] = at[i-1] + Len(ss[i])

Joined(ss, f) ==
  \A i \in 1 .. Len(ss) : f[i] = IF i = 1 THEN ss[i] ELSE f[i-1] \o ss[i]

(* s is the first m parts of ss, each in its place.                        *)
InPlace(ss, at, T, m, s) ==
  /\ s \in Seq(T)
  /\ Len(s) = at[m]
  /\ \A i \in 1 .. m : \A j \in 1 .. Len(ss[i]) : s[at[i-1] + j] = ss[i][j]

(* Parts end in their order.                                               *)
LEMMA EndsGrow ==
  ASSUME NEW T, NEW ss \in Seq(Seq(T)), NEW at, EndsAt(ss, at)
  PROVE  \A i \in 0 .. Len(ss) : \A k \in i .. Len(ss) : at[i] <= at[k]
<1> DEFINE n == Len(ss)
<1>1. n \in Nat /\ at \in [0 .. n -> Nat]
  BY DEF EndsAt
<1>2. ASSUME NEW i \in 1 .. n
      PROVE  at[i-1] <= at[i]
  <2>1. ss[i] \in Seq(T) /\ at[i] = at[i-1] + Len(ss[i])
    BY DEF EndsAt
  <2>2. Len(ss[i]) \in Nat
    BY <2>1, LenNat
  <2>3. i - 1 \in 0 .. n
    BY <1>1
  <2>4. at[i-1] \in Nat
    BY <1>1, <2>3
  <2>. QED  BY <2>1, <2>2, <2>4
<1> HIDE DEF n
<1>3. \A i \in 0 .. n : \A k \in i .. n : at[i] <= at[k]
  BY <1>1, <1>2, StepwiseGrowth
<1>. QED  BY <1>3 DEF n

(* Adding the next part leaves the others in place.                        *)
LEMMA NextInPlace ==
  ASSUME NEW T, NEW ss \in Seq(Seq(T)), NEW at, EndsAt(ss, at),
         NEW m \in Nat, m + 1 <= Len(ss), NEW s, InPlace(ss, at, T, m, s)
  PROVE  InPlace(ss, at, T, m + 1, s \o ss[m + 1])
<1> DEFINE new == ss[m + 1]
           r   == s \o new
<1>1. Len(ss) \in Nat /\ m + 1 \in 1 .. Len(ss) /\ m \in 0 .. Len(ss) /\ m + 1 - 1 = m
  OBVIOUS
<1>2. new \in Seq(T) /\ s \in Seq(T) /\ Len(s) = at[m]
  BY <1>1 DEF InPlace
<1>3. at[m + 1] = at[m] + Len(new) /\ at[m] \in Nat
  BY <1>1 DEF EndsAt
<1> HIDE DEF new
<1>4. /\ r \in Seq(T)
      /\ Len(r) = Len(s) + Len(new)
      /\ \A i \in 1 .. Len(s) : r[i] = s[i]
      /\ \A j \in 1 .. Len(new) : r[Len(s) + j] = new[j]
  <2>1. \A a, b \in Seq(T) :
           /\ a \o b \in Seq(T)
           /\ Len(a \o b) = Len(a) + Len(b)
           /\ \A i \in 1 .. Len(a) : (a \o b)[i] = a[i]
           /\ \A j \in 1 .. Len(b) : (a \o b)[Len(a) + j] = b[j]
    BY ConcatParts
  <2>. QED  BY <1>2, <2>1
<1> HIDE DEF r
<1>5. ASSUME NEW i \in 1 .. m + 1, NEW j \in 1 .. Len(ss[i])
      PROVE  r[at[i-1] + j] = ss[i][j]
  <2>1. CASE i = m + 1
    <3>1. i - 1 = m /\ ss[i] = new
      BY <1>1, <2>1 DEF new
    <3>. QED  BY <1>2, <1>4, <3>1
  <2>2. CASE i # m + 1
    <3>1. /\ i \in 1 .. m /\ i \in 1 .. Len(ss) /\ i \in 0 .. Len(ss)
          /\ i - 1 \in 0 .. Len(ss) /\ m \in i .. Len(ss)
      BY <1>1, <2>2
    <3>2. s[at[i-1] + j] = ss[i][j]
      BY <3>1 DEF InPlace
    <3>3. ss[i] \in Seq(T) /\ at[i] = at[i-1] + Len(ss[i])
      BY <3>1 DEF EndsAt
    <3>4. at[i] <= at[m]
      BY <1>1, <3>1, EndsGrow
    <3>5. at[i-1] \in Nat /\ at[i] \in Nat
      BY <3>1 DEF EndsAt
    <3>6. Len(ss[i]) \in Nat
      BY <3>3, LenNat
    <3>7. at[i-1] + j \in 1 .. Len(s)
      <4> DEFINE len == Len(ss[i])
                 start == at[i-1]
      <4>1. /\ j \in 1 .. len /\ len \in Nat /\ at[i] = start + len
            /\ Len(s) = at[m] /\ at[m] \in Nat
            /\ start \in Nat /\ at[i] \in Nat
        BY <1>2, <1>3, <3>3, <3>5, <3>6
      <4> HIDE DEF len, start
      <4>2. start + j \in 1 .. at[m]
        BY <3>4, <4>1
      <4>. QED  BY <4>1, <4>2 DEF start
    <3>. QED  BY <1>4, <3>2, <3>7
  <2>. QED  BY <2>1, <2>2
<1>. QED  BY <1>2, <1>3, <1>4, <1>5 DEF InPlace, r, new

(* FlattenSeq puts every part in its place.                                *)
LEMMA FlattenPositions ==
  ASSUME NEW T, NEW ss \in Seq(Seq(T)), NEW at, EndsAt(ss, at)
  PROVE  InPlace(ss, at, T, Len(ss), FlattenSeq(ss))
<1> DEFINE n == Len(ss)
<1>0. n \in Nat
  OBVIOUS
<1>1. CASE n = 0
  <2>1. FlattenSeq(ss) = ss /\ ss = << >> /\ ss \in Seq(T)
    BY <1>1 DEF FlattenSeq
  <2>. QED  BY <1>1, <2>1 DEF InPlace, EndsAt
<1>2. CASE n # 0
  <2>1. PICK f : Joined(ss, f) /\ FlattenSeq(ss) = f[n]
    BY <1>0, <1>2, FlattenIs DEF Joined
  <2> DEFINE S == {m \in Nat : m + 1 <= n => InPlace(ss, at, T, m + 1, f[m + 1])}
  <2>2. 0 \in S
    <3>1. 1 \in 1 .. n /\ 0 + 1 = 1 /\ 1 - 1 = 0
      BY <1>0, <1>2
    <3>2. f[1] = ss[1] /\ at[1] = at[0] + Len(ss[1]) /\ at[0] = 0
      BY <2>1, <3>1 DEF Joined, EndsAt
    <3>3. ss[1] \in Seq(T) /\ Len(ss[1]) \in Nat
      <4>1. ss[1] \in Seq(T)
        BY <3>1
      <4>. QED  BY <4>1
    <3>4. \A i \in 1 .. 1 : \A j \in 1 .. Len(ss[i]) : ss[1][at[i-1] + j] = ss[i][j]
      <4>1. \A i \in 1 .. 1 : i = 1
        OBVIOUS
      <4>2. \A j \in 1 .. Len(ss[1]) : at[1-1] + j = j
        BY <3>1, <3>2
      <4>. QED  BY <4>1, <4>2
    <3>5. Len(ss[1]) = at[1]
      BY <3>2, <3>3
    <3>6. InPlace(ss, at, T, 1, f[1])
      BY <3>2, <3>3, <3>4, <3>5 DEF InPlace
    <3>. QED  BY <3>1, <3>6
  <2>3. ASSUME NEW m \in Nat, m \in S
        PROVE  m + 1 \in S
    <3>1. m + 1 \in Nat
      OBVIOUS
    <3>2. ASSUME m + 1 + 1 <= n
          PROVE  InPlace(ss, at, T, m + 1 + 1, f[m + 1 + 1])
      <4>1. /\ m + 1 <= n /\ m + 1 + 1 \in 1 .. n /\ m + 1 + 1 # 1
            /\ m + 1 + 1 - 1 = m + 1
        BY <1>0, <3>2
      <4>2. InPlace(ss, at, T, m + 1, f[m + 1])
        BY <2>3, <4>1
      <4>3. f[m + 1 + 1] = f[m + 1] \o ss[m + 1 + 1]
        <5> DEFINE k == m + 1 + 1
        <5>1. k \in 1 .. n /\ k # 1 /\ k - 1 = m + 1
          BY <4>1
        <5> HIDE DEF k
        <5>2. f[k] = IF k = 1 THEN ss[k] ELSE f[k-1] \o ss[k]
          BY <2>1, <5>1, Zenon DEF Joined
        <5>3. f[k] = f[m + 1] \o ss[k]
          BY <5>1, <5>2, Zenon
        <5>. QED  BY <5>3 DEF k
      <4>. QED  BY <3>1, <3>2, <4>2, <4>3, NextInPlace
    <3>. QED  BY <3>1, <3>2
  <2>4. n - 1 \in S /\ n - 1 + 1 = n
    <3>1. Nat \subseteq S
      <4> HIDE DEF S
      <4>. QED  BY <2>2, <2>3, NatSetInduction
    <3> HIDE DEF S
    <3>2. n - 1 \in Nat /\ n - 1 + 1 = n
      BY <1>0, <1>2
    <3>. QED  BY <3>1, <3>2
  <2>5. InPlace(ss, at, T, n, f[n])
    BY <1>0, <2>4
  <2>. QED  BY <2>1, <2>5
<1>. QED  BY <1>1, <1>2

-----------------------------------------------------------------------------
(* aesd_circular_buffer_find_entry_offset_for_fpos.                        *)

(* The sums find_entry_offset_for_fpos walks along are what their          *)
(* definition says: a function with that recursion exists.                 *)
LEMMA PassedIs ==
  ASSUME NEW buffer
  PROVE  Passed(buffer) =
           [k \in 0 .. AESDCHAR_MAX_WRITE_OPERATIONS_SUPPORTED |->
              IF k = 0 THEN 0
              ELSE Passed(buffer)[k-1]
                     + buffer.entry[Advance(buffer.out_offs, k-1)].size]
<1> DEFINE size(k) == buffer.entry[Advance(buffer.out_offs, k)].size
           S == {m \in Nat :
                   \E s : s = [k \in 0 .. m |->
                                 IF k = 0 THEN 0 ELSE s[k-1] + size(k-1)]}
<1> HIDE DEF size
<1>1. 0 \in S
  <2>1. [k \in 0 .. 0 |-> 0] =
          [k \in 0 .. 0 |->
             IF k = 0 THEN 0 ELSE [j \in 0 .. 0 |-> 0][k-1] + size(k-1)]
    OBVIOUS
  <2>. QED  BY <2>1
<1>2. ASSUME NEW m \in Nat, m \in S
      PROVE  m + 1 \in S
  <2>1. PICK s : s = [k \in 0 .. m |-> IF k = 0 THEN 0 ELSE s[k-1] + size(k-1)]
    BY <1>2
  <2> DEFINE t == [k \in 0 .. m + 1 |-> IF k <= m THEN s[k] ELSE s[m] + size(m)]
  <2>2. ASSUME NEW k \in 0 .. m + 1
        PROVE  t[k] = IF k = 0 THEN 0 ELSE t[k-1] + size(k-1)
    <3>1. CASE k = 0
      BY <2>1, <3>1
    <3>2. CASE k # 0 /\ k <= m
      <4>1. t[k] = s[k] /\ t[k-1] = s[k-1]
        BY <3>2
      <4>2. s[k] = s[k-1] + size(k-1)
        BY <2>1, <3>2
      <4>. QED  BY <3>2, <4>1, <4>2
    <3>3. CASE k = m + 1
      <4>1. t[k] = s[m] + size(m) /\ t[k-1] = s[m] /\ k - 1 = m
        BY <3>3
      <4>. QED  BY <3>3, <4>1
    <3>. QED  BY <3>1, <3>2, <3>3
  <2>3. t = [k \in 0 .. m + 1 |-> IF k = 0 THEN 0 ELSE t[k-1] + size(k-1)]
    <3>1. t = [k \in 0 .. m + 1 |-> t[k]]
      OBVIOUS
    <3> HIDE DEF t
    <3>. QED  BY <2>2, <3>1
  <2> HIDE DEF t
  <2>4. m + 1 \in Nat
    OBVIOUS
  <2>. QED  BY <2>3, <2>4
<1>3. Nat \subseteq S
  <2> HIDE DEF S
  <2>. QED  BY <1>1, <1>2, NatSetInduction
<1>4. AESDCHAR_MAX_WRITE_OPERATIONS_SUPPORTED \in Nat
  BY SlotsAssumption
<1>5. \E s : s = [k \in 0 .. AESDCHAR_MAX_WRITE_OPERATIONS_SUPPORTED |->
                    IF k = 0 THEN 0 ELSE s[k-1] + size(k-1)]
  BY <1>3, <1>4
<1>. QED  BY <1>5 DEF Passed, SizesFrom, size

(* How many slots there are.                                               *)
MaxOps == AESDCHAR_MAX_WRITE_OPERATIONS_SUPPORTED

(* The sums are natural numbers, and grow by the size of each slot.        *)
LEMMA PassedValue ==
  ASSUME NEW buffer, buffer.out_offs \in Slots,
         \A i \in Slots : buffer.entry[i].size \in Nat
  PROVE  /\ Passed(buffer) \in [0 .. MaxOps -> Nat]
         /\ Passed(buffer)[0] = 0
         /\ \A k \in Slots :
              Passed(buffer)[k+1] = Passed(buffer)[k]
                + buffer.entry[Advance(buffer.out_offs, k)].size
<1> DEFINE passed  == Passed(buffer)
           size(k) == buffer.entry[Advance(buffer.out_offs, k)].size
<1>1. MaxOps \in Nat \ {0}
  BY SlotsAssumption DEF MaxOps
<1>2. passed = [k \in 0 .. MaxOps |-> IF k = 0 THEN 0 ELSE passed[k-1] + size(k-1)]
  BY PassedIs DEF MaxOps
<1>3. \A k \in Slots : size(k) \in Nat
  <2> TAKE k \in Slots
  <2>1. k \in 0 .. MaxOps
    BY <1>1 DEF Slots, MaxOps
  <2>2. Advance(buffer.out_offs, k) \in Slots
    BY <2>1, AdvanceValue DEF MaxOps
  <2>. QED  BY <2>2
<1> HIDE DEF passed, size
<1>4. \A k \in 0 .. MaxOps : passed[k] = IF k = 0 THEN 0 ELSE passed[k-1] + size(k-1)
  BY <1>2, Zenon
<1>5. passed[0] = 0
  BY <1>1, <1>4
<1>6. ASSUME NEW k \in Slots
      PROVE  passed[k+1] = passed[k] + size(k)
  <2> DEFINE j == k + 1
  <2>1. j \in 0 .. MaxOps /\ j # 0 /\ j - 1 = k
    BY <1>1 DEF Slots, MaxOps
  <2> HIDE DEF j
  <2>2. passed[j] = passed[j-1] + size(j-1)
    BY <1>4, <2>1, Zenon
  <2>. QED  BY <2>1, <2>2, Zenon DEF j
<1>7. \A k \in 0 .. MaxOps : passed[k] \in Nat
  <2> DEFINE S == {m \in Nat : m <= MaxOps => passed[m] \in Nat}
  <2>1. 0 \in S
    BY <1>5
  <2>2. ASSUME NEW m \in Nat, m \in S
        PROVE  m + 1 \in S
    <3>1. m + 1 <= MaxOps => m \in Slots /\ passed[m] \in Nat
      BY <1>1, <2>2 DEF Slots, MaxOps
    <3>2. m + 1 <= MaxOps => passed[m + 1] \in Nat
      BY <1>3, <1>6, <3>1
    <3>. QED  BY <3>2
  <2>3. Nat \subseteq S
    <3> HIDE DEF S
    <3>. QED  BY <2>1, <2>2, NatSetInduction
  <2>. QED  BY <1>1, <2>3
<1>8. passed = [k \in 0 .. MaxOps |-> passed[k]]
  <2>1. DOMAIN passed = 0 .. MaxOps
    BY <1>2, Zenon
  <2>2. \E f : passed = [k \in 0 .. MaxOps |-> f[k]]
    <3> DEFINE f == [k \in 0 .. MaxOps |-> IF k = 0 THEN 0 ELSE passed[k-1] + size(k-1)]
    <3>1. f = [k \in 0 .. MaxOps |-> f[k]]
      OBVIOUS
    <3>2. passed = f
      BY <1>2
    <3> HIDE DEF f
    <3>. QED  BY <3>1, <3>2
  <2>. QED  BY <2>2
<1>. QED  BY <1>5, <1>6, <1>7, <1>8 DEF passed, size

(* find_entry_offset_for_fpos stops at the one slot the position falls     *)
(* inside, if any, and there is one when the sizes add up to more.         *)
LEMMA FindStops ==
  ASSUME NEW buffer, buffer.out_offs \in Slots,
         \A i \in Slots : buffer.entry[i].size \in Nat,
         NEW pos \in Nat
  PROVE  LET passed == Passed(buffer)
             found  == FindEntryOffset(buffer, pos)
         IN  /\ pos < passed[MaxOps] => found # NULL
             /\ found # NULL =>
                  \E k \in Slots :
                    /\ passed[k] <= pos
                    /\ pos < passed[k+1]
                    /\ found = [slot   |-> Advance(buffer.out_offs, k),
                                offset |-> pos - passed[k]]
<1> DEFINE passed    == Passed(buffer)
           size(k)   == buffer.entry[Advance(buffer.out_offs, k)].size
           Inside(k) == pos - passed[k] < size(k)
           First(k)  == Inside(k) /\ \A j \in 0 .. k-1 : ~ Inside(j)
           found     == FindEntryOffset(buffer, pos)
           Is(k)     == [slot   |-> Advance(buffer.out_offs, k),
                         offset |-> pos - passed[k]]
<1>1. MaxOps \in Nat \ {0} /\ Slots = 0 .. MaxOps - 1
  BY SlotsAssumption DEF MaxOps, Slots
<1>2. /\ passed \in [0 .. MaxOps -> Nat]
      /\ passed[0] = 0
      /\ \A k \in Slots : passed[k+1] = passed[k] + size(k)
  BY PassedValue
<1>3. found = IF \E k \in Slots : Inside(k)
                THEN Is(CHOOSE k \in Slots : First(k)) ELSE NULL
  BY DEF FindEntryOffset
<1>4. \A k \in Slots : size(k) \in Nat /\ Advance(buffer.out_offs, k) \in Slots
  <2> TAKE k \in Slots
  <2>1. k \in 0 .. MaxOps
    BY <1>1
  <2>2. Advance(buffer.out_offs, k) \in Slots
    BY <2>1, AdvanceValue DEF MaxOps
  <2>. QED  BY <2>2
<1> HIDE DEF passed, size, found
<1>5. \A k \in Slots : Inside(k) <=> pos < passed[k+1]
  <2> TAKE k \in Slots
  <2>1. passed[k] \in Nat /\ size(k) \in Nat /\ passed[k+1] = passed[k] + size(k)
    <3>1. k \in 0 .. MaxOps
      BY <1>1
    <3>2. passed[k] \in Nat
      BY <1>2, <3>1
    <3>. QED  BY <1>2, <1>4, <3>2
  <2>. QED  BY <2>1
<1>6. ASSUME NEW k \in Slots, Inside(k)
      PROVE  \E j \in Slots : First(j)
  <2> DEFINE S == {j \in Slots : Inside(j)}
  <2>1. S \in SUBSET Nat /\ S # {}
    BY <1>1, <1>6
  <2> HIDE DEF S
  <2>2. PICK j \in S : \A m \in S : j <= m
    BY <2>1, LeastElement
  <2>3. j \in Slots /\ Inside(j)
    BY DEF S
  <2>4. \A i \in 0 .. j - 1 : i \in Slots /\ ~ j <= i
    BY <1>1, <2>3
  <2>5. \A i \in 0 .. j - 1 : ~ Inside(i)
    <3> HIDE DEF Inside
    <3>. QED  BY <2>2, <2>4 DEF S
  <2>. QED  BY <2>3, <2>5
<1>7. ASSUME NEW k \in Slots, First(k)
      PROVE  passed[k] <= pos /\ pos < passed[k+1]
  <2>1. pos < passed[k+1]
    BY <1>5, <1>7
  <2>2. CASE k = 0
    BY <1>2, <2>1, <2>2
  <2>3. CASE k # 0
    <3>1. k - 1 \in Slots /\ k - 1 \in 0 .. k - 1 /\ k - 1 + 1 = k /\ k \in 0 .. MaxOps
      BY <1>1, <2>3
    <3>2. ~ Inside(k - 1)
      <4> HIDE DEF Inside
      <4>. QED  BY <1>7, <3>1
    <3>3. ~ pos < passed[k - 1 + 1]
      BY <1>5, <3>1, <3>2
    <3>4. passed[k] \in Nat
      BY <1>2, <3>1
    <3>. QED  BY <2>1, <3>1, <3>3, <3>4
  <2>. QED  BY <2>2, <2>3
<1>8. ASSUME NEW k \in Slots, Inside(k)
      PROVE  /\ found # NULL
             /\ \E j \in Slots : /\ passed[j] <= pos
                                 /\ pos < passed[j+1]
                                 /\ found = Is(j)
  <2> DEFINE j == CHOOSE j \in Slots : First(j)
  <2>1. j \in Slots /\ First(j)
    <3> HIDE DEF First
    <3>. QED  BY <1>6, <1>8
  <2>2. found = Is(j)
    BY <1>3, <1>8
  <2> HIDE DEF j
  <2>3. passed[j] <= pos /\ pos < passed[j+1]
    <3> HIDE DEF First
    <3>. QED  BY <1>7, <2>1
  <2>4. Advance(buffer.out_offs, j) \in Slots /\ pos - passed[j] \in Nat
    <3>1. passed[j] \in Nat
      BY <1>1, <1>2, <2>1
    <3>. QED  BY <1>4, <2>1, <2>3, <3>1
  <2>5. found # NULL
    BY <2>2, <2>4, NullAssumption
  <2>. QED  BY <2>1, <2>2, <2>3, <2>5
<1>9. pos < passed[MaxOps] => \E k \in Slots : Inside(k)
  <2>1. MaxOps - 1 \in Slots /\ MaxOps - 1 + 1 = MaxOps
    BY <1>1
  <2>. QED  BY <1>5, <2>1
<1>10. found # NULL => \E k \in Slots : Inside(k)
  BY <1>3
<1>. QED
  <2> HIDE DEF Inside, First
  <2>. QED  BY <1>8, <1>9, <1>10 DEF passed, found

(* A ring whose slots hold no less adds up to no less, and to the same as  *)
(* far as the slots passed hold the same.                                  *)
LEMMA PassedCompare ==
  ASSUME NEW one, one.out_offs \in Slots,
         \A i \in Slots : one.entry[i].size \in Nat,
         NEW two, two.out_offs = one.out_offs,
         \A i \in Slots : two.entry[i].size \in Nat,
         \A i \in Slots : one.entry[i].size <= two.entry[i].size,
         NEW m \in 0 .. MaxOps,
         \A k \in Slots : k < m =>
           one.entry[Advance(one.out_offs, k)].size
             = two.entry[Advance(one.out_offs, k)].size
  PROVE  \A k \in 0 .. MaxOps :
           /\ Passed(one)[k] <= Passed(two)[k]
           /\ k <= m => Passed(one)[k] = Passed(two)[k]
<1> DEFINE a == Passed(one)
           b == Passed(two)
           sizea(k) == one.entry[Advance(one.out_offs, k)].size
           sizeb(k) == two.entry[Advance(one.out_offs, k)].size
           S == {k \in Nat : k <= MaxOps =>
                   /\ a[k] <= b[k]
                   /\ k <= m => a[k] = b[k]}
<1>1. MaxOps \in Nat \ {0} /\ Slots = 0 .. MaxOps - 1 /\ m \in Nat
  BY SlotsAssumption DEF MaxOps, Slots
<1>2. /\ a \in [0 .. MaxOps -> Nat] /\ a[0] = 0
      /\ \A k \in Slots : a[k+1] = a[k] + sizea(k)
  BY PassedValue
<1>3. /\ b \in [0 .. MaxOps -> Nat] /\ b[0] = 0
      /\ \A k \in Slots : b[k+1] = b[k] + sizeb(k)
  BY PassedValue
<1>4. \A k \in Slots : /\ sizea(k) \in Nat /\ sizeb(k) \in Nat
                       /\ sizea(k) <= sizeb(k)
                       /\ k < m => sizea(k) = sizeb(k)
  <2> TAKE k \in Slots
  <2>1. k \in 0 .. MaxOps
    BY <1>1
  <2>2. Advance(one.out_offs, k) \in Slots
    BY <2>1, AdvanceValue DEF MaxOps
  <2>. QED  BY <2>2
<1> HIDE DEF a, b, sizea, sizeb
<1>5. 0 \in S
  BY <1>2, <1>3
<1>6. ASSUME NEW k \in Nat, k \in S
      PROVE  k + 1 \in S
  <2>1. k + 1 \in Nat
    OBVIOUS
  <2>2. ASSUME k + 1 <= MaxOps
        PROVE  /\ a[k+1] <= b[k+1]
               /\ k + 1 <= m => a[k+1] = b[k+1]
    <3>1. k \in Slots /\ k \in 0 .. MaxOps /\ (k + 1 <= m => k <= m /\ k < m)
      BY <1>1, <2>2
    <3>2. /\ a[k] \in Nat /\ b[k] \in Nat
          /\ a[k+1] = a[k] + sizea(k) /\ b[k+1] = b[k] + sizeb(k)
      BY <1>2, <1>3, <3>1
    <3>3. a[k] <= b[k] /\ (k <= m => a[k] = b[k])
      BY <1>1, <1>6, <2>2, <3>1
    <3>4. /\ sizea(k) \in Nat /\ sizeb(k) \in Nat /\ sizea(k) <= sizeb(k)
          /\ k < m => sizea(k) = sizeb(k)
      BY <1>4, <3>1
    <3>. QED  BY <3>1, <3>2, <3>3, <3>4
  <2>. QED  BY <2>1, <2>2
<1>7. Nat \subseteq S
  <2> HIDE DEF S
  <2>. QED  BY <1>5, <1>6, NatSetInduction
<1>. QED  BY <1>1, <1>7 DEF a, b

(* While a ring is filling, its slots are passed in their order and those  *)
(* not yet used add nothing.                                               *)
LEMMA PassedFilling ==
  ASSUME NEW Es, NEW buffer, IsBuffer(buffer, Es), RingShape(buffer, Es),
         ~ buffer.full, \A i \in Slots : buffer.entry[i].size \in Nat
  PROVE  /\ \A k \in Slots : Passed(buffer)[k+1] = Passed(buffer)[k]
                                                  + buffer.entry[k].size
         /\ \A k \in buffer.in_offs .. MaxOps :
              Passed(buffer)[k] = Passed(buffer)[buffer.in_offs]
         /\ \A k \in 0 .. MaxOps : Passed(buffer)[k] <= Passed(buffer)[buffer.in_offs]
<1> DEFINE passed == Passed(buffer)
           in     == buffer.in_offs
           S      == {m \in Nat : in + m <= MaxOps => passed[in + m] = passed[in]}
<1>1. /\ MaxOps \in Nat \ {0} /\ Slots = 0 .. MaxOps - 1
      /\ buffer.out_offs = 0 /\ in \in Slots /\ 0 \in Slots /\ in \in Nat
      /\ buffer.out_offs \in Slots
  BY SlotsAssumption DEF MaxOps, Slots, IsBuffer, RingShape
<1>2. \A k \in Slots : Advance(0, k) = k
  <2> TAKE k \in Slots
  <2>1. k \in 0 .. MaxOps
    BY <1>1
  <2>2. Advance(0, k) = IF 0 + k < MaxOps THEN 0 + k ELSE 0 + k - MaxOps
    BY <1>1, <2>1, AdvanceValue DEF MaxOps
  <2>. QED  BY <1>1, <2>2
<1>3. /\ passed \in [0 .. MaxOps -> Nat]
      /\ \A k \in Slots : passed[k+1] = passed[k]
                             + buffer.entry[Advance(buffer.out_offs, k)].size
  BY <1>1, PassedValue
<1>4. \A k \in Slots : passed[k+1] = passed[k] + buffer.entry[k].size
  BY <1>1, <1>2, <1>3
<1>5. \A k \in Slots : k >= in => buffer.entry[k].size = 0
  BY <1>1 DEF RingShape, EmptyEntry
<1> HIDE DEF passed
<1>6. 0 \in S
  BY <1>1
<1>7. ASSUME NEW m \in Nat, m \in S
      PROVE  m + 1 \in S
  <2>1. m + 1 \in Nat
    OBVIOUS
  <2>2. ASSUME in + (m + 1) <= MaxOps
        PROVE  passed[in + (m + 1)] = passed[in]
    <3> DEFINE k == in + m
    <3>1. /\ k \in Slots /\ k >= in /\ k \in 0 .. MaxOps
          /\ k + 1 = in + (m + 1)
      <4>1. in \in Nat /\ MaxOps \in Nat /\ Slots = 0 .. MaxOps - 1
        BY <1>1
      <4> HIDE DEF in
      <4>2. k \in Nat /\ k >= in /\ k + 1 = in + (m + 1)
        BY <4>1
      <4> HIDE DEF k
      <4>. QED  BY <2>2, <4>1, <4>2
    <3>2. passed[k] = passed[in]
      BY <1>7, <3>1
    <3> HIDE DEF k
    <3>3. passed[k+1] = passed[k] + 0 /\ passed[k] \in Nat
      BY <1>3, <1>4, <1>5, <3>1
    <3>. QED  BY <3>1, <3>2, <3>3
  <2>. QED  BY <2>1, <2>2
<1>8. Nat \subseteq S
  <2> HIDE DEF S
  <2>. QED  BY <1>6, <1>7, NatSetInduction
<1>9. \A k \in in .. MaxOps : passed[k] = passed[in]
  <2> TAKE k \in in .. MaxOps
  <2>1. k - in \in Nat /\ in + (k - in) = k /\ k <= MaxOps
    BY <1>1
  <2>2. k - in \in S
    <3> HIDE DEF S
    <3>. QED  BY <1>8, <2>1
  <2>. QED  BY <2>1, <2>2
<1>10. \A k \in 0 .. MaxOps : passed[k] <= passed[in]
  <2>1. \A k \in 1 .. MaxOps : passed[k-1] <= passed[k]
    <3> TAKE k \in 1 .. MaxOps
    <3> DEFINE j == k - 1
    <3>1. j \in Slots /\ j + 1 = k /\ j \in 0 .. MaxOps
      BY <1>1
    <3> HIDE DEF j
    <3>2. passed[j+1] = passed[j] + buffer.entry[j].size
          /\ passed[j] \in Nat /\ buffer.entry[j].size \in Nat
      BY <1>3, <1>4, <3>1
    <3>3. passed[j] <= passed[j+1]
      BY <3>2
    <3>. QED  BY <3>1, <3>3 DEF j
  <2>2. \A i \in 0 .. MaxOps : \A k \in i .. MaxOps : passed[i] <= passed[k]
    BY <1>1, <1>3, <2>1, StepwiseGrowth
  <2> TAKE k \in 0 .. MaxOps
  <2>3. MaxOps \in k .. MaxOps /\ MaxOps \in in .. MaxOps
    BY <1>1
  <2>. QED  BY <1>9, <2>2, <2>3
<1>. QED  BY <1>4, <1>9, <1>10 DEF passed

(* An entry added to a ring that is still filling moves no command that is *)
(* already there.                                                          *)
LEMMA AddFilling ==
  ASSUME NEW Es, \A e \in Es : e.size \in Nat,
         NEW buffer, IsBuffer(buffer, Es), RingShape(buffer, Es),
         ~ buffer.full, NEW e \in Es
  PROVE  LET new == AddEntry(buffer, e)
         IN  /\ ~ new.full => new.in_offs = buffer.in_offs + 1
             /\ \A i \in Slots : i < buffer.in_offs => new.entry[i] = buffer.entry[i]
             /\ \A k \in 0 .. MaxOps : Passed(buffer)[k] <= Passed(new)[k]
             /\ \A k \in 0 .. buffer.in_offs : Passed(buffer)[k] = Passed(new)[k]
<1> DEFINE new == AddEntry(buffer, e)
           in  == buffer.in_offs
<1>1. /\ MaxOps \in Nat \ {0} /\ Slots = 0 .. MaxOps - 1
      /\ buffer.out_offs = 0 /\ in \in Slots /\ 0 \in Slots
      /\ 1 \in 0 .. MaxOps
      /\ buffer.entry \in [Slots -> Es \cup {EmptyEntry}]
  BY SlotsAssumption DEF MaxOps, Slots, IsBuffer, RingShape
<1>2. IsBuffer(new, Es)
  BY AddKeepsShape
<1>3. /\ new.entry = [buffer.entry EXCEPT ![in] = e]
      /\ new.in_offs = Advance(in, 1)
      /\ new.out_offs = 0
      /\ new.full <=> new.in_offs = 0
  BY <1>1 DEF AddEntry, OutAfterAdd
<1>4. ~ new.full => new.in_offs = in + 1
  <2>1. Advance(in, 1) = IF in + 1 < MaxOps THEN in + 1 ELSE in + 1 - MaxOps
    BY <1>1, AdvanceValue DEF MaxOps
  <2>. QED  BY <1>1, <1>3, <2>1
<1>5. \A i \in Slots : i # in => new.entry[i] = buffer.entry[i]
  BY <1>1, <1>3
<1>6. \A i \in Slots : buffer.entry[i].size \in Nat /\ new.entry[i].size \in Nat
  BY <1>1, <1>2 DEF IsBuffer, EmptyEntry
<1>7. buffer.entry[in].size = 0
  BY <1>1 DEF RingShape, EmptyEntry
<1>8. \A i \in Slots : buffer.entry[i].size <= new.entry[i].size
  <2> TAKE i \in Slots
  <2>1. CASE i = in
    BY <1>6, <1>7, <2>1
  <2>2. CASE i # in
    BY <1>5, <1>6, <2>2
  <2>. QED  BY <2>1, <2>2
<1> HIDE DEF new
<1>9. \A k \in Slots : k < in =>
         buffer.entry[Advance(0, k)].size = new.entry[Advance(0, k)].size
  <2> SUFFICES ASSUME NEW k \in Slots, k < in
               PROVE  buffer.entry[Advance(0, k)].size = new.entry[Advance(0, k)].size
    OBVIOUS
  <2>1. k \in 0 .. MaxOps /\ k # in
    BY <1>1
  <2>2. Advance(0, k) = IF 0 + k < MaxOps THEN 0 + k ELSE 0 + k - MaxOps
    BY <1>1, <2>1, AdvanceValue DEF MaxOps
  <2>3. Advance(0, k) = k
    BY <1>1, <2>2
  <2>. QED  BY <1>5, <2>1, <2>3
<1>10. \A k \in 0 .. MaxOps : /\ Passed(buffer)[k] <= Passed(new)[k]
                              /\ k <= in => Passed(buffer)[k] = Passed(new)[k]
  <2>1. in \in 0 .. MaxOps
    BY <1>1
  <2>2. buffer.out_offs \in Slots /\ new.out_offs = buffer.out_offs
    BY <1>1, <1>3
  <2>3. \A k \in Slots : k < in =>
           buffer.entry[Advance(buffer.out_offs, k)].size
             = new.entry[Advance(buffer.out_offs, k)].size
    BY <1>1, <1>9
  <2> HIDE DEF in
  <2>. QED  BY <1>6, <1>8, <2>1, <2>2, <2>3, PassedCompare
<1>11. \A k \in 0 .. in : k \in 0 .. MaxOps /\ k <= in
  BY <1>1
<1>12. \A i \in Slots : i < in => i # in
  BY <1>1
<1>. QED  BY <1>4, <1>5, <1>10, <1>11, <1>12 DEF new

-----------------------------------------------------------------------------
(* Slices of sequences.                                                    *)
LEMMA Slice ==
  ASSUME NEW S, NEW s \in Seq(S), NEW a \in Nat, NEW n \in Nat, a + n <= Len(s)
  PROVE  /\ SubSeq(s, a + 1, a + n) \in Seq(S)
         /\ Len(SubSeq(s, a + 1, a + n)) = n
         /\ \A i \in 1 .. n : SubSeq(s, a + 1, a + n)[i] = s[a + i]
OBVIOUS

LEMMA WholeSlice ==
  ASSUME NEW S, NEW s \in Seq(S)
  PROVE  SubSeq(s, 1, Len(s)) = s
<1> DEFINE sub == SubSeq(s, 1, Len(s))
<1>1. sub \in Seq(S) /\ Len(sub) = Len(s) /\ \A i \in 1 .. Len(s) : sub[i] = s[i]
  OBVIOUS
<1>2. sub = s
  <2> HIDE DEF sub
  <2>. QED  BY <1>1, SeqEqual
<1>. QED  BY <1>2

-----------------------------------------------------------------------------
(* Sequences put together in either order.                                 *)
LEMMA EmptyConcat ==
  ASSUME NEW S, NEW s \in Seq(S)
  PROVE  s \o << >> = s /\ << >> \o s = s
OBVIOUS

LEMMA ConcatAssociates ==
  ASSUME NEW S, NEW a \in Seq(S), NEW b \in Seq(S), NEW c \in Seq(S)
  PROVE  (a \o b) \o c = a \o (b \o c)
OBVIOUS

LEMMA AppendIsConcat ==
  ASSUME NEW S, NEW s \in Seq(S), NEW x \in S
  PROVE  Append(s, x) = s \o << x >>
OBVIOUS

LEMMA ConcatIs ==
  ASSUME NEW S, NEW s \in Seq(S), NEW a \in Seq(S), NEW b \in Seq(S),
         Len(s) = Len(a) + Len(b),
         \A k \in 1 .. Len(a) : a[k] = s[k],
         \A k \in 1 .. Len(b) : b[k] = s[Len(a) + k]
  PROVE  s = a \o b
<1> DEFINE t == a \o b
<1>1. /\ t \in Seq(S) /\ Len(t) = Len(a) + Len(b)
      /\ \A k \in 1 .. Len(a) : t[k] = a[k]
      /\ \A k \in 1 .. Len(b) : t[Len(a) + k] = b[k]
  BY ConcatParts
<1> HIDE DEF t
<1>2. Len(a) \in Nat /\ Len(b) \in Nat
  OBVIOUS
<1>3. ASSUME NEW k \in 1 .. Len(s)
      PROVE  s[k] = t[k]
  <2>1. CASE k \in 1 .. Len(a)
    BY <1>1, <2>1
  <2>2. CASE k \notin 1 .. Len(a)
    <3>1. k - Len(a) \in 1 .. Len(b) /\ Len(a) + (k - Len(a)) = k
      BY <1>2, <2>2
    <3>. QED  BY <1>1, <3>1
  <2>. QED  BY <2>1, <2>2
<1>4. s = t
  BY <1>1, <1>3, SeqEqual
<1>. QED  BY <1>4 DEF t

(* What is left without the end is the beginning.                          *)
LEMMA PrefixOfConcat ==
  ASSUME NEW S, NEW a \in Seq(S), NEW b \in Seq(S)
  PROVE  SubSeq(a \o b, 1, Len(a \o b) - Len(b)) = a
<1> DEFINE ab == a \o b
           s  == SubSeq(ab, 0 + 1, 0 + Len(a))
<1>1. /\ ab \in Seq(S) /\ Len(ab) = Len(a) + Len(b)
      /\ \A k \in 1 .. Len(a) : ab[k] = a[k]
  BY ConcatParts
<1>2. Len(a) \in Nat /\ Len(b) \in Nat
  OBVIOUS
<1> HIDE DEF ab
<1>3. 0 \in Nat /\ 0 + Len(a) <= Len(ab)
  BY <1>1, <1>2
<1>4. s \in Seq(S) /\ Len(s) = Len(a) /\ \A k \in 1 .. Len(a) : s[k] = ab[0 + k]
  BY <1>1, <1>2, <1>3, Slice
<1>5. Len(ab) - Len(b) = Len(a) /\ s = SubSeq(ab, 1, Len(a))
  BY <1>1, <1>2
<1> HIDE DEF s
<1>6. \A k \in 1 .. Len(a) : s[k] = a[k]
  BY <1>1, <1>2, <1>4
<1>7. s = a
  BY <1>4, <1>6, SeqEqual
<1>. QED  BY <1>5, <1>7 DEF ab

(* A command put behind the others is put behind their concatenation.      *)
LEMMA FlattenAppend ==
  ASSUME NEW T, NEW ss \in Seq(Seq(T)), NEW x \in Seq(T)
  PROVE  FlattenSeq(Append(ss, x)) = FlattenSeq(ss) \o x
<1> DEFINE n  == Len(ss)
           tt == Append(ss, x)
<1>1. /\ n \in Nat /\ Len(tt) = n + 1 /\ tt[n + 1] = x
      /\ \A k \in 1 .. n : tt[k] = ss[k]
  OBVIOUS
<1>2. n = 0 => FlattenSeq(ss) = << >>
  BY DEF FlattenSeq
<1> HIDE DEF tt
<1>3. PICK g : Joined(tt, g) /\ FlattenSeq(tt) = g[n + 1]
  <2>1. Len(tt) \in Nat /\ Len(tt) # 0
    BY <1>1
  <2>. QED  BY <1>1, <2>1, FlattenIs DEF Joined
<1>4. CASE n = 0
  <2>1. g[n + 1] = tt[n + 1]
    BY <1>1, <1>3, <1>4 DEF Joined
  <2>2. << >> \o x = x
    BY EmptyConcat
  <2>. QED  BY <1>1, <1>2, <1>3, <1>4, <2>1, <2>2 DEF tt
<1>5. CASE n # 0
  <2>1. PICK f : Joined(ss, f) /\ FlattenSeq(ss) = f[n]
    BY <1>1, <1>5, FlattenIs DEF Joined
  <2> DEFINE S == {m \in Nat : m + 1 <= n => f[m + 1] = g[m + 1]}
  <2>2. 0 \in S
    <3>1. 1 \in 1 .. n /\ 1 \in 1 .. n + 1
      BY <1>1, <1>5
    <3>2. f[1] = ss[1] /\ g[1] = tt[1] /\ tt[1] = ss[1]
      BY <1>1, <1>3, <2>1, <3>1 DEF Joined
    <3>. QED  BY <3>2
  <2>3. ASSUME NEW m \in Nat, m \in S
        PROVE  m + 1 \in S
    <3> SUFFICES ASSUME (m + 1) + 1 <= n
                 PROVE  f[(m + 1) + 1] = g[(m + 1) + 1]
      OBVIOUS
    <3> DEFINE at == (m + 1) + 1
    <3>1. f[m + 1] = g[m + 1]
      BY <1>1, <2>3
    <3>2. at \in 1 .. n /\ at \in 1 .. n + 1 /\ at # 1 /\ at - 1 = m + 1
      BY <1>1
    <3> HIDE DEF at
    <3>3. f[at] = f[at - 1] \o ss[at] /\ g[at] = g[at - 1] \o tt[at] /\ tt[at] = ss[at]
      BY <1>1, <1>3, <2>1, <3>2 DEF Joined
    <3>4. f[at] = g[at]
      BY <3>1, <3>2, <3>3
    <3>. QED  BY <3>4 DEF at
  <2>4. n - 1 \in S
    <3>1. Nat \subseteq S
      <4> HIDE DEF S
      <4>. QED  BY <2>2, <2>3, NatSetInduction
    <3>2. n - 1 \in Nat
      BY <1>1, <1>5
    <3> HIDE DEF S
    <3>. QED  BY <3>1, <3>2
  <2>5. f[n] = g[n]
    <3>1. (n - 1) + 1 = n
      BY <1>1
    <3>. QED  BY <2>4, <3>1
  <2>6. g[n + 1] = g[n] \o x
    <3>1. n + 1 \in 1 .. Len(tt) /\ n + 1 # 1 /\ (n + 1) - 1 = n
      BY <1>1, <1>5
    <3>. QED  BY <1>1, <1>3, <3>1 DEF Joined
  <2>. QED  BY <1>3, <2>1, <2>5, <2>6 DEF tt
<1>. QED  BY <1>4, <1>5

-----------------------------------------------------------------------------
(* A well-shaped ring whose entries are commands, each of the size it says.*)
CommandRing(buffer, Es, T) ==
  /\ IsBuffer(buffer, Es) /\ RingShape(buffer, Es)
  /\ \A e \in Es : e.buffptr \in Seq(T) /\ e.size \in Nat
  /\ \A i \in Slots :
       buffer.entry[i] \in Es => buffer.entry[i].size = Len(buffer.entry[i].buffptr)

LEMMA CommandRingSizes ==
  ASSUME NEW buffer, NEW Es, NEW T, CommandRing(buffer, Es, T)
  PROVE  /\ buffer.out_offs \in Slots
         /\ \A i \in Slots : buffer.entry[i].size \in Nat
         /\ Passed(buffer) \in [0 .. MaxOps -> Nat]
         /\ MaxOps \in Nat \ {0} /\ Slots = 0 .. MaxOps - 1
<1>1. /\ buffer.out_offs \in Slots
      /\ \A i \in Slots : buffer.entry[i] \in Es \cup {EmptyEntry}
  BY DEF CommandRing, IsBuffer
<1>2. \A i \in Slots : buffer.entry[i].size \in Nat
  BY <1>1 DEF CommandRing, EmptyEntry
<1>3. MaxOps \in Nat \ {0} /\ Slots = 0 .. MaxOps - 1
  BY SlotsAssumption DEF MaxOps, Slots
<1>. QED  BY <1>1, <1>2, <1>3, PassedValue

LEMMA NoCommands == CommandsOf(aesd_circular_buffer_init) = << >>
<1>1. Held(aesd_circular_buffer_init) = 0
  BY SlotsAssumption DEF Held, aesd_circular_buffer_init
<1>. QED  BY <1>1 DEF CommandsOf

(* Where the retained commands end when they are put end to end is what    *)
(* a look-up passes.                                                       *)
LEMMA CommandsEnd ==
  ASSUME NEW buffer, NEW Es, NEW T, CommandRing(buffer, Es, T)
  PROVE  LET commands == CommandsOf(buffer)
         IN  /\ commands \in Seq(Seq(T))
             /\ Len(commands) = Held(buffer)
             /\ Held(buffer) \in 0 .. MaxOps
             /\ \A k \in 1 .. Held(buffer) :
                  LET e == buffer.entry[Advance(buffer.out_offs, k-1)]
                  IN  commands[k] = e.buffptr /\ Len(commands[k]) = e.size
             /\ \A m \in 0 .. Held(buffer) :
                  LET ss == SubSeq(commands, 1, m)
                  IN  /\ ss \in Seq(Seq(T))
                      /\ EndsAt(ss, [k \in 0 .. m |-> Passed(buffer)[k]])
                      /\ Len(ss) = m
<1> DEFINE commands == CommandsOf(buffer)
           log     == LogOf(buffer)
           n       == Held(buffer)
           slot(k) == Advance(buffer.out_offs, k)
           passed  == Passed(buffer)
<1>1. /\ IsBuffer(buffer, Es) /\ RingShape(buffer, Es)
      /\ buffer.out_offs \in Slots
      /\ \A i \in Slots : buffer.entry[i].size \in Nat
      /\ passed \in [0 .. MaxOps -> Nat]
      /\ MaxOps \in Nat \ {0} /\ Slots = 0 .. MaxOps - 1
  BY CommandRingSizes DEF CommandRing
<1>2. /\ log \in Seq(Es) /\ Len(log) = n /\ n \in 0 .. MaxOps
      /\ \A k \in 1 .. n : log[k] = buffer.entry[slot(k-1)]
  BY <1>1, LogIsSeq, HeldValue DEF MaxOps
<1>3. /\ passed[0] = 0
      /\ \A k \in Slots : passed[k+1] = passed[k] + buffer.entry[slot(k)].size
  BY <1>1, PassedValue
<1>4. \A k \in 1 .. n : /\ log[k].buffptr \in Seq(T)
                        /\ Len(log[k].buffptr) = buffer.entry[slot(k-1)].size
                        /\ log[k].buffptr = buffer.entry[slot(k-1)].buffptr
  <2> TAKE k \in 1 .. n
  <2>1. k - 1 \in 0 .. MaxOps
    <3> HIDE DEF n
    <3>. QED  BY <1>1, <1>2
  <2>2. slot(k-1) \in Slots
    BY <1>1, <2>1, AdvanceValue DEF MaxOps
  <2>3. log[k] \in Es /\ log[k] = buffer.entry[slot(k-1)]
    BY <1>2
  <2>4. buffer.entry[slot(k-1)].size = Len(buffer.entry[slot(k-1)].buffptr)
    BY <2>2, <2>3 DEF CommandRing
  <2>. QED  BY <2>3, <2>4 DEF CommandRing
<1>5. commands = [k \in 1 .. n |-> log[k].buffptr]
  BY DEF CommandsOf
<1>6. /\ commands \in Seq(Seq(T)) /\ Len(commands) = n
      /\ \A k \in 1 .. n : /\ commands[k] = buffer.entry[slot(k-1)].buffptr
                           /\ Len(commands[k]) = buffer.entry[slot(k-1)].size
  <2> DEFINE bytes(k) == log[k].buffptr
             L == Seq(T)
  <2>1. n \in Nat
    BY <1>1, <1>2
  <2>2. \A k \in 1 .. n : bytes(k) \in L
    BY <1>4
  <2>3. commands = [k \in 1 .. n |-> bytes(k)]
    BY <1>5
  <2> HIDE DEF log, slot, n, commands, bytes, L
  <2>4. commands \in Seq(L) /\ Len(commands) = n /\ \A k \in 1 .. n : commands[k] = bytes(k)
    BY <2>1, <2>2, <2>3
  <2>. QED  BY <1>4, <2>4 DEF bytes, L
<1> HIDE DEF commands
<1>7. ASSUME NEW m \in 0 .. n
      PROVE  LET ss == SubSeq(commands, 1, m)
             IN  /\ ss \in Seq(Seq(T))
                 /\ EndsAt(ss, [k \in 0 .. m |-> passed[k]])
                 /\ Len(ss) = m
  <2> DEFINE ss == SubSeq(commands, 1, m)
             at == [k \in 0 .. m |-> passed[k]]
  <2>1. m \in Nat /\ n \in Nat /\ m <= n /\ n <= MaxOps
    BY <1>1, <1>2
  <2>2. ss \in Seq(Seq(T)) /\ Len(ss) = m /\ \A k \in 1 .. m : ss[k] = commands[k]
    <3> HIDE DEF n
    <3>1. \A k \in 1 .. m : k \in 1 .. Len(commands)
      BY <1>6, <2>1
    <3>. QED  BY <1>6, <2>1, <3>1
  <2> HIDE DEF ss
  <2>3. at \in [0 .. m -> Nat]
    <3>1. \A k \in 0 .. m : k \in 0 .. MaxOps
      BY <1>1, <2>1
    <3>. QED  BY <1>1, <3>1
  <2>4. at[0] = 0
    BY <1>3, <2>1
  <2>5. ASSUME NEW i \in 1 .. m
        PROVE  at[i] = at[i-1] + Len(ss[i])
    <3> DEFINE j == i - 1
    <3>1. j \in Slots /\ j + 1 = i /\ j \in 0 .. m /\ i \in 0 .. m /\ i \in 1 .. n
      BY <1>1, <2>1
    <3>2. Len(ss[i]) = buffer.entry[slot(j)].size
      BY <1>6, <2>2, <3>1
    <3> HIDE DEF j
    <3>3. passed[i] = passed[j] + buffer.entry[slot(j)].size
      BY <1>3, <3>1
    <3>4. at[i] = passed[i] /\ at[j] = passed[j]
      BY <3>1
    <3> HIDE DEF at, slot, passed
    <3>5. at[i] = at[j] + Len(ss[i])
      BY <3>2, <3>3, <3>4
    <3>. QED  BY <3>5 DEF j
  <2> HIDE DEF at
  <2>6. EndsAt(ss, at)
    BY <2>2, <2>3, <2>4, <2>5 DEF EndsAt
  <2>. QED  BY <2>2, <2>6 DEF ss, at
<1>. QED
  <2> HIDE DEF log
  <2>. QED  BY <1>2, <1>6, <1>7 DEF commands

(* So many bytes come before a command, and this is where its bytes are.   *)
LEMMA CommandsInPlace ==
  ASSUME NEW buffer, NEW Es, NEW T, CommandRing(buffer, Es, T),
         NEW m \in 0 .. Held(buffer)
  PROVE  InPlace(SubSeq(CommandsOf(buffer), 1, m),
                 [k \in 0 .. m |-> Passed(buffer)[k]], T, m,
                 FlattenSeq(SubSeq(CommandsOf(buffer), 1, m)))
<1> DEFINE ss == SubSeq(CommandsOf(buffer), 1, m)
           at == [k \in 0 .. m |-> Passed(buffer)[k]]
<1>1. ss \in Seq(Seq(T)) /\ EndsAt(ss, at) /\ Len(ss) = m
  BY CommandsEnd
<1> HIDE DEF ss, at
<1>2. InPlace(ss, at, T, Len(ss), FlattenSeq(ss))
  BY <1>1, FlattenPositions
<1>. QED  BY <1>1, <1>2 DEF ss, at

LEMMA CommandsLength ==
  ASSUME NEW buffer, NEW Es, NEW T, CommandRing(buffer, Es, T),
         NEW m \in 0 .. Held(buffer)
  PROVE  Len(FlattenSeq(SubSeq(CommandsOf(buffer), 1, m))) = Passed(buffer)[m]
<1> DEFINE at == [k \in 0 .. m |-> Passed(buffer)[k]]
<1>1. Len(FlattenSeq(SubSeq(CommandsOf(buffer), 1, m))) = at[m]
  BY CommandsInPlace DEF InPlace
<1>2. m \in 0 .. m
  OBVIOUS
<1>. QED  BY <1>1, <1>2

LEMMA AllCommands ==
  ASSUME NEW buffer, NEW Es, NEW T, CommandRing(buffer, Es, T)
  PROVE  SubSeq(CommandsOf(buffer), 1, Held(buffer)) = CommandsOf(buffer)
<1>1. CommandsOf(buffer) \in Seq(Seq(T)) /\ Len(CommandsOf(buffer)) = Held(buffer)
  BY CommandsEnd
<1>. QED  BY <1>1, WholeSlice

(* A command added to the ring is appended to the log.                     *)
LEMMA CommandsAppend ==
  ASSUME NEW Es, NEW buffer, NEW e \in Es,
         IsBuffer(buffer, Es), RingShape(buffer, Es)
  PROVE  CommandsOf(AddEntry(buffer, e)) =
           BoundedAppend(CommandsOf(buffer), e.buffptr, MaxOps)
<1> DEFINE added    == AddEntry(buffer, e)
           old      == LogOf(buffer)
           new      == LogOf(added)
           n        == Held(buffer)
           m        == Held(added)
           commands == CommandsOf(buffer)
           after    == CommandsOf(added)
<1>1. IsBuffer(added, Es) /\ RingShape(added, Es)
  BY AddKeepsShape
<1>2. old \in Seq(Es) /\ Len(old) = n /\ n \in Nat
  BY LogIsSeq
<1>3. new \in Seq(Es) /\ Len(new) = m /\ m \in Nat
  BY <1>1, LogIsSeq
<1>4. new = BoundedAppend(old, e, MaxOps)
  BY AddIsBoundedAppend DEF MaxOps
<1>5. /\ commands = [k \in 1 .. n |-> old[k].buffptr]
      /\ after = [k \in 1 .. m |-> new[k].buffptr]
  BY DEF CommandsOf
<1> HIDE DEF added, old, new, n, m, commands, after
<1> DEFINE T == {x.buffptr : x \in Es}
           app == BoundedAppend(commands, e.buffptr, MaxOps)
<1>6. /\ commands \in Seq(T) /\ Len(commands) = n
      /\ \A k \in 1 .. n : commands[k] = old[k].buffptr
  <2>1. \A k \in 1 .. n : old[k].buffptr \in T
    BY <1>2
  <2> HIDE DEF T
  <2>. QED  BY <1>2, <1>5, <2>1
<1>7. /\ after \in Seq(T) /\ Len(after) = m
      /\ \A k \in 1 .. m : after[k] = new[k].buffptr
  <2>1. \A k \in 1 .. m : new[k].buffptr \in T
    BY <1>3
  <2> HIDE DEF T
  <2>. QED  BY <1>3, <1>5, <2>1
<1>8. e.buffptr \in T
  OBVIOUS
<1> HIDE DEF T
<1>9. CASE n = MaxOps
  <2>1. new = Append(Tail(old), e) /\ app = Append(Tail(commands), e.buffptr)
    BY <1>2, <1>4, <1>6, <1>9 DEF BoundedAppend
  <2>2. n # 0
    BY <1>9, SlotsAssumption DEF MaxOps
  <2>3. /\ m = n /\ \A k \in 1 .. n : new[k] = IF k < n THEN old[k+1] ELSE e
    BY <1>2, <1>3, <2>1, <2>2
  <2>4. /\ app \in Seq(T) /\ Len(app) = n
        /\ \A k \in 1 .. n : app[k] = IF k < n THEN commands[k+1] ELSE e.buffptr
    BY <1>2, <1>6, <1>8, <2>1, <2>2
  <2> HIDE DEF app
  <2>5. \A k \in 1 .. n : after[k] = app[k]
    <3> TAKE k \in 1 .. n
    <3>1. CASE k < n
      <4>1. k + 1 \in 1 .. n
        BY <1>2, <3>1
      <4>. QED  BY <1>6, <1>7, <2>3, <2>4, <3>1, <4>1
    <3>2. CASE ~ k < n
      BY <1>7, <2>3, <2>4, <3>2
    <3>. QED  BY <3>1, <3>2
  <2>6. after = app
    BY <1>7, <2>3, <2>4, <2>5, SeqEqual
  <2>. QED  BY <2>6 DEF app, after, added, commands
<1>10. CASE n # MaxOps
  <2>1. new = Append(old, e) /\ app = Append(commands, e.buffptr)
    BY <1>2, <1>4, <1>6, <1>10 DEF BoundedAppend
  <2>2. /\ m = n + 1 /\ \A k \in 1 .. m : new[k] = IF k <= n THEN old[k] ELSE e
    BY <1>2, <1>3, <2>1
  <2>3. /\ app \in Seq(T) /\ Len(app) = m
        /\ \A k \in 1 .. m : app[k] = IF k <= n THEN commands[k] ELSE e.buffptr
    BY <1>2, <1>6, <1>8, <2>1, <2>2
  <2> HIDE DEF app
  <2>4. \A k \in 1 .. m : after[k] = app[k]
    <3> TAKE k \in 1 .. m
    <3>1. CASE k <= n
      <4>1. k \in 1 .. n
        BY <1>2, <3>1
      <4>. QED  BY <1>6, <1>7, <2>2, <2>3, <3>1, <4>1
    <3>2. CASE ~ k <= n
      BY <1>7, <2>2, <2>3, <3>2
    <3>. QED  BY <3>1, <3>2
  <2>5. after = app
    BY <1>3, <1>7, <2>3, <2>4, SeqEqual
  <2>. QED  BY <2>5 DEF app, after, added, commands
<1>. QED  BY <1>9, <1>10
=============================================================================
