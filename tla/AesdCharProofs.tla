--------------------------- MODULE AesdCharProofs ---------------------------
(***************************************************************************)
(* The driver, for every number of slots, every set of processes, user     *)
(* buffers and arguments, and every choice of the kernel calls that may    *)
(* fail: its types, the shape of its ring, its locking and its memory; that*)
(* file positions stay within the contents, and a seek lands where it says;*)
(* and that it implements the device that loses no line.                   *)
(*                                                                         *)
(* The five invariants are proved together, as DriverInv: the ring is well *)
(* shaped because only a writer in its loop adds to it, and adds a         *)
(* sequence of bytes, because the writer is alone there; and the memory    *)
(* balances because a full, well-shaped ring always hands back a block.    *)
(*                                                                         *)
(* Positions need PositionInv: what a seek without the lock has summed up  *)
(* stays right, for the ring as it is now, until the ring is full.  Lines  *)
(* need LineInv: how much of the incomplete command lies before and behind *)
(* what the writer in the loop has yet to add.                             *)
(***************************************************************************)
EXTENDS AesdChar, CircularBufferLemmas, FiniteSetTheorems

(* While the module is unloaded nobody has the device open.                *)
Unloaded ==
  ~ loaded => /\ incomplete_command_buffer = NULL
              /\ \A p \in Proc : pc[p] = "closed"

(* A writer in its loop has a live incomplete command.                     *)
LiveInLoop ==
  \A p \in Proc : pc[p] = "write_loop" => incomplete_command_buffer \in Seq(Byte)

DriverInv ==
  /\ TypeOK
  /\ RingInv
  /\ MutexDiscipline
  /\ BlocksAccounted
  /\ SizeMatches
  /\ Unloaded
  /\ LiveInLoop

-----------------------------------------------------------------------------
(* Adding an entry to the ring makes it hold one more, unless it was full, *)
(* and then the buffer of an entry is handed back.                         *)
LEMMA AddHeld ==
  ASSUME NEW buffer, NEW e \in Entries,
         IsBuffer(buffer, Entries), RingShape(buffer, Entries)
  PROVE  /\ Held(buffer) \in Nat
         /\ Held(AddEntry(buffer, e)) =
              IF buffer.full THEN Held(buffer) ELSE Held(buffer) + 1
         /\ Owned(Overwritten(buffer)) = IF buffer.full THEN 1 ELSE 0
<1> DEFINE N   == AESDCHAR_MAX_WRITE_OPERATIONS_SUPPORTED
           new == AddEntry(buffer, e)
<1>1. IsBuffer(new, Entries) /\ RingShape(new, Entries)
  BY AddKeepsShape
<1>2. /\ buffer.in_offs \in Slots
      /\ buffer.out_offs \in Slots
      /\ buffer.full \in BOOLEAN
      /\ N \in Nat \ {0}
      /\ 1 \in 0 .. N
  BY SlotsAssumption DEF IsBuffer
<1>3. /\ new.in_offs = Advance(buffer.in_offs, 1)
      /\ new.full <=> buffer.full \/ new.in_offs = new.out_offs
      /\ ~ buffer.full => new.out_offs = buffer.out_offs
  BY DEF AddEntry, OutAfterAdd
<1>4. Advance(buffer.in_offs, 1) = IF buffer.in_offs + 1 < N
                                     THEN buffer.in_offs + 1
                                     ELSE buffer.in_offs + 1 - N
  BY <1>2, AdvanceValue
<1>5. /\ Held(buffer) = IF buffer.full THEN N ELSE buffer.in_offs
      /\ Held(buffer) \in 0 .. N
      /\ Held(new) = IF new.full THEN N ELSE new.in_offs
  BY <1>1, HeldValue
<1> HIDE DEF new
<1>6. CASE buffer.full
  <2>1. Overwritten(buffer) \in Seq(Byte)
    BY <1>2, <1>6 DEF Overwritten, RingShape, Entries
  <2>. QED  BY <1>2, <1>3, <1>5, <1>6, <2>1, BytesAssumption DEF Owned, new
<1>7. CASE ~ buffer.full
  <2>1. Owned(Overwritten(buffer)) = 0
    BY <1>7 DEF Overwritten, Owned
  <2>2. buffer.out_offs = 0
    BY <1>7 DEF RingShape
  <2>3. Held(new) = Held(buffer) + 1
    BY <1>2, <1>3, <1>4, <1>5, <1>7, <2>2 DEF Slots
  <2>. QED  BY <1>2, <1>5, <1>7, <2>1, <2>3 DEF new
<1>. QED  BY <1>6, <1>7

(* The slots aesd_cleanup_module frees are as many as the ring holds.      *)
LEMMA UsedSlots ==
  ASSUME NEW buffer, IsBuffer(buffer, Entries), RingShape(buffer, Entries)
  PROVE  Cardinality({i \in Slots : buffer.entry[i].buffptr # NULL}) = Held(buffer)
<1> DEFINE N    == AESDCHAR_MAX_WRITE_OPERATIONS_SUPPORTED
           used == {i \in Slots : buffer.entry[i].buffptr # NULL}
<1>1. \A e \in Entries : e.buffptr # NULL
  BY BytesAssumption DEF Entries
<1>2. EmptyEntry.buffptr = NULL
  BY DEF EmptyEntry
<1>3. /\ Held(buffer) = IF buffer.full THEN N ELSE buffer.in_offs
      /\ Held(buffer) \in 0 .. N
  BY HeldValue
<1>4. buffer.in_offs \in Slots /\ N \in Nat \ {0}
  BY SlotsAssumption DEF IsBuffer
<1>5. used = 0 .. Held(buffer) - 1
  BY <1>1, <1>2, <1>3, <1>4 DEF RingShape, Slots
<1>6. Cardinality(0 .. Held(buffer) - 1) = Held(buffer)
  <2>1. ASSUME NEW h \in Nat
        PROVE  Cardinality(0 .. h-1) = h
    <3>1. 0 \in Int /\ h-1 \in Int
      OBVIOUS
    <3>2. Cardinality(0 .. h-1) = IF 0 > h-1 THEN 0 ELSE (h-1)-0+1
      BY <3>1, FS_Interval, Zenon
    <3>. QED  BY <3>2
  <2>. QED  BY <1>3, <1>4, <2>1
<1>. QED  BY <1>5, <1>6

-----------------------------------------------------------------------------
LEMMA DriverInvInit == Init => DriverInv
<1> SUFFICES ASSUME Init
             PROVE  DriverInv
  OBVIOUS
<1>1. TypeOK
  BY DEF Init, TypeOK, WriteFrame
<1>2. MutexDiscipline
  BY CallsAssumption DEF Init, MutexDiscipline
<1>3. RingInv /\ BlocksAccounted /\ SizeMatches /\ Unloaded /\ LiveInLoop
  BY DEF Init, RingInv, BlocksAccounted, SizeMatches, Gathered, Unloaded, LiveInLoop
<1>. QED  BY <1>1, <1>2, <1>3 DEF DriverInv

(* A step that moves one process from a place where it does not hold the   *)
(* lock to another such place, and leaves the device alone.                *)
Local(p, to) ==
  /\ UNCHANGED <<loaded, lock, device>>
  /\ pc[p] \notin {"write_loop", "oops"}
  /\ to \in (InCall \cup {"closed", "idle"}) \ {"write_loop"}
  /\ pc' = [pc EXCEPT ![p] = to]
  /\ DOMAIN frame' = Proc
  /\ \A q \in Proc \ {p} : frame'[q] = frame[q]
  /\ to = "write" => frame'[p] \in WriteFrame

LEMMA LocalStep ==
  ASSUME DriverInv, loaded, NEW p \in Proc, NEW to, Local(p, to)
  PROVE  DriverInv'
<1> USE DEF Local
<1>1. TypeOK'
  <2>1. /\ pc' \in [Proc -> InCall \cup {"closed", "idle", "oops"}]
        /\ \A q \in Proc : pc'[q] = IF q = p THEN to ELSE pc[q]
    BY DEF DriverInv, TypeOK
  <2>2. \A q \in Proc :
           pc'[q] \in {"write", "write_loop"} => frame'[q] \in WriteFrame
    BY <2>1 DEF DriverInv, TypeOK
  <2>. QED  BY <2>1, <2>2 DEF DriverInv, TypeOK, device
<1>2. RingInv' /\ BlocksAccounted' /\ SizeMatches' /\ Unloaded'
  BY DEF DriverInv, RingInv, BlocksAccounted, SizeMatches, Gathered, Unloaded, device
<1>3. \A q \in Proc : pc'[q] = IF q = p THEN to ELSE pc[q]
  BY DEF DriverInv, TypeOK
<1>4. /\ to \notin {"write_loop", "oops"}
      /\ lock' = lock
      /\ incomplete_command_buffer' = incomplete_command_buffer
  BY DEF InCall, device
<1>5. MutexDiscipline'
  BY <1>3, <1>4 DEF DriverInv, MutexDiscipline
<1>6. LiveInLoop'
  BY <1>3, <1>4 DEF DriverInv, LiveInLoop
<1>. QED  BY <1>1, <1>2, <1>5, <1>6 DEF DriverInv

LEMMA InitModuleStep == DriverInv /\ aesd_init_module => DriverInv'
<1> SUFFICES ASSUME DriverInv, aesd_init_module
             PROVE  DriverInv'
  OBVIOUS
<1>1. /\ IsBuffer(aesd_circular_buffer_init, Entries)
      /\ RingShape(aesd_circular_buffer_init, Entries)
      /\ Held(aesd_circular_buffer_init) = 0
  <2>1. /\ IsBuffer(aesd_circular_buffer_init, Entries)
        /\ RingShape(aesd_circular_buffer_init, Entries)
    BY InitShape
  <2>2. /\ ~ aesd_circular_buffer_init.full
        /\ aesd_circular_buffer_init.in_offs = 0
    BY DEF aesd_circular_buffer_init
  <2>. QED  BY <2>1, <2>2, HeldValue
<1>2. TypeOK' /\ RingInv' /\ Unloaded' /\ LiveInLoop'
  BY <1>1 DEF aesd_init_module, DriverInv, TypeOK, RingInv, Unloaded, LiveInLoop
<1>3. MutexDiscipline'
  BY CallsAssumption DEF aesd_init_module, DriverInv, MutexDiscipline, Unloaded
<1>4. BlocksAccounted'
  BY <1>1 DEF aesd_init_module, DriverInv, BlocksAccounted, Owned
<1>5. SizeMatches'
  BY DEF aesd_init_module, SizeMatches, Gathered
<1>. QED  BY <1>2, <1>3, <1>4, <1>5 DEF DriverInv

LEMMA CleanupModuleStep == DriverInv /\ aesd_cleanup_module => DriverInv'
<1> SUFFICES ASSUME DriverInv, aesd_cleanup_module
             PROVE  DriverInv'
  OBVIOUS
<1>1. blocks' = 0
  <2>1. Cardinality({i \in Slots : circular_buffer.entry[i].buffptr # NULL})
          = Held(circular_buffer)
    BY UsedSlots DEF DriverInv, TypeOK, RingInv, aesd_cleanup_module
  <2>2. Held(circular_buffer) \in Nat
    <3>1. Held(circular_buffer)
            \in 0 .. AESDCHAR_MAX_WRITE_OPERATIONS_SUPPORTED
      BY HeldValue DEF DriverInv, TypeOK, RingInv, aesd_cleanup_module
    <3>. QED  BY <3>1
  <2>3. Owned(incomplete_command_buffer) \in Nat
    BY DEF Owned
  <2>4. blocks = Owned(incomplete_command_buffer) + Held(circular_buffer)
    BY DEF DriverInv, BlocksAccounted, aesd_cleanup_module
  <2>5. blocks' = blocks - Owned(incomplete_command_buffer)
                         - Held(circular_buffer)
    BY <2>1 DEF aesd_cleanup_module
  <2>. QED  BY <2>2, <2>3, <2>4, <2>5
<1>2. /\ loaded' = FALSE
      /\ incomplete_command_buffer' = NULL
      /\ incomplete_command_size' \in Nat
      /\ \A p \in Proc : pc[p] = "closed"
      /\ UNCHANGED <<lock, pc, frame>>
  BY DEF aesd_cleanup_module, DriverInv, TypeOK
<1>3. TypeOK'
  BY <1>1, <1>2 DEF DriverInv, TypeOK
<1>4. RingInv' /\ BlocksAccounted' /\ Unloaded' /\ LiveInLoop'
  BY <1>1, <1>2 DEF RingInv, BlocksAccounted, Unloaded, LiveInLoop
<1>5. MutexDiscipline'
  BY <1>2 DEF DriverInv, MutexDiscipline
<1>6. SizeMatches'
  BY BytesAssumption
     DEF aesd_cleanup_module, DriverInv, SizeMatches, Gathered
<1>. QED  BY <1>3, <1>4, <1>5, <1>6 DEF DriverInv

(* Opening, closing and starting a call.                                   *)
LEMMA BeginSteps ==
  ASSUME DriverInv, NEW p \in Proc, Begin(p)
  PROVE  DriverInv'
<1>1. /\ pc[p] # "closed" => loaded
      /\ DOMAIN frame = Proc
  BY DEF DriverInv, TypeOK, Unloaded
<1>2. CASE aesd_open(p)
  <2>1. loaded /\ Local(p, "idle")
    BY <1>1, <1>2 DEF aesd_open, Local, InCall
  <2>. QED  BY <2>1, LocalStep
<1>3. CASE aesd_release(p)
  <2>1. loaded /\ Local(p, "closed")
    BY <1>1, <1>3 DEF aesd_release, Local, InCall
  <2>. QED  BY <2>1, LocalStep
<1>4. ASSUME NEW buf \in Inputs, BeginWrite(p, buf)
      PROVE  DriverInv'
  <2> DEFINE locals == [buf |-> buf, cmd_start |-> 0, read_size |-> 0]
  <2>1. locals \in WriteFrame
    BY BytesAssumption DEF WriteFrame
  <2>2. loaded /\ Local(p, "write")
    BY <1>1, <1>4, <2>1 DEF BeginWrite, Call, Local, InCall
  <2>. QED  BY <2>2, LocalStep
<1>5. ASSUME NEW count \in Counts, BeginRead(p, count)
      PROVE  DriverInv'
  <2>1. loaded /\ (Local(p, "idle") \/ Local(p, "read"))
    BY <1>1, <1>5 DEF BeginRead, Call, Return, Local, InCall
  <2>. QED  BY <2>1, LocalStep
<1>6. ASSUME NEW s \in SeekArgs, BeginLlseek(p, s[1], s[2])
      PROVE  DriverInv'
  <2>1. loaded /\ Local(p, "llseek")
    BY <1>1, <1>6 DEF BeginLlseek, Call, Local, InCall
  <2>. QED  BY <2>1, LocalStep
<1>7. ASSUME NEW s \in SeekTos, BeginIoctl(p, s[1], s[2])
      PROVE  DriverInv'
  <2>1. loaded /\ Local(p, "ioctl")
    BY <1>1, <1>7 DEF BeginIoctl, Call, Local, InCall
  <2>. QED  BY <2>1, LocalStep
<1>. QED  BY <1>2, <1>3, <1>4, <1>5, <1>6, <1>7 DEF Begin

(* The steps of a call outside the critical section of aesd_write.         *)
LEMMA OutsideSteps ==
  ASSUME DriverInv, NEW p \in Proc,
         \/ Interrupted(p) \/ Read(p)
         \/ aesd_size(p) \/ fixed_size_llseek(p)
         \/ IoctlCheck(p) \/ IoctlSum(p) \/ IoctlSeek(p)
  PROVE  DriverInv'
<1>1. /\ pc[p] # "closed" => loaded
      /\ DOMAIN frame = Proc
      /\ pc \in [Proc -> InCall \cup {"closed", "idle", "oops"}]
  BY DEF DriverInv, TypeOK, Unloaded
<1>2. CASE Interrupted(p) \/ Read(p) \/ fixed_size_llseek(p) \/ IoctlSeek(p)
  <2>1. loaded /\ Local(p, "idle")
    BY <1>1, <1>2
       DEF Interrupted, Read, fixed_size_llseek, IoctlSeek, Return, Local, InCall
  <2>. QED  BY <2>1, LocalStep
<1>3. CASE aesd_size(p) \/ IoctlSum(p)
  <2>1. PICK to \in {"llseek", "ioctl_sum"} : pc[p] = to /\ UNCHANGED pc
    BY <1>3 DEF aesd_size, IoctlSum
  <2>2. pc' = [pc EXCEPT ![p] = to]
    BY <1>1, <2>1
  <2>3. loaded /\ Local(p, to)
    BY <1>1, <1>3, <2>1, <2>2 DEF aesd_size, IoctlSum, Local, InCall
  <2>. QED  BY <2>3, LocalStep
<1>4. CASE IoctlCheck(p)
  <2>1. loaded /\ (Local(p, "ioctl_sum") \/ Local(p, "idle"))
    BY <1>1, <1>4 DEF IoctlCheck, Return, Local, InCall
  <2>. QED  BY <2>1, LocalStep
<1>. QED  BY <1>2, <1>3, <1>4

(* Taking the lock: aesd_write up to its loop, and the two ways it fails.  *)
LEMMA GatheredType == TypeOK => Gathered \in Seq(Byte)
BY BytesAssumption DEF TypeOK, Gathered

LEMMA WriteAppendStep ==
  ASSUME DriverInv, NEW p \in Proc, WriteAppend(p)
  PROVE  DriverInv'
<1> DEFINE size == incomplete_command_size + Len(frame[p].buf)
<1>1. /\ pc[p] = "write" /\ lock = NoProc /\ lock' = p /\ loaded
      /\ pc \in [Proc -> InCall \cup {"closed", "idle", "oops"}]
      /\ frame[p] \in WriteFrame
      /\ DOMAIN frame = Proc
  BY DEF WriteAppend, Unlocked, DriverInv, TypeOK, Unloaded
<1>2. \A q \in Proc : pc'[q] = IF q = p THEN "write_loop" ELSE pc[q]
  BY <1>1 DEF WriteAppend
<1>3. /\ frame[p].buf \in Seq(Byte)
      /\ size \in Nat
  BY <1>1 DEF WriteFrame, DriverInv, TypeOK
<1>4. /\ DOMAIN frame' = Proc
      /\ \A q \in Proc \ {p} : frame'[q] = frame[q]
      /\ frame'[p] \in WriteFrame
  <2>1. frame' = [frame EXCEPT ![p].read_size = size]
    BY DEF WriteAppend
  <2>2. frame'[p] = [frame[p] EXCEPT !.read_size = size]
    BY <1>1, <2>1
  <2>3. frame'[p] \in WriteFrame
    BY <1>1, <1>3, <2>2 DEF WriteFrame
  <2>. QED  BY <1>1, <2>1, <2>3
<1>5. /\ incomplete_command_buffer' \in Seq(Byte)
      /\ incomplete_command_size' \in Nat
  BY <1>3, GatheredType DEF WriteAppend, DriverInv
<1>6. /\ blocks' = 1 + Held(circular_buffer)
      /\ blocks' \in Nat
  <2>1. Held(circular_buffer) \in 0 .. AESDCHAR_MAX_WRITE_OPERATIONS_SUPPORTED
    BY <1>1, HeldValue DEF DriverInv, TypeOK, RingInv
  <2>2. Held(circular_buffer) \in Nat /\ Owned(incomplete_command_buffer) \in Nat
    BY <2>1 DEF Owned
  <2>3. blocks = Owned(incomplete_command_buffer) + Held(circular_buffer)
    BY <1>1 DEF DriverInv, BlocksAccounted
  <2>4. blocks' = blocks + 1 - Owned(incomplete_command_buffer)
    BY DEF WriteAppend
  <2>. QED  BY <2>2, <2>3, <2>4
<1>7. UNCHANGED <<loaded, circular_buffer>>
  BY DEF WriteAppend
<1>8. TypeOK'
  <2>1. /\ pc' \in [Proc -> InCall \cup {"closed", "idle", "oops"}]
        /\ \A q \in Proc :
             pc'[q] \in {"write", "write_loop"} => frame'[q] \in WriteFrame
    BY <1>1, <1>2, <1>4 DEF WriteAppend, DriverInv, TypeOK, InCall
  <2>. QED  BY <1>1, <1>4, <1>5, <1>6, <1>7, <2>1 DEF DriverInv, TypeOK
<1>9. RingInv' /\ Unloaded' /\ LiveInLoop'
  BY <1>1, <1>5, <1>7 DEF DriverInv, RingInv, Unloaded, LiveInLoop
<1>10. MutexDiscipline'
  BY <1>1, <1>2, CallsAssumption DEF DriverInv, MutexDiscipline
<1>11. BlocksAccounted'
  <2>1. Owned(incomplete_command_buffer') = 1
    BY <1>5, BytesAssumption DEF Owned
  <2>. QED  BY <1>1, <1>6, <1>7, <2>1 DEF BlocksAccounted, Owned
<1>12. SizeMatches'
  <2>1. Len(Gathered \o frame[p].buf) = Len(Gathered) + Len(frame[p].buf)
    BY <1>3, GatheredType DEF DriverInv
  <2>2. Gathered' = incomplete_command_buffer'
    BY <1>5, BytesAssumption DEF Gathered
  <2>. QED  BY <2>1, <2>2 DEF WriteAppend, DriverInv, SizeMatches
<1>. QED  BY <1>8, <1>9, <1>10, <1>11, <1>12 DEF DriverInv

LEMMA WriteCopyFailsStep ==
  ASSUME DriverInv, NEW p \in Proc, WriteCopyFails(p)
  PROVE  DriverInv'
<1>1. /\ pc[p] = "write" /\ loaded
      /\ pc \in [Proc -> InCall \cup {"closed", "idle", "oops"}]
      /\ DOMAIN frame = Proc
      /\ UNCHANGED <<loaded, lock, circular_buffer, incomplete_command_size>>
      /\ lock = NoProc
  BY DEF WriteCopyFails, Unlocked, DriverInv, TypeOK, Unloaded
<1>2. \A q \in Proc : pc'[q] = IF q = p THEN "idle" ELSE pc[q]
  BY <1>1 DEF WriteCopyFails, Return
<1>3. /\ pc' \in [Proc -> InCall \cup {"closed", "idle", "oops"}]
      /\ DOMAIN frame' = Proc
      /\ \A q \in Proc :
           pc'[q] \in {"write", "write_loop"} => frame'[q] \in WriteFrame
  BY <1>1, <1>2 DEF WriteCopyFails, Return, DriverInv, TypeOK
<1>4. /\ incomplete_command_buffer' \in {NULL, FREED}
      /\ Owned(incomplete_command_buffer') = 0
  BY DEF WriteCopyFails, Owned
<1>5. blocks' = Held(circular_buffer) /\ blocks' \in Nat
  <2>1. Held(circular_buffer) \in 0 .. AESDCHAR_MAX_WRITE_OPERATIONS_SUPPORTED
    BY <1>1, HeldValue DEF DriverInv, TypeOK, RingInv
  <2>2. Held(circular_buffer) \in Nat /\ Owned(incomplete_command_buffer) \in Nat
    BY <2>1 DEF Owned
  <2>3. blocks = Owned(incomplete_command_buffer) + Held(circular_buffer)
    BY <1>1 DEF DriverInv, BlocksAccounted
  <2>4. blocks' = blocks - Owned(incomplete_command_buffer)
    BY DEF WriteCopyFails
  <2>. QED  BY <2>2, <2>3, <2>4
<1>6. TypeOK'
  BY <1>1, <1>3, <1>4, <1>5 DEF DriverInv, TypeOK
<1>7. RingInv' /\ Unloaded'
  BY <1>1 DEF DriverInv, RingInv, Unloaded
<1>8. BlocksAccounted'
  <2>1. Held(circular_buffer) \in 0 .. AESDCHAR_MAX_WRITE_OPERATIONS_SUPPORTED
    BY <1>1, HeldValue DEF DriverInv, TypeOK, RingInv
  <2>. QED  BY <1>1, <1>4, <1>5, <2>1 DEF BlocksAccounted, Owned
<1>9. MutexDiscipline'
  BY <1>1, <1>2 DEF DriverInv, MutexDiscipline
<1>10. LiveInLoop'
  BY <1>1, <1>2, CallsAssumption DEF DriverInv, MutexDiscipline, LiveInLoop
<1>11. SizeMatches'
  <2>1. CASE incomplete_command_buffer = NULL
    BY <1>1, <2>1 DEF WriteCopyFails, DriverInv, SizeMatches, Gathered
  <2>2. CASE incomplete_command_buffer # NULL
    <3>1. Gathered' = [i \in 1 .. incomplete_command_size |-> Junk]
      BY <1>1, <2>2, BytesAssumption DEF WriteCopyFails, Gathered
    <3>2. incomplete_command_size \in Nat
      BY DEF DriverInv, TypeOK
    <3>. QED  BY <1>1, <3>1, <3>2 DEF SizeMatches
  <2>. QED  BY <2>1, <2>2
<1>. QED  BY <1>6, <1>7, <1>8, <1>9, <1>10, <1>11 DEF DriverInv

LEMMA WriteAppendOopsStep ==
  ASSUME DriverInv, NEW p \in Proc, WriteAppendOops(p)
  PROVE  DriverInv'
<1>1. /\ pc[p] = "write" /\ loaded /\ lock = NoProc /\ lock' = p
      /\ pc \in [Proc -> InCall \cup {"closed", "idle", "oops"}]
      /\ DOMAIN frame = Proc
      /\ UNCHANGED <<loaded, device>>
  BY DEF WriteAppendOops, Unlocked, DriverInv, TypeOK, Unloaded
<1>2. \A q \in Proc : pc'[q] = IF q = p THEN "oops" ELSE pc[q]
  BY <1>1 DEF WriteAppendOops, Oops
<1>3. /\ pc' \in [Proc -> InCall \cup {"closed", "idle", "oops"}]
      /\ DOMAIN frame' = Proc
      /\ \A q \in Proc :
           pc'[q] \in {"write", "write_loop"} => frame'[q] \in WriteFrame
  BY <1>1, <1>2 DEF WriteAppendOops, Oops, DriverInv, TypeOK
<1>4. TypeOK'
  BY <1>1, <1>3 DEF DriverInv, TypeOK, device
<1>5. RingInv' /\ Unloaded' /\ BlocksAccounted' /\ SizeMatches'
  BY <1>1 DEF DriverInv, RingInv, Unloaded, BlocksAccounted, SizeMatches, Gathered,
              device
<1>6. MutexDiscipline'
  BY <1>1, <1>2, CallsAssumption DEF DriverInv, MutexDiscipline
<1>7. LiveInLoop'
  BY <1>1, <1>2 DEF DriverInv, LiveInLoop, device
<1>. QED  BY <1>4, <1>5, <1>6, <1>7 DEF DriverInv

-----------------------------------------------------------------------------
(* What a writer in its loop may rely on.                                  *)
LEMMA InLoop ==
  ASSUME DriverInv, NEW p \in Proc, pc[p] = "write_loop"
  PROVE  /\ loaded
         /\ lock = p
         /\ pc \in [Proc -> InCall \cup {"closed", "idle", "oops"}]
         /\ DOMAIN frame = Proc
         /\ frame[p] \in WriteFrame
         /\ incomplete_command_buffer \in Seq(Byte)
         /\ incomplete_command_size \in Nat
         /\ incomplete_command_size = Len(incomplete_command_buffer)
         /\ Owned(incomplete_command_buffer) = 1
         /\ IsBuffer(circular_buffer, Entries)
         /\ RingShape(circular_buffer, Entries)
         /\ blocks = 1 + Held(circular_buffer)
         /\ Held(circular_buffer) \in Nat
<1>1. loaded /\ incomplete_command_buffer \in Seq(Byte)
  BY DEF DriverInv, Unloaded, LiveInLoop
<1>2. Owned(incomplete_command_buffer) = 1
  BY <1>1, BytesAssumption DEF Owned
<1>3. IsBuffer(circular_buffer, Entries) /\ RingShape(circular_buffer, Entries)
  BY <1>1 DEF DriverInv, TypeOK, RingInv
<1>4. Held(circular_buffer) \in Nat
  <2>1. Held(circular_buffer) \in 0 .. AESDCHAR_MAX_WRITE_OPERATIONS_SUPPORTED
    BY <1>3, HeldValue
  <2>. QED  BY <2>1
<1>5. blocks = 1 + Held(circular_buffer)
  BY <1>1, <1>2 DEF DriverInv, BlocksAccounted
<1>6. incomplete_command_size = Len(incomplete_command_buffer)
  BY <1>1, BytesAssumption DEF DriverInv, SizeMatches, Gathered
<1>. QED
  BY <1>1, <1>2, <1>3, <1>4, <1>5, <1>6 DEF DriverInv, TypeOK, MutexDiscipline

(* Leaving the loop: back to the user with the lock released, or dead with *)
(* the lock held; blocks are freed as the incomplete command is given up.  *)
LEMMA LeaveLoop ==
  ASSUME DriverInv, NEW p \in Proc, pc[p] = "write_loop",
         \/ Return(p) /\ lock' = NoProc
         \/ Oops(p) /\ lock' = lock,
         UNCHANGED <<loaded, circular_buffer>>,
         incomplete_command_buffer' \in Seq(Byte) \cup {NULL},
         incomplete_command_size' \in Nat,
         incomplete_command_size' = IF incomplete_command_buffer' = NULL THEN 0
                                    ELSE Len(incomplete_command_buffer'),
         blocks' = blocks - 1 + Owned(incomplete_command_buffer')
  PROVE  DriverInv'
<1>1. PICK to \in {"idle", "oops"} :
         /\ pc' = [pc EXCEPT ![p] = to]
         /\ lock' = IF to = "idle" THEN NoProc ELSE lock
         /\ frame' = [frame EXCEPT ![p] = NoFrame]
  BY DEF Return, Oops
<1>2. /\ loaded /\ lock = p
      /\ pc \in [Proc -> InCall \cup {"closed", "idle", "oops"}]
      /\ DOMAIN frame = Proc
      /\ blocks = 1 + Held(circular_buffer)
      /\ Held(circular_buffer) \in Nat
  BY InLoop
<1>3. \A q \in Proc : pc'[q] = IF q = p THEN to ELSE pc[q]
  BY <1>1, <1>2
<1>4. /\ blocks' = Owned(incomplete_command_buffer') + Held(circular_buffer)
      /\ blocks' \in Nat
  <2>1. Owned(incomplete_command_buffer') \in Nat
    BY DEF Owned
  <2>. QED  BY <1>2, <2>1
<1>5. TypeOK'
  <2>1. pc' \in [Proc -> InCall \cup {"closed", "idle", "oops"}]
    BY <1>1, <1>2
  <2>2. DOMAIN frame' = Proc /\ \A q \in Proc \ {p} : frame'[q] = frame[q]
    BY <1>1, <1>2
  <2>3. \A q \in Proc : pc'[q] \in {"write", "write_loop"} => frame'[q] \in WriteFrame
    BY <1>3, <2>2 DEF DriverInv, TypeOK
  <2>4. lock' \in Proc \cup {NoProc}
    BY <1>1, <1>2
  <2>. QED  BY <1>4, <2>1, <2>2, <2>3, <2>4 DEF DriverInv, TypeOK
<1>6. RingInv' /\ Unloaded'
  BY <1>2 DEF DriverInv, RingInv, Unloaded
<1>7. BlocksAccounted'
  BY <1>2, <1>4 DEF BlocksAccounted, Owned
<1>8. MutexDiscipline'
  BY <1>1, <1>2, <1>3, CallsAssumption DEF DriverInv, MutexDiscipline
<1>9. LiveInLoop'
  BY <1>2, <1>3 DEF DriverInv, MutexDiscipline, LiveInLoop
<1>10. SizeMatches'
  BY BytesAssumption DEF SizeMatches, Gathered
<1>. QED  BY <1>5, <1>6, <1>7, <1>8, <1>9, <1>10 DEF DriverInv

LEMMA LeaveSteps ==
  ASSUME DriverInv, NEW p \in Proc,
         WriteCommandFails(p) \/ WriteFinish(p) \/ WriteFinishFails(p)
  PROVE  DriverInv'
<1>1. /\ pc[p] = "write_loop"
      /\ UNCHANGED <<loaded, circular_buffer>>
      /\ \/ Return(p) /\ lock' = NoProc
         \/ Oops(p) /\ lock' = lock
  BY DEF WriteCommandFails, WriteFinish, WriteFinishFails, Unlock, device
<1>2. /\ incomplete_command_buffer \in Seq(Byte)
      /\ incomplete_command_size \in Nat
      /\ incomplete_command_size = Len(incomplete_command_buffer)
      /\ Owned(incomplete_command_buffer) = 1
      /\ frame[p] \in WriteFrame
      /\ blocks \in Nat
  BY <1>1, InLoop DEF DriverInv, TypeOK
<1>3. CASE UNCHANGED <<incomplete_command_buffer, incomplete_command_size, blocks>>
  <2>1. /\ incomplete_command_buffer' # NULL
        /\ Owned(incomplete_command_buffer') = 1
    BY <1>2, <1>3, BytesAssumption DEF Owned
  <2>. QED  BY <1>1, <1>2, <1>3, <2>1, LeaveLoop
<1>4. CASE KeepRemaining(p)
  <2> DEFINE remaining == SubSeq(incomplete_command_buffer,
                            frame[p].cmd_start + 1, incomplete_command_size)
  <2>1. CASE ~ frame[p].cmd_start < incomplete_command_size
    <3>1. Owned(NULL) = 0
      BY DEF Owned
    <3>2. /\ incomplete_command_buffer' = NULL
          /\ incomplete_command_size' = 0
          /\ blocks' = blocks - 1
      BY <1>2, <1>4, <2>1 DEF KeepRemaining, KeepNothing
    <3>. QED  BY <1>1, <1>2, <3>1, <3>2, LeaveLoop
  <2>2. CASE frame[p].cmd_start < incomplete_command_size
    <3>1. frame[p].cmd_start \in Nat
      BY <1>2 DEF WriteFrame
    <3>2. remaining \in Seq(Byte) /\ Len(remaining) \in Nat
      BY <1>2, <2>2, <3>1
    <3>3. Owned(remaining) = 1 /\ remaining # NULL
      BY <3>2, BytesAssumption DEF Owned
    <3>4. /\ incomplete_command_buffer' = remaining
          /\ incomplete_command_size' = Len(remaining)
          /\ blocks' = blocks + 1 - Owned(incomplete_command_buffer)
      BY <1>4, <2>2 DEF KeepRemaining
    <3>5. blocks' = blocks - 1 + 1
      BY <1>2, <3>4
    <3>. HIDE DEF remaining
    <3>. QED  BY <1>1, <3>2, <3>3, <3>4, <3>5, LeaveLoop
  <2>. QED  BY <2>1, <2>2
<1>. QED
  BY <1>3, <1>4 DEF WriteCommandFails, WriteFinish, WriteFinishFails, device

(* One round of the loop: what is added is an entry of bytes, and a block  *)
(* is freed exactly when the ring was full.                                *)
LEMMA WriteCommandStep ==
  ASSUME DriverInv, NEW p \in Proc, WriteCommand(p)
  PROVE  DriverInv'
<1>1. /\ pc[p] = "write_loop"
      /\ UNCHANGED <<loaded, lock, incomplete_command_buffer,
                     incomplete_command_size, pc>>
  BY DEF WriteCommand, Rest
<1>2. /\ loaded
      /\ DOMAIN frame = Proc
      /\ frame[p] \in WriteFrame
      /\ incomplete_command_buffer \in Seq(Byte)
      /\ Owned(incomplete_command_buffer) = 1
      /\ IsBuffer(circular_buffer, Entries)
      /\ RingShape(circular_buffer, Entries)
      /\ blocks = 1 + Held(circular_buffer)
      /\ Held(circular_buffer) \in Nat
  BY <1>1, InLoop
<1>3. PICK cmd_break \in Breaks(p) :
        /\ circular_buffer' = AddEntry(circular_buffer,
             [buffptr |-> Subcmd(p, cmd_break), size |-> cmd_break + 1])
        /\ blocks' = blocks + 1 - Owned(Overwritten(circular_buffer))
        /\ frame' = [frame EXCEPT
             ![p].cmd_start = cmd_break + 1,
             ![p].read_size = IF cmd_break + 1 > frame[p].read_size
                                THEN 0 ELSE frame[p].read_size - (cmd_break + 1)]
  BY DEF WriteCommand, Rest
<1>4. /\ cmd_break \in Nat
      /\ frame[p].cmd_start \in Nat
      /\ frame[p].read_size \in Nat
  BY <1>2 DEF Breaks, WriteFrame
<1> DEFINE e == [buffptr |-> Subcmd(p, cmd_break), size |-> cmd_break + 1]
<1>5. e \in Entries
  <2>1. \A i \in 1 .. cmd_break + 1 :
           frame[p].cmd_start + i <= Len(incomplete_command_buffer) =>
             incomplete_command_buffer[frame[p].cmd_start + i] \in Byte
    BY <1>2, <1>4
  <2>2. Subcmd(p, cmd_break) \in [1 .. cmd_break + 1 -> Byte]
    BY <2>1, BytesAssumption DEF Subcmd
  <2>3. cmd_break + 1 \in Nat
    BY <1>4
  <2>4. Subcmd(p, cmd_break) \in Seq(Byte)
    BY <2>2, <2>3
  <2>. QED  BY <2>3, <2>4 DEF Entries
<1>6. /\ IsBuffer(circular_buffer', Entries)
      /\ RingShape(circular_buffer', Entries)
  BY <1>2, <1>3, <1>5, AddKeepsShape
<1>7. /\ DOMAIN frame' = Proc
      /\ \A q \in Proc \ {p} : frame'[q] = frame[q]
      /\ frame'[p] \in WriteFrame
  <2> DEFINE rest == IF cmd_break + 1 > frame[p].read_size
                       THEN 0 ELSE frame[p].read_size - (cmd_break + 1)
  <2>1. rest \in Nat /\ cmd_break + 1 \in Nat
    BY <1>4
  <2>2. frame' = [frame EXCEPT ![p].cmd_start = cmd_break + 1, ![p].read_size = rest]
    BY <1>3
  <2> HIDE DEF rest
  <2>3. frame'[p] = [frame[p] EXCEPT !.cmd_start = cmd_break + 1, !.read_size = rest]
    BY <1>2, <2>2
  <2>4. frame'[p] \in WriteFrame
    BY <1>2, <2>1, <2>3 DEF WriteFrame
  <2>. QED  BY <1>2, <2>2, <2>4
<1>8. /\ blocks' = 1 + Held(circular_buffer')
      /\ blocks' \in Nat
  <2>1. /\ Held(circular_buffer') = IF circular_buffer.full
                                      THEN Held(circular_buffer)
                                      ELSE Held(circular_buffer) + 1
        /\ Owned(Overwritten(circular_buffer)) =
             IF circular_buffer.full THEN 1 ELSE 0
    BY <1>2, <1>3, <1>5, AddHeld
  <2>. QED  BY <1>2, <1>3, <2>1
<1>9. TypeOK'
  <2>1. \A q \in Proc : pc'[q] \in {"write", "write_loop"} => frame'[q] \in WriteFrame
    BY <1>1, <1>7 DEF DriverInv, TypeOK
  <2>. QED  BY <1>1, <1>6, <1>7, <1>8, <2>1 DEF DriverInv, TypeOK
<1>10. RingInv' /\ Unloaded' /\ MutexDiscipline' /\ LiveInLoop'
  BY <1>1, <1>2, <1>6
     DEF DriverInv, RingInv, Unloaded, MutexDiscipline, LiveInLoop
<1>11. BlocksAccounted'
  BY <1>1, <1>2, <1>8 DEF BlocksAccounted, Owned
<1>12. SizeMatches'
  BY <1>1 DEF DriverInv, SizeMatches, Gathered
<1>. QED  BY <1>9, <1>10, <1>11, <1>12 DEF DriverInv

LEMMA DriverInvStep == DriverInv /\ [Next]_vars => DriverInv'
<1> SUFFICES ASSUME DriverInv, [Next]_vars
             PROVE  DriverInv'
  OBVIOUS
<1>1. ASSUME NEW p \in Proc,
             Begin(p) \/ Interrupted(p) \/ Locks(p) \/ Continues(p)
      PROVE  DriverInv'
  BY <1>1, BeginSteps, OutsideSteps, WriteAppendStep, WriteCopyFailsStep,
     WriteAppendOopsStep, WriteCommandStep, LeaveSteps DEF Locks, Continues
<1>2. CASE UNCHANGED vars
  BY <1>2 DEF vars, device, DriverInv, TypeOK, RingInv, MutexDiscipline,
              BlocksAccounted, SizeMatches, Gathered, Unloaded, LiveInLoop
<1>. QED  BY <1>1, <1>2, InitModuleStep, CleanupModuleStep DEF Next

LEMMA DriverInvariant == Spec => []DriverInv
BY DriverInvInit, DriverInvStep, PTL DEF Spec

-----------------------------------------------------------------------------
(* The fields of struct aesd_dev and the locals of aesd_write are always   *)
(* of their types.                                                         *)
THEOREM DriverTypes == Spec => []TypeOK
<1>1. DriverInv => TypeOK
  BY DEF DriverInv
<1>. QED  BY <1>1, DriverInvariant, PTL

(* main.c keeps the ring of aesd-circular-buffer.c well shaped, whatever   *)
(* calls interleave and whichever of them fail.                            *)
THEOREM DriverRing == Spec => []RingInv
<1>1. DriverInv => RingInv
  BY DEF DriverInv
<1>. QED  BY <1>1, DriverInvariant, PTL

(* dev->lock is held exactly by the one process inside aesd_write's        *)
(* critical section, or by one that died there.                            *)
THEOREM DriverLocks == Spec => []MutexDiscipline
<1>1. DriverInv => MutexDiscipline
  BY DEF DriverInv
<1>. QED  BY <1>1, DriverInvariant, PTL

(* aesd_write and aesd_cleanup_module free every block they allocated, and *)
(* count none as theirs that they freed.                                   *)
THEOREM DriverMemory == Spec => []BlocksAccounted
<1>1. DriverInv => BlocksAccounted
  BY DEF DriverInv
<1>. QED  BY <1>1, DriverInvariant, PTL

(* incomplete_command_size always is the length of what the next write     *)
(* copies.                                                                 *)
THEOREM DriverSizes == Spec => []SizeMatches
<1>1. DriverInv => SizeMatches
  BY DEF DriverInv
<1>. QED  BY <1>1, DriverInvariant, PTL

-----------------------------------------------------------------------------
(* The locals of the calls that work without the lock.                     *)
CallTyped(p) ==
  /\ f_pos[p] \in Nat
  /\ pc[p] = "read" => frame[p] \in [count : Nat]
  /\ pc[p] = "llseek" =>
       frame[p] \in [whence : {"SEEK_SET", "SEEK_CUR", "SEEK_END"}, off : Int,
                     index : 0 .. MaxOps, bytes : Nat]
  /\ pc[p] \in {"ioctl", "ioctl_sum"} =>
       frame[p] \in [write_cmd : Nat, write_cmd_offset : Nat,
                     index : Nat, calculated_offset : Nat]
  /\ pc[p] = "ioctl" => frame[p].index = 0 /\ frame[p].calculated_offset = 0
  /\ pc[p] = "ioctl_sum" =>
       frame[p].write_cmd \in Slots /\ frame[p].index <= frame[p].write_cmd

(* What they have added up so far is right for the ring as it is now: up   *)
(* to date for a seek to a command, at most too small for llseek.          *)
UpToDate(p) ==
  /\ pc[p] # "closed" => f_pos[p] <= Passed(circular_buffer)[circular_buffer.in_offs]
  /\ pc[p] = "llseek" => frame[p].bytes <= Passed(circular_buffer)[frame[p].index]
  /\ pc[p] = "ioctl_sum" =>
       /\ frame[p].write_cmd < circular_buffer.in_offs
       /\ frame[p].write_cmd_offset < circular_buffer.entry[frame[p].write_cmd].size
       /\ frame[p].calculated_offset = Passed(circular_buffer)[frame[p].index]

Filling == loaded /\ ~ circular_buffer.full

PositionInv ==
  /\ DOMAIN f_pos = Proc
  /\ \A p \in Proc : CallTyped(p)
  /\ Filling => \A p \in Proc : UpToDate(p)
  /\ loaded => \A i \in Slots : circular_buffer.entry[i] \in Entries =>
       circular_buffer.entry[i].size = Len(circular_buffer.entry[i].buffptr)

LEMMA PositionInit == Init => PositionInv
<1> SUFFICES ASSUME Init
             PROVE  PositionInv
  OBVIOUS
<1>. QED  BY DEF Init, PositionInv, CallTyped, Filling

(* A step of one process that leaves the ring alone.                       *)
LEMMA QuietStep ==
  ASSUME PositionInv, NEW p \in Proc,
         UNCHANGED <<loaded, circular_buffer>>,
         DOMAIN f_pos' = Proc,
         \A q \in Proc \ {p} : /\ pc'[q] = pc[q]
                               /\ frame'[q] = frame[q]
                               /\ f_pos'[q] = f_pos[q],
         CallTyped(p)',
         Filling => UpToDate(p)'
  PROVE  PositionInv'
<1>1. \A q \in Proc : CallTyped(q)'
  BY DEF PositionInv, CallTyped
<1>2. Filling' => \A q \in Proc : UpToDate(q)'
  BY DEF PositionInv, UpToDate, Filling
<1>. QED  BY <1>1, <1>2 DEF PositionInv

(* What the driver's invariant says of the ring while a file is open.      *)
LEMMA OpenRing ==
  ASSUME DriverInv, loaded
  PROVE  /\ IsBuffer(circular_buffer, Entries)
         /\ RingShape(circular_buffer, Entries)
         /\ circular_buffer.out_offs \in Slots
         /\ circular_buffer.in_offs \in Slots
         /\ \A i \in Slots : circular_buffer.entry[i] \in Entries \cup {EmptyEntry}
         /\ \A i \in Slots : circular_buffer.entry[i].size \in Nat
         /\ Passed(circular_buffer) \in [0 .. MaxOps -> Nat]
         /\ MaxOps \in Nat \ {0}
         /\ Slots = 0 .. MaxOps - 1
<1>1. IsBuffer(circular_buffer, Entries) /\ RingShape(circular_buffer, Entries)
  BY DEF DriverInv, TypeOK, RingInv
<1>2. /\ circular_buffer.out_offs \in Slots
      /\ circular_buffer.in_offs \in Slots
      /\ \A i \in Slots : circular_buffer.entry[i] \in Entries \cup {EmptyEntry}
  BY <1>1 DEF IsBuffer
<1>3. \A i \in Slots : circular_buffer.entry[i].size \in Nat
  BY <1>2 DEF Entries, EmptyEntry
<1>4. MaxOps \in Nat \ {0} /\ Slots = 0 .. MaxOps - 1
  BY SlotsAssumption DEF MaxOps, Slots
<1>. QED  BY <1>1, <1>2, <1>3, <1>4, PassedValue

LEMMA PositionModule ==
  ASSUME DriverInv, PositionInv, aesd_init_module \/ aesd_cleanup_module
  PROVE  PositionInv'
<1>1. /\ \A p \in Proc : pc[p] = "closed"
      /\ UNCHANGED <<pc, frame, f_pos>>
  BY DEF DriverInv, Unloaded, aesd_init_module, aesd_cleanup_module
<1>2. loaded' => circular_buffer' = aesd_circular_buffer_init
  BY DEF aesd_init_module, aesd_cleanup_module
<1>3. DOMAIN f_pos' = Proc /\ \A p \in Proc : CallTyped(p)' /\ UpToDate(p)' 
  <2>1. \A p \in Proc : f_pos[p] \in Nat
    BY DEF PositionInv, CallTyped
  <2>. QED  BY <1>1, <2>1 DEF PositionInv, CallTyped, UpToDate
<1>4. loaded' => \A i \in Slots : circular_buffer'.entry[i] \notin Entries
  BY <1>2, BytesAssumption DEF aesd_circular_buffer_init, EmptyEntry, Entries
<1>. QED  BY <1>3, <1>4 DEF PositionInv

(* Opening, closing and starting a call.                                   *)
LEMMA PositionBegin ==
  ASSUME DriverInv, PositionInv, NEW p \in Proc, Begin(p)
  PROVE  PositionInv'
<1> DEFINE in == circular_buffer.in_offs
<1>1. /\ UNCHANGED <<loaded, circular_buffer>>
      /\ loaded
      /\ DOMAIN frame = Proc /\ DOMAIN f_pos = Proc
      /\ pc \in [Proc -> InCall \cup {"closed", "idle", "oops"}]
      /\ f_pos[p] \in Nat
  BY DEF Begin, aesd_open, aesd_release, BeginWrite, BeginRead, BeginLlseek,
         BeginIoctl, Call, Return, device, DriverInv, TypeOK, Unloaded,
         PositionInv, CallTyped
<1>2. /\ 0 <= Passed(circular_buffer)[in]
      /\ 0 <= Passed(circular_buffer)[0]
      /\ 0 \in 0 .. MaxOps
  BY <1>1, OpenRing
<1>3. Filling /\ pc[p] # "closed" => f_pos[p] <= Passed(circular_buffer)[in]
  BY DEF PositionInv, UpToDate
<1>4. CASE aesd_open(p)
  <2>1. /\ pc' = [pc EXCEPT ![p] = "idle"]
        /\ f_pos' = [f_pos EXCEPT ![p] = 0]
        /\ frame' = frame
    BY <1>4 DEF aesd_open
  <2>2. CallTyped(p)' /\ UpToDate(p)'
    BY <1>1, <1>2, <2>1 DEF CallTyped, UpToDate
  <2>. QED  BY <1>1, <2>1, <2>2, QuietStep
<1>5. CASE aesd_release(p)
  <2>1. /\ pc' = [pc EXCEPT ![p] = "closed"]
        /\ f_pos' = [f_pos EXCEPT ![p] = 0]
        /\ frame' = frame
    BY <1>5 DEF aesd_release
  <2>2. CallTyped(p)' /\ UpToDate(p)'
    BY <1>1, <1>2, <2>1 DEF CallTyped, UpToDate
  <2>. QED  BY <1>1, <2>1, <2>2, QuietStep
<1>6. ASSUME NEW op \in {"read", "write", "llseek", "ioctl", "idle"}, NEW locals,
             pc[p] = "idle", f_pos' = f_pos,
             pc' = [pc EXCEPT ![p] = op],
             frame' = [frame EXCEPT ![p] = locals],
             op = "read" => locals \in [count : Nat],
             op = "llseek" =>
               /\ locals \in [whence : {"SEEK_SET", "SEEK_CUR", "SEEK_END"},
                              off : Int, index : 0 .. MaxOps, bytes : Nat]
               /\ locals.index = 0 /\ locals.bytes = 0,
             op = "ioctl" =>
               /\ locals \in [write_cmd : Nat, write_cmd_offset : Nat,
                              index : Nat, calculated_offset : Nat]
               /\ locals.index = 0 /\ locals.calculated_offset = 0
      PROVE  PositionInv'
  <2>1. pc'[p] = op /\ frame'[p] = locals /\ f_pos'[p] = f_pos[p]
    BY <1>1, <1>6
  <2>2. CallTyped(p)'
    BY <1>1, <1>6, <2>1 DEF CallTyped
  <2>3. Filling => UpToDate(p)'
    BY <1>1, <1>2, <1>3, <1>6, <2>1 DEF UpToDate
  <2>4. \A q \in Proc \ {p} : pc'[q] = pc[q] /\ frame'[q] = frame[q] /\ f_pos'[q] = f_pos[q]
    BY <1>1, <1>6
  <2>. QED  BY <1>1, <1>6, <2>2, <2>3, <2>4, QuietStep
<1>7. ASSUME NEW buf \in Inputs, BeginWrite(p, buf)
      PROVE  PositionInv'
  BY <1>6, <1>7 DEF BeginWrite, Call
<1>8. ASSUME NEW count \in Counts, BeginRead(p, count)
      PROVE  PositionInv'
  <2>1. [count |-> count] \in [count : Nat]
    BY CallsAssumption
  <2>. QED  BY <1>6, <1>8, <2>1 DEF BeginRead, Call, Return
<1>9. ASSUME NEW s \in SeekArgs, BeginLlseek(p, s[1], s[2])
      PROVE  PositionInv'
  <2> DEFINE locals == [whence |-> s[1], off |-> s[2], index |-> 0, bytes |-> 0]
  <2>1. /\ locals \in [whence : {"SEEK_SET", "SEEK_CUR", "SEEK_END"},
                       off : Int, index : 0 .. MaxOps, bytes : Nat]
        /\ locals.index = 0 /\ locals.bytes = 0
    BY <1>2, CallsAssumption
  <2>. QED  BY <1>6, <1>9, <2>1 DEF BeginLlseek, Call
<1>10. ASSUME NEW s \in SeekTos, BeginIoctl(p, s[1], s[2])
      PROVE  PositionInv'
  <2> DEFINE locals == [write_cmd |-> s[1], write_cmd_offset |-> s[2],
                        index |-> 0, calculated_offset |-> 0]
  <2>1. /\ locals \in [write_cmd : Nat, write_cmd_offset : Nat,
                       index : Nat, calculated_offset : Nat]
        /\ locals.index = 0 /\ locals.calculated_offset = 0
    BY CallsAssumption
  <2>. QED  BY <1>6, <1>10, <2>1 DEF BeginIoctl, Call
<1>. QED  BY <1>4, <1>5, <1>7, <1>8, <1>9, <1>10 DEF Begin

(* The steps of aesd_write but the one that adds a command.                *)
LEMMA PositionWrite ==
  ASSUME DriverInv, PositionInv, NEW p \in Proc,
         \/ WriteAppend(p) \/ WriteCopyFails(p) \/ WriteAppendOops(p)
         \/ WriteCommandFails(p) \/ WriteFinish(p) \/ WriteFinishFails(p)
  PROVE  PositionInv'
<1>1. /\ pc \in [Proc -> InCall \cup {"closed", "idle", "oops"}]
      /\ DOMAIN frame = Proc /\ DOMAIN f_pos = Proc
      /\ f_pos[p] \in Nat
  BY DEF DriverInv, TypeOK, PositionInv, CallTyped
<1>2. /\ UNCHANGED <<loaded, circular_buffer, f_pos>>
      /\ pc[p] \in {"write", "write_loop"}
      /\ \E to \in {"write_loop", "idle", "oops"} : pc' = [pc EXCEPT ![p] = to]
      /\ \E locals : frame' = [frame EXCEPT ![p] = locals]
  <2>1. CASE WriteAppend(p)
    BY <2>1 DEF WriteAppend
  <2>2. CASE WriteCopyFails(p)
    BY <2>2 DEF WriteCopyFails, Return
  <2>3. CASE WriteAppendOops(p)
    BY <2>3 DEF WriteAppendOops, Oops, device
  <2>4. CASE WriteCommandFails(p)
    BY <2>4 DEF WriteCommandFails, Return, Oops, device
  <2>5. CASE WriteFinish(p)
    BY <2>5 DEF WriteFinish, Return
  <2>6. CASE WriteFinishFails(p)
    BY <2>6 DEF WriteFinishFails, Return, Oops
  <2>. QED  BY <2>1, <2>2, <2>3, <2>4, <2>5, <2>6
<1>3. pc'[p] \in {"write_loop", "idle", "oops"} /\ f_pos' = f_pos
  BY <1>1, <1>2
<1>4. CallTyped(p)'
  BY <1>1, <1>3 DEF CallTyped
<1>5. Filling => UpToDate(p)'
  BY <1>2, <1>3 DEF UpToDate, PositionInv
<1>6. \A q \in Proc \ {p} : pc'[q] = pc[q] /\ frame'[q] = frame[q]
  BY <1>1, <1>2
<1>. QED  BY <1>1, <1>2, <1>4, <1>5, <1>6, QuietStep

(* A command is added: what the others have added up stays right.          *)
LEMMA PositionCommand ==
  ASSUME DriverInv, PositionInv, NEW p \in Proc, WriteCommand(p)
  PROVE  PositionInv'
<1>1. /\ pc[p] = "write_loop" /\ loaded
      /\ UNCHANGED <<loaded, pc, f_pos>>
      /\ DOMAIN frame = Proc
      /\ DOMAIN f_pos = Proc
  BY DEF WriteCommand, DriverInv, TypeOK, Unloaded, PositionInv
<1>2. /\ IsBuffer(circular_buffer, Entries)
      /\ RingShape(circular_buffer, Entries)
      /\ circular_buffer.in_offs \in Slots
      /\ MaxOps \in Nat \ {0} /\ Slots = 0 .. MaxOps - 1
      /\ circular_buffer.entry \in [Slots -> Entries \cup {EmptyEntry}]
      /\ incomplete_command_buffer \in Seq(Byte)
      /\ frame[p] \in WriteFrame
  BY <1>1, OpenRing, InLoop DEF IsBuffer
<1>3. PICK e \in Entries :
        /\ circular_buffer' = AddEntry(circular_buffer, e)
        /\ e.size = Len(e.buffptr)
  <2>1. PICK cmd_break \in Breaks(p) :
          circular_buffer' = AddEntry(circular_buffer,
             [buffptr |-> Subcmd(p, cmd_break), size |-> cmd_break + 1])
    BY DEF WriteCommand
  <2>2. cmd_break \in Nat /\ cmd_break + 1 \in Nat /\ frame[p].cmd_start \in Nat
    BY <1>2 DEF Breaks, WriteFrame
  <2>3. \A i \in 1 .. cmd_break + 1 :
           frame[p].cmd_start + i <= Len(incomplete_command_buffer) =>
             incomplete_command_buffer[frame[p].cmd_start + i] \in Byte
    BY <1>2, <2>2
  <2>4. Subcmd(p, cmd_break) \in [1 .. cmd_break + 1 -> Byte]
    BY <2>3, BytesAssumption DEF Subcmd
  <2>5. Subcmd(p, cmd_break) \in Seq(Byte) /\ Len(Subcmd(p, cmd_break)) = cmd_break + 1
    BY <2>2, <2>4
  <2> DEFINE e == [buffptr |-> Subcmd(p, cmd_break), size |-> cmd_break + 1]
  <2>6. e \in Entries /\ e.size = Len(e.buffptr)
    BY <2>2, <2>5 DEF Entries
  <2>. QED  BY <2>1, <2>6
<1>4. \A q \in Proc \ {p} : frame'[q] = frame[q]
  BY <1>1 DEF WriteCommand
<1>5. \A q \in Proc : CallTyped(q)'
  BY <1>1, <1>4 DEF PositionInv, CallTyped
<1>6. \A e2 \in Entries : e2.size \in Nat
  BY DEF Entries
<1> DEFINE old == circular_buffer
           new == circular_buffer'
<1>7. \A i \in Slots : new.entry[i] \in Entries => new.entry[i].size = Len(new.entry[i].buffptr)
  <2>1. new.entry = [old.entry EXCEPT ![old.in_offs] = e]
    BY <1>3 DEF AddEntry
  <2>. QED  BY <1>1, <1>2, <1>3, <2>1 DEF PositionInv
<1>8. ASSUME Filling'
      PROVE  \A q \in Proc : UpToDate(q)'
  <2>1. ~ old.full /\ ~ new.full /\ Filling
    BY <1>1, <1>3, <1>8 DEF Filling, AddEntry
  <2>2. /\ new.in_offs = old.in_offs + 1
        /\ \A i \in Slots : i < old.in_offs => new.entry[i] = old.entry[i]
        /\ \A k \in 0 .. MaxOps : Passed(old)[k] <= Passed(new)[k]
        /\ \A k \in 0 .. old.in_offs : Passed(old)[k] = Passed(new)[k]
    <3> DEFINE added == AddEntry(old, e)
    <3>1. new = added /\ ~ added.full
      BY <1>3, <2>1
    <3>3. /\ IsBuffer(old, Entries) /\ RingShape(old, Entries) /\ ~ old.full
          /\ e \in Entries
      BY <1>2, <2>1
    <3> HIDE DEF new, old
    <3>2. /\ ~ added.full => added.in_offs = old.in_offs + 1
          /\ \A i \in Slots : i < old.in_offs => added.entry[i] = old.entry[i]
          /\ \A k \in 0 .. MaxOps : Passed(old)[k] <= Passed(added)[k]
          /\ \A k \in 0 .. old.in_offs : Passed(old)[k] = Passed(added)[k]
      BY <1>6, <3>3, AddFilling
    <3> HIDE DEF added
    <3>. QED  BY <3>1, <3>2
  <2>3. /\ IsBuffer(new, Entries)
        /\ RingShape(new, Entries)
    BY <1>2, <1>3, AddKeepsShape
  <2>4. /\ Passed(old) \in [0 .. MaxOps -> Nat]
        /\ Passed(new) \in [0 .. MaxOps -> Nat]
    <3>1. /\ new.out_offs \in Slots /\ old.out_offs \in Slots
          /\ \A i \in Slots : new.entry[i].size \in Nat /\ old.entry[i].size \in Nat
      BY <1>2, <2>3 DEF IsBuffer, Entries, EmptyEntry
    <3> HIDE DEF old, new
    <3>. QED  BY <3>1, PassedValue
  <2>5. /\ old.in_offs \in Nat /\ new.in_offs \in Slots
        /\ old.in_offs \in 0 .. MaxOps /\ new.in_offs \in 0 .. MaxOps
    BY <1>2, <2>3 DEF IsBuffer
  <2>6. Passed(old)[old.in_offs] <= Passed(new)[new.in_offs]
    <3>1. Passed(new)[old.in_offs] <= Passed(new)[new.in_offs]
      <4>1. \A i \in Slots : new.entry[i].size \in Nat
        BY <2>3 DEF IsBuffer, Entries, EmptyEntry
      <4> HIDE DEF old, new
      <4>. QED  BY <2>1, <2>3, <2>5, <4>1, PassedFilling
    <3>2. Passed(old)[old.in_offs] = Passed(new)[old.in_offs]
      BY <2>2, <2>5
    <3>. QED  BY <3>1, <3>2
  <2> HIDE DEF old, new
  <2> SUFFICES ASSUME NEW q \in Proc
               PROVE  UpToDate(q)'
    OBVIOUS
  <2>7. UpToDate(q) /\ CallTyped(q) /\ (pc[q] # "write_loop" => frame'[q] = frame[q])
    BY <1>1, <1>4, <2>1 DEF PositionInv
  <2>8. pc[q] # "closed" => f_pos[q] <= Passed(new)[new.in_offs]
    <3>1. /\ Passed(old)[old.in_offs] \in Nat
          /\ Passed(new)[new.in_offs] \in Nat
          /\ f_pos[q] \in Nat
      BY <2>4, <2>5, <2>7 DEF CallTyped
    <3>. QED  BY <2>6, <2>7, <3>1 DEF UpToDate, old
  <2>9. pc[q] = "llseek" => frame[q].bytes <= Passed(new)[frame[q].index]
    <3> SUFFICES ASSUME pc[q] = "llseek"
                 PROVE  frame[q].bytes <= Passed(new)[frame[q].index]
      OBVIOUS
    <3>1. frame[q].index \in 0 .. MaxOps /\ frame[q].bytes \in Nat
      BY <2>7 DEF CallTyped
    <3>2. frame[q].bytes <= Passed(old)[frame[q].index]
      BY <2>7 DEF UpToDate, old
    <3>3. Passed(old)[frame[q].index] <= Passed(new)[frame[q].index]
      BY <2>2, <3>1
    <3>4. Passed(old)[frame[q].index] \in Nat /\ Passed(new)[frame[q].index] \in Nat
      BY <2>4, <3>1
    <3>. QED  BY <3>1, <3>2, <3>3, <3>4
  <2>10. pc[q] = "ioctl_sum" =>
           /\ frame[q].write_cmd < new.in_offs
           /\ frame[q].write_cmd_offset < new.entry[frame[q].write_cmd].size
           /\ frame[q].calculated_offset = Passed(new)[frame[q].index]
    <3> SUFFICES ASSUME pc[q] = "ioctl_sum"
                 PROVE  /\ frame[q].write_cmd < new.in_offs
                        /\ frame[q].write_cmd_offset < new.entry[frame[q].write_cmd].size
                        /\ frame[q].calculated_offset = Passed(new)[frame[q].index]
      OBVIOUS
    <3>1. /\ frame[q].write_cmd \in Slots /\ frame[q].write_cmd \in Nat
          /\ frame[q].index \in Nat /\ frame[q].index <= frame[q].write_cmd
      BY <1>2, <2>7 DEF CallTyped
    <3>2. /\ frame[q].write_cmd < old.in_offs
          /\ frame[q].write_cmd_offset < old.entry[frame[q].write_cmd].size
          /\ frame[q].calculated_offset = Passed(old)[frame[q].index]
      BY <2>7 DEF UpToDate, old
    <3>3. frame[q].write_cmd < new.in_offs /\ frame[q].index \in 0 .. old.in_offs
      BY <2>2, <2>5, <3>1, <3>2
    <3>. QED  BY <2>2, <3>1, <3>2, <3>3
  <2>. QED  BY <1>1, <2>7, <2>8, <2>9, <2>10 DEF UpToDate, new
<1>. QED  BY <1>1, <1>5, <1>7, <1>8 DEF PositionInv

(* A read ends within the command it reads.                                *)
LEMMA PositionRead ==
  ASSUME DriverInv, PositionInv, NEW p \in Proc, Read(p)
  PROVE  PositionInv'
<1> DEFINE buffer == circular_buffer
           passed == Passed(buffer)
           found  == FindEntryOffset(buffer, f_pos[p])
           left   == buffer.entry[found.slot].size - found.offset
           n      == IF frame[p].count < left THEN frame[p].count ELSE left
<1>1. /\ pc[p] = "read" /\ loaded
      /\ UNCHANGED <<loaded, circular_buffer>>
      /\ pc' = [pc EXCEPT ![p] = "idle"]
      /\ frame' = [frame EXCEPT ![p] = NoFrame]
      /\ pc \in [Proc -> InCall \cup {"closed", "idle", "oops"}]
      /\ DOMAIN frame = Proc
      /\ DOMAIN f_pos = Proc
      /\ f_pos[p] \in Nat
      /\ frame[p].count \in Nat
  BY DEF Read, Return, device, DriverInv, TypeOK, Unloaded, PositionInv, CallTyped
<1>2. /\ buffer.out_offs \in Slots
      /\ \A i \in Slots : buffer.entry[i].size \in Nat
      /\ passed \in [0 .. MaxOps -> Nat]
      /\ MaxOps \in Nat \ {0} /\ Slots = 0 .. MaxOps - 1
  BY <1>1, OpenRing
<1>3. ASSUME found # NULL
      PROVE  /\ n \in Nat
             /\ Filling => f_pos[p] + n <= passed[buffer.in_offs]
  <2>1. PICK k \in Slots :
          /\ passed[k] <= f_pos[p]
          /\ f_pos[p] < passed[k+1]
          /\ found = [slot   |-> Advance(buffer.out_offs, k),
                      offset |-> f_pos[p] - passed[k]]
    <3> HIDE DEF buffer
    <3>. QED  BY <1>1, <1>2, <1>3, FindStops
  <2>2. passed[k+1] = passed[k] + buffer.entry[found.slot].size
    BY <1>2, <2>1, PassedValue
  <2>3. k \in 0 .. MaxOps /\ k + 1 \in 0 .. MaxOps
    BY <1>2
  <2>4. /\ Advance(buffer.out_offs, k) \in Slots
        /\ found.slot = Advance(buffer.out_offs, k)
        /\ found.offset = f_pos[p] - passed[k]
    <3>1. found.slot = Advance(buffer.out_offs, k) /\ found.offset = f_pos[p] - passed[k]
      <4> HIDE DEF found, passed, buffer
      <4>. QED  BY <2>1
    <3>2. Advance(buffer.out_offs, k) \in Slots
      BY <1>2, <2>3, AdvanceValue DEF MaxOps
    <3>. QED  BY <3>1, <3>2
  <2>5. buffer.entry[found.slot].size \in Nat /\ passed[k] \in Nat /\ passed[k+1] \in Nat
    BY <1>2, <2>3, <2>4
  <2> DEFINE size == buffer.entry[found.slot].size
             done == passed[k]
             next == passed[k+1]
  <2>6. /\ left = size - (f_pos[p] - done)
        /\ size \in Nat /\ done \in Nat /\ next \in Nat /\ next = done + size
        /\ done <= f_pos[p] /\ f_pos[p] < next
    BY <2>1, <2>2, <2>4, <2>5
  <2> HIDE DEF size, done, next, left
  <2>7. left \in Nat /\ f_pos[p] + left = next
    BY <1>1, <2>6
  <2>8. n \in Nat /\ n <= left
    BY <1>1, <2>7
  <2>9. Filling => next <= passed[buffer.in_offs] /\ passed[buffer.in_offs] \in Nat
    <3> SUFFICES ASSUME Filling
                 PROVE  next <= passed[buffer.in_offs] /\ passed[buffer.in_offs] \in Nat
      OBVIOUS
    <3>1. \A j \in 0 .. MaxOps : passed[j] <= passed[buffer.in_offs]
      <4>1. /\ IsBuffer(buffer, Entries) /\ RingShape(buffer, Entries)
            /\ ~ buffer.full
        BY <1>1, OpenRing DEF Filling
      <4> HIDE DEF buffer
      <4>. QED  BY <1>2, <4>1, PassedFilling
    <3>2. buffer.in_offs \in 0 .. MaxOps
      BY <1>1, <1>2, OpenRing
    <3>. QED  BY <1>2, <2>3, <3>1, <3>2 DEF next
  <2> HIDE DEF n, passed, buffer
  <2>. QED  BY <1>1, <2>6, <2>7, <2>8, <2>9
<1>4. /\ f_pos'[p] \in Nat
      /\ Filling => f_pos'[p] <= passed[buffer.in_offs]
      /\ DOMAIN f_pos' = Proc
      /\ \A q \in Proc \ {p} : f_pos'[q] = f_pos[q]
  <2>1. f_pos' = f_pos \/ (found # NULL /\ f_pos' = [f_pos EXCEPT ![p] = f_pos[p] + n])
    BY DEF Read
  <2>2. Filling => f_pos[p] <= passed[buffer.in_offs]
    BY <1>1 DEF PositionInv, UpToDate
  <2> HIDE DEF n, found, passed, buffer
  <2>3. CASE f_pos' = f_pos
    BY <1>1, <2>2, <2>3
  <2>4. CASE found # NULL /\ f_pos' = [f_pos EXCEPT ![p] = f_pos[p] + n]
    <3>1. f_pos'[p] = f_pos[p] + n
      BY <1>1, <2>4
    <3>2. DOMAIN f_pos' = Proc /\ \A q \in Proc \ {p} : f_pos'[q] = f_pos[q]
      BY <1>1, <2>4
    <3>. QED  BY <1>1, <1>3, <2>4, <3>1, <3>2
  <2>. QED  BY <2>1, <2>3, <2>4
<1>5. pc'[p] = "idle" /\ \A q \in Proc \ {p} : pc'[q] = pc[q] /\ frame'[q] = frame[q]
  BY <1>1
<1>6. CallTyped(p)' /\ (Filling => UpToDate(p)')
  BY <1>1, <1>4, <1>5 DEF CallTyped, UpToDate
<1>. QED  BY <1>1, <1>4, <1>5, <1>6, QuietStep

(* Adding up one more size, for llseek and for a seek to a command.        *)
LEMMA PositionSum ==
  ASSUME DriverInv, PositionInv, NEW p \in Proc, aesd_size(p) \/ IoctlSum(p)
  PROVE  PositionInv'
<1> DEFINE buffer == circular_buffer
           passed == Passed(buffer)
           index  == frame[p].index
<1>1. /\ pc[p] \in {"llseek", "ioctl_sum"} /\ loaded
      /\ UNCHANGED <<loaded, circular_buffer, pc, f_pos>>
      /\ DOMAIN frame = Proc
      /\ DOMAIN f_pos = Proc
      /\ CallTyped(p)
  BY DEF aesd_size, IoctlSum, device, DriverInv, TypeOK, Unloaded, PositionInv
<1>2. /\ \A i \in Slots : buffer.entry[i].size \in Nat
      /\ passed \in [0 .. MaxOps -> Nat]
      /\ MaxOps \in Nat \ {0} /\ Slots = 0 .. MaxOps - 1
  BY <1>1, OpenRing
<1>3. index \in Slots
  <2>1. CASE aesd_size(p)
    BY <1>1, <1>2, <2>1 DEF aesd_size, CallTyped, MaxOps
  <2>2. CASE IoctlSum(p)
    BY <1>1, <1>2, <2>2 DEF IoctlSum, CallTyped
  <2>. QED  BY <2>1, <2>2
<1>4. Filling => /\ UpToDate(p)
                 /\ passed[index + 1] = passed[index] + buffer.entry[index].size
  <2> SUFFICES ASSUME Filling
               PROVE  /\ UpToDate(p)
                      /\ passed[index + 1] = passed[index] + buffer.entry[index].size
    OBVIOUS
  <2>1. UpToDate(p)
    BY DEF PositionInv
  <2>2. /\ IsBuffer(buffer, Entries) /\ RingShape(buffer, Entries) /\ ~ buffer.full
    BY <1>1, OpenRing DEF Filling
  <2> HIDE DEF buffer, index
  <2>3. \A k \in Slots : passed[k+1] = passed[k] + buffer.entry[k].size
    BY <1>2, <2>2, PassedFilling
  <2>. QED  BY <1>3, <2>1, <2>3
<1>5. /\ index \in Nat /\ index + 1 \in 0 .. MaxOps
      /\ buffer.entry[index].size \in Nat /\ passed[index] \in Nat
  BY <1>2, <1>3
<1> HIDE DEF passed, buffer
<1>6. CASE aesd_size(p)
  <2> DEFINE bytes == frame[p].bytes + buffer.entry[index].size
  <2>1. /\ pc[p] = "llseek"
        /\ frame' = [frame EXCEPT ![p].index = index + 1, ![p].bytes = bytes]
    BY <1>6 DEF aesd_size, buffer
  <2>2. /\ frame[p] \in [whence : {"SEEK_SET", "SEEK_CUR", "SEEK_END"}, off : Int,
                         index : 0 .. MaxOps, bytes : Nat]
        /\ f_pos[p] \in Nat
    BY <1>1, <2>1 DEF CallTyped
  <2>3. bytes \in Nat
    BY <1>5, <2>2
  <2>4. Filling => bytes <= passed[index + 1]
    <3>1. Filling => frame[p].bytes <= passed[index]
      BY <1>4, <2>1 DEF UpToDate, buffer, passed
    <3>2. frame[p].bytes \in Nat
      BY <2>2
    <3>. QED  BY <1>4, <1>5, <3>1, <3>2
  <2> HIDE DEF bytes
  <2>5. frame'[p] = [frame[p] EXCEPT !.index = index + 1, !.bytes = bytes]
    BY <1>1, <2>1
  <2> DEFINE new == index + 1
  <2>6. new \in 0 .. MaxOps
    BY <1>5
  <2>7. /\ frame'[p] \in [whence : {"SEEK_SET", "SEEK_CUR", "SEEK_END"}, off : Int,
                          index : 0 .. MaxOps, bytes : Nat]
        /\ frame'[p].index = new /\ frame'[p].bytes = bytes
    <3> HIDE DEF new
    <3>1. frame'[p] = [frame[p] EXCEPT !.index = new, !.bytes = bytes]
      BY <2>5 DEF new
    <3>. QED  BY <2>2, <2>3, <2>6, <3>1
  <2>8. \A q \in Proc \ {p} : frame'[q] = frame[q]
    BY <1>1, <2>1
  <2>9. CallTyped(p)'
    BY <1>1, <2>1, <2>2, <2>7 DEF CallTyped
  <2>10. Filling => UpToDate(p)'
    BY <1>1, <1>4, <2>1, <2>4, <2>7 DEF UpToDate, buffer, passed
  <2>. QED  BY <1>1, <2>8, <2>9, <2>10, QuietStep
<1>7. CASE IoctlSum(p)
  <2> DEFINE bytes == frame[p].calculated_offset + buffer.entry[index].size
  <2>1. /\ pc[p] = "ioctl_sum"
        /\ index < frame[p].write_cmd
        /\ frame' = [frame EXCEPT ![p].index = index + 1,
                                  ![p].calculated_offset = bytes]
    BY <1>7 DEF IoctlSum, buffer
  <2>2. /\ frame[p] \in [write_cmd : Nat, write_cmd_offset : Nat,
                         index : Nat, calculated_offset : Nat]
        /\ f_pos[p] \in Nat
        /\ frame[p].write_cmd \in Slots
    BY <1>1, <2>1 DEF CallTyped
  <2>3. bytes \in Nat
    BY <1>5, <2>2
  <2>4. Filling => bytes = passed[index + 1]
    <3>1. Filling => frame[p].calculated_offset = passed[index]
      BY <1>4, <2>1 DEF UpToDate, buffer, passed
    <3>. QED  BY <1>4, <3>1
  <2> HIDE DEF bytes
  <2> DEFINE new == index + 1
  <2>5. new \in Nat /\ new <= frame[p].write_cmd
    BY <1>5, <2>1, <2>2
  <2>6. frame'[p] = [frame[p] EXCEPT !.index = new, !.calculated_offset = bytes]
    BY <1>1, <2>1
  <2>7. /\ frame'[p] \in [write_cmd : Nat, write_cmd_offset : Nat,
                          index : Nat, calculated_offset : Nat]
        /\ frame'[p].index = new /\ frame'[p].calculated_offset = bytes
        /\ frame'[p].write_cmd = frame[p].write_cmd
        /\ frame'[p].write_cmd_offset = frame[p].write_cmd_offset
    <3> HIDE DEF new
    <3>. QED  BY <2>2, <2>3, <2>5, <2>6
  <2>8. \A q \in Proc \ {p} : frame'[q] = frame[q]
    BY <1>1, <2>1
  <2>9. CallTyped(p)'
    BY <1>1, <2>1, <2>2, <2>5, <2>7 DEF CallTyped
  <2>10. Filling => UpToDate(p)'
    BY <1>1, <1>4, <2>1, <2>4, <2>7 DEF UpToDate, buffer, passed
  <2>. QED  BY <1>1, <2>8, <2>9, <2>10, QuietStep
<1>. QED  BY <1>6, <1>7

(* The position llseek sets is within the size it added up.                *)
LEMMA PositionLlseek ==
  ASSUME DriverInv, PositionInv, NEW p \in Proc, fixed_size_llseek(p)
  PROVE  PositionInv'
<1> DEFINE buffer == circular_buffer
           passed == Passed(buffer)
           bytes  == frame[p].bytes
<1>1. /\ pc[p] = "llseek" /\ loaded
      /\ UNCHANGED <<loaded, circular_buffer>>
      /\ pc' = [pc EXCEPT ![p] = "idle"]
      /\ frame' = [frame EXCEPT ![p] = NoFrame]
      /\ pc \in [Proc -> InCall \cup {"closed", "idle", "oops"}]
      /\ DOMAIN frame = Proc
      /\ DOMAIN f_pos = Proc
      /\ CallTyped(p)
      /\ frame[p].index = MaxOps
  BY DEF fixed_size_llseek, Return, device, DriverInv, TypeOK, Unloaded, PositionInv,
         MaxOps
<1>2. f_pos[p] \in Nat /\ bytes \in Nat
  BY <1>1 DEF CallTyped
<1>3. PICK target : f_pos' = [f_pos EXCEPT ![p] = vfs_setpos(f_pos[p], target, bytes)]
  BY DEF fixed_size_llseek
<1>4. /\ f_pos'[p] = f_pos[p] \/ f_pos'[p] \in 0 .. bytes
      /\ DOMAIN f_pos' = Proc
      /\ \A q \in Proc \ {p} : f_pos'[q] = f_pos[q]
  BY <1>1, <1>3 DEF vfs_setpos
<1>5. Filling => /\ bytes <= passed[buffer.in_offs] /\ passed[buffer.in_offs] \in Nat
                 /\ f_pos[p] <= passed[buffer.in_offs]
  <2> SUFFICES ASSUME Filling
               PROVE  /\ bytes <= passed[buffer.in_offs] /\ passed[buffer.in_offs] \in Nat
                      /\ f_pos[p] <= passed[buffer.in_offs]
    OBVIOUS
  <2>1. /\ IsBuffer(buffer, Entries) /\ RingShape(buffer, Entries) /\ ~ buffer.full
        /\ \A i \in Slots : buffer.entry[i].size \in Nat
        /\ passed \in [0 .. MaxOps -> Nat]
        /\ buffer.in_offs \in 0 .. MaxOps /\ MaxOps \in 0 .. MaxOps
    BY <1>1, OpenRing DEF Filling
  <2>2. bytes <= passed[MaxOps] /\ f_pos[p] <= passed[buffer.in_offs]
    BY <1>1 DEF PositionInv, UpToDate
  <2>3. passed[MaxOps] <= passed[buffer.in_offs]
    <3> HIDE DEF buffer
    <3>. QED  BY <2>1, PassedFilling
  <2>4. passed[MaxOps] \in Nat /\ passed[buffer.in_offs] \in Nat
    BY <2>1
  <2> HIDE DEF passed, buffer, bytes
  <2>. QED  BY <1>2, <2>2, <2>3, <2>4
<1>6. /\ f_pos'[p] \in Nat
      /\ Filling => f_pos'[p] <= passed[buffer.in_offs]
  <2> HIDE DEF passed, buffer, bytes
  <2>. QED  BY <1>2, <1>4, <1>5
<1>7. pc'[p] = "idle" /\ \A q \in Proc \ {p} : pc'[q] = pc[q] /\ frame'[q] = frame[q]
  BY <1>1
<1>8. CallTyped(p)' /\ (Filling => UpToDate(p)')
  BY <1>1, <1>6, <1>7 DEF CallTyped, UpToDate
<1>. QED  BY <1>1, <1>4, <1>7, <1>8, QuietStep

(* A call that a signal ends before it took the lock.                      *)
LEMMA PositionInterrupted ==
  ASSUME DriverInv, PositionInv, NEW p \in Proc, Interrupted(p)
  PROVE  PositionInv'
<1>1. /\ UNCHANGED <<loaded, circular_buffer, f_pos>>
      /\ pc[p] # "closed"
      /\ pc' = [pc EXCEPT ![p] = "idle"]
      /\ frame' = [frame EXCEPT ![p] = NoFrame]
      /\ pc \in [Proc -> InCall \cup {"closed", "idle", "oops"}]
      /\ DOMAIN frame = Proc
      /\ DOMAIN f_pos = Proc
      /\ f_pos[p] \in Nat
  BY DEF Interrupted, Return, device, DriverInv, TypeOK, PositionInv, CallTyped
<1>2. pc'[p] = "idle" /\ \A q \in Proc \ {p} : pc'[q] = pc[q] /\ frame'[q] = frame[q]
  BY <1>1
<1>3. Filling => UpToDate(p)
  BY DEF PositionInv
<1>4. CallTyped(p)' /\ (Filling => UpToDate(p)')
  BY <1>1, <1>2, <1>3 DEF CallTyped, UpToDate
<1>. QED  BY <1>1, <1>2, <1>4, QuietStep

(* A seek that is let through names a byte of a command that is there.     *)
LEMMA PositionCheck ==
  ASSUME DriverInv, PositionInv, NEW p \in Proc, IoctlCheck(p)
  PROVE  PositionInv'
<1> DEFINE cmd == frame[p].write_cmd
           offset == frame[p].write_cmd_offset
           buffer == circular_buffer
           passed == Passed(buffer)
<1>1. /\ UNCHANGED <<loaded, circular_buffer, f_pos>>
      /\ pc[p] = "ioctl" /\ loaded
      /\ pc \in [Proc -> InCall \cup {"closed", "idle", "oops"}]
      /\ DOMAIN frame = Proc
      /\ DOMAIN f_pos = Proc
      /\ CallTyped(p)
  BY DEF IoctlCheck, device, DriverInv, TypeOK, Unloaded, PositionInv
<1>2. /\ f_pos[p] \in Nat
      /\ frame[p] \in [write_cmd : Nat, write_cmd_offset : Nat,
                       index : Nat, calculated_offset : Nat]
      /\ frame[p].index = 0 /\ frame[p].calculated_offset = 0
  BY <1>1 DEF CallTyped
<1>3. Filling => UpToDate(p)
  BY DEF PositionInv
<1>4. CASE pc' = [pc EXCEPT ![p] = "idle"] /\ frame' = [frame EXCEPT ![p] = NoFrame]
  <2>1. pc'[p] = "idle" /\ \A q \in Proc \ {p} : pc'[q] = pc[q] /\ frame'[q] = frame[q]
    BY <1>1, <1>4
  <2>2. CallTyped(p)' /\ (Filling => UpToDate(p)')
    BY <1>1, <1>2, <1>3, <2>1 DEF CallTyped, UpToDate
  <2>. QED  BY <1>1, <2>1, <2>2, QuietStep
<1>5. CASE /\ ValidSeek(cmd, offset)
           /\ pc' = [pc EXCEPT ![p] = "ioctl_sum"]
           /\ frame' = frame
  <2>1. /\ pc'[p] = "ioctl_sum" /\ frame'[p] = frame[p]
        /\ \A q \in Proc \ {p} : pc'[q] = pc[q] /\ frame'[q] = frame[q]
    BY <1>1, <1>5
  <2>2. /\ cmd \in Slots /\ 0 <= cmd
        /\ offset < buffer.entry[cmd].size
    <3>1. MaxOps \in Nat \ {0} /\ Slots = 0 .. MaxOps - 1
      BY <1>1, OpenRing
    <3>2. cmd \in Nat
      BY <1>2
    <3>. QED  BY <1>5, <3>1, <3>2 DEF ValidSeek, MaxOps
  <2>3. Filling => cmd < buffer.in_offs /\ passed[0] = 0
    <3> SUFFICES ASSUME Filling
                 PROVE  cmd < buffer.in_offs /\ passed[0] = 0
      OBVIOUS
    <3>1. /\ RingShape(buffer, Entries) /\ ~ buffer.full
          /\ buffer.out_offs \in Slots
          /\ \A i \in Slots : buffer.entry[i].size \in Nat
      BY <1>1, OpenRing DEF Filling
    <3>2. passed[0] = 0
      <4> HIDE DEF buffer
      <4>. QED  BY <3>1, PassedValue
    <3>3. offset \in Nat
      BY <1>2
    <3>4. buffer.entry[cmd].size # 0
      BY <2>2, <3>3
    <3>. QED  BY <2>2, <3>1, <3>2, <3>4 DEF RingShape, EmptyEntry
  <2>4. CallTyped(p)'
    BY <1>1, <1>2, <2>1, <2>2 DEF CallTyped
  <2>5. Filling => UpToDate(p)'
    BY <1>1, <1>2, <1>3, <2>1, <2>2, <2>3 DEF UpToDate
  <2>. QED  BY <1>1, <2>1, <2>4, <2>5, QuietStep
<1>. QED  BY <1>4, <1>5 DEF IoctlCheck, Return

(* A seek lands at the byte it names, within the command.                  *)
LEMMA PositionSeek ==
  ASSUME DriverInv, PositionInv, NEW p \in Proc, IoctlSeek(p)
  PROVE  PositionInv'
<1> DEFINE cmd    == frame[p].write_cmd
           offset == frame[p].write_cmd_offset
           calc   == frame[p].calculated_offset
           buffer == circular_buffer
           passed == Passed(buffer)
           target == calc + offset
<1>1. /\ UNCHANGED <<loaded, circular_buffer>>
      /\ pc[p] = "ioctl_sum" /\ loaded
      /\ pc' = [pc EXCEPT ![p] = "idle"]
      /\ frame' = [frame EXCEPT ![p] = NoFrame]
      /\ f_pos' = [f_pos EXCEPT ![p] = target]
      /\ frame[p].index = cmd
      /\ pc \in [Proc -> InCall \cup {"closed", "idle", "oops"}]
      /\ DOMAIN frame = Proc
      /\ DOMAIN f_pos = Proc
      /\ CallTyped(p)
  BY DEF IoctlSeek, Return, device, DriverInv, TypeOK, Unloaded, PositionInv
<1>2. calc \in Nat /\ offset \in Nat /\ target \in Nat /\ cmd \in Slots
  <2>1. calc \in Nat /\ offset \in Nat /\ cmd \in Slots
    BY <1>1 DEF CallTyped
  <2>. QED  BY <2>1
<1>3. Filling => target <= passed[buffer.in_offs]
  <2> SUFFICES ASSUME Filling
               PROVE  target <= passed[buffer.in_offs]
    OBVIOUS
  <2>1. calc = passed[cmd] /\ offset < buffer.entry[cmd].size
    BY <1>1 DEF PositionInv, UpToDate
  <2>2. /\ IsBuffer(buffer, Entries) /\ RingShape(buffer, Entries) /\ ~ buffer.full
        /\ \A i \in Slots : buffer.entry[i].size \in Nat
        /\ passed \in [0 .. MaxOps -> Nat]
        /\ MaxOps \in Nat \ {0} /\ Slots = 0 .. MaxOps - 1
        /\ buffer.in_offs \in Slots
    BY <1>1, OpenRing DEF Filling
  <2>3. /\ passed[cmd+1] = passed[cmd] + buffer.entry[cmd].size
        /\ \A k \in 0 .. MaxOps : passed[k] <= passed[buffer.in_offs]
    <3> HIDE DEF buffer, cmd
    <3>. QED  BY <1>2, <2>2, PassedFilling
  <2>4. cmd + 1 \in 0 .. MaxOps /\ buffer.in_offs \in 0 .. MaxOps
    BY <1>2, <2>2
  <2>5. /\ passed[cmd+1] \in Nat /\ passed[buffer.in_offs] \in Nat
        /\ buffer.entry[cmd].size \in Nat
    BY <1>2, <2>2, <2>4
  <2>6. passed[cmd+1] <= passed[buffer.in_offs]
    BY <2>3, <2>4
  <2> HIDE DEF passed, buffer, cmd, offset, calc
  <2>. QED  BY <1>2, <2>1, <2>3, <2>5, <2>6
<1> HIDE DEF target
<1>4. /\ pc'[p] = "idle" /\ f_pos'[p] = target
      /\ \A q \in Proc \ {p} : /\ pc'[q] = pc[q]
                               /\ frame'[q] = frame[q]
                               /\ f_pos'[q] = f_pos[q]
      /\ DOMAIN f_pos' = Proc
  BY <1>1
<1>5. CallTyped(p)' /\ (Filling => UpToDate(p)')
  BY <1>1, <1>2, <1>3, <1>4 DEF CallTyped, UpToDate
<1>. QED  BY <1>1, <1>4, <1>5, QuietStep

LEMMA PositionStep == DriverInv /\ PositionInv /\ [Next]_vars => PositionInv'
<1> SUFFICES ASSUME DriverInv, PositionInv, [Next]_vars
             PROVE  PositionInv'
  OBVIOUS
<1>1. ASSUME NEW p \in Proc, Begin(p) \/ Interrupted(p) \/ Locks(p)
      PROVE  PositionInv'
  BY <1>1, PositionBegin, PositionInterrupted, PositionRead, PositionWrite DEF Locks
<1>2. ASSUME NEW p \in Proc, Continues(p)
      PROVE  PositionInv'
  BY <1>2, PositionWrite, PositionCommand, PositionSum, PositionLlseek,
     PositionCheck, PositionSeek DEF Continues
<1>3. CASE UNCHANGED vars
  BY <1>3 DEF vars, device, PositionInv, CallTyped, UpToDate, Filling
<1>. QED  BY <1>1, <1>2, <1>3, PositionModule DEF Next

LEMMA PositionInvariant == Spec => []PositionInv
BY PositionInit, PositionStep, DriverInvariant, PTL DEF Spec

(* The ring of a loaded driver holds commands of the sizes it says.        *)
LEMMA DriverCommandRing ==
  ASSUME DriverInv, PositionInv, loaded
  PROVE  /\ CommandRing(circular_buffer, Entries, Byte)
         /\ Commands = CommandsOf(circular_buffer)
<1>1. \A e \in Entries : e.buffptr \in Seq(Byte) /\ e.size \in Nat
  BY DEF Entries
<1>. QED  BY <1>1, OpenRing DEF CommandRing, PositionInv, Commands

(* Until the ring is full no file position is beyond the contents.         *)
THEOREM DriverFposWithinContents == Spec => []FposWithinContents
<1>1. ASSUME DriverInv, PositionInv
      PROVE  FposWithinContents
  <2> SUFFICES ASSUME NEW p \in Proc, pc[p] # "closed", ~ circular_buffer.full
               PROVE  f_pos[p] <= Len(Contents)
    BY DEF FposWithinContents
  <2>1. loaded
    BY <1>1 DEF DriverInv, Unloaded
  <2>2. f_pos[p] <= Passed(circular_buffer)[circular_buffer.in_offs]
    BY <1>1, <2>1 DEF PositionInv, Filling, UpToDate
  <2>3. Held(circular_buffer) = circular_buffer.in_offs
    BY <1>1, <2>1, OpenRing, HeldValue
  <2>4. /\ Held(circular_buffer) \in 0 .. Held(circular_buffer)
        /\ SubSeq(Commands, 1, Held(circular_buffer)) = Commands
    <3>1. Held(circular_buffer) \in Nat
      BY <1>1, <2>1, DriverCommandRing, CommandsEnd
    <3>. QED  BY <1>1, <2>1, <3>1, DriverCommandRing, AllCommands
  <2>5. Len(Contents) = Passed(circular_buffer)[Held(circular_buffer)]
    BY <1>1, <2>1, <2>4, DriverCommandRing, CommandsLength DEF Contents
  <2>. QED  BY <2>2, <2>3, <2>5
<1>. QED  BY <1>1, DriverInvariant, PositionInvariant, PTL

(* A seek that returns while the ring is filling leaves f_pos at the byte  *)
(* of the command it names, whatever was written while it added up.        *)
THEOREM DriverSeekLandsBeforeFull == Spec => SeekLandsBeforeFull
<1>1. ASSUME DriverInv, PositionInv, [Next]_vars,
             NEW p \in Proc, Seeks(p), ~ circular_buffer.full
      PROVE  SeeksTo(p)
  <2> DEFINE cmd    == frame[p].write_cmd
             offset == frame[p].write_cmd_offset
  <2>1. IoctlSeek(p)
    <3> USE <1>1 DEF Seeks
    <3>1. pc[p] = "ioctl_sum" /\ pc'[p] = "idle" /\ DOMAIN pc = Proc
          /\ pc \in [Proc -> InCall \cup {"closed", "idle", "oops"}]
      BY DEF DriverInv, TypeOK
    <3>2. loaded
      BY <3>1 DEF DriverInv, Unloaded
    <3>3. ~ UNCHANGED vars
      BY <3>1 DEF vars
    <3>4. ~ aesd_init_module /\ ~ aesd_cleanup_module
      BY <3>1, <3>2 DEF aesd_init_module, aesd_cleanup_module
    <3>5. ASSUME NEW q \in Proc, q # p,
                 Begin(q) \/ Interrupted(q) \/ Locks(q) \/ Continues(q)
          PROVE  FALSE
      <4>1. pc'[p] = pc[p]
        <5>1. CASE Begin(q)
          BY <3>1, <3>5, <5>1 DEF Begin, aesd_open, aesd_release, BeginWrite,
             BeginRead, BeginLlseek, BeginIoctl, Call, Return
        <5>2. CASE Interrupted(q) \/ Locks(q)
          BY <3>1, <3>5, <5>2 DEF Interrupted, Locks, Read, WriteAppend,
             WriteCopyFails, WriteAppendOops, Return, Oops
        <5>3. CASE Continues(q)
          BY <3>1, <3>5, <5>3 DEF Continues, WriteCommand, WriteCommandFails,
             WriteFinish, WriteFinishFails, aesd_size, fixed_size_llseek,
             IoctlCheck, IoctlSum, IoctlSeek, Return, Oops
        <5>. QED  BY <3>5, <5>1, <5>2, <5>3
      <4>. QED  BY <3>1, <4>1
    <3>6. Begin(p) \/ Interrupted(p) \/ Locks(p) \/ Continues(p)
      BY <3>3, <3>4, <3>5 DEF Next
    <3>7. ~ Begin(p)
      BY <3>1 DEF Begin, aesd_open, aesd_release, BeginWrite, BeginRead,
         BeginLlseek, BeginIoctl, Call
    <3>8. ~ Interrupted(p) /\ ~ Locks(p)
      BY <3>1 DEF Interrupted, Locks, Read, WriteAppend, WriteCopyFails,
         WriteAppendOops
    <3>9. Continues(p) => IoctlSum(p) \/ IoctlSeek(p)
      BY <3>1 DEF Continues, WriteCommand, WriteCommandFails, WriteFinish,
         WriteFinishFails, aesd_size, fixed_size_llseek, IoctlCheck
    <3>10. ~ IoctlSum(p)
      BY <3>1 DEF IoctlSum
    <3>. QED  BY <3>6, <3>7, <3>8, <3>9, <3>10
  <2>2. /\ loaded /\ CallTyped(p) /\ UpToDate(p)
        /\ pc[p] = "ioctl_sum" /\ DOMAIN f_pos = Proc
        /\ frame[p].index = cmd
        /\ f_pos' = [f_pos EXCEPT ![p] = frame[p].calculated_offset + offset]
    BY <1>1, <2>1 DEF IoctlSeek, DriverInv, Unloaded, PositionInv, Filling
  <2>3. /\ cmd \in Slots /\ cmd < circular_buffer.in_offs
        /\ offset < circular_buffer.entry[cmd].size
        /\ frame[p].calculated_offset = Passed(circular_buffer)[cmd]
    BY <2>2 DEF CallTyped, UpToDate
  <2>4. /\ circular_buffer.in_offs = Held(circular_buffer)
        /\ circular_buffer.out_offs = 0
        /\ MaxOps \in Nat \ {0} /\ Slots = 0 .. MaxOps - 1
        /\ circular_buffer.in_offs \in Slots
    BY <1>1, <2>2, OpenRing, HeldValue DEF RingShape
  <2>5. /\ cmd \in 0 .. Held(circular_buffer)
        /\ cmd + 1 \in 1 .. Held(circular_buffer)
        /\ cmd + 1 - 1 = cmd
        /\ cmd < Held(circular_buffer)
    BY <2>3, <2>4
  <2>6. Advance(0, cmd) = cmd
    <3>1. 0 \in Slots /\ cmd \in 0 .. MaxOps /\ 0 + cmd = cmd /\ cmd < MaxOps
      BY <2>3, <2>4
    <3> HIDE DEF cmd
    <3>2. Advance(0, cmd) = IF 0 + cmd < MaxOps THEN 0 + cmd ELSE 0 + cmd - MaxOps
      BY <3>1, AdvanceValue DEF MaxOps
    <3>. QED  BY <3>1, <3>2
  <2>7. /\ Len(Commands) = Held(circular_buffer)
        /\ Len(Commands[cmd + 1]) = circular_buffer.entry[cmd].size
    <3> DEFINE k == cmd + 1
    <3>1. k \in 1 .. Held(circular_buffer) /\ k - 1 = cmd
      BY <2>5
    <3> HIDE DEF k
    <3>2. Len(Commands[k])
            = circular_buffer.entry[Advance(circular_buffer.out_offs, k - 1)].size
      BY <1>1, <2>2, <3>1, DriverCommandRing, CommandsEnd
    <3>3. Len(Commands[k]) = circular_buffer.entry[cmd].size
      BY <2>4, <2>6, <3>1, <3>2
    <3>. QED  BY <1>1, <2>2, <3>3, DriverCommandRing, CommandsEnd DEF k
  <2>8. Len(FlattenSeq(SubSeq(Commands, 1, cmd))) = Passed(circular_buffer)[cmd]
    <3> HIDE DEF cmd
    <3>. QED  BY <1>1, <2>2, <2>5, DriverCommandRing, CommandsLength
  <2>9. f_pos'[p] = Len(FlattenSeq(SubSeq(Commands, 1, cmd))) + offset
    BY <2>2, <2>3, <2>8
  <2>10. cmd < Len(Commands) /\ offset < Len(Commands[cmd + 1])
    BY <2>3, <2>5, <2>7
  <2>. QED  BY <2>9, <2>10 DEF SeeksTo
<1>2. DriverInv /\ PositionInv /\ [Next]_vars =>
        [\A p \in Proc : Seeks(p) /\ ~ circular_buffer.full => SeeksTo(p)]_vars
  BY <1>1
<1>. QED
  BY <1>2, DriverInvariant, PositionInvariant, PTL DEF Spec, SeekLandsBeforeFull

-----------------------------------------------------------------------------
(* Lines.  A buffer written holds one newline at most, and the kernel does *)
(* not refuse what the driver leaves unchecked.                            *)
AtMostOneLine(bytes) ==
  \A i, j \in 1 .. Len(bytes) : bytes[i] = NewLine /\ bytes[j] = NewLine => i = j

LinesAssumption ==
  /\ \A buf \in Inputs : AtMostOneLine(buf)
  /\ "kmalloc" \notin Faults /\ "copy_from_user" \notin Faults

(* The arguments of a read or a write.                                     *)
CallGiven(p) ==
  /\ pc[p] = "read" => frame[p].count \in Counts \ {0}
  /\ pc[p] = "write" => frame[p].buf \in Inputs /\ frame[p].cmd_start = 0

(* What a writer in its loop has before it: all of the incomplete command, *)
(* with one newline at most, and none once it added a command.             *)
LineInLoop(p) ==
  /\ frame[p].cmd_start + frame[p].read_size = incomplete_command_size
  /\ AtMostOneLine(incomplete_command_buffer)
  /\ frame[p].cmd_start # 0 =>
       \A i \in 1 .. incomplete_command_size :
         i > frame[p].cmd_start => incomplete_command_buffer[i] # NewLine

LineInv ==
  /\ incomplete_command_buffer # FREED
  /\ \A p \in Proc : CallGiven(p)
  /\ \A p \in Proc : pc[p] = "write_loop" => LineInLoop(p)
  /\ (\A p \in Proc : pc[p] # "write_loop") => ~ HasNewLine(Gathered)

LEMMA LineInit == Init => LineInv
<1> SUFFICES ASSUME Init
             PROVE  LineInv
  OBVIOUS
<1>. QED  BY BytesAssumption DEF Init, LineInv, CallGiven, HasNewLine, Gathered

(* A step outside the loop that leaves the incomplete command alone.       *)
LEMMA QuietLine ==
  ASSUME LineInv, NEW p \in Proc,
         UNCHANGED <<incomplete_command_buffer, incomplete_command_size>>,
         pc[p] # "write_loop", pc'[p] # "write_loop",
         \A q \in Proc \ {p} : pc'[q] = pc[q] /\ frame'[q] = frame[q],
         CallGiven(p)'
  PROVE  LineInv'
<1>1. \A q \in Proc : CallGiven(q)'
  BY DEF LineInv, CallGiven
<1>2. \A q \in Proc : pc'[q] = "write_loop" => LineInLoop(q)'
  <2> TAKE q \in Proc
  <2>1. CASE q = p
    BY <2>1
  <2>2. CASE q # p
    BY <2>2 DEF LineInv, LineInLoop, AtMostOneLine
  <2>. QED  BY <2>1, <2>2
<1>3. (\A q \in Proc : pc'[q] # "write_loop") => (\A q \in Proc : pc[q] # "write_loop")
  OBVIOUS
<1>4. Gathered' = Gathered
  BY DEF Gathered
<1>. QED  BY <1>1, <1>2, <1>3, <1>4 DEF LineInv, HasNewLine

LEMMA LineModule ==
  ASSUME DriverInv, LineInv, aesd_init_module \/ aesd_cleanup_module
  PROVE  LineInv'
<1>1. /\ \A p \in Proc : pc[p] = "closed"
      /\ UNCHANGED <<pc, frame>>
  BY DEF DriverInv, Unloaded, aesd_init_module, aesd_cleanup_module
<1>2. incomplete_command_buffer' = NULL
  BY DEF aesd_init_module, aesd_cleanup_module
<1>3. (~ HasNewLine(Gathered))'
  BY <1>2, BytesAssumption DEF Gathered, HasNewLine
<1>4. \A p \in Proc : pc'[p] = "closed"
  BY <1>1
<1>5. incomplete_command_buffer' # FREED
  BY <1>2, BytesAssumption
<1>6. \A p \in Proc : CallGiven(p)'
  BY <1>4 DEF CallGiven
<1>. QED  BY <1>3, <1>4, <1>5, <1>6 DEF LineInv

(* What happens outside the loop.                                          *)
LEMMA LineOutside ==
  ASSUME DriverInv, LineInv, NEW p \in Proc,
         \/ Begin(p) \/ Interrupted(p) \/ Read(p) \/ aesd_size(p)
         \/ fixed_size_llseek(p) \/ IoctlCheck(p) \/ IoctlSum(p) \/ IoctlSeek(p)
  PROVE  LineInv'
<1>1. /\ pc \in [Proc -> InCall \cup {"closed", "idle", "oops"}]
      /\ DOMAIN frame = Proc
      /\ CallGiven(p)
  BY DEF DriverInv, TypeOK, LineInv
<1>2. ASSUME UNCHANGED device, pc[p] # "write_loop",
             \/ pc' = pc /\ pc[p] \notin {"read", "write"}
             \/ \E to : to # "write_loop" /\ pc' = [pc EXCEPT ![p] = to],
             frame' = frame \/ \E locals : frame' = [frame EXCEPT ![p] = locals],
             CallGiven(p)'
      PROVE  LineInv'
  BY <1>1, <1>2, QuietLine DEF device
<1>3. CASE aesd_open(p) \/ aesd_release(p)
  <2>1. pc'[p] \in {"idle", "closed"}
    BY <1>1, <1>3 DEF aesd_open, aesd_release
  <2>2. CallGiven(p)'
    BY <2>1 DEF CallGiven
  <2>. QED  BY <1>2, <1>3, <2>2 DEF aesd_open, aesd_release
<1>4. ASSUME NEW buf \in Inputs, BeginWrite(p, buf)
      PROVE  LineInv'
  <2>1. /\ pc'[p] = "write" /\ frame'[p].buf = buf /\ frame'[p].cmd_start = 0
    BY <1>1, <1>4 DEF BeginWrite, Call
  <2>2. CallGiven(p)'
    BY <2>1 DEF CallGiven
  <2>. QED  BY <1>2, <1>4, <2>2 DEF BeginWrite, Call
<1>5. ASSUME NEW count \in Counts, BeginRead(p, count)
      PROVE  LineInv'
  <2>1. \/ pc'[p] = "idle"
        \/ pc'[p] = "read" /\ frame'[p].count = count /\ count # 0
    BY <1>1, <1>5 DEF BeginRead, Call, Return
  <2>2. CallGiven(p)'
    BY <2>1 DEF CallGiven
  <2>. QED  BY <1>2, <1>5, <2>2 DEF BeginRead, Call, Return
<1>6. CASE \/ \E s \in SeekArgs : BeginLlseek(p, s[1], s[2])
           \/ \E s \in SeekTos : BeginIoctl(p, s[1], s[2])
  <2>1. pc'[p] \in {"llseek", "ioctl"}
    BY <1>1, <1>6 DEF BeginLlseek, BeginIoctl, Call
  <2>2. CallGiven(p)'
    BY <2>1 DEF CallGiven
  <2>. QED  BY <1>2, <1>6, <2>2 DEF BeginLlseek, BeginIoctl, Call
<1>7. CASE Interrupted(p) \/ Read(p) \/ fixed_size_llseek(p) \/ IoctlSeek(p)
  <2>1. /\ pc' = [pc EXCEPT ![p] = "idle"] /\ frame' = [frame EXCEPT ![p] = NoFrame]
        /\ pc[p] # "write_loop" /\ UNCHANGED device
    BY <1>7 DEF Interrupted, Read, fixed_size_llseek, IoctlSeek, Return
  <2>2. CallGiven(p)'
    BY <1>1, <2>1 DEF CallGiven
  <2>. QED  BY <1>2, <2>1, <2>2
<1>8. CASE aesd_size(p) \/ IoctlSum(p)
  <2>1. pc' = pc /\ pc[p] \in {"llseek", "ioctl_sum"} /\ UNCHANGED device
    BY <1>8 DEF aesd_size, IoctlSum
  <2>2. CallGiven(p)'
    BY <2>1 DEF CallGiven
  <2>3. \E locals : frame' = [frame EXCEPT ![p] = locals]
    BY <1>8 DEF aesd_size, IoctlSum
  <2>. QED  BY <1>2, <2>1, <2>2, <2>3
<1>9. CASE IoctlCheck(p)
  <2>1. \/ pc' = [pc EXCEPT ![p] = "ioctl_sum"] /\ frame' = frame
        \/ pc' = [pc EXCEPT ![p] = "idle"] /\ frame' = [frame EXCEPT ![p] = NoFrame]
    BY <1>9 DEF IoctlCheck, Return
  <2>2. CallGiven(p)'
    BY <1>1, <2>1 DEF CallGiven
  <2>3. pc[p] # "write_loop" /\ UNCHANGED device
    BY <1>9 DEF IoctlCheck
  <2>. QED  BY <1>2, <2>1, <2>2, <2>3
<1>. QED  BY <1>3, <1>4, <1>5, <1>6, <1>7, <1>8, <1>9 DEF Begin

(* A newline follows at most one line's beginning.                         *)
LEMMA AppendLine ==
  ASSUME NEW s \in Seq(Byte), ~ HasNewLine(s),
         NEW t \in Seq(Byte), AtMostOneLine(t)
  PROVE  AtMostOneLine(s \o t)
<1> DEFINE r == s \o t
<1>1. Len(s) \in Nat /\ Len(t) \in Nat
  OBVIOUS
<1>2. /\ Len(r) = Len(s) + Len(t)
      /\ \A i \in 1 .. Len(s) : r[i] = s[i]
      /\ \A j \in 1 .. Len(t) : r[Len(s) + j] = t[j]
  BY ConcatParts
<1> HIDE DEF r
<1>3. ASSUME NEW i \in 1 .. Len(r), r[i] = NewLine
      PROVE  /\ i - Len(s) \in 1 .. Len(t)
             /\ t[i - Len(s)] = NewLine
  <2>1. ~ i \in 1 .. Len(s)
    BY <1>2, <1>3 DEF HasNewLine
  <2>2. i - Len(s) \in 1 .. Len(t) /\ Len(s) + (i - Len(s)) = i
    BY <1>1, <1>2, <2>1
  <2>. QED  BY <1>2, <1>3, <2>2
<1>4. ASSUME NEW i \in 1 .. Len(r), NEW j \in 1 .. Len(r),
             r[i] = NewLine, r[j] = NewLine
      PROVE  i = j
  <2>1. i - Len(s) = j - Len(s)
    BY <1>3, <1>4 DEF AtMostOneLine
  <2>2. i \in Nat /\ j \in Nat
    OBVIOUS
  <2>. QED  BY <1>1, <2>1, <2>2
<1>. QED  BY <1>4 DEF AtMostOneLine, r

(* Nobody in the loop: the lock is free or was taken by one who died.      *)
LEMMA NobodyInLoop ==
  ASSUME DriverInv, Unlocked
  PROVE  \A q \in Proc : pc[q] # "write_loop"
BY CallsAssumption DEF DriverInv, MutexDiscipline, Unlocked

LEMMA LineAppend ==
  ASSUME LinesAssumption, DriverInv, LineInv, NEW p \in Proc, WriteAppend(p)
  PROVE  LineInv'
<1> DEFINE buf == frame[p].buf
           size == incomplete_command_size + Len(buf)
<1>1. /\ pc \in [Proc -> InCall \cup {"closed", "idle", "oops"}]
      /\ DOMAIN frame = Proc
      /\ pc[p] = "write"
      /\ pc' = [pc EXCEPT ![p] = "write_loop"]
      /\ \A q \in Proc : pc[q] # "write_loop"
      /\ frame[p] \in WriteFrame
      /\ Gathered \in Seq(Byte)
      /\ Len(Gathered) = incomplete_command_size
      /\ incomplete_command_size \in Nat
      /\ loaded
  BY NobodyInLoop, GatheredType
     DEF WriteAppend, DriverInv, TypeOK, SizeMatches, Unloaded
<1>2. /\ buf \in Inputs /\ buf \in Seq(Byte) /\ frame[p].cmd_start = 0
      /\ AtMostOneLine(buf)
      /\ ~ HasNewLine(Gathered)
  BY <1>1, BytesAssumption DEF LineInv, CallGiven, LinesAssumption
<1>3. /\ frame' = [frame EXCEPT ![p].read_size = size]
      /\ incomplete_command_buffer' = Gathered \o buf
      /\ incomplete_command_size' = size
  BY DEF WriteAppend
<1>4. size \in Nat
  BY <1>1, <1>2
<1> HIDE DEF size
<1>5. /\ frame'[p].cmd_start = 0 /\ frame'[p].read_size = size
      /\ \A q \in Proc \ {p} : frame'[q] = frame[q] /\ pc'[q] = pc[q]
      /\ pc'[p] = "write_loop"
  BY <1>1, <1>2, <1>3 DEF WriteFrame
<1>6. AtMostOneLine(incomplete_command_buffer')
  BY <1>1, <1>2, <1>3, AppendLine
<1>7. LineInLoop(p)'
  BY <1>3, <1>4, <1>5, <1>6 DEF LineInLoop, AtMostOneLine
<1>8. \A q \in Proc : CallGiven(q)'
  BY <1>5 DEF LineInv, CallGiven
<1>9. incomplete_command_buffer' \in Seq(Byte)
  BY <1>1, <1>2, <1>3
<1>. QED  BY <1>1, <1>5, <1>7, <1>8, <1>9, BytesAssumption DEF LineInv

(* In the loop there is a newline to find, in what is left, just when the  *)
(* whole incomplete command has one, and nothing was added yet.            *)
LEMMA BreaksAre ==
  ASSUME DriverInv, LineInv, NEW p \in Proc, pc[p] = "write_loop"
  PROVE  /\ Breaks(p) = {i \in frame[p].cmd_start .. incomplete_command_size - 1 :
                           incomplete_command_buffer[i+1] = NewLine}
         /\ frame[p].cmd_start \in 0 .. incomplete_command_size
         /\ Breaks(p) # {} => frame[p].cmd_start = 0
         /\ \A i, j \in Breaks(p) : i = j
<1> DEFINE start == frame[p].cmd_start
           bytes == incomplete_command_buffer
           size  == incomplete_command_size
           window == {i \in start .. size - 1 : bytes[i+1] = NewLine}
<1>1. /\ start \in Nat /\ frame[p].read_size \in Nat
      /\ size \in Nat /\ size = Len(bytes) /\ bytes \in Seq(Byte)
      /\ start + frame[p].read_size = size
      /\ AtMostOneLine(bytes)
      /\ start # 0 => \A i \in 1 .. size : i > start => bytes[i] # NewLine
  BY InLoop DEF LineInv, LineInLoop, WriteFrame
<1>2. Breaks(p) = {i \in start .. size - 1 : i < size /\ bytes[i+1] = NewLine}
  BY <1>1 DEF Breaks
<1> HIDE DEF start, bytes, size
<1>3. \A i \in start .. size - 1 : i < size
  BY <1>1
<1>4. Breaks(p) = window
  BY <1>2, <1>3
<1>5. ASSUME NEW i \in window
      PROVE  start = 0
  <2>1. i + 1 \in 1 .. size /\ i + 1 > start /\ bytes[i + 1] = NewLine
    BY <1>1
  <2>. QED  BY <1>1, <2>1
<1>6. ASSUME NEW i \in window, NEW j \in window
      PROVE  i = j
  <2>1. /\ i + 1 \in 1 .. Len(bytes) /\ bytes[i + 1] = NewLine /\ i \in Nat
        /\ j + 1 \in 1 .. Len(bytes) /\ bytes[j + 1] = NewLine /\ j \in Nat
    BY <1>1
  <2>2. i + 1 = j + 1
    BY <1>1, <2>1 DEF AtMostOneLine
  <2>. QED  BY <2>1, <2>2
<1>7. start \in 0 .. size
  BY <1>1
<1>. QED  BY <1>4, <1>5, <1>6, <1>7 DEF start, bytes, size

LEMMA LineCommand ==
  ASSUME DriverInv, LineInv, NEW p \in Proc, WriteCommand(p)
  PROVE  LineInv'
<1> DEFINE start == frame[p].cmd_start
           bytes == incomplete_command_buffer
           size  == incomplete_command_size
<1>1. /\ pc[p] = "write_loop" /\ DOMAIN frame = Proc
      /\ UNCHANGED <<incomplete_command_buffer, incomplete_command_size, pc>>
      /\ frame[p] \in WriteFrame /\ size \in Nat /\ size = Len(bytes)
      /\ LineInLoop(p)
  BY InLoop DEF WriteCommand, LineInv
<1>2. PICK cmd_break \in Breaks(p) :
        frame' = [frame EXCEPT ![p].cmd_start = cmd_break + 1,
                               ![p].read_size = Rest(frame[p].read_size, cmd_break + 1)]
  BY DEF WriteCommand
<1>3. /\ start = 0 /\ frame[p].read_size = size
      /\ cmd_break \in 0 .. size - 1
      /\ bytes[cmd_break + 1] = NewLine
  <2>1. start = 0 /\ cmd_break \in start .. size - 1 /\ bytes[cmd_break + 1] = NewLine
    BY <1>1, <1>2, BreaksAre
  <2>2. start + frame[p].read_size = size /\ frame[p].read_size \in Nat
    BY <1>1 DEF LineInLoop, WriteFrame
  <2>. QED  BY <1>1, <2>1, <2>2
<1>4. Rest(frame[p].read_size, cmd_break + 1) = size - (cmd_break + 1)
  BY <1>1, <1>3 DEF Rest
<1> DEFINE new == cmd_break + 1
           rest == size - new
<1>5. new \in 1 .. size /\ new + rest = size
  BY <1>1, <1>3
<1>6. frame' = [frame EXCEPT ![p].cmd_start = new, ![p].read_size = rest]
  BY <1>2, <1>4
<1>7. bytes[new] = NewLine
  BY <1>3
<1> HIDE DEF new, rest
<1>8. /\ frame'[p].cmd_start = new /\ frame'[p].read_size = rest
      /\ \A q \in Proc \ {p} : frame'[q] = frame[q]
  BY <1>1, <1>6 DEF WriteFrame
<1>9. \A i \in 1 .. size : i > new => bytes[i] # NewLine
  <2>1. AtMostOneLine(bytes)
    BY <1>1 DEF LineInLoop
  <2>. QED  BY <1>1, <1>5, <1>7, <2>1 DEF AtMostOneLine
<1>10. LineInLoop(p)'
  BY <1>1, <1>5, <1>8, <1>9 DEF LineInLoop, AtMostOneLine
<1>11. \A q \in Proc : pc'[q] = "write_loop" => LineInLoop(q)'
  BY <1>1, <1>8, <1>10 DEF LineInv, LineInLoop, AtMostOneLine
<1>12. \A q \in Proc : CallGiven(q)'
  BY <1>1, <1>8 DEF LineInv, CallGiven
<1>. QED  BY <1>1, <1>11, <1>12 DEF LineInv

(* Nothing but the end of the incomplete command is left.                  *)
LEMMA LineFinish ==
  ASSUME DriverInv, LineInv, NEW p \in Proc, WriteFinish(p)
  PROVE  LineInv'
<1> DEFINE start == frame[p].cmd_start
           bytes == incomplete_command_buffer
           size  == incomplete_command_size
           remaining == SubSeq(bytes, start + 1, size)
<1>1. /\ pc[p] = "write_loop" /\ DOMAIN frame = Proc
      /\ pc \in [Proc -> InCall \cup {"closed", "idle", "oops"}]
      /\ pc' = [pc EXCEPT ![p] = "idle"]
      /\ frame' = [frame EXCEPT ![p] = NoFrame]
      /\ Breaks(p) = {}
      /\ bytes \in Seq(Byte) /\ size \in Nat /\ size = Len(bytes)
      /\ start \in 0 .. size
  BY InLoop, BreaksAre DEF WriteFinish, Return
<1>2. \A q \in Proc : pc'[q] # "write_loop"
  BY <1>1, CallsAssumption DEF DriverInv, MutexDiscipline
<1>3. \A i \in start + 1 .. size : bytes[i] # NewLine
  <2> SUFFICES ASSUME NEW i \in start + 1 .. size, bytes[i] = NewLine
               PROVE  FALSE
    OBVIOUS
  <2>1. i - 1 \in start .. size - 1 /\ i - 1 + 1 = i
    BY <1>1
  <2>2. i - 1 \in Breaks(p)
    BY <1>1, <2>1, BreaksAre
  <2>. QED  BY <1>1, <2>2
<1>4. /\ remaining \in Seq(Byte) /\ Len(remaining) = size - start
      /\ \A i \in 1 .. size - start : remaining[i] = bytes[start + i]
  BY <1>1
<1>5. ~ HasNewLine(remaining)
  <2> SUFFICES ASSUME NEW i \in 1 .. size - start, remaining[i] = NewLine
               PROVE  FALSE
    BY <1>4 DEF HasNewLine
  <2>1. start + i \in start + 1 .. size
    BY <1>1
  <2>. QED  BY <1>3, <1>4, <2>1
<1> HIDE DEF remaining
<1>6. \/ incomplete_command_buffer' = remaining
      \/ incomplete_command_buffer' = NULL
  BY DEF WriteFinish, KeepRemaining, KeepNothing, remaining
<1>7. (~ HasNewLine(Gathered))' /\ incomplete_command_buffer' # FREED
  <2>1. CASE incomplete_command_buffer' = remaining
    BY <1>4, <1>5, <2>1, BytesAssumption DEF Gathered, HasNewLine
  <2>2. CASE incomplete_command_buffer' = NULL
    BY <2>2, BytesAssumption DEF Gathered, HasNewLine
  <2>. QED  BY <1>6, <2>1, <2>2
<1>8. \A q \in Proc : CallGiven(q)'
  BY <1>1 DEF LineInv, CallGiven
<1>. QED  BY <1>2, <1>7, <1>8 DEF LineInv

(* What the assumption keeps from happening.                               *)
LEMMA NothingFails ==
  ASSUME LinesAssumption, LineInv, NEW p \in Proc
  PROVE  /\ ~ WriteCopyFails(p) /\ ~ WriteAppendOops(p)
         /\ ~ WriteCommandFails(p) /\ ~ WriteFinishFails(p)
BY DEF LinesAssumption, LineInv, WriteCopyFails, WriteAppendOops,
       WriteCommandFails, WriteFinishFails

LEMMA LineStep ==
  ASSUME LinesAssumption
  PROVE  DriverInv /\ LineInv /\ [Next]_vars => LineInv'
<1> SUFFICES ASSUME DriverInv, LineInv, [Next]_vars
             PROVE  LineInv'
  OBVIOUS
<1>1. ASSUME NEW p \in Proc, Begin(p) \/ Interrupted(p) \/ Locks(p) \/ Continues(p)
      PROVE  LineInv'
  BY <1>1, LineOutside, LineAppend, LineCommand, LineFinish, NothingFails
     DEF Locks, Continues
<1>2. CASE UNCHANGED vars
  BY <1>2 DEF vars, device, LineInv, CallGiven, LineInLoop, AtMostOneLine,
              HasNewLine, Gathered
<1>. QED  BY <1>1, <1>2, LineModule DEF Next

LEMMA LineInvariant ==
  ASSUME LinesAssumption
  PROVE  Spec => []LineInv
BY LineInit, LineStep, DriverInvariant, PTL DEF Spec

(* The partial command, with a writer in its loop and without.             *)
LEMMA PartialOutside ==
  ASSUME \A q \in Proc : pc[q] # "write_loop"
  PROVE  PartialCommand = Gathered
BY DEF PartialCommand

LEMMA PartialInside ==
  ASSUME DriverInv, NEW p \in Proc, pc[p] = "write_loop"
  PROVE  PartialCommand = SubSeq(incomplete_command_buffer,
                                 frame[p].cmd_start + 1, incomplete_command_size)
<1>1. lock = p
  BY InLoop
<1>. QED  BY <1>1 DEF PartialCommand

LEMMA NotPending ==
  ASSUME DriverInv, LineInv, \A q \in Proc : pc[q] # "write_loop"
  PROVE  ~ Device!Pending
<1>1. PartialCommand = Gathered /\ Gathered \in Seq(Byte)
  BY PartialOutside, GatheredType DEF DriverInv
<1>2. ~ HasNewLine(Gathered)
  BY DEF LineInv
<1>3. DOMAIN Gathered = 1 .. Len(Gathered)
  BY <1>1
<1>. QED  BY <1>1, <1>2, <1>3 DEF Device!Pending, HasNewLine, Device!Range

(* A step that the line device does not see, or as a change of place.      *)
Unseen == UNCHANGED <<Commands, PartialCommand, f_pos, data>>

LEMMA SamePartial ==
  ASSUME DriverInv, NEW p \in Proc,
         UNCHANGED <<lock, device>>,
         pc[p] # "write_loop", pc'[p] # "write_loop",
         \A q \in Proc \ {p} : pc'[q] = pc[q] /\ frame'[q] = frame[q]
  PROVE  PartialCommand' = PartialCommand
<1>1. (\E q \in Proc : pc'[q] = "write_loop") <=> (\E q \in Proc : pc[q] = "write_loop")
  OBVIOUS
<1>2. Gathered' = Gathered
  BY DEF Gathered, device
<1>3. CASE \E q \in Proc : pc[q] = "write_loop"
  <2>1. PICK q \in Proc : pc[q] = "write_loop"
    BY <1>3
  <2>2. lock = q /\ q # p
    BY <2>1, InLoop
  <2>3. frame'[lock'] = frame[lock]
    BY <2>2
  <2>. QED  BY <1>1, <1>3, <2>3 DEF PartialCommand, device
<1>4. CASE ~ \E q \in Proc : pc[q] = "write_loop"
  BY <1>1, <1>2, <1>4 DEF PartialCommand
<1>. QED  BY <1>3, <1>4

LEMMA SameCommands ==
  ASSUME UNCHANGED <<loaded, circular_buffer>>
  PROVE  Commands' = Commands
BY DEF Commands

(* Loading and unloading.                                                  *)
LEMMA ModuleRefines ==
  ASSUME DriverInv, aesd_init_module \/ aesd_cleanup_module
  PROVE  Device!Reset
<1>1. /\ \A p \in Proc : pc[p] = "closed"
      /\ UNCHANGED <<pc, f_pos, data>>
  BY DEF DriverInv, Unloaded, aesd_init_module, aesd_cleanup_module
<1>2. incomplete_command_buffer' = NULL
  BY DEF aesd_init_module, aesd_cleanup_module
<1>3. PartialCommand' = << >>
  <2>1. Gathered' = << >>
    BY <1>2, BytesAssumption DEF Gathered
  <2>2. ~ \E p \in Proc : pc'[p] = "write_loop"
    BY <1>1
  <2>. QED  BY <2>1, <2>2 DEF PartialCommand
<1>4. Commands' = << >>
  <2>1. CASE aesd_cleanup_module
    BY <2>1 DEF aesd_cleanup_module, Commands
  <2>2. CASE aesd_init_module
    <3>1. circular_buffer' = aesd_circular_buffer_init
      BY <2>2 DEF aesd_init_module
    <3>2. CommandsOf(circular_buffer') = << >>
      BY <3>1, NoCommands
    <3>. QED  BY <3>2 DEF Commands
  <2>. QED  BY <2>1, <2>2
<1>. QED  BY <1>1, <1>3, <1>4 DEF Device!Reset

(* A step changes one file position.                                       *)
LEMMA OnePosition ==
  ASSUME NEW p \in Proc, Begin(p) \/ Interrupted(p) \/ Locks(p) \/ Continues(p)
  PROVE  f_pos' = f_pos \/ \E pos : f_pos' = [f_pos EXCEPT ![p] = pos]
<1>1. CASE Begin(p) \/ Interrupted(p)
  BY <1>1 DEF Begin, aesd_open, aesd_release, BeginWrite, BeginRead, BeginLlseek,
              BeginIoctl, Interrupted
<1>2. CASE Locks(p)
  BY <1>2 DEF Locks, Read, WriteAppend, WriteCopyFails, WriteAppendOops
<1>3. CASE Continues(p)
  BY <1>3 DEF Continues, WriteCommand, WriteCommandFails, WriteFinish,
              WriteFinishFails, aesd_size, fixed_size_llseek, IoctlCheck,
              IoctlSum, IoctlSeek
<1>. QED  BY <1>1, <1>2, <1>3

Positions == f_pos \in [Proc -> Nat]

LEMMA PositionsStep == Positions /\ PositionInv' /\ [Next]_vars => Positions'
<1> SUFFICES ASSUME Positions, PositionInv', [Next]_vars
             PROVE  Positions'
  OBVIOUS
<1> USE DEF Positions
<1>1. \A q \in Proc : f_pos'[q] \in Nat
  BY DEF PositionInv, CallTyped
<1>2. f_pos' = f_pos \/ \E p \in Proc : \E pos : f_pos' = [f_pos EXCEPT ![p] = pos]
  BY OnePosition DEF Next, vars, aesd_init_module, aesd_cleanup_module
<1>. QED  BY <1>1, <1>2

LEMMA PositionsInvariant == Spec => []Positions
<1>1. Init => Positions
  BY DEF Init, Positions
<1>. QED  BY <1>1, PositionsStep, PositionInvariant, PTL DEF Spec

(* What a process does outside the loop and without reading or writing     *)
(* data: at most its position changes.                                     *)
LEMMA PlaceRefines ==
  ASSUME DriverInv, PositionInv, PositionInv', Positions,
         NEW p \in Proc,
         \/ Begin(p) \/ Interrupted(p) \/ aesd_size(p) \/ fixed_size_llseek(p)
         \/ IoctlCheck(p) \/ IoctlSum(p) \/ IoctlSeek(p)
  PROVE  Device!Place(p)
<1>1. /\ pc \in [Proc -> InCall \cup {"closed", "idle", "oops"}]
      /\ DOMAIN frame = Proc
      /\ DOMAIN f_pos = Proc
      /\ f_pos'[p] \in Nat
  BY DEF DriverInv, TypeOK, PositionInv, CallTyped
<1> USE DEF Positions
<1>2. ASSUME UNCHANGED <<loaded, lock, device>>, pc[p] # "write_loop",
             \/ pc' = pc
             \/ \E to : to # "write_loop" /\ pc' = [pc EXCEPT ![p] = to],
             frame' = frame \/ \E locals : frame' = [frame EXCEPT ![p] = locals],
             f_pos' = f_pos \/ \E pos : f_pos' = [f_pos EXCEPT ![p] = pos],
             data' = data \/ data' = [data EXCEPT ![p] = << >>]
      PROVE  Device!Place(p)
  <2>1. PartialCommand' = PartialCommand
    BY <1>1, <1>2, SamePartial
  <2>2. Commands' = Commands
    BY <1>2, SameCommands DEF device
  <2>3. f_pos' = [f_pos EXCEPT ![p] = f_pos'[p]]
    BY <1>1, <1>2
  <2>. QED  BY <1>1, <1>2, <2>1, <2>2, <2>3 DEF Device!Place
<1>3. CASE aesd_open(p) \/ aesd_release(p)
  BY <1>1, <1>2, <1>3 DEF aesd_open, aesd_release
<1>4. CASE \E buf \in Inputs : BeginWrite(p, buf)
  BY <1>2, <1>4 DEF BeginWrite, Call
<1>5. CASE \E count \in Counts : BeginRead(p, count)
  <2>1. PICK count \in Counts : BeginRead(p, count)
    BY <1>5
  <2>. QED  BY <1>2, <2>1 DEF BeginRead, Call, Return
<1>6. CASE \E s \in SeekArgs : BeginLlseek(p, s[1], s[2])
  BY <1>2, <1>6 DEF BeginLlseek, Call
<1>7. CASE \E s \in SeekTos : BeginIoctl(p, s[1], s[2])
  BY <1>2, <1>7 DEF BeginIoctl, Call
<1>8. CASE Interrupted(p)
  BY <1>2, <1>8 DEF Interrupted, Return
<1>9. CASE fixed_size_llseek(p) \/ IoctlSeek(p)
  BY <1>2, <1>9 DEF fixed_size_llseek, IoctlSeek, Return
<1>10. CASE aesd_size(p) \/ IoctlSum(p)
  <2>1. \E locals : frame' = [frame EXCEPT ![p] = locals]
    BY <1>10 DEF aesd_size, IoctlSum
  <2>. QED  BY <1>2, <1>10, <2>1 DEF aesd_size, IoctlSum
<1>11. CASE IoctlCheck(p)
  BY <1>2, <1>11 DEF IoctlCheck, Return
<1>. QED  BY <1>3, <1>4, <1>5, <1>6, <1>7, <1>8, <1>9, <1>10, <1>11 DEF Begin

(* A read returns bytes of the contents.                                   *)
LEMMA ReadRefines ==
  ASSUME DriverInv, PositionInv, LineInv, NEW p \in Proc, Read(p)
  PROVE  Device!Read(p, frame[p].count) \/ Unseen
<1> DEFINE buffer  == circular_buffer
           passed  == Passed(buffer)
           pos     == f_pos[p]
           count   == frame[p].count
           found   == FindEntryOffset(buffer, pos)
           command == buffer.entry[found.slot].buffptr
           left    == buffer.entry[found.slot].size - found.offset
           n       == IF count < left THEN count ELSE left
           h       == Held(buffer)
<1>1. /\ pc[p] = "read" /\ loaded
      /\ UNCHANGED <<loaded, circular_buffer, lock, device>>
      /\ pc' = [pc EXCEPT ![p] = "idle"]
      /\ frame' = [frame EXCEPT ![p] = NoFrame]
      /\ pc \in [Proc -> InCall \cup {"closed", "idle", "oops"}]
      /\ DOMAIN frame = Proc
      /\ pos \in Nat
      /\ count \in Counts /\ count \in Nat /\ count > 0
      /\ \A q \in Proc : pc[q] # "write_loop"
  BY NobodyInLoop, CallsAssumption
     DEF Read, Return, device, DriverInv, TypeOK, Unloaded, PositionInv, CallTyped,
         LineInv, CallGiven
<1>2. Commands' = Commands /\ PartialCommand' = PartialCommand
  <2>1. PartialCommand' = PartialCommand
    BY <1>1, SamePartial
  <2>. QED  BY <1>1, <2>1, SameCommands
<1>3. /\ IsBuffer(buffer, Entries) /\ RingShape(buffer, Entries)
      /\ buffer.out_offs \in Slots /\ buffer.in_offs \in Slots
      /\ \A i \in Slots : buffer.entry[i].size \in Nat
      /\ passed \in [0 .. MaxOps -> Nat]
      /\ MaxOps \in Nat \ {0} /\ Slots = 0 .. MaxOps - 1
  BY <1>1, OpenRing
<1>4. CASE UNCHANGED <<f_pos, data>>
  BY <1>2, <1>4 DEF Unseen
<1>5. CASE /\ found # NULL /\ command # NULL
           /\ data' = [data EXCEPT ![p] =
                SubSeq(command, found.offset + 1, found.offset + n)]
           /\ f_pos' = [f_pos EXCEPT ![p] = @ + n]
  <2>1. PICK k \in Slots :
          /\ passed[k] <= pos
          /\ pos < passed[k+1]
          /\ found = [slot   |-> Advance(buffer.out_offs, k),
                      offset |-> pos - passed[k]]
    <3> HIDE DEF buffer
    <3>. QED  BY <1>1, <1>3, <1>5, FindStops
  <2> DEFINE slot == Advance(buffer.out_offs, k)
             i    == k + 1
             off  == pos - passed[k]
             size == buffer.entry[slot].size
  <2>2. k \in 0 .. MaxOps /\ i \in 0 .. MaxOps /\ i - 1 = k /\ k \in Nat
    BY <1>3
  <2>3. /\ slot \in Slots
        /\ slot = IF buffer.out_offs + k < MaxOps THEN buffer.out_offs + k
                                                  ELSE buffer.out_offs + k - MaxOps
    BY <1>3, <2>2, AdvanceValue DEF MaxOps
  <2>4. found.slot = slot /\ found.offset = off
    <3> HIDE DEF found, passed, buffer
    <3>. QED  BY <2>1
  <2>5. passed[i] = passed[k] + size
    BY <1>3, PassedValue
  <2>6. passed[k] \in Nat /\ passed[i] \in Nat /\ size \in Nat
    BY <1>3, <2>2, <2>3
  <2>7. h \in 0 .. MaxOps /\ h = IF buffer.full THEN MaxOps ELSE buffer.in_offs
    BY <1>3, HeldValue DEF MaxOps
  <2>8. k < h
    <3>1. CASE buffer.full
      BY <1>3, <2>7, <3>1
    <3>2. CASE ~ buffer.full
      <4>1. buffer.out_offs = 0
        BY <1>3, <3>2 DEF RingShape
      <4>2. slot = k
        BY <1>3, <2>2, <2>3, <4>1
      <4>3. command = buffer.entry[slot].buffptr
        BY <2>4
      <4>4. buffer.entry[slot] # EmptyEntry
        BY <1>5, <4>3 DEF EmptyEntry
      <4>5. slot < buffer.in_offs
        BY <1>3, <2>3, <3>2, <4>4 DEF RingShape
      <4>. QED  BY <2>7, <3>2, <4>2, <4>5
    <3>. QED  BY <3>1, <3>2
  <2>9. i \in 1 .. h /\ h \in 0 .. h /\ h \in i .. h /\ h \in Nat
    BY <2>2, <2>7, <2>8
  <2> DEFINE all == FlattenSeq(Commands)
             at  == [j \in 0 .. h |-> passed[j]]
  <2>10. /\ Commands \in Seq(Seq(Byte)) /\ Len(Commands) = h
         /\ SubSeq(Commands, 1, h) = Commands
         /\ EndsAt(Commands, at)
         /\ InPlace(Commands, at, Byte, h, all)
    <3>1. CommandRing(buffer, Entries, Byte) /\ Commands = CommandsOf(buffer)
      BY <1>1, DriverCommandRing
    <3>2. SubSeq(Commands, 1, h) = Commands
      BY <3>1, AllCommands
    <3>3. /\ Commands \in Seq(Seq(Byte)) /\ Len(Commands) = h
          /\ EndsAt(SubSeq(Commands, 1, h), at)
      BY <2>9, <3>1, CommandsEnd
    <3>4. InPlace(SubSeq(Commands, 1, h), at, Byte, h, FlattenSeq(SubSeq(Commands, 1, h)))
      BY <2>9, <3>1, CommandsInPlace
    <3>. QED  BY <3>2, <3>3, <3>4
  <2>11. Commands[i] = command /\ Len(command) = size
    <3>1. /\ Commands[i] = buffer.entry[Advance(buffer.out_offs, i - 1)].buffptr
          /\ Len(Commands[i]) = buffer.entry[Advance(buffer.out_offs, i - 1)].size
      <4> HIDE DEF i, h
      <4>. QED  BY <1>1, <2>9, DriverCommandRing, CommandsEnd DEF h
    <3>. QED  BY <2>2, <2>4, <3>1
  <2>12. command \in Seq(Byte)
    <3> HIDE DEF i, h, command
    <3>. QED  BY <2>9, <2>10, <2>11
  <2>13. at[k] = passed[k] /\ at[i] = passed[i] /\ at[h] = passed[h]
    BY <2>2, <2>9
  <2>14. at[i] <= at[h] /\ at[h] \in Nat
    <3>1. i \in 0 .. Len(Commands) /\ Len(Commands) = h /\ h \in i .. h
      BY <2>9, <2>10
    <3> HIDE DEF at, i, h
    <3>2. at[i] <= at[h]
      BY <2>10, <3>1, EndsGrow
    <3>3. at[h] \in Nat
      BY <2>9, <3>1, <2>10 DEF EndsAt
    <3>. QED  BY <3>2, <3>3
  <2>15. /\ all \in Seq(Byte) /\ Len(all) = passed[h]
         /\ \A j \in 1 .. size : all[passed[k] + j] = command[j]
    <3>1. \A j \in 1 .. Len(Commands[i]) : all[at[i-1] + j] = Commands[i][j]
      <4> HIDE DEF at, all, i, h
      <4>. QED  BY <2>9, <2>10 DEF InPlace
    <3>2. all \in Seq(Byte) /\ Len(all) = at[h]
      <4> HIDE DEF at, all, h
      <4>. QED  BY <2>10 DEF InPlace
    <3> HIDE DEF at, all, passed, command, size, h
    <3>. QED  BY <2>2, <2>11, <2>13, <3>1, <3>2
  <2>16. left = size - off
    BY <2>4
  <2> DEFINE done == passed[k]
             next == passed[i]
             end  == passed[h]
  <2>17. /\ done \in Nat /\ next \in Nat /\ end \in Nat /\ size \in Nat
         /\ next = done + size /\ next <= end
         /\ done <= pos /\ pos < next /\ off = pos - done
    BY <2>1, <2>5, <2>6, <2>13, <2>14
  <2> HIDE DEF done, next, end, size, off, left, slot, i, h, found, passed, buffer
  <2>18. /\ n \in 1 .. count /\ off \in Nat /\ off + n <= size /\ n \in Nat
         /\ pos + n <= end /\ done + off = pos
    BY <1>1, <2>16, <2>17
  <2> HIDE DEF n
  <2>19. SubSeq(command, off + 1, off + n) = SubSeq(all, pos + 1, pos + n)
    <3> DEFINE one == SubSeq(command, off + 1, off + n)
               two == SubSeq(all, pos + 1, pos + n)
    <3> HIDE DEF command, all, pos, count
    <3>1. /\ one \in Seq(Byte) /\ Len(one) = n
          /\ \A j \in 1 .. n : one[j] = command[off + j]
      BY <2>11, <2>12, <2>18, Slice
    <3>2. /\ two \in Seq(Byte) /\ Len(two) = n
          /\ \A j \in 1 .. n : two[j] = all[pos + j]
      <4>1. Len(all) = end
        BY <2>15 DEF end
      <4>2. pos \in Nat
        BY <1>1
      <4>3. all \in Seq(Byte) /\ n \in Nat /\ pos + n <= Len(all)
        BY <2>15, <2>18, <4>1
      <4> HIDE DEF n
      <4>. QED  BY <4>2, <4>3, Slice
    <3> HIDE DEF one, two
    <3>3. \A j \in 1 .. n : one[j] = two[j]
      <4> TAKE j \in 1 .. n
      <4>1. off + j \in 1 .. size /\ done + (off + j) = pos + j
        BY <2>17, <2>18
      <4>2. all[done + (off + j)] = command[off + j]
        BY <2>15, <4>1 DEF done
      <4>. QED  BY <3>1, <3>2, <4>1, <4>2
    <3>4. one = two
      BY <3>1, <3>2, <3>3, SeqEqual
    <3>. QED  BY <3>4 DEF one, two
  <2>20. Device!Contents = all
    BY DEF Device!Contents, Device!FlattenSeq, FlattenSeq, all
  <2>21. ~ Device!Pending
    BY <1>1, NotPending
  <2>22. /\ n \in 0 .. count /\ n # 0 /\ count # 0
         /\ ~ Len(all) - pos <= 0 /\ n <= Len(all) - pos
    <3>1. Len(all) = end
      BY <2>15 DEF end
    <3>2. pos \in Nat /\ count \in Nat
      BY <1>1
    <3> HIDE DEF all, at, pos, count, command
    <3>3. n \in 0 .. count /\ n # 0 /\ count # 0
      BY <2>18, <3>2
    <3>4. ~ end - pos <= 0 /\ n <= end - pos
      BY <2>17, <2>18, <3>2
    <3>. QED  BY <3>1, <3>3, <3>4
  <2>23. data' = [data EXCEPT ![p] = SubSeq(all, pos + 1, pos + n)]
    <3> HIDE DEF all, command, pos
    <3>. QED  BY <1>5, <2>4, <2>19
  <2>24. Device!Read(p, count)
    <3> HIDE DEF all, count
    <3>. QED  BY <1>2, <1>5, <2>20, <2>21, <2>22, <2>23 DEF Device!Read, pos
  <2>. QED  BY <2>24
<1>. QED
  <2> HIDE DEF n
  <2>. QED  BY <1>4, <1>5 DEF Read, n

(* aesd_write's bytes join the partial command.                            *)
LEMMA AppendRefines ==
  ASSUME DriverInv, LineInv, NEW p \in Proc, WriteAppend(p)
  PROVE  Device!Receive(frame[p].buf)
<1> DEFINE buf   == frame[p].buf
           bytes == Gathered \o buf
           size  == incomplete_command_size + Len(buf)
<1>1. /\ pc \in [Proc -> InCall \cup {"closed", "idle", "oops"}]
      /\ DOMAIN frame = Proc
      /\ pc[p] = "write"
      /\ pc' = [pc EXCEPT ![p] = "write_loop"]
      /\ \A q \in Proc : pc[q] # "write_loop"
      /\ frame[p] \in WriteFrame
      /\ frame[p].cmd_start = 0
      /\ Gathered \in Seq(Byte)
      /\ Len(Gathered) = incomplete_command_size
      /\ UNCHANGED <<loaded, circular_buffer, f_pos, data>>
      /\ lock' = p
      /\ frame' = [frame EXCEPT ![p].read_size = size]
      /\ incomplete_command_buffer' = bytes
      /\ incomplete_command_size' = size
  BY NobodyInLoop, GatheredType
     DEF WriteAppend, DriverInv, TypeOK, SizeMatches, LineInv, CallGiven
<1>2. buf \in Seq(Byte)
  BY <1>1 DEF WriteFrame
<1>3. bytes \in Seq(Byte) /\ Len(bytes) = size /\ size \in Nat
  <2>1. bytes \in Seq(Byte) /\ Len(bytes) = Len(Gathered) + Len(buf)
    BY <1>1, <1>2, ConcatParts
  <2>. QED  BY <1>1, <2>1
<1> HIDE DEF bytes, size
<1>4. SubSeq(bytes, 1, size) = bytes
  <2>1. 1 = 0 + 1 /\ size = 0 + size /\ 0 + size <= Len(bytes) /\ 0 \in Nat
    BY <1>3
  <2>2. /\ SubSeq(bytes, 0 + 1, 0 + size) \in Seq(Byte)
        /\ Len(SubSeq(bytes, 0 + 1, 0 + size)) = size
        /\ \A i \in 1 .. size : SubSeq(bytes, 0 + 1, 0 + size)[i] = bytes[0 + i]
    BY <1>3, <2>1, Slice
  <2> DEFINE sub == SubSeq(bytes, 1, size)
  <2>3. sub \in Seq(Byte) /\ Len(sub) = size /\ \A i \in 1 .. size : sub[i] = bytes[i]
    BY <1>3, <2>1, <2>2
  <2>4. sub = bytes
    <3> HIDE DEF sub
    <3>. QED  BY <1>3, <2>3, SeqEqual
  <2>. QED  BY <2>4
<1>5. pc'[p] = "write_loop" /\ frame'[p].cmd_start = 0
  BY <1>1 DEF WriteFrame
<1>6. PartialCommand' = bytes
  <2>1. PartialCommand' = SubSeq(bytes, 0 + 1, size)
    BY <1>1, <1>5 DEF PartialCommand
  <2>. QED  BY <1>4, <2>1
<1>7. PartialCommand = Gathered
  BY <1>1, PartialOutside
<1>8. Commands' = Commands
  BY <1>1, SameCommands
<1>9. ~ Device!Pending
  BY <1>1, NotPending
<1>. QED  BY <1>1, <1>6, <1>7, <1>8, <1>9 DEF Device!Receive, bytes

(* The least index of a set of indices.                                    *)
LEMMA MinOfOne ==
  ASSUME NEW n \in Int
  PROVE  Device!Min({n}) = n
<1>1. \E x \in {n} : \A y \in {n} : x <= y
  OBVIOUS
<1>. QED  BY <1>1 DEF Device!Min

(* A command added to the ring is appended to the log.                     *)
LEMMA CommandAppended ==
  ASSUME DriverInv, loaded, loaded', NEW e \in Entries,
         circular_buffer' = AddEntry(circular_buffer, e)
  PROVE  Commands' = Device!BoundedAppend(Commands, e.buffptr, MaxOps)
<1>1. IsBuffer(circular_buffer, Entries) /\ RingShape(circular_buffer, Entries)
  BY DEF DriverInv, TypeOK, RingInv
<1>2. CommandsOf(circular_buffer') =
        BoundedAppend(CommandsOf(circular_buffer), e.buffptr, MaxOps)
  BY <1>1, CommandsAppend
<1>3. /\ Commands = CommandsOf(circular_buffer)
      /\ Commands' = CommandsOf(circular_buffer')
  BY DEF Commands
<1>. QED  BY <1>2, <1>3 DEF BoundedAppend, Device!BoundedAppend

(* One round of aesd_write's loop completes a command.                     *)
LEMMA CommandRefines ==
  ASSUME DriverInv, LineInv, NEW p \in Proc, WriteCommand(p)
  PROVE  Device!Complete
<1> DEFINE bytes == incomplete_command_buffer
           size  == incomplete_command_size
<1>1. /\ pc[p] = "write_loop" /\ DOMAIN frame = Proc /\ loaded /\ lock = p
      /\ UNCHANGED <<incomplete_command_buffer, incomplete_command_size, pc,
                     loaded, lock, f_pos, data>>
      /\ frame[p] \in WriteFrame /\ size \in Nat /\ size = Len(bytes)
      /\ bytes \in Seq(Byte)
      /\ AtMostOneLine(bytes)
  BY InLoop DEF WriteCommand, LineInv, LineInLoop
<1>2. PICK b \in Breaks(p) :
        /\ circular_buffer' = AddEntry(circular_buffer,
             [buffptr |-> Subcmd(p, b), size |-> b + 1])
        /\ frame' = [frame EXCEPT ![p].cmd_start = b + 1,
                                  ![p].read_size = Rest(frame[p].read_size, b + 1)]
  BY DEF WriteCommand
<1>3. frame[p].cmd_start = 0 /\ b \in 0 .. size - 1 /\ bytes[b + 1] = NewLine
  BY <1>1, <1>2, BreaksAre
<1> DEFINE n == b + 1
           first == SubSeq(bytes, 1, n)
           subcmd == Subcmd(p, b)
<1>4. n \in 1 .. size /\ n \in Nat /\ bytes[n] = NewLine
  BY <1>1, <1>3
<1>5. subcmd = [i \in 1 .. n |-> bytes[i]]
  <2>1. subcmd = [i \in 1 .. n |-> IF 0 + i <= Len(bytes) THEN bytes[0 + i] ELSE Junk]
    BY <1>3 DEF Subcmd
  <2>2. \A i \in 1 .. n : 0 + i = i /\ i <= Len(bytes)
    BY <1>1, <1>4
  <2> HIDE DEF subcmd, n, bytes
  <2>. QED  BY <2>1, <2>2
<1>6. PartialCommand = bytes
  <2>1. PartialCommand = SubSeq(bytes, 0 + 1, size)
    BY <1>1, <1>3, PartialInside
  <2>. QED  BY <1>1, <2>1, WholeSlice
<1>7. PartialCommand' = SubSeq(bytes, n + 1, size)
  <2>1. frame'[p].cmd_start = n
    BY <1>1, <1>2 DEF WriteFrame
  <2> HIDE DEF n
  <2>2. \E q \in Proc : pc'[q] = "write_loop"
    BY <1>1
  <2>. QED  BY <1>1, <2>1, <2>2 DEF PartialCommand
<1> HIDE DEF n, bytes, size, subcmd
<1>8. subcmd \in Seq(Byte) /\ subcmd = first
  <2>1. \A i \in 1 .. n : bytes[i] \in Byte
    BY <1>1, <1>4
  <2>2. /\ subcmd \in Seq(Byte) /\ Len(subcmd) = n
        /\ \A i \in 1 .. n : subcmd[i] = bytes[i]
    BY <1>4, <1>5, <2>1
  <2>3. /\ first \in Seq(Byte) /\ Len(first) = n
        /\ \A i \in 1 .. n : first[i] = bytes[i]
    BY <1>1, <1>4
  <2> HIDE DEF first
  <2>. QED  BY <2>2, <2>3, SeqEqual
<1>9. Commands' = Device!BoundedAppend(Commands, first, MaxOps)
  <2> DEFINE e == [buffptr |-> subcmd, size |-> n]
  <2>1. e \in Entries
    BY <1>4, <1>8 DEF Entries
  <2>2. circular_buffer' = AddEntry(circular_buffer, e)
    BY <1>2 DEF subcmd, n
  <2>3. e.buffptr = first
    BY <1>8
  <2> HIDE DEF e, first
  <2>. QED  BY <1>1, <2>1, <2>2, <2>3, CommandAppended
<1>10. {i \in 1 .. Len(bytes) : bytes[i] = NewLine} = {n}
  BY <1>1, <1>4 DEF AtMostOneLine
<1>11. Device!SelectInSeq(bytes, LAMBDA c : c = NewLine) = n
  <2>1. Device!SelectInSeq(bytes, LAMBDA c : c = NewLine) = Device!Min({n})
    BY <1>10 DEF Device!SelectInSeq
  <2>. QED  BY <1>4, <2>1, MinOfOne
<1>12. NewLine \in Device!Range(bytes)
  <2>1. n \in DOMAIN bytes
    BY <1>1, <1>4
  <2>. QED  BY <1>4, <2>1 DEF Device!Range
<1>13. Len(bytes) = size
  BY <1>1
<1>. QED  BY <1>1, <1>6, <1>7, <1>9, <1>11, <1>12, <1>13
             DEF Device!Complete, Device!Pending, MaxOps

(* The end of aesd_write keeps what the partial command is.                *)
LEMMA FinishRefines ==
  ASSUME DriverInv, LineInv, NEW p \in Proc, WriteFinish(p)
  PROVE  Unseen
<1> DEFINE start == frame[p].cmd_start
           bytes == incomplete_command_buffer
           size  == incomplete_command_size
           remaining == SubSeq(bytes, start + 1, size)
<1>1. /\ pc[p] = "write_loop"
      /\ pc \in [Proc -> InCall \cup {"closed", "idle", "oops"}]
      /\ pc' = [pc EXCEPT ![p] = "idle"]
      /\ UNCHANGED <<loaded, circular_buffer, f_pos, data>>
      /\ bytes \in Seq(Byte) /\ size \in Nat /\ size = Len(bytes)
      /\ start \in 0 .. size
  BY InLoop, BreaksAre DEF WriteFinish, Return
<1>2. \A q \in Proc : pc'[q] # "write_loop"
  BY <1>1, CallsAssumption DEF DriverInv, MutexDiscipline
<1>3. PartialCommand = remaining
  BY <1>1, PartialInside
<1>4. PartialCommand' = Gathered'
  BY <1>2 DEF PartialCommand
<1>5. CASE start < size
  <2>1. incomplete_command_buffer' = remaining
    BY <1>5 DEF WriteFinish, KeepRemaining
  <2>2. remaining \in Seq(Byte)
    BY <1>1
  <2> HIDE DEF remaining
  <2>3. Gathered' = remaining
    BY <2>1, <2>2, BytesAssumption DEF Gathered
  <2>. QED  BY <1>1, <1>3, <1>4, <2>3, SameCommands DEF Unseen
<1>6. CASE ~ start < size
  <2>1. incomplete_command_buffer' = NULL
    BY <1>6 DEF WriteFinish, KeepRemaining, KeepNothing
  <2>2. Gathered' = << >>
    BY <2>1, BytesAssumption DEF Gathered
  <2>3. start = size
    BY <1>1, <1>6
  <2>4. remaining = << >>
    <3>1. remaining = SubSeq(bytes, size + 1, size)
      BY <2>3
    <3> HIDE DEF remaining, start
    <3>2. SubSeq(bytes, size + 1, size) = << >>
      BY <1>1
    <3>. QED  BY <3>1, <3>2
  <2>. QED  BY <1>1, <1>3, <1>4, <2>2, <2>4, SameCommands DEF Unseen
<1>. QED  BY <1>5, <1>6

(* What the driver's memory, lock and ring come down to: a write completes *)
(* its command in the log, in its order, and a read returns the contents,  *)
(* however the calls of the processes interleave; for writers that put one *)
(* newline at most in a buffer, as the server does.                        *)
THEOREM DriverImplementsLineDevice ==
  ASSUME LinesAssumption
  PROVE  Spec => ImplementsLineDevice
<1>1. Init => Device!Init
  <2> SUFFICES ASSUME Init
               PROVE  Device!Init
    OBVIOUS
  <2>1. PartialCommand = << >>
    BY BytesAssumption DEF Init, PartialCommand, Gathered
  <2>2. Commands = << >>
    BY DEF Init, Commands
  <2>. QED  BY <2>1, <2>2 DEF Init, Device!Init
<1> DEFINE view == <<Commands, PartialCommand, f_pos, data>>
<1>2. DriverInv /\ PositionInv /\ PositionInv' /\ LineInv /\ Positions /\ [Next]_vars
        => [Device!Next]_view
  <2> SUFFICES ASSUME DriverInv, PositionInv, PositionInv', LineInv, Positions,
                      [Next]_vars
               PROVE  [Device!Next]_view
    OBVIOUS
  <2>1. CASE aesd_init_module \/ aesd_cleanup_module
    BY <2>1, ModuleRefines DEF Device!Next
  <2>2. ASSUME NEW p \in Proc, Begin(p) \/ Interrupted(p) \/ Locks(p) \/ Continues(p)
        PROVE  [Device!Next]_view
    <3>1. CASE \/ Begin(p) \/ Interrupted(p) \/ aesd_size(p) \/ fixed_size_llseek(p)
               \/ IoctlCheck(p) \/ IoctlSum(p) \/ IoctlSeek(p)
      BY <3>1, PlaceRefines DEF Device!Next
    <3>2. CASE Read(p)
      <4>1. Device!Read(p, frame[p].count) \/ Unseen
        BY <3>2, ReadRefines
      <4>2. frame[p].count \in Counts
        BY <3>2 DEF Read, LineInv, CallGiven
      <4>. QED  BY <4>1, <4>2 DEF Device!Next, Unseen
    <3>3. CASE WriteAppend(p)
      <4>1. Device!Receive(frame[p].buf)
        BY <3>3, AppendRefines
      <4>2. frame[p].buf \in Inputs
        BY <3>3 DEF WriteAppend, LineInv, CallGiven
      <4>. QED  BY <4>1, <4>2 DEF Device!Next
    <3>4. CASE WriteCommand(p)
      BY <3>4, CommandRefines DEF Device!Next
    <3>5. CASE WriteFinish(p)
      BY <3>5, FinishRefines DEF Unseen
    <3>. QED  BY <2>2, <3>1, <3>2, <3>3, <3>4, <3>5, NothingFails DEF Locks, Continues
  <2>3. CASE UNCHANGED vars
    <3>1. Commands' = Commands
      BY <2>3, SameCommands DEF vars, device
    <3>2. PartialCommand' = PartialCommand
      BY <2>3 DEF vars, device, PartialCommand, Gathered
    <3>. QED  BY <2>3, <3>1, <3>2 DEF vars
  <2>. QED  BY <2>1, <2>2, <2>3 DEF Next
<1>3. Spec => []LineInv
  BY LineInvariant
<1>. QED
  BY <1>1, <1>2, <1>3, DriverInvariant, PositionInvariant, PositionsInvariant, PTL
     DEF Spec, ImplementsLineDevice, Device!Spec
=============================================================================
