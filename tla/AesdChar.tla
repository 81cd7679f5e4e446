------------------------------ MODULE AesdChar ------------------------------
(***************************************************************************)
(* The character device driver of aesd-char-driver/main.c: processes, each *)
(* with one open file, call its file operations concurrently.              *)
(*                                                                         *)
(* What a call does between taking dev->lock and the next point another    *)
(* process can observe is one action.  read and write take the lock; the   *)
(* only code that runs without it reads the sizes of the ring's entries    *)
(* (aesd_size for llseek, the loop of aesd_adjust_file_offset), one entry  *)
(* at a time, so write is cut at each add_entry and the two loops at each  *)
(* entry.  A step that the kernel may refuse has a disjunct for it, enabled *)
(* when Faults names the kernel call that fails.                           *)
(***************************************************************************)
EXTENDS AesdCircularBuffer, SequencesExt

CONSTANTS
  Proc,          \* the processes
  NoProc,        \* the owner of a free mutex
  Byte,          \* the characters written, NewLine and Junk among them
  NewLine,       \* '\n'
  Junk,          \* a byte of memory the driver does not own
  FREED,         \* a pointer to memory that was freed
  Inputs,        \* the user buffers of write calls
  Counts,        \* the counts of read calls
  SeekArgs,      \* the <<whence, off>> of llseek calls
  SeekTos,       \* the <<write_cmd, write_cmd_offset>> of ioctl calls
  Faults,        \* which of the kernel's calls may fail
  MaxIncomplete  \* bound on the bytes the incomplete command gathers

ASSUME BytesAssumption ==
  /\ NewLine \in Byte /\ Junk \in Byte
  /\ \A buf \in Inputs : buf \in Seq(Byte)
  /\ NULL \notin Seq(Byte) /\ FREED \notin Seq(Byte) /\ NULL # FREED

ASSUME CallsAssumption ==
  /\ NoProc \notin Proc
  /\ \A count \in Counts : count \in Nat
  /\ \A s \in SeekTos : s[1] \in Nat /\ s[2] \in Nat
  /\ \A s \in SeekArgs : s[1] \in {"SEEK_SET", "SEEK_CUR", "SEEK_END"}
                           /\ s[2] \in Int

VARIABLES
  loaded,                     \* between aesd_init_module and aesd_cleanup_module
  circular_buffer,            \* \
  incomplete_command_buffer,  \*  \ struct aesd_dev; lock is the process
  incomplete_command_size,    \*  / holding the mutex, or NoProc
  lock,                       \* /
  blocks,                     \* kmalloc'ed blocks not yet kfree'd
  pc,                         \* where each process is in its call
  frame,                      \* the arguments and locals of that call
  f_pos,                      \* filp->f_pos
  data                        \* what the read that just returned gave the user

device == <<circular_buffer, incomplete_command_buffer,
            incomplete_command_size, blocks>>
vars   == <<loaded, lock, device, pc, frame, f_pos, data>>

NoFrame == << >>

Init ==
  /\ loaded = FALSE
  /\ circular_buffer = aesd_circular_buffer_init
  /\ incomplete_command_buffer = NULL
  /\ incomplete_command_size = 0
  /\ lock = NoProc
  /\ blocks = 0
  /\ pc = [p \in Proc |-> "closed"]
  /\ frame = [p \in Proc |-> NoFrame]
  /\ f_pos = [p \in Proc |-> 0]
  /\ data = [p \in Proc |-> << >>]

-----------------------------------------------------------------------------
(* What a call, a return and a crash of process p do to its own state.     *)

Call(p, op, locals) ==
  /\ pc[p] = "idle"
  /\ pc' = [pc EXCEPT ![p] = op]
  /\ frame' = [frame EXCEPT ![p] = locals]
  /\ data' = [data EXCEPT ![p] = << >>]

Return(p) ==
  /\ pc' = [pc EXCEPT ![p] = "idle"]
  /\ frame' = [frame EXCEPT ![p] = NoFrame]

(* A null or freed pointer is used: the kernel kills the process where it  *)
(* stands, and whatever lock it holds stays held.                          *)
Oops(p) ==
  /\ pc' = [pc EXCEPT ![p] = "oops"]
  /\ frame' = [frame EXCEPT ![p] = NoFrame]

(* dev->lock is free to be taken, and is given back.                       *)
AlwaysUnlocked == TRUE                 \* variant: the lock is not waited for
Unlocked == lock = NoProc

NeverUnlock == UNCHANGED lock          \* variant: the mutex_unlock is missing
Unlock == lock' = NoProc

(* Memory: how many blocks a pointer owns.                                 *)
Owned(ptr) == IF ptr \in {NULL, FREED} THEN 0 ELSE 1

-----------------------------------------------------------------------------
(* Loading and unloading the module, opening and closing the device.       *)

(* When the kernel refuses the character device, insmod fails, after the    *)
(* device struct was set up.                                               *)
aesd_init_module ==
  /\ ~ loaded
  /\ \/ loaded' = TRUE
     \/ "cdev_add" \in Faults /\ loaded' = FALSE
  /\ circular_buffer' = aesd_circular_buffer_init
  /\ incomplete_command_buffer' = NULL
  /\ incomplete_command_size' = 0
  /\ lock' = NoProc
  /\ UNCHANGED <<blocks, pc, frame, f_pos, data>>

(* The module cannot be unloaded while a file is open: cdev.owner.         *)
aesd_cleanup_module ==
  LET used == {i \in Slots : circular_buffer.entry[i].buffptr # NULL}
  IN  /\ loaded
      /\ \A p \in Proc : pc[p] = "closed"
      /\ loaded' = FALSE
      /\ IF incomplete_command_buffer # NULL
           THEN /\ incomplete_command_buffer' = NULL
                /\ incomplete_command_size' = 0
           ELSE UNCHANGED <<incomplete_command_buffer, incomplete_command_size>>
      /\ circular_buffer' =
           [circular_buffer EXCEPT !.entry =
              [i \in Slots |-> [@[i] EXCEPT !.buffptr = NULL]]]
      /\ blocks' = blocks - Owned(incomplete_command_buffer) - Cardinality(used)
      /\ UNCHANGED <<lock, pc, frame, f_pos, data>>

aesd_open(p) ==
  /\ loaded
  /\ pc[p] = "closed"
  /\ pc' = [pc EXCEPT ![p] = "idle"]
  /\ f_pos' = [f_pos EXCEPT ![p] = 0]
  /\ UNCHANGED <<loaded, lock, device, frame, data>>

(* The file goes away, and its position with it.                           *)
aesd_release(p) ==
  /\ pc[p] = "idle"
  /\ pc' = [pc EXCEPT ![p] = "closed"]
  /\ f_pos' = [f_pos EXCEPT ![p] = 0]
  /\ data' = [data EXCEPT ![p] = << >>]
  /\ UNCHANGED <<loaded, lock, device, frame>>

(* mutex_lock_interruptible gives up on a signal: -EINTR.                  *)
Interrupted(p) ==
  /\ "signal" \in Faults
  /\ pc[p] \in {"read", "write"}
  /\ Return(p)
  /\ UNCHANGED <<loaded, lock, device, f_pos, data>>

-----------------------------------------------------------------------------
(* aesd_read                                                               *)

BeginRead(p, count) ==
  /\ IF count = 0
       THEN pc[p] = "idle" /\ Return(p) /\ data' = [data EXCEPT ![p] = << >>]
       ELSE Call(p, "read", [count |-> count])
  /\ UNCHANGED <<loaded, lock, device, f_pos>>

Read(p) ==
  LET found     == FindEntryOffset(circular_buffer, f_pos[p])
      buffptr   == circular_buffer.entry[found.slot].buffptr
      missing   == found # NULL => buffptr = NULL
      left      == circular_buffer.entry[found.slot].size - found.offset
      read_size == IF frame[p].count < left THEN frame[p].count ELSE left
  IN  /\ pc[p] = "read"
      /\ Unlocked
      /\ Return(p)
      /\ \/ /\ missing
            /\ UNCHANGED <<f_pos, data>>
         \/ /\ ~ missing
            /\ data' = [data EXCEPT ![p] =
                 SubSeq(buffptr, found.offset + 1, found.offset + read_size)]
            /\ f_pos' = [f_pos EXCEPT ![p] = @ + read_size]
         \/ /\ ~ missing /\ "copy_to_user" \in Faults          \* -EFAULT
            /\ UNCHANGED <<f_pos, data>>
      /\ UNCHANGED <<loaded, lock, device>>

-----------------------------------------------------------------------------
(* aesd_write                                                              *)

HasNewLine(bytes) == \E i \in 1 .. Len(bytes) : bytes[i] = NewLine

(* MaxIncomplete bounds what a user writes, so it is a guard on the call   *)
(* and not on the driver: a buffer that completes the line always passes.  *)
BeginWrite(p, buf) ==
  /\ \/ incomplete_command_size + Len(buf) <= MaxIncomplete
     \/ HasNewLine(buf) /\ incomplete_command_size <= MaxIncomplete
  /\ Call(p, "write", [buf |-> buf, cmd_start |-> 0, read_size |-> 0])
  /\ UNCHANGED <<loaded, lock, device, f_pos>>

(* The bytes the memcpy from the incomplete command brings into to_write:  *)
(* junk when that memory was freed by an earlier call.                     *)
Gathered ==
  CASE incomplete_command_buffer = NULL  -> << >>
    [] incomplete_command_buffer = FREED ->
         [i \in 1 .. incomplete_command_size |-> Junk]
    [] OTHER                             -> incomplete_command_buffer

(* Take the lock and append the user's bytes to the incomplete command, in *)
(* a new block that replaces the old one.                                  *)
WriteAppend(p) ==
  LET to_write == Gathered \o frame[p].buf
  IN  /\ pc[p] = "write"
      /\ Unlocked
      /\ lock' = p
      /\ incomplete_command_buffer' = to_write
      /\ incomplete_command_size' = incomplete_command_size + Len(frame[p].buf)
      /\ blocks' = blocks + 1 - Owned(incomplete_command_buffer)
      /\ pc' = [pc EXCEPT ![p] = "write_loop"]
      /\ frame' = [frame EXCEPT ![p].read_size =
                     incomplete_command_size + Len(frame[p].buf)]
      /\ UNCHANGED <<loaded, circular_buffer, f_pos, data>>

(* copy_from_user fails after the old block was freed: -EFAULT, and the    *)
(* device keeps pointing at the freed block.                               *)
WriteCopyFails(p) ==
  /\ "copy_from_user" \in Faults
  /\ pc[p] = "write"
  /\ Unlocked
  /\ incomplete_command_buffer' =
       IF incomplete_command_buffer = NULL THEN NULL ELSE FREED
  /\ blocks' = blocks - Owned(incomplete_command_buffer)
  /\ Return(p)
  /\ UNCHANGED <<loaded, lock, circular_buffer, incomplete_command_size,
                 f_pos, data>>

(* The first kmalloc is unchecked: memcpy or copy_from_user gets a null    *)
(* pointer, with the lock held.  So does a process that frees the          *)
(* incomplete command a second time, when the allocator notices.           *)
WriteAppendOops(p) ==
  /\ "kmalloc" \in Faults \/ incomplete_command_buffer = FREED
  /\ pc[p] = "write"
  /\ Unlocked
  /\ lock' = p
  /\ Oops(p)
  /\ UNCHANGED <<loaded, device, f_pos, data>>

(* memchr(cmd_start, '\n', read_size): the offsets of the newlines in the  *)
(* window, the first of which is cmd_break.                                *)
Breaks(p) ==
  {i \in frame[p].cmd_start .. frame[p].cmd_start + frame[p].read_size - 1 :
     /\ i < Len(incomplete_command_buffer)
     /\ incomplete_command_buffer[i+1] = NewLine}

(* subcmd_size is counted from the start of the incomplete command, so     *)
(* for a second newline it is too large and the memcpy runs on past the    *)
(* newline, and past the end of the block.                                 *)
Subcmd(p, cmd_break) ==
  LET subcmd_size == cmd_break + 1
      cmd_start   == frame[p].cmd_start
  IN  [i \in 1 .. subcmd_size |->
         IF cmd_start + i <= Len(incomplete_command_buffer)
           THEN incomplete_command_buffer[cmd_start + i] ELSE Junk]

(* read_size after a round, kept from going below zero: with several       *)
(* newlines, subcmd_size exceeds what is left.                             *)
RestUnclamped(read_size, subcmd_size) == read_size - subcmd_size  \* variant
Rest(read_size, subcmd_size) ==
  IF subcmd_size > read_size THEN 0 ELSE read_size - subcmd_size

(* One round of the while loop: add the command, free what it overwrote.   *)
WriteCommand(p) ==
  /\ pc[p] = "write_loop"
  /\ \E cmd_break \in Breaks(p) :
       LET subcmd      == Subcmd(p, cmd_break)
           subcmd_size == cmd_break + 1
       IN  /\ \A i \in Breaks(p) : cmd_break <= i
           /\ circular_buffer' = AddEntry(circular_buffer,
                                   [buffptr |-> subcmd, size |-> subcmd_size])
           /\ blocks' = blocks + 1 - Owned(Overwritten(circular_buffer))
           /\ frame' = [frame EXCEPT
                ![p].cmd_start = cmd_break + 1,
                ![p].read_size = Rest(@, subcmd_size)]
  /\ UNCHANGED <<loaded, lock, incomplete_command_buffer,
                 incomplete_command_size, pc, f_pos, data>>

(* kmalloc fails for the entry (-ENOMEM: the incomplete command keeps the  *)
(* commands already added) or, unchecked, for subcmd.                      *)
WriteCommandFails(p) ==
  /\ "kmalloc" \in Faults
  /\ pc[p] = "write_loop"
  /\ Breaks(p) # {}
  /\ \/ Return(p) /\ Unlock
     \/ Oops(p) /\ UNCHANGED lock
  /\ UNCHANGED <<loaded, device, f_pos, data>>

(* No newline is left: keep the excess bytes, or nothing.                  *)
KeepNothingStaleSize ==                \* variant: the size is not reset
  /\ incomplete_command_buffer' = NULL
  /\ UNCHANGED incomplete_command_size
KeepNothing ==
  /\ incomplete_command_buffer' = NULL
  /\ incomplete_command_size' = 0

KeepRemaining(p) ==
  LET remaining == SubSeq(incomplete_command_buffer, frame[p].cmd_start + 1,
                          incomplete_command_size)
  IN  IF frame[p].cmd_start < incomplete_command_size
        THEN /\ incomplete_command_buffer' = remaining
             /\ incomplete_command_size' = Len(remaining)
             /\ blocks' = blocks + 1 - Owned(incomplete_command_buffer)
        ELSE /\ KeepNothing
             /\ blocks' = blocks - Owned(incomplete_command_buffer)

WriteFinish(p) ==
  /\ pc[p] = "write_loop"
  /\ Breaks(p) = {}
  /\ KeepRemaining(p)
  /\ Unlock
  /\ Return(p)
  /\ UNCHANGED <<loaded, circular_buffer, f_pos, data>>

(* kmalloc fails for the excess bytes (-ENOMEM) or, unchecked, in          *)
(* aesd_print_cb, which copies each entry to print it.                     *)
WriteFinishFails(p) ==
  /\ "kmalloc" \in Faults
  /\ pc[p] = "write_loop"
  /\ Breaks(p) = {}
  /\ \/ /\ frame[p].cmd_start < incomplete_command_size
        /\ Return(p)
        /\ Unlock
        /\ UNCHANGED <<incomplete_command_buffer, incomplete_command_size, blocks>>
     \/ /\ \E i \in Slots : circular_buffer.entry[i].buffptr # NULL
        /\ KeepRemaining(p)
        /\ Oops(p)
        /\ UNCHANGED lock
  /\ UNCHANGED <<loaded, circular_buffer, f_pos, data>>

-----------------------------------------------------------------------------
(* aesd_llseek: aesd_size adds up the sizes without the lock, then         *)
(* fixed_size_llseek, the kernel's, sets f_pos within 0 .. cb_size.        *)

BeginLlseek(p, whence, off) ==
  /\ Call(p, "llseek", [whence |-> whence, off |-> off, index |-> 0, bytes |-> 0])
  /\ UNCHANGED <<loaded, lock, device, f_pos>>

aesd_size(p) ==
  /\ pc[p] = "llseek"
  /\ frame[p].index < AESDCHAR_MAX_WRITE_OPERATIONS_SUPPORTED
  /\ frame' = [frame EXCEPT
       ![p].index = @ + 1,
       ![p].bytes = @ + circular_buffer.entry[frame[p].index].size]
  /\ UNCHANGED <<loaded, lock, device, pc, f_pos, data>>

vfs_setpos(pos, target, maxsize) ==        \* else -EINVAL
  IF target \in 0 .. maxsize THEN target ELSE pos

fixed_size_llseek(p) ==
  LET cb_size == frame[p].bytes
      target  == CASE frame[p].whence = "SEEK_SET" -> frame[p].off
                   [] frame[p].whence = "SEEK_CUR" -> f_pos[p] + frame[p].off
                   [] frame[p].whence = "SEEK_END" -> cb_size + frame[p].off
  IN  /\ pc[p] = "llseek"
      /\ frame[p].index = AESDCHAR_MAX_WRITE_OPERATIONS_SUPPORTED
      /\ f_pos' = [f_pos EXCEPT ![p] = vfs_setpos(@, target, cb_size)]
      /\ Return(p)
      /\ UNCHANGED <<loaded, lock, device, data>>

-----------------------------------------------------------------------------
(* aesd_unlocked_ioctl with AESDCHAR_IOCSEEKTO: aesd_adjust_file_offset    *)
(* checks the command, then adds up the sizes of the slots before it, all  *)
(* without the lock.                                                       *)

BeginIoctl(p, write_cmd, write_cmd_offset) ==
  /\ Call(p, "ioctl", [write_cmd |-> write_cmd,
                       write_cmd_offset |-> write_cmd_offset,
                       index |-> 0, calculated_offset |-> 0])
  /\ UNCHANGED <<loaded, lock, device, f_pos>>

(* The two checks, each of which ends in -EINVAL.                          *)
ValidCommandOnly(write_cmd, write_cmd_offset) ==   \* variant: one check
  write_cmd < AESDCHAR_MAX_WRITE_OPERATIONS_SUPPORTED
ValidSeekAtEnd(write_cmd, write_cmd_offset) ==     \* variant: <= for <
  /\ write_cmd < AESDCHAR_MAX_WRITE_OPERATIONS_SUPPORTED
  /\ write_cmd_offset <= circular_buffer.entry[write_cmd].size
ValidSeek(write_cmd, write_cmd_offset) ==
  /\ write_cmd < AESDCHAR_MAX_WRITE_OPERATIONS_SUPPORTED
  /\ write_cmd_offset < circular_buffer.entry[write_cmd].size

(* They pass, or not, or the copy of the argument fails.                   *)
IoctlCheck(p) ==
  LET valid == ValidSeek(frame[p].write_cmd, frame[p].write_cmd_offset)
  IN  /\ pc[p] = "ioctl"
      /\ \/ /\ valid
            /\ pc' = [pc EXCEPT ![p] = "ioctl_sum"]
            /\ UNCHANGED frame
         \/ ~ valid /\ Return(p)
         \/ "copy_from_user" \in Faults /\ Return(p)
      /\ UNCHANGED <<loaded, lock, device, f_pos, data>>

IoctlSum(p) ==
  LET index == frame[p].index
  IN  /\ pc[p] = "ioctl_sum"
      /\ index < frame[p].write_cmd
      /\ frame' = [frame EXCEPT
           ![p].index = @ + 1,
           ![p].calculated_offset = @ + circular_buffer.entry[index].size]
      /\ UNCHANGED <<loaded, lock, device, pc, f_pos, data>>

IoctlSeek(p) ==
  /\ pc[p] = "ioctl_sum"
  /\ frame[p].index = frame[p].write_cmd
  /\ f_pos' = [f_pos EXCEPT ![p] =
                 frame[p].calculated_offset + frame[p].write_cmd_offset]
  /\ Return(p)
  /\ UNCHANGED <<loaded, lock, device, data>>

-----------------------------------------------------------------------------
(* The calls users make, and the steps of a call once it was made.         *)

Begin(p) ==
  \/ aesd_open(p)
  \/ aesd_release(p)
  \/ \E buf \in Inputs : BeginWrite(p, buf)
  \/ \E count \in Counts : BeginRead(p, count)
  \/ \E s \in SeekArgs : BeginLlseek(p, s[1], s[2])
  \/ \E s \in SeekTos : BeginIoctl(p, s[1], s[2])

Locks(p) ==
  Read(p) \/ WriteAppend(p) \/ WriteCopyFails(p) \/ WriteAppendOops(p)

Continues(p) ==
  \/ WriteCommand(p) \/ WriteCommandFails(p)
  \/ WriteFinish(p) \/ WriteFinishFails(p)
  \/ aesd_size(p) \/ fixed_size_llseek(p)
  \/ IoctlCheck(p) \/ IoctlSum(p) \/ IoctlSeek(p)

Next ==
  \/ aesd_init_module
  \/ aesd_cleanup_module
  \/ \E p \in Proc : Begin(p) \/ Interrupted(p) \/ Locks(p) \/ Continues(p)

Spec == Init /\ [][Next]_vars

(* A call that was made goes on: the scheduler runs the process, and the   *)
(* mutex hands over to its waiters in turn.                                *)
Fairness ==
  \A p \in Proc : WF_vars(Continues(p)) /\ SF_vars(Locks(p))

FairSpec == Spec /\ Fairness

-----------------------------------------------------------------------------
(* What a ring entry of the driver is.                                     *)
Entries == [buffptr : Seq(Byte), size : Nat]

WriteFrame == [buf : Seq(Byte), cmd_start : Nat, read_size : Nat]

InCall == {"read", "write", "write_loop", "llseek", "ioctl", "ioctl_sum"}

(* The types of the driver's state, locals of a write in progress included.*)
TypeOK ==
  /\ loaded \in BOOLEAN
  /\ loaded => IsBuffer(circular_buffer, Entries)
  /\ incomplete_command_buffer \in Seq(Byte) \cup {NULL, FREED}
  /\ incomplete_command_size \in Nat
  /\ lock \in Proc \cup {NoProc}
  /\ blocks \in Nat
  /\ pc \in [Proc -> InCall \cup {"closed", "idle", "oops"}]
  /\ DOMAIN frame = Proc
  /\ \A p \in Proc : pc[p] \in {"write", "write_loop"} => frame[p] \in WriteFrame

(* dev->lock is held by exactly the process that is inside aesd_write's    *)
(* critical section, or died there: no return path of aesd_write forgets   *)
(* the mutex_unlock or does it twice, and two writes never overlap.        *)
MutexDiscipline ==
  \A p \in Proc : lock = p <=> pc[p] \in {"write_loop", "oops"}

(* Every block the driver allocated and did not free is the incomplete     *)
(* command or the buffer of a retained entry: no path of aesd_write leaks  *)
(* a block or frees one twice, and unloading frees them all.               *)
BlocksAccounted ==
  blocks = IF loaded
             THEN Owned(incomplete_command_buffer) + Held(circular_buffer)
             ELSE 0

(* incomplete_command_size is the length of the block the next write will  *)
(* copy, a block freed too early included.                                 *)
SizeMatches == Len(Gathered) = incomplete_command_size

(* The ring stays well shaped under every call and failure, so that        *)
(* find_entry and add_entry may rely on it.                                *)
RingInv == loaded => RingShape(circular_buffer, Entries)

-----------------------------------------------------------------------------
(* The commands retained, and their bytes end to end.                      *)
Commands == IF loaded THEN CommandsOf(circular_buffer) ELSE << >>

Contents == FlattenSeq(Commands)

(* The bytes of the incomplete command that are not yet in the ring.       *)
PartialCommand ==
  IF \E p \in Proc : pc[p] = "write_loop"
    THEN SubSeq(incomplete_command_buffer, frame[lock].cmd_start + 1,
                incomplete_command_size)
    ELSE Gathered

(* The driver implements the line device: commands are cut at newlines and *)
(* retained in order whatever writes interleave, and every read returns    *)
(* the bytes at f_pos of the retained commands end to end.                 *)
Device == INSTANCE LineDevice
            WITH Capacity <- AESDCHAR_MAX_WRITE_OPERATIONS_SUPPORTED,
                 log      <- Commands,
                 partial  <- PartialCommand,
                 pos      <- f_pos

ImplementsLineDevice == Device!Spec

(* Every command of the log is what was written before one newline, that   *)
(* newline included, and nothing else: "create a new sub command for       *)
(* everything before the first break" (main.c:159).                        *)
CommandsAreLines ==
  \A k \in 1 .. Len(Commands) :
    LET command == Commands[k]
    IN  \A i \in 1 .. Len(command) :
          /\ command[i] # Junk
          /\ command[i] = NewLine <=> i = Len(command)

(* A successful AESDCHAR_IOCSEEKTO leaves f_pos at the byte it names.      *)
SeeksTo(p) ==
  LET cmd    == frame[p].write_cmd
      offset == frame[p].write_cmd_offset
  IN  /\ cmd < Len(Commands)
      /\ offset < Len(Commands[cmd + 1])
      /\ f_pos'[p] = Len(FlattenSeq(SubSeq(Commands, 1, cmd))) + offset

Seeks(p) == pc[p] = "ioctl_sum" /\ pc'[p] = "idle"

(* "The zero referenced write command to seek into" (aesd_ioctl.h:27): the *)
(* seek lands on that command of the log, until the ring has wrapped and   *)
(* write_cmd counts slots, although the driver checks and adds up the      *)
(* sizes without the lock while writes add commands.                       *)
SeekLandsBeforeFull ==
  [][\A p \in Proc : Seeks(p) /\ ~ circular_buffer.full => SeeksTo(p)]_vars

(* Until the ring is full no file position is beyond the contents: llseek  *)
(* adds the sizes up without the lock, so its cb_size may be out of date,  *)
(* but never too large.                                                    *)
FposWithinContents ==
  \A p \in Proc : pc[p] # "closed" /\ ~ circular_buffer.full
                    => f_pos[p] <= Len(Contents)

(* Every call returns, those that wait for the lock included.              *)
EveryCallReturns == \A p \in Proc : pc[p] \in InCall ~> pc[p] = "idle"
=============================================================================
