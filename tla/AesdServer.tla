----------------------------- MODULE AesdServer -----------------------------
(***************************************************************************)
(* client_handler of server/aesdsocket.c, one for each connection, all     *)
(* writing to and reading from /dev/aesdchar, each through a descriptor of *)
(* its own (the build with USE_AESD_CHAR_DEVICE).                          *)
(*                                                                         *)
(* The device is the ring of AesdCircularBuffer and the incomplete command *)
(* of AesdChar, whose calls are atomic here: reads and writes hold         *)
(* dev->lock, and the seek, which does not, is only made with file_mutex   *)
(* held, as all writes are.  A packet holds one newline, so a write adds   *)
(* one command at most.                                                    *)
(*                                                                         *)
(* A byte is a letter of the client's, a newline, or, as one symbol, the   *)
(* text of a seek command.  A chunk is what one recv returns.              *)
(***************************************************************************)
EXTENDS AesdCircularBuffer, SequencesExt

CONSTANTS
  Conn,        \* the connections
  NoThread,    \* the owner of a free mutex
  NewLine,     \* '\n'
  Seeks,       \* for each seek command its <<write_cmd, write_cmd_offset>>
  Chunks,      \* what each connection's client may send at a time
  Faults,      \* which calls may fail: "write", "newline"; and "kill"
  MaxPacket,   \* bound on what a client sends without a newline
  MaxRemnant   \* bound on what is left in the device when the server is killed

SeekCommands == DOMAIN Seeks

ASSUME ConnAssumption == NoThread \notin Conn

Bytes == Conn \cup {NewLine} \cup SeekCommands

ASSUME ChunksAssumption ==
  /\ \A c \in Conn : \A chunk \in Chunks[c] : chunk \in Seq(Bytes) /\ Len(chunk) > 0
  /\ NewLine \notin SeekCommands
  /\ \A s \in SeekCommands : Seeks[s][1] \in Nat /\ Seeks[s][2] \in Nat

VARIABLES
  circular_buffer,     \* \ struct aesd_dev
  incomplete_command,  \* /
  f_pos,               \* the file position of each tmpdata_client_fd
  file_mutex,          \* the connection whose thread locked it, or NoThread
  pc,                  \* where each client_handler is
  read_buffer,         \* \
  i,                   \*  > its locals
  write_buffer,        \* /
  packet,              \* history: the packet it stored and is answering
  reply,               \* history: what it has sent of the answer
  refused              \* history: a call to the device failed

device  == <<circular_buffer, incomplete_command>>
buffers == <<read_buffer, i, write_buffer>>
history == <<packet, reply, refused>>
vars    == <<device, f_pos, file_mutex, pc, buffers, history>>

Init ==
  /\ circular_buffer = aesd_circular_buffer_init
  /\ incomplete_command = << >>
  /\ f_pos = [c \in Conn |-> 0]
  /\ file_mutex = NoThread
  /\ pc = [c \in Conn |-> "closed"]
  /\ read_buffer = [c \in Conn |-> << >>]
  /\ i = [c \in Conn |-> 0]
  /\ write_buffer = [c \in Conn |-> << >>]
  /\ packet = [c \in Conn |-> << >>]
  /\ reply = [c \in Conn |-> << >>]
  /\ refused = FALSE

Goto(c, label) == pc' = [pc EXCEPT ![c] = label]

-----------------------------------------------------------------------------
(* A connection is accepted: the data file is opened, and the thread       *)
(* starts with empty buffers.                                              *)
Connect(c) ==
  /\ pc[c] = "closed"
  /\ Goto(c, "recv")
  /\ UNCHANGED <<device, f_pos, file_mutex, buffers, history>>

(* recv returns some bytes.                                                *)
Recv(c, chunk) ==
  /\ pc[c] = "recv"
  /\ Len(write_buffer[c]) + Len(chunk) <= MaxPacket
  /\ Goto(c, "scan")
  /\ read_buffer' = [read_buffer EXCEPT ![c] = chunk]
  /\ i' = [i EXCEPT ![c] = 0]
  /\ UNCHANGED <<device, f_pos, file_mutex, write_buffer, history>>

(* recv returns 0: the thread ends, and its buffers and its position in    *)
(* the data file go with it.                                               *)
Disconnect(c) ==
  /\ pc[c] = "recv"
  /\ Goto(c, "closed")
  /\ write_buffer' = [write_buffer EXCEPT ![c] = << >>]
  /\ f_pos' = [f_pos EXCEPT ![c] = 0]
  /\ UNCHANGED <<device, file_mutex, read_buffer, i, history>>

(* The for loop, up to the next newline or the end of what recv returned:  *)
(* a thread touches nothing but its own buffers there.                     *)
Unread(c) == SubSeq(read_buffer[c], i[c] + 1, Len(read_buffer[c]))

ThroughNewLine(bytes, newline) == SubSeq(bytes, 1, newline)  \* variant
BeforeNewLine(bytes, newline)  == SubSeq(bytes, 1, newline - 1)

Scan(c) ==
  LET newline == SelectInSeq(Unread(c), LAMBDA b : b = NewLine)
  IN  /\ pc[c] = "scan"
      /\ \/ /\ newline = 0
            /\ Goto(c, "recv")
            /\ read_buffer' = [read_buffer EXCEPT ![c] = << >>]
            /\ i' = [i EXCEPT ![c] = 0]
            /\ write_buffer' = [write_buffer EXCEPT ![c] = @ \o Unread(c)]
         \/ /\ newline # 0
            /\ Goto(c, "lock")
            /\ i' = [i EXCEPT ![c] = @ + newline]
            /\ write_buffer' = [write_buffer EXCEPT ![c] =
                                  @ \o BeforeNewLine(Unread(c), newline)]
            /\ UNCHANGED read_buffer
      /\ UNCHANGED <<device, f_pos, file_mutex, history>>

-----------------------------------------------------------------------------
(* A packet is complete.                                                   *)

AlwaysUnlocked == TRUE            \* variant: the mutex is not waited for
Unlocked == file_mutex = NoThread

IsSeek(bytes) == Range(bytes) \cap SeekCommands # {}

Lock(c) ==
  /\ pc[c] = "lock"
  /\ Unlocked
  /\ file_mutex' = c
  /\ Goto(c, IF IsSeek(write_buffer[c]) THEN "ioctl" ELSE "write")
  /\ UNCHANGED <<device, f_pos, buffers, history>>

(* `continue' goes on with the next byte, the mutex locked and the write   *)
(* buffer as it is.                                                        *)
Continue(c) ==
  /\ Goto(c, "scan")
  /\ refused' = TRUE
  /\ UNCHANGED <<device, f_pos, file_mutex, buffers, packet, reply>>

(* sscanf looks for the command at the start of the read buffer: when it   *)
(* is not there, index and offset keep whatever the stack held.            *)
Parsed(c) ==
  IF read_buffer[c][1] \in SeekCommands
    THEN {Seeks[read_buffer[c][1]]}
    ELSE {Seeks[s] : s \in SeekCommands}

(* Where aesd_adjust_file_offset moves f_pos to, and when it does.         *)
SeekAllowed(write_cmd, write_cmd_offset) ==
  /\ write_cmd < AESDCHAR_MAX_WRITE_OPERATIONS_SUPPORTED
  /\ write_cmd_offset < circular_buffer.entry[write_cmd].size

SeekOffsetBehind(write_cmd, write_cmd_offset) ==   \* variant: one too many
  PassedFromSlotZero(circular_buffer)[write_cmd + 1] + write_cmd_offset
SeekOffset(write_cmd, write_cmd_offset) ==
  PassedFromSlotZero(circular_buffer)[write_cmd] + write_cmd_offset

Ioctl(c) ==
  /\ pc[c] = "ioctl"
  /\ \E seekto \in Parsed(c) :
       \/ /\ SeekAllowed(seekto[1], seekto[2])
          /\ f_pos' = [f_pos EXCEPT ![c] = SeekOffset(seekto[1], seekto[2])]
          /\ Goto(c, "unlock")
          /\ UNCHANGED <<device, file_mutex, buffers, history>>
       \/ /\ ~ SeekAllowed(seekto[1], seekto[2])
          /\ Continue(c)

(* aesd_write of bytes that hold no newline.                               *)
WritePacket(c) ==
  /\ pc[c] = "write"
  /\ \/ /\ incomplete_command' = incomplete_command \o write_buffer[c]
        /\ Goto(c, "newline")
        /\ UNCHANGED <<circular_buffer, f_pos, file_mutex, buffers, history>>
     \/ "write" \in Faults /\ Continue(c)

(* aesd_write of a newline: the incomplete command is complete.            *)
WriteNewLine(c) ==
  LET command == Append(incomplete_command, NewLine)
  IN  /\ pc[c] = "newline"
      /\ \/ /\ circular_buffer' = AddEntry(circular_buffer,
                   [buffptr |-> command, size |-> Len(command)])
            /\ incomplete_command' = << >>
            /\ packet' = [packet EXCEPT ![c] = Append(write_buffer[c], NewLine)]
            /\ Goto(c, "unlock")
            /\ UNCHANGED <<f_pos, file_mutex, buffers, reply, refused>>
         \/ "newline" \in Faults /\ Continue(c)

NeverRelease == UNCHANGED file_mutex      \* variant: the unlock is missing
Release == file_mutex' = NoThread

KeepBuffer(c) == UNCHANGED write_buffer   \* variant: it is not reset
ResetBuffer(c) == write_buffer' = [write_buffer EXCEPT ![c] = << >>]

Unlock(c) ==
  /\ pc[c] = "unlock"
  /\ Release
  /\ ResetBuffer(c)
  /\ Goto(c, "reply")
  /\ UNCHANGED <<device, f_pos, read_buffer, i, history>>

(* One round of the read and send loop, without the mutex: a read returns  *)
(* what is left of one command, and nothing at the end of the last.        *)
Reply(c) ==
  LET found == FindEntryOffset(circular_buffer, f_pos[c])
      entry == circular_buffer.entry[found.slot]
      bytes == SubSeq(entry.buffptr, found.offset + 1, entry.size)
  IN  /\ pc[c] = "reply"
      /\ found # NULL
      /\ f_pos' = [f_pos EXCEPT ![c] = @ + Len(bytes)]
      /\ reply' = [reply EXCEPT ![c] = @ \o bytes]
      /\ UNCHANGED <<device, file_mutex, pc, buffers, packet, refused>>

EndReply(c) ==
  /\ pc[c] = "reply"
  /\ FindEntryOffset(circular_buffer, f_pos[c]) = NULL
  /\ Goto(c, "scan")
  /\ packet' = [packet EXCEPT ![c] = << >>]
  /\ reply' = [reply EXCEPT ![c] = << >>]
  /\ UNCHANGED <<device, f_pos, file_mutex, buffers, refused>>

(* The process is killed, by a SIGTERM it has no handler for in this build *)
(* or by the SIGPIPE of a send to a client that has gone, and started      *)
(* again.  The device keeps what it has, a packet without its newline too. *)
Kill ==
  /\ "kill" \in Faults
  /\ Len(incomplete_command) <= MaxRemnant
  /\ pc' = [c \in Conn |-> "closed"]
  /\ f_pos' = [c \in Conn |-> 0]
  /\ file_mutex' = NoThread
  /\ read_buffer' = [c \in Conn |-> << >>]
  /\ i' = [c \in Conn |-> 0]
  /\ write_buffer' = [c \in Conn |-> << >>]
  /\ packet' = [c \in Conn |-> << >>]
  /\ reply' = [c \in Conn |-> << >>]
  /\ refused' = FALSE
  /\ UNCHANGED device

-----------------------------------------------------------------------------
Client(c) == Connect(c) \/ Disconnect(c) \/ \E chunk \in Chunks[c] : Recv(c, chunk)

Continues(c) ==
  \/ Scan(c) \/ Ioctl(c) \/ WritePacket(c) \/ WriteNewLine(c) \/ Unlock(c)
  \/ Reply(c) \/ EndReply(c)

Next == Kill \/ \E c \in Conn : Client(c) \/ Lock(c) \/ Continues(c)

Spec == Init /\ [][Next]_vars

(* A handler that can run does in the end, and one that waits for the      *)
(* mutex gets it in turn.  What clients do is up to them.                  *)
Fairness == \A c \in Conn : WF_vars(Continues(c)) /\ SF_vars(Lock(c))

FairSpec == Spec /\ Fairness

-----------------------------------------------------------------------------
Entries(bytes) == [buffptr : Seq(bytes), size : Nat \ {0}]

TypeOK ==
  /\ IsBuffer(circular_buffer, Entries(Bytes))
  /\ incomplete_command \in Seq(Bytes)
  /\ f_pos \in [Conn -> Nat]
  /\ file_mutex \in Conn \cup {NoThread}
  /\ pc \in [Conn -> {"closed", "recv", "scan", "lock", "ioctl", "write",
                      "newline", "unlock", "reply"}]
  /\ read_buffer \in [Conn -> Seq(Bytes)]
  /\ i \in [Conn -> Nat]
  /\ write_buffer \in [Conn -> Seq(Bytes \ {NewLine})]

Commands == CommandsOf(circular_buffer)

Contents == FlattenSeq(Commands)

(* What a handler has received and not passed on; a packet is passed on by *)
(* the seek or by the write of its newline.                                *)
Inbox(c) ==
  CASE pc[c] \in {"lock", "ioctl", "write", "newline"} ->
         Append(write_buffer[c], NewLine) \o Unread(c)
    [] pc[c] = "unlock" -> Unread(c)
    [] pc[c] = "closed" -> << >>
    [] OTHER            -> write_buffer[c] \o Unread(c)

(* The incomplete command, but for the packet that is being written.       *)
Remnant ==
  IF file_mutex # NoThread /\ pc[file_mutex] = "newline"
    THEN SubSeq(incomplete_command, 1,
                Len(incomplete_command) - Len(write_buffer[file_mutex]))
    ELSE incomplete_command

(* However the handlers interleave and however recv cuts the streams, the  *)
(* device's log is made of whole packets, each stored once and in its      *)
(* client's order, until a refused packet leaves file_mutex locked; and    *)
(* wherever the server is killed, the device and the server that is        *)
(* started next lose no packet that was stored and serve the next ones,    *)
(* the first with what was left in front of it.                            *)
Packets == INSTANCE PacketLog
             WITH Capacity <- AESDCHAR_MAX_WRITE_OPERATIONS_SUPPORTED,
                  log      <- Commands,
                  inbox    <- [c \in Conn |-> Inbox(c)],
                  remnant  <- Remnant,
                  jammed   <- refused

ImplementsPacketLog == Packets!Spec

(* A reply ends.                                                           *)
Replied(c) == pc[c] = "reply" /\ pc'[c] = "scan" /\ packet[c] # << >>

Holds(bytes, part) ==
  \E k \in 0 .. Len(bytes) - Len(part) :
    SubSeq(bytes, k + 1, k + Len(part)) = part

(* Until the ring is full, the reply to a packet that was stored holds the *)
(* packet and reaches the end of the contents, although it is read one     *)
(* command at a time while other handlers write.                           *)
EchoBeforeFull ==
  [][\A c \in Conn : Replied(c) /\ ~ circular_buffer.full =>
       /\ Holds(reply[c], packet[c])
       /\ IsSuffix(reply[c], Contents)]_vars

(* A seek command that begins what recv returned moves the file position   *)
(* to the byte it names in the contents, until the ring is full: the       *)
(* handler parses its read buffer for it, the driver counts slots, and     *)
(* other handlers write up to when it takes the mutex.                     *)
SeekLandsBeforeFull ==
  [][\A c \in Conn :
       /\ pc[c] = "ioctl" /\ pc'[c] = "unlock" /\ ~ circular_buffer.full
       /\ Head(read_buffer[c]) \in Range(write_buffer[c]) \cap SeekCommands
       => LET seekto == Seeks[Head(read_buffer[c])]
          IN  /\ seekto[1] < Len(Commands)
              /\ seekto[2] < Len(Commands[seekto[1] + 1])
              /\ f_pos'[c] = Len(FlattenSeq(SubSeq(Commands, 1, seekto[1])))
                              + seekto[2]]_vars

(* Every answer ends, and every packet that was received is answered, as   *)
(* long as the device has refused none and thereby left file_mutex locked, *)
(* however many handlers wait for it.                                      *)
AnsweredUnlessRefused ==
  \A c \in Conn : /\ pc[c] = "lock" ~> pc[c] = "reply" \/ refused
                  /\ pc[c] = "reply" ~> pc[c] = "scan"

(* "packet was received; send entire contents of file to client"           *)
(* (aesdsocket.c:296): every packet is answered.                           *)
EveryPacketAnswered == \A c \in Conn : pc[c] = "lock" ~> pc[c] = "reply"
=============================================================================
