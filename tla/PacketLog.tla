------------------------------ MODULE PacketLog ------------------------------
(***************************************************************************)
(* What the socket server promises its clients, with no threads, buffers   *)
(* or locks in it.  Each client's bytes form a stream; every packet of the *)
(* stream, up to and including its newline, either is obeyed as a seek     *)
(* command or enters the log of the last Capacity packets, whole, once,    *)
(* and in the order the client sent them.                                  *)
(*                                                                         *)
(* The promise has two holes.  A packet the device refuses loses its       *)
(* newline and stays in front of what the client sends next, and from then *)
(* on the server is jammed, and no packet of any client is served.  And a  *)
(* packet that was refused or cut short by the end of the server may leave *)
(* its bytes in front of the next packet that is stored, anybody's.        *)
(***************************************************************************)
EXTENDS BoundedLog, SequencesExt

CONSTANTS Conn, Capacity, NewLine, SeekCommands, Chunks

VARIABLES
  log,     \* the packets retained, oldest first
  remnant, \* what is in front of the next packet
  inbox,   \* of each client, what was received and not dealt with
  jammed

vars == <<log, remnant, inbox, jammed>>

HasPacket(c) == NewLine \in Range(inbox[c])

EndOfPacket(c) == SelectInSeq(inbox[c], LAMBDA b : b = NewLine)
Packet(c)      == SubSeq(inbox[c], 1, EndOfPacket(c))
AfterPacket(c) == SubSeq(inbox[c], EndOfPacket(c) + 1, Len(inbox[c]))

IsSeek(bytes) == Range(bytes) \cap SeekCommands # {}

Init ==
  /\ log = << >>
  /\ remnant = << >>
  /\ inbox = [c \in Conn |-> << >>]
  /\ jammed = FALSE

Receive(c) ==
  /\ \E chunk \in Chunks[c] : inbox' = [inbox EXCEPT ![c] = @ \o chunk]
  /\ UNCHANGED <<log, remnant, jammed>>

(* The client goes, and what it left unfinished with it.                   *)
Leave(c) ==
  /\ ~ HasPacket(c)
  /\ inbox' = [inbox EXCEPT ![c] = << >>]
  /\ UNCHANGED <<log, remnant, jammed>>

Store(c) ==
  /\ ~ jammed
  /\ HasPacket(c)
  /\ ~ IsSeek(Packet(c))
  /\ log' = BoundedAppend(log, remnant \o Packet(c), Capacity)
  /\ remnant' = << >>
  /\ inbox' = [inbox EXCEPT ![c] = AfterPacket(c)]
  /\ UNCHANGED jammed

Obey(c) ==
  /\ ~ jammed
  /\ HasPacket(c)
  /\ IsSeek(Packet(c))
  /\ inbox' = [inbox EXCEPT ![c] = AfterPacket(c)]
  /\ UNCHANGED <<log, remnant, jammed>>

Leaves(c) == remnant' \in {remnant, remnant \o Front(Packet(c))}

Refuse(c) ==
  /\ ~ jammed
  /\ HasPacket(c)
  /\ jammed' = TRUE
  /\ inbox' = [inbox EXCEPT ![c] = Front(Packet(c)) \o AfterPacket(c)]
  /\ Leaves(c)
  /\ UNCHANGED log

(* The server ends and is started again.                                   *)
Restart ==
  /\ inbox' = [c \in Conn |-> << >>]
  /\ jammed' = FALSE
  /\ \/ UNCHANGED remnant
     \/ ~ jammed /\ \E c \in Conn : HasPacket(c) /\ ~ IsSeek(Packet(c)) /\ Leaves(c)
  /\ UNCHANGED log

Next ==
  \/ Restart
  \/ \E c \in Conn : Receive(c) \/ Leave(c) \/ Store(c) \/ Obey(c) \/ Refuse(c)

Spec == Init /\ [][Next]_vars
=============================================================================
