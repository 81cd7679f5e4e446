-------------------------- MODULE AesdServerProofs --------------------------
(***************************************************************************)
(* Theorems about AesdServer, for every number of connections and slots,   *)
(* whatever the clients send and wherever recv cuts it.                    *)
(*                                                                         *)
(* ServerInv, which every step keeps: who is inside file_mutex, what each  *)
(* handler's buffers hold where it is, and that a packet written without   *)
(* its newline is the end of the incomplete command.  It makes the step of *)
(* every handler a step of PacketLog, or one PacketLog does not see.       *)
(* EchoInv, kept next to it: where in the contents a handler's answer and  *)
(* the packet it answers are, while the ring is filling.                   *)
(***************************************************************************)
EXTENDS AesdServer, CircularBufferLemmas

(* Inside file_mutex, and the states a handler may be in.                  *)
Critical == {"ioctl", "write", "newline", "unlock"}
Places   == {"closed", "recv", "scan", "lock", "reply"} \cup Critical

(* Only the owner of the mutex is inside it, and once a call was refused   *)
(* the mutex stays locked and nobody is.                                   *)
Exclusion ==
  /\ \A c \in Conn : pc[c] \in Critical => file_mutex = c
  /\ refused => file_mutex # NoThread /\ \A c \in Conn : pc[c] \notin Critical

(* What a handler's buffers hold where it is.                              *)
BufferOf(c) ==
  /\ i[c] <= Len(read_buffer[c])
  /\ pc[c] \in {"closed", "recv"} => read_buffer[c] = << >> /\ i[c] = 0
  /\ pc[c] = "closed" => write_buffer[c] = << >>
  /\ pc[c] = "ioctl" => IsSeek(write_buffer[c])
  /\ pc[c] \in {"write", "newline"} => ~ IsSeek(write_buffer[c])

Buffers == \A c \in Conn : BufferOf(c)

(* A packet written without its newline is the end of the incomplete       *)
(* command.                                                                *)
Written ==
  \A c \in Conn : pc[c] = "newline" =>
    \E rest \in Seq(Bytes) : incomplete_command = rest \o write_buffer[c]

Ring == CommandRing(circular_buffer, Entries(Bytes), Bytes)

ServerInv == TypeOK /\ Exclusion /\ Buffers /\ Written /\ Ring

-----------------------------------------------------------------------------
(* Where the first newline is.                                             *)
FirstNewLine(bytes) == SelectInSeq(bytes, LAMBDA b : b = NewLine)

LEMMA FirstNewLineIs ==
  ASSUME NEW bytes \in Seq(Bytes)
  PROVE  LET n == FirstNewLine(bytes)
         IN  /\ n \in 0 .. Len(bytes)
             /\ n = 0 => \A k \in 1 .. Len(bytes) : bytes[k] # NewLine
             /\ n # 0 => /\ bytes[n] = NewLine
                         /\ \A k \in 1 .. n - 1 : bytes[k] # NewLine
<1> DEFINE I == {k \in 1 .. Len(bytes) : bytes[k] = NewLine}
           n == FirstNewLine(bytes)
<1>1. n = IF I # {} THEN Min(I) ELSE 0
  BY DEF FirstNewLine, SelectInSeq
<1>2. CASE I = {}
  <2>1. Len(bytes) \in Nat /\ n = 0
    BY <1>1, <1>2
  <2>2. \A k \in 1 .. Len(bytes) : bytes[k] # NewLine
    BY <1>2
  <2>. QED  BY <2>1, <2>2
<1>3. CASE I # {}
  <2>1. I \in SUBSET Nat
    OBVIOUS
  <2>2. \E m \in I : \A k \in I : m <= k
    BY <1>3, <2>1, LeastElement
  <2>3. n \in I /\ \A k \in I : n <= k
    BY <1>1, <1>3, <2>2 DEF Min
  <2>4. n \in 1 .. Len(bytes) /\ bytes[n] = NewLine
    BY <2>3
  <2>5. ASSUME NEW k \in 1 .. n - 1
        PROVE  bytes[k] # NewLine
    <3>1. k \in 1 .. Len(bytes) /\ ~ n <= k
      BY <2>4
    <3>. QED  BY <2>3, <3>1
  <2>. QED  BY <2>4, <2>5
<1>. QED  BY <1>2, <1>3

LEMMA FirstNewLineIsAt ==
  ASSUME NEW bytes \in Seq(Bytes), NEW n \in 1 .. Len(bytes),
         bytes[n] = NewLine, \A k \in 1 .. n - 1 : bytes[k] # NewLine
  PROVE  FirstNewLine(bytes) = n
<1> DEFINE m == FirstNewLine(bytes)
<1>1. m \in 0 .. Len(bytes) /\ Len(bytes) \in Nat
  BY FirstNewLineIs
<1>2. m # 0
  BY FirstNewLineIs
<1>3. bytes[m] = NewLine /\ \A k \in 1 .. m - 1 : bytes[k] # NewLine
  BY <1>2, FirstNewLineIs
<1> HIDE DEF m
<1>4. ~ m < n
  BY <1>1, <1>2, <1>3
<1>5. ~ n < m
  BY <1>1, <1>2, <1>3
<1>. QED  BY <1>1, <1>4, <1>5 DEF m

(* The part of a handler's read buffer that it has not looked at.          *)
LEMMA UnreadIs ==
  ASSUME NEW c \in Conn, read_buffer[c] \in Seq(Bytes), i[c] \in Nat,
         i[c] <= Len(read_buffer[c])
  PROVE  /\ Unread(c) \in Seq(Bytes)
         /\ Len(Unread(c)) = Len(read_buffer[c]) - i[c]
         /\ \A k \in 1 .. Len(Unread(c)) : Unread(c)[k] = read_buffer[c][i[c] + k]
<1> DEFINE s == read_buffer[c]
           a == i[c]
           n == Len(s) - a
<1>1. n \in Nat /\ a + n = Len(s) /\ a + n <= Len(s)
  OBVIOUS
<1>2. Unread(c) = SubSeq(s, a + 1, a + n)
  BY <1>1 DEF Unread
<1>3. s \in Seq(Bytes) /\ a \in Nat
  OBVIOUS
<1> HIDE DEF s, n, a
<1>4. /\ Unread(c) \in Seq(Bytes) /\ Len(Unread(c)) = n
      /\ \A k \in 1 .. n : Unread(c)[k] = s[a + k]
  BY <1>1, <1>2, <1>3, Slice
<1>. QED  BY <1>4 DEF s, n, a

(* Bytes that hold no newline are a client's bytes.                        *)
LEMMA NoNewLine ==
  ASSUME NEW bytes \in Seq(Bytes), \A k \in 1 .. Len(bytes) : bytes[k] # NewLine
  PROVE  bytes \in Seq(Bytes \ {NewLine})
<1> DEFINE n == Len(bytes)
<1>1. n \in Nat /\ bytes = [k \in 1 .. n |-> bytes[k]]
  OBVIOUS
<1>2. \A k \in 1 .. n : bytes[k] \in Bytes \ {NewLine}
  OBVIOUS
<1> HIDE DEF n
<1>. QED  BY <1>1, <1>2

(* What is taken up to the next newline.                                   *)
LEMMA BeforeNewLineIs ==
  ASSUME NEW bytes \in Seq(Bytes), NEW n \in 1 .. Len(bytes), n = FirstNewLine(bytes)
  PROVE  /\ BeforeNewLine(bytes, n) \in Seq(Bytes \ {NewLine})
         /\ Len(BeforeNewLine(bytes, n)) = n - 1
         /\ \A k \in 1 .. n - 1 : BeforeNewLine(bytes, n)[k] = bytes[k]
<1> DEFINE part == BeforeNewLine(bytes, n)
           m    == n - 1
<1>1. m \in Nat /\ 0 + m <= Len(bytes)
  OBVIOUS
<1>2. part = SubSeq(bytes, 0 + 1, 0 + m)
  BY DEF BeforeNewLine
<1>3. \A k \in 1 .. m : bytes[k] # NewLine
  BY FirstNewLineIs
<1> HIDE DEF part, m
<1>4. part \in Seq(Bytes) /\ Len(part) = m /\ \A k \in 1 .. m : part[k] = bytes[0 + k]
  BY <1>1, <1>2, Slice
<1>5. \A k \in 1 .. m : part[k] = bytes[k]
  BY <1>1, <1>4
<1>6. part \in Seq(Bytes \ {NewLine})
  BY <1>3, <1>4, <1>5, NoNewLine
<1>. QED  BY <1>4, <1>5, <1>6 DEF part, m

-----------------------------------------------------------------------------
LEMMA EntriesAreCommands ==
  \A e \in Entries(Bytes) : e.buffptr \in Seq(Bytes) /\ e.size \in Nat
BY DEF Entries

LEMMA ServerInvInit == Init => ServerInv
<1> SUFFICES ASSUME Init
             PROVE  ServerInv
  OBVIOUS
<1>1. Ring
  <2>1. /\ IsBuffer(circular_buffer, Entries(Bytes))
        /\ RingShape(circular_buffer, Entries(Bytes))
    BY InitShape DEF Init
  <2>2. \A k \in Slots : circular_buffer.entry[k] \notin Entries(Bytes)
    BY DEF Init, aesd_circular_buffer_init, EmptyEntry, Entries
  <2>. QED  BY <2>1, <2>2, EntriesAreCommands DEF Ring, CommandRing
<1>2. TypeOK
  BY <1>1 DEF Init, TypeOK, Ring, CommandRing
<1>3. Exclusion
  BY DEF Init, Exclusion, Critical
<1>4. Buffers
  BY DEF Init, Buffers, BufferOf
<1>5. Written
  BY DEF Init, Written
<1>. QED  BY <1>1, <1>2, <1>3, <1>4, <1>5 DEF ServerInv

-----------------------------------------------------------------------------
(* Exclusion: a handler enters the mutex when it is free, and leaves it    *)
(* free unless a call was refused.                                         *)
LEMMA ExclusionOutside ==
  ASSUME Exclusion, UNCHANGED <<file_mutex, refused>>, NEW c \in Conn,
         pc'[c] \notin Critical,
         \A d \in Conn \ {c} : pc'[d] = pc[d]
  PROVE  Exclusion'
BY DEF Exclusion

LEMMA ExclusionStep == TypeOK /\ Exclusion /\ [Next]_vars => Exclusion'
<1> SUFFICES ASSUME TypeOK, Exclusion, [Next]_vars
             PROVE  Exclusion'
  OBVIOUS
<1>1. pc \in [Conn -> Places]
  BY DEF TypeOK, Places, Critical
<1>2. CASE Kill
  BY <1>2, ConnAssumption DEF Kill, Exclusion, Critical
<1>3. ASSUME NEW c \in Conn, Client(c) \/ Scan(c) \/ EndReply(c)
      PROVE  Exclusion'
  <2>1. /\ UNCHANGED <<file_mutex, refused>>
        /\ \E to \in {"closed", "recv", "scan", "lock"} : pc' = [pc EXCEPT ![c] = to]
    BY <1>3 DEF Client, Connect, Disconnect, Recv, Scan, EndReply, Goto, history
  <2>. QED  BY <1>1, <2>1, ExclusionOutside DEF Critical
<1>4. ASSUME NEW c \in Conn, Lock(c)
      PROVE  Exclusion'
  <2>1. /\ file_mutex = NoThread /\ file_mutex' = c /\ refused' = refused
        /\ \E to \in Critical : pc' = [pc EXCEPT ![c] = to]
    BY <1>4 DEF Lock, Unlocked, Goto, Critical, history
  <2>2. \A d \in Conn : pc[d] \notin Critical
    BY <2>1, ConnAssumption DEF Exclusion
  <2>3. ~ refused
    BY <2>1 DEF Exclusion
  <2>. QED  BY <1>1, <2>1, <2>2, <2>3 DEF Exclusion
<1>5. ASSUME NEW c \in Conn, pc[c] \in Critical, Continue(c)
      PROVE  Exclusion'
  <2>1. /\ file_mutex = c /\ file_mutex' = c
        /\ pc' = [pc EXCEPT ![c] = "scan"] /\ "scan" \notin Critical
    BY <1>5 DEF Exclusion, Continue, Goto, Critical
  <2>2. \A d \in Conn : pc'[d] \notin Critical
    BY <1>1, <2>1 DEF Exclusion
  <2>. QED  BY <2>1, <2>2, ConnAssumption DEF Exclusion
<1>6. ASSUME NEW c \in Conn, pc[c] \in Critical, UNCHANGED <<file_mutex, refused>>,
             NEW to \in Critical, Goto(c, to)
      PROVE  Exclusion'
  BY <1>1, <1>6 DEF Exclusion, Goto
<1>7. ASSUME NEW c \in Conn, Ioctl(c) \/ WritePacket(c) \/ WriteNewLine(c)
      PROVE  Exclusion'
  <2>1. pc[c] \in Critical
    BY <1>7 DEF Ioctl, WritePacket, WriteNewLine, Critical
  <2>2. \/ Continue(c)
        \/ /\ UNCHANGED <<file_mutex, refused>>
           /\ \E to \in Critical : Goto(c, to)
    BY <1>7 DEF Ioctl, WritePacket, WriteNewLine, Critical, history
  <2>. QED  BY <1>5, <1>6, <2>1, <2>2
<1>8. ASSUME NEW c \in Conn, Unlock(c)
      PROVE  Exclusion'
  <2>1. /\ file_mutex = c /\ ~ refused /\ ~ refused'
        /\ pc' = [pc EXCEPT ![c] = "reply"] /\ "reply" \notin Critical
    BY <1>8 DEF Unlock, Exclusion, Critical, Goto, history
  <2>2. \A d \in Conn : pc'[d] \notin Critical
    BY <1>1, <2>1 DEF Exclusion
  <2>. QED  BY <2>1, <2>2 DEF Exclusion
<1>9. ASSUME NEW c \in Conn, Reply(c)
      PROVE  Exclusion'
  BY <1>9 DEF Reply, Exclusion
<1>10. CASE UNCHANGED vars
  BY <1>10 DEF vars, history, Exclusion
<1>. QED
  BY <1>2, <1>3, <1>4, <1>7, <1>8, <1>9, <1>10 DEF Next, Continues

-----------------------------------------------------------------------------
(* The ring is only added to, by the write of a newline.                   *)
Stored(c) == Append(incomplete_command, NewLine)

LEMMA StoredEntry ==
  ASSUME TypeOK, NEW c \in Conn
  PROVE  /\ Stored(c) \in Seq(Bytes)
         /\ [buffptr |-> Stored(c), size |-> Len(Stored(c))] \in Entries(Bytes)
<1>1. incomplete_command \in Seq(Bytes) /\ NewLine \in Bytes
  BY DEF TypeOK, Bytes
<1>2. Stored(c) \in Seq(Bytes) /\ Len(Stored(c)) \in Nat \ {0}
  BY <1>1 DEF Stored
<1>. QED  BY <1>2 DEF Entries

LEMMA RingAdd ==
  ASSUME Ring, NEW e \in Entries(Bytes), e.size = Len(e.buffptr),
         circular_buffer' = AddEntry(circular_buffer, e)
  PROVE  Ring'
<1>1. /\ IsBuffer(circular_buffer', Entries(Bytes))
      /\ RingShape(circular_buffer', Entries(Bytes))
  BY AddKeepsShape DEF Ring, CommandRing
<1>2. /\ circular_buffer'.entry
           = [circular_buffer.entry EXCEPT ![circular_buffer.in_offs] = e]
      /\ circular_buffer.in_offs \in Slots
      /\ DOMAIN circular_buffer.entry = Slots
  BY DEF AddEntry, Ring, CommandRing, IsBuffer
<1>3. \A k \in Slots : circular_buffer'.entry[k] = IF k = circular_buffer.in_offs
                                                    THEN e ELSE circular_buffer.entry[k]
  BY <1>2
<1>4. \A k \in Slots :
        circular_buffer'.entry[k] \in Entries(Bytes) =>
          circular_buffer'.entry[k].size = Len(circular_buffer'.entry[k].buffptr)
  BY <1>3 DEF Ring, CommandRing
<1>. QED  BY <1>1, <1>4, EntriesAreCommands DEF Ring, CommandRing

LEMMA RingStep == TypeOK /\ Ring /\ [Next]_vars => Ring'
<1> SUFFICES ASSUME TypeOK, Ring, [Next]_vars
             PROVE  Ring'
  OBVIOUS
<1>1. CASE UNCHANGED circular_buffer
  BY <1>1 DEF Ring
<1>2. ASSUME NEW c \in Conn, WriteNewLine(c), ~ UNCHANGED circular_buffer
      PROVE  Ring'
  <2>1. circular_buffer' =
          AddEntry(circular_buffer, [buffptr |-> Stored(c), size |-> Len(Stored(c))])
    BY <1>2 DEF WriteNewLine, Continue, device, Stored
  <2>. QED  BY <2>1, StoredEntry, RingAdd
<1>3. ASSUME NEW c \in Conn, ~ WriteNewLine(c), Client(c) \/ Lock(c) \/ Continues(c)
      PROVE  UNCHANGED circular_buffer
  BY <1>3 DEF Client, Connect, Disconnect, Recv, Lock, Continues, Scan, Ioctl,
              WritePacket, Continue, Unlock, Reply, EndReply, device
<1>4. CASE Kill \/ UNCHANGED vars
  BY <1>4, <1>1 DEF Kill, vars, device
<1>. QED  BY <1>1, <1>2, <1>3, <1>4 DEF Next

(* What a look-up finds is in a used slot, and what is read there is bytes.*)
LEMMA ReplyBytes ==
  ASSUME Ring, NEW position \in Nat, FindEntryOffset(circular_buffer, position) # NULL
  PROVE  LET found == FindEntryOffset(circular_buffer, position)
             entry == circular_buffer.entry[found.slot]
             bytes == SubSeq(entry.buffptr, found.offset + 1, entry.size)
         IN  /\ bytes \in Seq(Bytes)
             /\ Len(bytes) = entry.size - found.offset
             /\ Len(bytes) \in Nat
             /\ entry \in Entries(Bytes)
             /\ entry.size = Len(entry.buffptr)
<1> DEFINE found == FindEntryOffset(circular_buffer, position)
           entry == circular_buffer.entry[found.slot]
           bytes == SubSeq(entry.buffptr, found.offset + 1, entry.size)
           passed == Passed(circular_buffer)
<1>1. /\ circular_buffer.out_offs \in Slots
      /\ \A k \in Slots : circular_buffer.entry[k].size \in Nat
      /\ \A k \in Slots : circular_buffer.entry[k] \in Entries(Bytes) \cup {EmptyEntry}
      /\ passed \in [0 .. MaxOps -> Nat]
      /\ Slots = 0 .. MaxOps - 1 /\ MaxOps \in Nat
  BY CommandRingSizes DEF Ring, CommandRing, IsBuffer
<1>2. PICK k \in Slots :
        /\ passed[k] <= position
        /\ position - passed[k]
             < circular_buffer.entry[Advance(circular_buffer.out_offs, k)].size
        /\ found = [slot |-> Advance(circular_buffer.out_offs, k),
                    offset |-> position - passed[k]]
  <2>1. PICK k \in Slots :
          /\ passed[k] <= position /\ position < passed[k+1]
          /\ found = [slot |-> Advance(circular_buffer.out_offs, k),
                      offset |-> position - passed[k]]
    BY <1>1, FindStops
  <2>2. /\ passed[k+1] = passed[k]
             + circular_buffer.entry[Advance(circular_buffer.out_offs, k)].size
        /\ k \in 0 .. MaxOps
    <3>1. k \in 0 .. MaxOps
      BY <1>1
    <3>2. \A m \in Slots :
            passed[m+1] = passed[m]
              + circular_buffer.entry[Advance(circular_buffer.out_offs, m)].size
      BY <1>1, PassedValue
    <3> HIDE DEF passed
    <3>. QED  BY <3>1, <3>2
  <2>3. Advance(circular_buffer.out_offs, k) \in Slots
    BY <1>1, <2>2, AdvanceValue DEF MaxOps
  <2> DEFINE at   == passed[k]
             size == circular_buffer.entry[Advance(circular_buffer.out_offs, k)].size
  <2>4. at \in Nat /\ size \in Nat /\ position < at + size
    BY <1>1, <2>1, <2>2, <2>3
  <2> HIDE DEF at, size
  <2>5. position - at < size
    BY <2>4
  <2>. QED  BY <2>1, <2>5 DEF at, size
<1>3. found.slot \in Slots /\ found.offset = position - passed[k]
  <2>1. k \in 0 .. AESDCHAR_MAX_WRITE_OPERATIONS_SUPPORTED
    BY <1>1 DEF MaxOps
  <2>2. Advance(circular_buffer.out_offs, k) \in Slots
    BY <1>1, <2>1, AdvanceValue
  <2>. QED  BY <1>2, <2>2
<1>4. found.offset \in Nat /\ found.offset < entry.size
  <2>1. passed[k] \in Nat
    BY <1>1
  <2>. QED  BY <1>2, <1>3, <2>1
<1>5. entry \in Entries(Bytes)
  BY <1>1, <1>3, <1>4 DEF EmptyEntry
<1>6. /\ entry.size = Len(entry.buffptr) /\ entry.buffptr \in Seq(Bytes)
      /\ entry.size \in Nat
  BY <1>3, <1>5 DEF Ring, CommandRing, Entries
<1> DEFINE a == found.offset
           n == entry.size - a
           s == entry.buffptr
<1>7. /\ s \in Seq(Bytes) /\ a \in Nat /\ n \in Nat /\ a + n <= Len(s)
      /\ bytes = SubSeq(s, a + 1, a + n)
  <2> HIDE DEF found
  <2>1. a \in Nat /\ n \in Nat /\ a + n = entry.size
    <3> HIDE DEF entry
    <3>. QED  BY <1>4, <1>6
  <2>2. bytes = SubSeq(s, a + 1, a + n)
    BY <2>1
  <2>3. a + n <= Len(s)
    BY <1>6, <2>1
  <2>. QED  BY <1>6, <2>1, <2>2, <2>3
<1> HIDE DEF s, a, n, bytes, entry, found
<1>8. bytes \in Seq(Bytes) /\ Len(bytes) = n
  BY <1>7, Slice
<1>. QED  BY <1>5, <1>6, <1>7, <1>8 DEF n, a, s, bytes, entry, found

-----------------------------------------------------------------------------
(* A scan moves the bytes up to the next newline to the write buffer.      *)
LEMMA ScanTypes ==
  ASSUME TypeOK, Buffers, NEW c \in Conn, Scan(c)
  PROVE  /\ read_buffer'[c] \in Seq(Bytes) /\ i'[c] \in Nat
         /\ write_buffer'[c] \in Seq(Bytes \ {NewLine})
         /\ i'[c] <= Len(read_buffer'[c])
         /\ pc'[c] = "recv" => read_buffer'[c] = << >> /\ i'[c] = 0
<1> DEFINE n == FirstNewLine(Unread(c))
           newline == SelectInSeq(Unread(c), LAMBDA b : b = NewLine)
<1>1. /\ read_buffer \in [Conn -> Seq(Bytes)] /\ i \in [Conn -> Nat]
      /\ write_buffer \in [Conn -> Seq(Bytes \ {NewLine})]
      /\ i[c] <= Len(read_buffer[c])
      /\ DOMAIN pc = Conn
  BY DEF TypeOK, Buffers, BufferOf
<1>2. /\ Unread(c) \in Seq(Bytes)
      /\ Len(Unread(c)) = Len(read_buffer[c]) - i[c]
  BY <1>1, UnreadIs
<1>3. newline = n
  BY DEF FirstNewLine
<1>4. n \in 0 .. Len(Unread(c))
  BY <1>2, FirstNewLineIs
<1> HIDE DEF n
<1>5. CASE n = 0
  <2>1. /\ read_buffer' = [read_buffer EXCEPT ![c] = << >>]
        /\ i' = [i EXCEPT ![c] = 0]
        /\ write_buffer' = [write_buffer EXCEPT ![c] = @ \o Unread(c)]
    BY <1>3, <1>5 DEF Scan
  <2>2. Unread(c) \in Seq(Bytes \ {NewLine})
    BY <1>2, <1>5, FirstNewLineIs, NoNewLine DEF n
  <2>3. write_buffer'[c] = write_buffer[c] \o Unread(c)
    BY <1>1, <2>1
  <2>4. write_buffer'[c] \in Seq(Bytes \ {NewLine})
    BY <1>1, <2>2, <2>3, ConcatParts
  <2>5. read_buffer'[c] = << >> /\ i'[c] = 0
    BY <1>1, <2>1
  <2>. QED  BY <2>4, <2>5
<1>6. CASE n # 0
  <2>1. /\ i' = [i EXCEPT ![c] = @ + n]
        /\ write_buffer' = [write_buffer EXCEPT ![c] =
                              @ \o BeforeNewLine(Unread(c), n)]
        /\ read_buffer' = read_buffer
        /\ pc' = [pc EXCEPT ![c] = "lock"]
    BY <1>3, <1>6 DEF Scan, Goto
  <2>2. n \in 1 .. Len(Unread(c)) /\ n = FirstNewLine(Unread(c))
    BY <1>4, <1>6 DEF n
  <2>3. BeforeNewLine(Unread(c), n) \in Seq(Bytes \ {NewLine})
    BY <1>2, <2>2, BeforeNewLineIs
  <2>4. write_buffer'[c] = write_buffer[c] \o BeforeNewLine(Unread(c), n)
    BY <1>1, <2>1
  <2>5. write_buffer'[c] \in Seq(Bytes \ {NewLine})
    BY <1>1, <2>3, <2>4, ConcatParts
  <2>6. i'[c] = i[c] + n /\ read_buffer'[c] = read_buffer[c] /\ pc'[c] = "lock"
    BY <1>1, <2>1
  <2>. QED  BY <1>1, <1>2, <2>2, <2>5, <2>6
<1>. QED  BY <1>4, <1>5, <1>6

(* Where a permitted seek goes is a position.                              *)
LEMMA SeekTypes ==
  ASSUME Ring, NEW c \in Conn, NEW seekto \in Parsed(c),
         SeekAllowed(seekto[1], seekto[2])
  PROVE  /\ seekto[1] \in Slots /\ seekto[2] \in Nat
         /\ SeekOffset(seekto[1], seekto[2]) \in Nat
<1> DEFINE zero == [circular_buffer EXCEPT !.out_offs = 0]
<1>1. seekto[1] \in Nat /\ seekto[2] \in Nat
  <2>1. PICK s \in SeekCommands : seekto = Seeks[s]
    BY DEF Parsed
  <2>. QED  BY <2>1, ChunksAssumption
<1>2. seekto[1] \in Slots /\ seekto[1] \in 0 .. MaxOps
  BY <1>1, SlotsAssumption DEF SeekAllowed, Slots, MaxOps
<1>3. \A k \in Slots : circular_buffer.entry[k].size \in Nat
  BY CommandRingSizes DEF Ring
<1>4. zero.out_offs = 0 /\ zero.entry = circular_buffer.entry /\ 0 \in Slots
  BY SlotsAssumption DEF Ring, CommandRing, IsBuffer, Slots
<1> HIDE DEF zero
<1>5. Passed(zero) \in [0 .. MaxOps -> Nat]
  BY <1>3, <1>4, PassedValue
<1>6. PassedFromSlotZero(circular_buffer) = Passed(zero)
  BY <1>4 DEF PassedFromSlotZero, Passed, SizesFrom
<1>. QED  BY <1>1, <1>2, <1>5, <1>6 DEF SeekOffset

(* The types of what belongs to one handler.                               *)
HandlerTypes(c) ==
  /\ f_pos[c] \in Nat /\ pc[c] \in Places
  /\ read_buffer[c] \in Seq(Bytes) /\ i[c] \in Nat
  /\ write_buffer[c] \in Seq(Bytes \ {NewLine})

LEMMA TypesOfOne ==
  ASSUME TypeOK, Ring', NEW c \in Conn,
         incomplete_command' \in Seq(Bytes), file_mutex' \in Conn \cup {NoThread},
         /\ \E v : f_pos' = [f_pos EXCEPT ![c] = v]
         /\ \E v : pc' = [pc EXCEPT ![c] = v]
         /\ \E v : read_buffer' = [read_buffer EXCEPT ![c] = v]
         /\ \E v : i' = [i EXCEPT ![c] = v]
         /\ \E v : write_buffer' = [write_buffer EXCEPT ![c] = v],
         HandlerTypes(c)'
  PROVE  TypeOK'
<1>1. IsBuffer(circular_buffer, Entries(Bytes))'
  BY DEF Ring, CommandRing
<1>2. f_pos' \in [Conn -> Nat] /\ i' \in [Conn -> Nat]
  BY DEF TypeOK, HandlerTypes
<1>3. pc' \in [Conn -> Places]
  BY DEF TypeOK, HandlerTypes, Places, Critical
<1>4. read_buffer' \in [Conn -> Seq(Bytes)]
  BY DEF TypeOK, HandlerTypes
<1>5. write_buffer' \in [Conn -> Seq(Bytes \ {NewLine})]
  BY DEF TypeOK, HandlerTypes
<1>. QED  BY <1>1, <1>2, <1>3, <1>4, <1>5 DEF TypeOK, Places, Critical

LEMMA TypeStep == ServerInv /\ Ring' /\ [Next]_vars => TypeOK'
<1> SUFFICES ASSUME ServerInv, Ring', [Next]_vars
             PROVE  TypeOK'
  OBVIOUS
<1>1. /\ f_pos \in [Conn -> Nat] /\ pc \in [Conn -> Places]
      /\ read_buffer \in [Conn -> Seq(Bytes)] /\ i \in [Conn -> Nat]
      /\ write_buffer \in [Conn -> Seq(Bytes \ {NewLine})]
      /\ incomplete_command \in Seq(Bytes)
      /\ file_mutex \in Conn \cup {NoThread}
      /\ TypeOK
  BY DEF ServerInv, TypeOK, Places, Critical
<1>2. CASE Kill
  <2>1. IsBuffer(circular_buffer, Entries(Bytes))'
    BY DEF Ring, CommandRing
  <2>. QED  BY <1>1, <1>2, <2>1 DEF Kill, TypeOK, device
<1>3. CASE UNCHANGED vars
  BY <1>1, <1>3 DEF vars, device, buffers, TypeOK
<1>4. ASSUME NEW c \in Conn, Client(c) \/ Lock(c) \/ Continues(c)
      PROVE  TypeOK'
  <2>1. /\ f_pos = [f_pos EXCEPT ![c] = f_pos[c]]
        /\ pc = [pc EXCEPT ![c] = pc[c]]
        /\ read_buffer = [read_buffer EXCEPT ![c] = read_buffer[c]]
        /\ i = [i EXCEPT ![c] = i[c]]
        /\ write_buffer = [write_buffer EXCEPT ![c] = write_buffer[c]]
        /\ HandlerTypes(c)
    BY <1>1 DEF HandlerTypes
  <2>2. CASE Connect(c)
    <3>1. HandlerTypes(c)'
      BY <1>1, <2>2 DEF Connect, Goto, buffers, HandlerTypes, Places
    <3>. QED  BY <1>1, <2>1, <2>2, <3>1, TypesOfOne DEF Connect, Goto, device, buffers
  <2>3. CASE Disconnect(c)
    <3>1. HandlerTypes(c)'
      BY <1>1, <2>3 DEF Disconnect, Goto, HandlerTypes, Places
    <3>. QED  BY <1>1, <2>1, <2>3, <3>1, TypesOfOne DEF Disconnect, Goto, device
  <2>4. ASSUME NEW chunk \in Chunks[c], Recv(c, chunk)
        PROVE  TypeOK'
    <3>1. HandlerTypes(c)'
      BY <1>1, <2>4, ChunksAssumption DEF Recv, Goto, HandlerTypes, Places
    <3>. QED  BY <1>1, <2>1, <2>4, <3>1, TypesOfOne DEF Recv, Goto, device
  <2>5. CASE Lock(c)
    <3>1. HandlerTypes(c)'
      BY <1>1, <2>5 DEF Lock, Goto, buffers, HandlerTypes, Places, Critical
    <3>2. file_mutex' \in Conn
      BY <2>5 DEF Lock
    <3>3. \E v : pc' = [pc EXCEPT ![c] = v]
      BY <2>5 DEF Lock, Goto
    <3>. QED  BY <1>1, <2>1, <2>5, <3>1, <3>2, <3>3, TypesOfOne DEF Lock, device, buffers
  <2>6. CASE Scan(c)
    <3>1. /\ UNCHANGED <<device, f_pos, file_mutex>>
          /\ \E v : pc' = [pc EXCEPT ![c] = v] /\ v \in Places
          /\ \E v : read_buffer' = [read_buffer EXCEPT ![c] = v]
          /\ \E v : i' = [i EXCEPT ![c] = v]
          /\ \E v : write_buffer' = [write_buffer EXCEPT ![c] = v]
      BY <2>1, <2>6 DEF Scan, Goto, Places
    <3>2. HandlerTypes(c)'
      BY <1>1, <2>6, <3>1, ScanTypes DEF ServerInv, HandlerTypes
    <3>. QED  BY <1>1, <2>1, <3>1, <3>2, TypesOfOne DEF device
  <2>7. CASE Continue(c)
    <3>1. HandlerTypes(c)'
      BY <1>1, <2>7 DEF Continue, Goto, buffers, HandlerTypes, Places
    <3>. QED  BY <1>1, <2>1, <2>7, <3>1, TypesOfOne DEF Continue, Goto, device, buffers
  <2>8. ASSUME NEW seekto \in Parsed(c), SeekAllowed(seekto[1], seekto[2]),
               f_pos' = [f_pos EXCEPT ![c] = SeekOffset(seekto[1], seekto[2])],
               Goto(c, "unlock"), UNCHANGED <<device, file_mutex, buffers>>
        PROVE  TypeOK'
    <3>1. HandlerTypes(c)'
      BY <1>1, <2>8, SeekTypes
         DEF ServerInv, Goto, buffers, HandlerTypes, Places, Critical
    <3>2. \E v : f_pos' = [f_pos EXCEPT ![c] = v]
      BY <2>8
    <3>3. \E v : pc' = [pc EXCEPT ![c] = v]
      BY <2>8 DEF Goto
    <3>4. /\ incomplete_command' \in Seq(Bytes) /\ file_mutex' \in Conn \cup {NoThread}
          /\ \E v : read_buffer' = [read_buffer EXCEPT ![c] = v]
          /\ \E v : i' = [i EXCEPT ![c] = v]
          /\ \E v : write_buffer' = [write_buffer EXCEPT ![c] = v]
      BY <1>1, <2>1, <2>8 DEF device, buffers
    <3>. QED  BY <1>1, <3>1, <3>2, <3>3, <3>4, TypesOfOne
  <2>9. ASSUME incomplete_command' = incomplete_command \o write_buffer[c],
               Goto(c, "newline"), UNCHANGED <<f_pos, file_mutex, buffers>>
        PROVE  TypeOK'
    <3>1. HandlerTypes(c)'
      BY <1>1, <2>9 DEF Goto, buffers, HandlerTypes, Places, Critical
    <3>2. write_buffer[c] \in Seq(Bytes)
      BY <1>1
    <3>3. incomplete_command' \in Seq(Bytes)
      BY <1>1, <2>9, <3>2, ConcatParts
    <3>. QED  BY <1>1, <2>1, <2>9, <3>1, <3>3, TypesOfOne DEF Goto, buffers
  <2>10. ASSUME incomplete_command' = << >>, Goto(c, "unlock"),
                UNCHANGED <<f_pos, file_mutex, buffers>>
         PROVE  TypeOK'
    <3>1. HandlerTypes(c)'
      BY <1>1, <2>10 DEF Goto, buffers, HandlerTypes, Places, Critical
    <3>2. incomplete_command' \in Seq(Bytes)
      BY <2>10
    <3>3. \E v : pc' = [pc EXCEPT ![c] = v]
      BY <2>10 DEF Goto
    <3>. QED  BY <1>1, <2>1, <2>10, <3>1, <3>2, <3>3, TypesOfOne DEF buffers
  <2>11. CASE Unlock(c)
    <3>1. HandlerTypes(c)'
      BY <1>1, <2>11 DEF Unlock, Goto, ResetBuffer, HandlerTypes, Places
    <3>. QED
      BY <1>1, <2>1, <2>11, <3>1, TypesOfOne
         DEF Unlock, Release, ResetBuffer, Goto, device
  <2>12. CASE Reply(c)
    <3> DEFINE found == FindEntryOffset(circular_buffer, f_pos[c])
               entry == circular_buffer.entry[found.slot]
               bytes == SubSeq(entry.buffptr, found.offset + 1, entry.size)
    <3>1. found # NULL /\ f_pos' = [f_pos EXCEPT ![c] = @ + Len(bytes)]
      BY <2>12 DEF Reply
    <3>2. Len(bytes) \in Nat
      BY <1>1, <3>1, ReplyBytes DEF ServerInv
    <3> HIDE DEF bytes, found
    <3>3. f_pos'[c] \in Nat
      BY <1>1, <3>1, <3>2
    <3>4. HandlerTypes(c)'
      BY <1>1, <2>12, <3>3 DEF Reply, buffers, HandlerTypes
    <3>5. \E v : f_pos' = [f_pos EXCEPT ![c] = v]
      BY <3>1
    <3>. QED  BY <1>1, <2>1, <2>12, <3>4, <3>5, TypesOfOne DEF Reply, device, buffers
  <2>13. CASE EndReply(c)
    <3>1. HandlerTypes(c)'
      BY <1>1, <2>13 DEF EndReply, Goto, buffers, HandlerTypes, Places
    <3>. QED  BY <1>1, <2>1, <2>13, <3>1, TypesOfOne DEF EndReply, Goto, device, buffers
  <2>14. CASE Ioctl(c)
    BY <2>7, <2>8, <2>14 DEF Ioctl
  <2>15. CASE WritePacket(c)
    BY <2>7, <2>9, <2>15 DEF WritePacket
  <2>16. CASE WriteNewLine(c)
    BY <2>7, <2>10, <2>16 DEF WriteNewLine
  <2>. QED
    BY <1>4, <2>2, <2>3, <2>4, <2>5, <2>6, <2>11, <2>12, <2>13, <2>14, <2>15, <2>16
       DEF Client, Continues
<1>. QED  BY <1>2, <1>3, <1>4 DEF Next

LEMMA BuffersOfOne ==
  ASSUME TypeOK, Buffers, NEW c \in Conn,
         /\ \E v : pc' = [pc EXCEPT ![c] = v]
         /\ \E v : read_buffer' = [read_buffer EXCEPT ![c] = v]
         /\ \E v : i' = [i EXCEPT ![c] = v]
         /\ \E v : write_buffer' = [write_buffer EXCEPT ![c] = v],
         BufferOf(c)'
  PROVE  Buffers'
<1>1. \A d \in Conn \ {c} : /\ pc'[d] = pc[d] /\ read_buffer'[d] = read_buffer[d]
                            /\ i'[d] = i[d] /\ write_buffer'[d] = write_buffer[d]
  BY DEF TypeOK
<1>2. \A d \in Conn \ {c} : BufferOf(d)'
  BY <1>1 DEF Buffers, BufferOf, IsSeek
<1>. QED  BY <1>2 DEF Buffers, BufferOf

LEMMA BuffersStep == ServerInv /\ [Next]_vars => Buffers'
<1> SUFFICES ASSUME ServerInv, [Next]_vars
             PROVE  Buffers'
  OBVIOUS
<1>1. /\ pc \in [Conn -> Places]
      /\ read_buffer \in [Conn -> Seq(Bytes)] /\ i \in [Conn -> Nat]
      /\ write_buffer \in [Conn -> Seq(Bytes \ {NewLine})]
      /\ TypeOK /\ Buffers
  BY DEF ServerInv, TypeOK, Places, Critical
<1>2. CASE Kill
  BY <1>2 DEF Kill, Buffers, BufferOf
<1>3. CASE UNCHANGED vars
  BY <1>1, <1>3 DEF vars, buffers, Buffers, BufferOf, IsSeek
<1>4. ASSUME NEW c \in Conn, Client(c) \/ Lock(c) \/ Continues(c)
      PROVE  Buffers'
  <2>1. /\ pc = [pc EXCEPT ![c] = pc[c]]
        /\ read_buffer = [read_buffer EXCEPT ![c] = read_buffer[c]]
        /\ i = [i EXCEPT ![c] = i[c]]
        /\ write_buffer = [write_buffer EXCEPT ![c] = write_buffer[c]]
        /\ BufferOf(c)
    BY <1>1 DEF Buffers, BufferOf
  <2>2. ASSUME UNCHANGED buffers, NEW to, to \in Places \ {"closed", "recv"},
               pc' = [pc EXCEPT ![c] = to],
               to = "ioctl" => IsSeek(write_buffer[c]),
               to \in {"write", "newline"} => ~ IsSeek(write_buffer[c])
        PROVE  Buffers'
    <3>1. BufferOf(c)'
      BY <1>1, <2>1, <2>2 DEF buffers, BufferOf, IsSeek
    <3>. QED  BY <1>1, <2>1, <2>2, <3>1, BuffersOfOne DEF buffers
  <2>3. CASE Connect(c)
    <3>1. BufferOf(c)'
      BY <1>1, <2>1, <2>3 DEF Connect, Goto, buffers, BufferOf
    <3>. QED  BY <1>1, <2>1, <2>3, <3>1, BuffersOfOne DEF Connect, Goto, buffers
  <2>4. CASE Disconnect(c)
    <3>1. BufferOf(c)'
      BY <1>1, <2>1, <2>4 DEF Disconnect, Goto, BufferOf
    <3>. QED  BY <1>1, <2>1, <2>4, <3>1, BuffersOfOne DEF Disconnect, Goto
  <2>5. ASSUME NEW chunk \in Chunks[c], Recv(c, chunk)
        PROVE  Buffers'
    <3>1. BufferOf(c)'
      BY <1>1, <2>5, ChunksAssumption DEF Recv, Goto, BufferOf
    <3>. QED  BY <1>1, <2>1, <2>5, <3>1, BuffersOfOne DEF Recv, Goto
  <2>6. CASE Scan(c)
    <3>1. /\ \E to \in {"recv", "lock"} : pc' = [pc EXCEPT ![c] = to]
          /\ \E v : read_buffer' = [read_buffer EXCEPT ![c] = v]
          /\ \E v : i' = [i EXCEPT ![c] = v]
          /\ \E v : write_buffer' = [write_buffer EXCEPT ![c] = v]
      BY <2>1, <2>6 DEF Scan, Goto
    <3>2. BufferOf(c)'
      BY <1>1, <2>6, <3>1, ScanTypes DEF BufferOf
    <3>3. \E v : pc' = [pc EXCEPT ![c] = v]
      BY <3>1
    <3>. QED  BY <1>1, <3>1, <3>2, <3>3, BuffersOfOne
  <2>7. CASE Lock(c)
    BY <2>2, <2>7 DEF Lock, Goto, Places, Critical
  <2>8. CASE Continue(c)
    BY <2>2, <2>8 DEF Continue, Goto, Places
  <2>9. ASSUME UNCHANGED buffers, Goto(c, "unlock")
        PROVE  Buffers'
    BY <2>2, <2>9 DEF Goto, Places, Critical
  <2>10. CASE WritePacket(c)
    <3>1. ~ IsSeek(write_buffer[c])
      BY <2>1, <2>10 DEF WritePacket, BufferOf
    <3>. QED  BY <2>2, <2>8, <2>10, <3>1 DEF WritePacket, Goto, Places, Critical
  <2>11. CASE Unlock(c)
    <3>1. BufferOf(c)'
      BY <1>1, <2>1, <2>11 DEF Unlock, Goto, ResetBuffer, BufferOf
    <3>. QED  BY <1>1, <2>1, <2>11, <3>1, BuffersOfOne DEF Unlock, ResetBuffer, Goto
  <2>12. CASE Reply(c)
    <3>1. UNCHANGED <<pc, buffers>>
      BY <2>12 DEF Reply
    <3>. QED  BY <1>1, <3>1 DEF buffers, Buffers, BufferOf, IsSeek
  <2>13. CASE EndReply(c)
    BY <2>2, <2>13 DEF EndReply, Goto, Places
  <2>14. CASE Ioctl(c)
    BY <2>8, <2>9, <2>14 DEF Ioctl
  <2>15. CASE WriteNewLine(c)
    BY <2>8, <2>9, <2>15 DEF WriteNewLine
  <2>. QED
    BY <1>4, <2>3, <2>4, <2>5, <2>6, <2>7, <2>10, <2>11, <2>12, <2>13, <2>14, <2>15
       DEF Client, Continues
<1>. QED  BY <1>2, <1>3, <1>4 DEF Next

-----------------------------------------------------------------------------
(* Nobody but the owner of the mutex is about to write a newline.          *)
LEMMA WrittenStep == ServerInv /\ [Next]_vars => Written'
<1> SUFFICES ASSUME ServerInv, [Next]_vars
             PROVE  Written'
  OBVIOUS
<1>1. /\ pc \in [Conn -> Places] /\ write_buffer \in [Conn -> Seq(Bytes \ {NewLine})]
      /\ incomplete_command \in Seq(Bytes)
      /\ \A c, d \in Conn : pc[c] \in Critical /\ pc[d] \in Critical => c = d
      /\ Written
  BY DEF ServerInv, TypeOK, Exclusion, Places, Critical
<1>2. ASSUME UNCHANGED incomplete_command,
             \A d \in Conn : pc'[d] = "newline" => /\ pc[d] = "newline"
                                                   /\ write_buffer'[d] = write_buffer[d]
      PROVE  Written'
  BY <1>1, <1>2 DEF Written
<1>3. ASSUME NEW c \in Conn, pc[c] \in Critical, pc'[c] # "newline",
             \A d \in Conn \ {c} : pc'[d] = pc[d]
      PROVE  Written'
  BY <1>1, <1>3 DEF Written, Critical
<1>4. CASE Kill
  BY <1>4 DEF Kill, Written
<1>5. CASE UNCHANGED vars
  BY <1>2, <1>5 DEF vars, device, buffers
<1>6. ASSUME NEW c \in Conn, Client(c) \/ Lock(c) \/ Scan(c) \/ EndReply(c)
      PROVE  Written'
  <2>1. /\ UNCHANGED incomplete_command
        /\ \E to \in Places \ {"newline"} : pc' = [pc EXCEPT ![c] = to]
        /\ \E v : write_buffer' = [write_buffer EXCEPT ![c] = v]
    <3>1. write_buffer = [write_buffer EXCEPT ![c] = write_buffer[c]]
      BY <1>1
    <3>. QED  BY <1>6, <3>1 DEF Client, Connect, Disconnect, Recv, Lock, Scan, EndReply,
                 Goto, device, buffers, Places, Critical
  <2>. QED  BY <1>1, <1>2, <2>1
<1>7. ASSUME NEW c \in Conn, Reply(c)
      PROVE  Written'
  BY <1>2, <1>7 DEF Reply, device, buffers
<1>8. ASSUME NEW c \in Conn, Ioctl(c) \/ Unlock(c) \/ WriteNewLine(c)
      PROVE  Written'
  <2>1. /\ pc[c] \in Critical
        /\ \E to \in {"scan", "unlock", "reply"} : pc' = [pc EXCEPT ![c] = to]
    BY <1>8 DEF Ioctl, Unlock, WriteNewLine, Continue, Goto, Critical
  <2>. QED  BY <1>1, <1>3, <2>1
<1>9. ASSUME NEW c \in Conn, WritePacket(c)
      PROVE  Written'
  <2>1. pc[c] \in Critical
    BY <1>9 DEF WritePacket, Critical
  <2>2. CASE Continue(c)
    <3>1. pc' = [pc EXCEPT ![c] = "scan"]
      BY <2>2 DEF Continue, Goto
    <3>. QED  BY <1>1, <1>3, <2>1, <3>1
  <2>3. CASE /\ incomplete_command' = incomplete_command \o write_buffer[c]
             /\ Goto(c, "newline") /\ UNCHANGED buffers
    <3>1. \A d \in Conn : pc'[d] = "newline" => d = c
      BY <1>1, <2>1, <2>3 DEF Goto, Critical
    <3>. QED  BY <1>1, <2>3, <3>1 DEF Written, buffers
  <2>. QED  BY <1>9, <2>2, <2>3 DEF WritePacket
<1>. QED  BY <1>4, <1>5, <1>6, <1>7, <1>8, <1>9 DEF Next, Continues

LEMMA ServerInvStep == ServerInv /\ [Next]_vars => ServerInv'
<1> SUFFICES ASSUME ServerInv, [Next]_vars
             PROVE  ServerInv'
  OBVIOUS
<1>1. Ring'
  BY RingStep DEF ServerInv
<1>2. TypeOK'
  BY <1>1, TypeStep
<1>. QED  BY <1>1, <1>2, ExclusionStep, BuffersStep, WrittenStep DEF ServerInv

LEMMA ServerInvariant == Spec => []ServerInv
BY ServerInvInit, ServerInvStep, PTL DEF Spec

(* Whatever clients send, wherever recv cuts it and whichever calls fail,  *)
(* the server and its device keep their types: what a reply reads is       *)
(* bytes of a used slot, and no newline stays in a write buffer.           *)
THEOREM ServerTypes == Spec => []TypeOK
BY ServerInvariant, PTL DEF ServerInv

-----------------------------------------------------------------------------
(* A packet in front of other bytes, taken apart again.                    *)
LEMMA PacketSplit ==
  ASSUME NEW w \in Seq(Bytes \ {NewLine}), NEW u \in Seq(Bytes)
  PROVE  LET box == Append(w, NewLine) \o u
             n   == Len(w) + 1
         IN  /\ box \in Seq(Bytes)
             /\ FirstNewLine(box) = n
             /\ SubSeq(box, 1, n) = Append(w, NewLine)
             /\ SubSeq(box, n + 1, Len(box)) = u
             /\ SubSeq(Append(w, NewLine), 1, Len(Append(w, NewLine)) - 1) = w
             /\ NewLine \in Range(box)
             /\ Range(Append(w, NewLine)) = Range(w) \cup {NewLine}
<1> DEFINE p   == Append(w, NewLine)
           box == p \o u
           n   == Len(w) + 1
<1>1. /\ Len(w) \in Nat /\ n \in Nat /\ Len(u) \in Nat
      /\ p \in Seq(Bytes) /\ Len(p) = n
      /\ \A k \in 1 .. Len(w) : p[k] = w[k]
      /\ p[n] = NewLine
      /\ w \in Seq(Bytes)
  BY DEF Bytes
<1> HIDE DEF p
<1>2. /\ box \in Seq(Bytes) /\ Len(box) = n + Len(u)
      /\ \A k \in 1 .. n : box[k] = p[k]
      /\ \A k \in 1 .. Len(u) : box[n + k] = u[k]
  <2>1. /\ p \o u \in Seq(Bytes)
        /\ Len(p \o u) = Len(p) + Len(u)
        /\ \A k \in 1 .. Len(p) : (p \o u)[k] = p[k]
        /\ \A k \in 1 .. Len(u) : (p \o u)[Len(p) + k] = u[k]
    <3>1. p \in Seq(Bytes) /\ u \in Seq(Bytes)
      BY <1>1
    <3>. QED  BY <3>1, ConcatParts
  <2> HIDE DEF n
  <2>. QED  BY <1>1, <2>1
<1> HIDE DEF box
<1>3. /\ n \in 1 .. Len(box) /\ n \in 1 .. n
      /\ \A k \in 1 .. n - 1 : k \in 1 .. n /\ k \in 1 .. Len(w)
  BY <1>1, <1>2
<1>4. FirstNewLine(box) = n
  <2>1. \A k \in 1 .. n - 1 : box[k] # NewLine
    BY <1>1, <1>2, <1>3
  <2>2. box[n] = NewLine
    BY <1>1, <1>2, <1>3
  <2>. QED  BY <1>2, <1>3, <2>1, <2>2, FirstNewLineIsAt
<1>5. SubSeq(box, 1, n) = p
  <2> DEFINE s == SubSeq(box, 0 + 1, 0 + n)
  <2>1. 0 \in Nat /\ 0 + n <= Len(box)
    BY <1>1, <1>2
  <2>2. s \in Seq(Bytes) /\ Len(s) = n /\ \A k \in 1 .. n : s[k] = box[0 + k]
    BY <1>1, <1>2, <2>1, Slice
  <2> HIDE DEF s
  <2>3. \A k \in 1 .. n : s[k] = p[k]
    BY <1>1, <1>2, <2>2
  <2>4. s = p
    BY <1>1, <2>2, <2>3, SeqEqual
  <2>. QED  BY <1>1, <2>4 DEF s
<1>6. SubSeq(box, n + 1, Len(box)) = u
  <2> DEFINE s == SubSeq(box, n + 1, n + Len(u))
  <2>1. n + Len(u) <= Len(box)
    BY <1>1, <1>2
  <2>2. s \in Seq(Bytes) /\ Len(s) = Len(u) /\ \A k \in 1 .. Len(u) : s[k] = box[n + k]
    BY <1>1, <1>2, <2>1, Slice
  <2> HIDE DEF s
  <2>3. s = u
    BY <1>2, <2>2, SeqEqual
  <2>. QED  BY <1>2, <2>3 DEF s
<1>7. SubSeq(p, 1, Len(p) - 1) = w
  <2> DEFINE s == SubSeq(p, 0 + 1, 0 + Len(w))
  <2>1. 0 \in Nat /\ 0 + Len(w) <= Len(p)
    BY <1>1
  <2>2. s \in Seq(Bytes) /\ Len(s) = Len(w) /\ \A k \in 1 .. Len(w) : s[k] = p[0 + k]
    BY <1>1, <2>1, Slice
  <2> HIDE DEF s
  <2>3. \A k \in 1 .. Len(w) : s[k] = w[k]
    BY <1>1, <2>2
  <2>4. s = w
    BY <1>1, <2>2, <2>3, SeqEqual
  <2>. QED  BY <1>1, <2>4 DEF s
<1>8. NewLine \in Range(box)
  <2>1. n \in DOMAIN box /\ box[n] = NewLine
    BY <1>1, <1>2, <1>3
  <2>. QED  BY <2>1 DEF Range
<1>9. Range(p) = Range(w) \cup {NewLine}
  <2>1. DOMAIN p = 1 .. n /\ DOMAIN w = 1 .. Len(w) /\ 1 .. n = (1 .. Len(w)) \cup {n}
    BY <1>1
  <2>. QED  BY <1>1, <2>1 DEF Range
<1>. QED  BY <1>2, <1>4, <1>5, <1>6, <1>7, <1>8, <1>9 DEF box, p

(* A handler's packet is the client's next packet.                         *)
LEMMA PacketInInbox ==
  ASSUME NEW c \in Conn, NEW w \in Seq(Bytes \ {NewLine}), NEW u \in Seq(Bytes),
         Inbox(c) = Append(w, NewLine) \o u
  PROVE  /\ Packets!HasPacket(c)
         /\ Packets!Packet(c) = Append(w, NewLine)
         /\ Packets!AfterPacket(c) = u
         /\ Packets!IsSeek(Packets!Packet(c)) <=> IsSeek(w)
         /\ Packets!Front(Packets!Packet(c)) = w
<1> DEFINE box == Append(w, NewLine) \o u
           n   == Len(w) + 1
<1>1. /\ FirstNewLine(box) = n
      /\ SubSeq(box, 1, n) = Append(w, NewLine)
      /\ SubSeq(box, n + 1, Len(box)) = u
      /\ SubSeq(Append(w, NewLine), 1, Len(Append(w, NewLine)) - 1) = w
      /\ NewLine \in Range(box)
      /\ Range(Append(w, NewLine)) = Range(w) \cup {NewLine}
  BY PacketSplit
<1>2. [d \in Conn |-> Inbox(d)][c] = box
  OBVIOUS
<1> HIDE DEF box, n
<1>3. Packets!EndOfPacket(c) = n
  BY <1>1, <1>2 DEF Packets!EndOfPacket, Packets!SelectInSeq, Packets!Min,
                    FirstNewLine, SelectInSeq, Min
<1>4. Packets!HasPacket(c)
  BY <1>1, <1>2 DEF Packets!HasPacket, Packets!Range, Range
<1>5. Packets!Packet(c) = Append(w, NewLine) /\ Packets!AfterPacket(c) = u
  BY <1>1, <1>2, <1>3 DEF Packets!Packet, Packets!AfterPacket
<1>6. Packets!IsSeek(Packets!Packet(c)) <=> IsSeek(w)
  <2>1. NewLine \notin SeekCommands
    BY ChunksAssumption
  <2>. QED  BY <1>1, <1>5, <2>1 DEF Packets!IsSeek, Packets!Range, Range, IsSeek
<1>7. Packets!Front(Packets!Packet(c)) = w
  BY <1>1, <1>5 DEF Packets!Front
<1>. QED  BY <1>3, <1>4, <1>5, <1>6, <1>7

-----------------------------------------------------------------------------
(* The state that PacketLog speaks of.                                     *)
Boxes == [c \in Conn |-> Inbox(c)]

Unseen == UNCHANGED <<Commands, Remnant, Boxes, refused>>

(* The inbox of a handler, by where it is.                                 *)
LEMMA InboxIs ==
  ASSUME NEW c \in Conn
  PROVE  /\ pc[c] \in {"lock", "ioctl", "write", "newline"} =>
              Inbox(c) = Append(write_buffer[c], NewLine) \o Unread(c)
         /\ pc[c] = "unlock" => Inbox(c) = Unread(c)
         /\ pc[c] = "closed" => Inbox(c) = << >>
         /\ pc[c] \in {"recv", "scan", "reply"} =>
              Inbox(c) = write_buffer[c] \o Unread(c)
BY DEF Inbox

LEMMA InboxIsNext ==
  ASSUME NEW c \in Conn
  PROVE  /\ pc'[c] \in {"lock", "ioctl", "write", "newline"} =>
              Inbox(c)' = Append(write_buffer'[c], NewLine) \o Unread(c)'
         /\ pc'[c] = "unlock" => Inbox(c)' = Unread(c)'
         /\ pc'[c] = "closed" => Inbox(c)' = << >>
         /\ pc'[c] \in {"recv", "scan", "reply"} =>
              Inbox(c)' = write_buffer'[c] \o Unread(c)'
BY DEF Inbox

(* A step of one handler touches no other's inbox.                         *)
LEMMA BoxesOfOne ==
  ASSUME TypeOK, NEW c \in Conn,
         /\ \E v : pc' = [pc EXCEPT ![c] = v]
         /\ \E v : read_buffer' = [read_buffer EXCEPT ![c] = v]
         /\ \E v : i' = [i EXCEPT ![c] = v]
         /\ \E v : write_buffer' = [write_buffer EXCEPT ![c] = v]
  PROVE  Boxes' = [Boxes EXCEPT ![c] = Inbox(c)']
<1>1. \A d \in Conn \ {c} : /\ pc'[d] = pc[d] /\ read_buffer'[d] = read_buffer[d]
                            /\ i'[d] = i[d] /\ write_buffer'[d] = write_buffer[d]
  BY DEF TypeOK
<1>2. \A d \in Conn \ {c} : Inbox(d)' = Inbox(d)
  BY <1>1 DEF Inbox, Unread
<1>. QED  BY <1>2 DEF Boxes

LEMMA SameBuffers ==
  ASSUME ServerInv, NEW c \in Conn, UNCHANGED buffers,
         \E v : pc' = [pc EXCEPT ![c] = v]
  PROVE  /\ Boxes' = [Boxes EXCEPT ![c] = Inbox(c)']
         /\ Unread(c)' = Unread(c) /\ Unread(c) \in Seq(Bytes)
         /\ write_buffer'[c] = write_buffer[c]
         /\ write_buffer[c] \in Seq(Bytes \ {NewLine})
<1>1. /\ TypeOK
      /\ read_buffer = [read_buffer EXCEPT ![c] = read_buffer[c]]
      /\ i = [i EXCEPT ![c] = i[c]]
      /\ write_buffer = [write_buffer EXCEPT ![c] = write_buffer[c]]
  BY DEF ServerInv, TypeOK
<1>2. /\ read_buffer' = [read_buffer EXCEPT ![c] = read_buffer[c]]
      /\ i' = [i EXCEPT ![c] = i[c]]
      /\ write_buffer' = [write_buffer EXCEPT ![c] = write_buffer[c]]
  BY <1>1 DEF buffers
<1>3. Unread(c) \in Seq(Bytes)
  BY UnreadIs DEF ServerInv, TypeOK, Buffers, BufferOf
<1>4. write_buffer[c] \in Seq(Bytes \ {NewLine})
  BY DEF ServerInv, TypeOK
<1>5. Boxes' = [Boxes EXCEPT ![c] = Inbox(c)']
  BY <1>1, <1>2, BoxesOfOne
<1>. QED  BY <1>3, <1>4, <1>5 DEF buffers, Unread

(* What is left of the incomplete command when the packet that is being    *)
(* written is taken away.                                                  *)
LEMMA RemnantOutside ==
  ASSUME TypeOK, \A c \in Conn : pc[c] # "newline"
  PROVE  Remnant = incomplete_command
BY DEF TypeOK, Remnant

LEMMA RemnantInside ==
  ASSUME ServerInv, NEW c \in Conn, pc[c] = "newline"
  PROVE  /\ Remnant \in Seq(Bytes)
         /\ incomplete_command = Remnant \o write_buffer[c]
<1>1. PICK rest \in Seq(Bytes) : incomplete_command = rest \o write_buffer[c]
  BY DEF ServerInv, Written
<1>2. file_mutex = c /\ file_mutex # NoThread
  BY ConnAssumption DEF ServerInv, Exclusion, Critical
<1>3. write_buffer[c] \in Seq(Bytes)
  BY DEF ServerInv, TypeOK
<1>4. Remnant = rest
  BY <1>1, <1>2, <1>3, PrefixOfConcat DEF Remnant
<1>. QED  BY <1>1, <1>4

(* At most one handler is inside the mutex.                                *)
LEMMA OneCritical ==
  ASSUME ServerInv, NEW c \in Conn, pc[c] \in Critical
  PROVE  /\ file_mutex = c /\ ~ refused
         /\ \A d \in Conn \ {c} : pc[d] \notin Critical
BY DEF ServerInv, Exclusion

LEMMA SameRemnant ==
  ASSUME TypeOK, TypeOK', UNCHANGED incomplete_command,
         \A c \in Conn : pc[c] # "newline" /\ pc'[c] # "newline"
  PROVE  Remnant' = Remnant
<1>1. Remnant = incomplete_command
  BY RemnantOutside
<1>2. Remnant' = incomplete_command'
  BY DEF TypeOK, Remnant
<1>. QED  BY <1>1, <1>2

LEMMA SameCommands == UNCHANGED circular_buffer => Commands' = Commands
BY DEF Commands

(* A step of a handler outside the mutex touches nothing of the owner's.   *)
LEMMA RemnantOfOther ==
  ASSUME TypeOK, NEW c \in Conn, pc[c] # "newline", pc'[c] # "newline",
         UNCHANGED <<incomplete_command, file_mutex>>,
         \E v : pc' = [pc EXCEPT ![c] = v],
         \E v : write_buffer' = [write_buffer EXCEPT ![c] = v]
  PROVE  Remnant' = Remnant
<1>1. CASE file_mutex = NoThread \/ file_mutex = c
  BY <1>1 DEF Remnant
<1>2. CASE file_mutex \in Conn \ {c}
  <2>1. /\ pc'[file_mutex] = pc[file_mutex]
        /\ write_buffer'[file_mutex] = write_buffer[file_mutex]
    BY <1>2 DEF TypeOK
  <2>. QED  BY <2>1 DEF Remnant
<1>. QED  BY <1>1, <1>2 DEF TypeOK

-----------------------------------------------------------------------------
(* The bytes up to a newline and the rest are all there was.               *)
LEMMA ScanSplits ==
  ASSUME ServerInv, NEW c \in Conn, NEW n \in 1 .. Len(Unread(c)),
         n = FirstNewLine(Unread(c)),
         i' = [i EXCEPT ![c] = @ + n], read_buffer' = read_buffer
  PROVE  /\ Unread(c)' \in Seq(Bytes)
         /\ Unread(c) = Append(BeforeNewLine(Unread(c), n), NewLine) \o Unread(c)'
<1> DEFINE s == read_buffer[c]
           a == i[c]
           u == Unread(c)
           r == Unread(c)'
           b == BeforeNewLine(u, n)
<1>1. /\ s \in Seq(Bytes) /\ a \in Nat /\ a <= Len(s)
      /\ DOMAIN i = Conn
  BY DEF ServerInv, TypeOK, Buffers, BufferOf
<1>2. /\ u \in Seq(Bytes) /\ Len(u) = Len(s) - a
      /\ \A k \in 1 .. Len(u) : u[k] = s[a + k]
      /\ n \in 1 .. Len(u) /\ Len(s) \in Nat
  BY <1>1, UnreadIs
<1>3. r = SubSeq(s, a + n + 1, Len(s))
  BY <1>1 DEF Unread
<1>4. /\ b \in Seq(Bytes \ {NewLine}) /\ Len(b) = n - 1
      /\ \A k \in 1 .. n - 1 : b[k] = u[k]
  BY <1>2, BeforeNewLineIs
<1>5. u[n] = NewLine
  BY <1>2, FirstNewLineIs
<1> HIDE DEF s, a, u, b
<1> DEFINE m == Len(s) - (a + n)
<1>6. a + n \in Nat /\ m \in Nat /\ (a + n) + m = Len(s) /\ Len(u) = n + m
  BY <1>1, <1>2
<1> HIDE DEF r, m
<1>7. r \in Seq(Bytes) /\ Len(r) = m /\ \A k \in 1 .. m : r[k] = s[(a + n) + k]
  <2> DEFINE f == a + n
  <2>1. /\ f \in Nat /\ m \in Nat /\ f + m = Len(s) /\ f + m <= Len(s)
        /\ r = SubSeq(s, f + 1, f + m)
    <3>1. f \in Nat /\ m \in Nat /\ f + m = Len(s) /\ f + m <= Len(s)
      BY <1>1, <1>2, <1>6
    <3>2. r = SubSeq(s, f + 1, Len(s))
      BY <1>3
    <3>. QED  BY <3>1, <3>2
  <2> HIDE DEF f
  <2>2. r \in Seq(Bytes) /\ Len(r) = m /\ \A k \in 1 .. m : r[k] = s[f + k]
    BY <1>1, <2>1, Slice
  <2>. QED  BY <2>2 DEF f
<1>8. /\ Append(b, NewLine) \in Seq(Bytes)
      /\ Len(Append(b, NewLine)) = n
      /\ \A k \in 1 .. n : Append(b, NewLine)[k] = u[k]
  <2>1. b \in Seq(Bytes) /\ NewLine \in Bytes
    BY <1>4 DEF Bytes
  <2>. QED  BY <1>4, <1>5, <2>1
<1>9. \A k \in 1 .. m : r[k] = u[n + k]
  <2> TAKE k \in 1 .. m
  <2>1. n \in Nat /\ k \in Nat /\ k <= m /\ 1 <= k
    BY <1>2, <1>6
  <2>2. n + k \in 1 .. n + m /\ (a + n) + k = a + (n + k)
    BY <1>1, <1>6, <2>1
  <2>. QED  BY <1>2, <1>6, <1>7, <2>2
<1> DEFINE p == Append(b, NewLine)
<1> HIDE DEF p
<1>10. /\ p \in Seq(Bytes) /\ Len(p) = n
       /\ \A k \in 1 .. Len(p) : p[k] = u[k]
  BY <1>8 DEF p
<1>11. u = p \o r
  <2>1. Len(u) = Len(p) + Len(r) /\ r \in Seq(Bytes) /\ u \in Seq(Bytes)
    BY <1>2, <1>6, <1>7, <1>10
  <2>2. \A k \in 1 .. Len(r) : r[k] = u[Len(p) + k]
    BY <1>7, <1>9, <1>10
  <2>. QED  BY <1>10, <2>1, <2>2, ConcatIs
<1>. QED  BY <1>7, <1>11 DEF u, b, r, p

-----------------------------------------------------------------------------
(* A client that connects, is heard, and leaves.                           *)
LEMMA ClientRefines ==
  ASSUME ServerInv, NEW c \in Conn,
         \/ Connect(c) \/ Disconnect(c) \/ \E chunk \in Chunks[c] : Recv(c, chunk)
  PROVE  Unseen \/ Packets!Receive(c) \/ Packets!Leave(c)
<1>1. /\ TypeOK /\ pc \in [Conn -> Places]
      /\ pc = [pc EXCEPT ![c] = pc[c]]
      /\ read_buffer = [read_buffer EXCEPT ![c] = read_buffer[c]]
      /\ i = [i EXCEPT ![c] = i[c]]
      /\ write_buffer = [write_buffer EXCEPT ![c] = write_buffer[c]]
      /\ write_buffer[c] \in Seq(Bytes \ {NewLine})
      /\ DOMAIN read_buffer = Conn /\ DOMAIN i = Conn /\ DOMAIN write_buffer = Conn
  BY DEF ServerInv, TypeOK, Places, Critical
<1>2. /\ pc[c] \in {"closed", "recv"} /\ read_buffer[c] = << >> /\ i[c] = 0
      /\ pc[c] = "closed" => write_buffer[c] = << >>
  BY DEF ServerInv, Buffers, BufferOf, Connect, Disconnect, Recv
<1>3. /\ \E to \in {"recv", "closed", "scan"} : pc' = [pc EXCEPT ![c] = to]
      /\ \E v : read_buffer' = [read_buffer EXCEPT ![c] = v]
      /\ \E v : i' = [i EXCEPT ![c] = v]
      /\ \E v : write_buffer' = [write_buffer EXCEPT ![c] = v]
      /\ UNCHANGED <<circular_buffer, incomplete_command, file_mutex, refused>>
  BY <1>1 DEF Connect, Disconnect, Recv, Goto, device, buffers, history
<1>4. Boxes' = [Boxes EXCEPT ![c] = Inbox(c)']
  BY <1>1, <1>3, BoxesOfOne
<1>5. Commands' = Commands
  BY <1>3, SameCommands
<1>6. Remnant' = Remnant
  <2>1. pc[c] # "newline" /\ pc'[c] # "newline" /\ \E v : pc' = [pc EXCEPT ![c] = v]
    BY <1>1, <1>2, <1>3
  <2>. QED  BY <1>1, <1>3, <2>1, RemnantOfOther
<1>7. Unread(c) = << >>
  BY <1>2 DEF Unread
<1>8. Inbox(c) = write_buffer[c]
  <2>1. write_buffer[c] \o << >> = write_buffer[c]
    BY <1>1, EmptyConcat
  <2>. QED  BY <1>2, <1>7, <2>1, InboxIs
<1>9. CASE Connect(c)
  <2>1. UNCHANGED buffers /\ pc'[c] = "recv"
    BY <1>1, <1>9 DEF Connect, Goto
  <2>2. Unread(c)' = << >> /\ write_buffer'[c] = << >>
    BY <1>2, <1>7, <1>9, <2>1 DEF Unread, buffers, Connect
  <2>3. Inbox(c)' = << >> \o << >>
    BY <2>1, <2>2, InboxIsNext
  <2>4. Inbox(c)' = Inbox(c)
    BY <1>2, <1>8, <1>9, <2>3 DEF Connect
  <2>5. Boxes' = Boxes
    BY <1>4, <2>4 DEF Boxes
  <2>. QED  BY <1>3, <1>5, <1>6, <2>5 DEF Unseen
<1>10. ASSUME NEW chunk \in Chunks[c], Recv(c, chunk)
       PROVE  Packets!Receive(c)
  <2>1. /\ pc'[c] = "scan" /\ read_buffer'[c] = chunk /\ i'[c] = 0
        /\ write_buffer'[c] = write_buffer[c]
    BY <1>1, <1>10 DEF Recv, Goto
  <2>2. chunk \in Seq(Bytes)
    BY ChunksAssumption
  <2>3. Unread(c)' = chunk
    BY <2>1, <2>2, WholeSlice DEF Unread
  <2>4. Inbox(c)' = Inbox(c) \o chunk
    BY <1>8, <2>1, <2>3, InboxIsNext
  <2>5. Boxes' = [Boxes EXCEPT ![c] = Boxes[c] \o chunk]
    BY <1>4, <2>4 DEF Boxes
  <2>. QED  BY <1>3, <1>5, <1>6, <2>5 DEF Packets!Receive, Boxes
<1>11. CASE Disconnect(c)
  <2>1. pc'[c] = "closed"
    BY <1>1, <1>11 DEF Disconnect, Goto
  <2>2. Inbox(c)' = << >>
    BY <2>1, InboxIsNext
  <2>3. Boxes' = [Boxes EXCEPT ![c] = << >>]
    BY <1>4, <2>2
  <2>4. ~ Packets!HasPacket(c)
    <3>1. Boxes[c] = write_buffer[c]
      BY <1>8 DEF Boxes
    <3>2. \A k \in DOMAIN write_buffer[c] : write_buffer[c][k] # NewLine
      BY <1>1
    <3>. QED  BY <3>1, <3>2 DEF Packets!HasPacket, Packets!Range, Boxes
  <2>. QED  BY <1>3, <1>5, <1>6, <2>3, <2>4 DEF Packets!Leave, Boxes
<1>. QED  BY <1>9, <1>10, <1>11

(* Moving bytes to the write buffer.                                       *)
LEMMA ScanRefines ==
  ASSUME ServerInv, NEW c \in Conn, Scan(c)
  PROVE  Unseen
<1> DEFINE n == FirstNewLine(Unread(c))
           newline == SelectInSeq(Unread(c), LAMBDA b : b = NewLine)
           w == write_buffer[c]
<1>1. /\ TypeOK /\ pc \in [Conn -> Places]
      /\ read_buffer = [read_buffer EXCEPT ![c] = read_buffer[c]]
      /\ w \in Seq(Bytes)
      /\ DOMAIN read_buffer = Conn /\ DOMAIN i = Conn /\ DOMAIN write_buffer = Conn
      /\ NewLine \in Bytes
  BY DEF ServerInv, TypeOK, Places, Critical, Bytes
<1>2. /\ \E to \in {"recv", "lock"} : pc' = [pc EXCEPT ![c] = to]
      /\ \E v : read_buffer' = [read_buffer EXCEPT ![c] = v]
      /\ \E v : i' = [i EXCEPT ![c] = v]
      /\ \E v : write_buffer' = [write_buffer EXCEPT ![c] = v]
      /\ UNCHANGED <<circular_buffer, incomplete_command, file_mutex, refused>>
      /\ pc[c] = "scan"
  BY <1>1 DEF Scan, Goto, device, history
<1>3. Boxes' = [Boxes EXCEPT ![c] = Inbox(c)']
  <2>1. \E v : pc' = [pc EXCEPT ![c] = v]
    BY <1>2
  <2>. QED  BY <1>1, <1>2, <2>1, BoxesOfOne
<1>4. Commands' = Commands
  BY <1>2, SameCommands
<1>5. Remnant' = Remnant
  <2>1. pc[c] # "newline" /\ pc'[c] # "newline" /\ \E v : pc' = [pc EXCEPT ![c] = v]
    BY <1>1, <1>2
  <2>. QED  BY <1>1, <1>2, <2>1, RemnantOfOther
<1>6. Inbox(c) = w \o Unread(c)
  BY <1>2, InboxIs
<1>7. Unread(c) \in Seq(Bytes)
  BY UnreadIs DEF ServerInv, TypeOK, Buffers, BufferOf
<1>8. n \in 0 .. Len(Unread(c)) /\ newline = n
  BY <1>7, FirstNewLineIs DEF FirstNewLine
<1> HIDE DEF n
<1>9. ASSUME n = 0
      PROVE  Inbox(c)' = Inbox(c)
  <2>1. /\ read_buffer' = [read_buffer EXCEPT ![c] = << >>]
        /\ i' = [i EXCEPT ![c] = 0]
        /\ write_buffer' = [write_buffer EXCEPT ![c] = @ \o Unread(c)]
        /\ Goto(c, "recv")
    BY <1>8, <1>9 DEF Scan
  <2>2. /\ read_buffer'[c] = << >> /\ i'[c] = 0
        /\ write_buffer'[c] = w \o Unread(c) /\ pc'[c] = "recv"
    BY <1>1, <2>1 DEF Goto
  <2>3. Unread(c)' = << >>
    BY <2>2 DEF Unread
  <2>4. Inbox(c)' = (w \o Unread(c)) \o << >>
    BY <2>2, <2>3, InboxIsNext
  <2>5. w \o Unread(c) \in Seq(Bytes)
    BY <1>1, <1>7, ConcatParts
  <2>6. Inbox(c)' = w \o Unread(c)
    BY <2>4, <2>5, EmptyConcat
  <2>. QED  BY <1>6, <2>6
<1>10. ASSUME n # 0
       PROVE  Inbox(c)' = Inbox(c)
  <2> DEFINE b == BeforeNewLine(Unread(c), n)
             r == Unread(c)'
             nl == << NewLine >>
  <2>1. /\ i' = [i EXCEPT ![c] = @ + n] /\ read_buffer' = read_buffer
        /\ write_buffer' = [write_buffer EXCEPT ![c] = @ \o b]
        /\ Goto(c, "lock")
    BY <1>8, <1>10 DEF Scan
  <2>2. n \in 1 .. Len(Unread(c)) /\ n = FirstNewLine(Unread(c))
    BY <1>8, <1>10 DEF n
  <2>3. r \in Seq(Bytes) /\ Unread(c) = Append(b, NewLine) \o r
    BY <2>1, <2>2, ScanSplits
  <2>4. write_buffer'[c] = w \o b /\ pc'[c] = "lock"
    BY <1>1, <2>1 DEF Goto
  <2>5. Inbox(c)' = Append(w \o b, NewLine) \o r
    BY <2>4, InboxIsNext
  <2>6. b \in Seq(Bytes)
    BY <1>7, <2>2, BeforeNewLineIs
  <2> HIDE DEF b, r
  <2>7. nl \in Seq(Bytes) /\ w \o b \in Seq(Bytes)
    BY <1>1, <2>6, ConcatParts
  <2>8. Append(w \o b, NewLine) = (w \o b) \o nl /\ Append(b, NewLine) = b \o nl
    BY <1>1, <2>6, <2>7, AppendIsConcat
  <2> HIDE DEF nl, w
  <2>9. (w \o b) \o nl = w \o (b \o nl) /\ b \o nl \in Seq(Bytes)
    BY <1>1, <2>6, <2>7, ConcatAssociates, ConcatParts
  <2>10. (w \o (b \o nl)) \o r = w \o ((b \o nl) \o r)
    <3> DEFINE e == b \o nl
    <3>1. w \in Seq(Bytes) /\ e \in Seq(Bytes) /\ r \in Seq(Bytes)
      BY <1>1, <2>3, <2>9
    <3> HIDE DEF e
    <3>2. (w \o e) \o r = w \o (e \o r)
      BY <3>1, ConcatAssociates
    <3>. QED  BY <3>2 DEF e
  <2>11. Inbox(c)' = w \o Unread(c)
    BY <2>3, <2>5, <2>8, <2>9, <2>10
  <2>. QED  BY <1>6, <2>11
<1>11. Inbox(c)' = Inbox(c)
  BY <1>6, <1>8, <1>9, <1>10
<1>12. Boxes' = Boxes
  BY <1>3, <1>11 DEF Boxes
<1>. QED  BY <1>2, <1>4, <1>5, <1>12 DEF Unseen

(* Steps that no client could tell: waiting is over, the packet is begun,  *)
(* the mutex is given back, and the answer is read.                        *)
LEMMA QuietRefines ==
  ASSUME ServerInv, ServerInv', NEW c \in Conn,
         Lock(c) \/ Unlock(c) \/ Reply(c) \/ EndReply(c)
  PROVE  Unseen
<1>1. /\ TypeOK /\ TypeOK' /\ pc \in [Conn -> Places]
      /\ pc = [pc EXCEPT ![c] = pc[c]]
      /\ read_buffer = [read_buffer EXCEPT ![c] = read_buffer[c]]
      /\ i = [i EXCEPT ![c] = i[c]]
      /\ write_buffer = [write_buffer EXCEPT ![c] = write_buffer[c]]
      /\ Unread(c) \in Seq(Bytes)
  BY UnreadIs DEF ServerInv, TypeOK, Places, Critical, Buffers, BufferOf
<1>2. /\ \E v : pc' = [pc EXCEPT ![c] = v]
      /\ \E v : write_buffer' = [write_buffer EXCEPT ![c] = v]
      /\ UNCHANGED <<circular_buffer, incomplete_command, refused, read_buffer, i>>
  BY <1>1 DEF Lock, Unlock, Reply, EndReply, Goto, ResetBuffer, device, buffers, history
<1>3. Boxes' = [Boxes EXCEPT ![c] = Inbox(c)']
  BY <1>1, <1>2, BoxesOfOne
<1>4. Commands' = Commands
  BY <1>2, SameCommands
<1>5. Unread(c)' = Unread(c)
  BY <1>2 DEF Unread
<1>6. Remnant' = Remnant /\ Inbox(c)' = Inbox(c)
  <2>1. CASE Lock(c)
    <3>1. /\ pc'[c] \in {"ioctl", "write"} /\ pc[c] = "lock" /\ file_mutex = NoThread
          /\ pc' = [pc EXCEPT ![c] = pc'[c]]
          /\ write_buffer' = write_buffer
      BY <1>1, <2>1 DEF Lock, Unlocked, Goto, buffers
    <3>2. \A d \in Conn : pc[d] \notin Critical
      BY <3>1, ConnAssumption DEF ServerInv, Exclusion
    <3>3. \A d \in Conn : pc[d] # "newline" /\ pc'[d] # "newline"
      BY <1>1, <3>1, <3>2 DEF Critical
    <3>4. Remnant' = Remnant
      BY <1>1, <1>2, <3>3, SameRemnant
    <3>5. /\ Inbox(c) = Append(write_buffer[c], NewLine) \o Unread(c)
          /\ Inbox(c)' = Append(write_buffer'[c], NewLine) \o Unread(c)'
      BY <3>1, InboxIs, InboxIsNext
    <3>. QED  BY <1>5, <3>1, <3>4, <3>5
  <2>2. CASE Unlock(c)
    <3>1. /\ pc'[c] = "reply" /\ pc[c] = "unlock"
          /\ pc' = [pc EXCEPT ![c] = "reply"]
          /\ write_buffer'[c] = << >>
      BY <1>1, <2>2 DEF Unlock, Goto, ResetBuffer, ServerInv, TypeOK
    <3>2. \A d \in Conn : pc[d] # "newline"
      BY <3>1, OneCritical DEF Critical
    <3>3. \A d \in Conn : pc'[d] # "newline"
      BY <1>1, <3>1, <3>2
    <3>4. Remnant' = Remnant
      BY <1>1, <1>2, <3>2, <3>3, SameRemnant
    <3>5. Inbox(c) = Unread(c) /\ Inbox(c)' = << >> \o Unread(c)
      BY <1>5, <3>1, InboxIs, InboxIsNext
    <3>. QED  BY <1>1, <3>4, <3>5, EmptyConcat
  <2>3. CASE Reply(c) \/ EndReply(c)
    <3>1. /\ pc[c] = "reply" /\ pc'[c] \in {"reply", "scan"}
          /\ write_buffer' = write_buffer /\ file_mutex' = file_mutex
      BY <1>1, <2>3 DEF Reply, EndReply, Goto, buffers
    <3>2. Remnant' = Remnant
      BY <1>1, <1>2, <3>1, RemnantOfOther
    <3>3. /\ Inbox(c) = write_buffer[c] \o Unread(c)
          /\ Inbox(c)' = write_buffer'[c] \o Unread(c)'
      BY <3>1, InboxIs, InboxIsNext
    <3>. QED  BY <1>5, <3>1, <3>2, <3>3
  <2>. QED  BY <2>1, <2>2, <2>3
<1>7. Boxes' = Boxes
  BY <1>3, <1>6 DEF Boxes
<1>. QED  BY <1>2, <1>4, <1>6, <1>7 DEF Unseen

(* A call is refused: the packet loses its newline, and the mutex stays    *)
(* locked.                                                                 *)
LEMMA ContinueRefines ==
  ASSUME ServerInv, ServerInv', NEW c \in Conn,
         pc[c] \in {"ioctl", "write", "newline"}, Continue(c)
  PROVE  Packets!Refuse(c)
<1> DEFINE w == write_buffer[c]
           u == Unread(c)
<1>1. /\ TypeOK /\ TypeOK' /\ pc \in [Conn -> Places] /\ DOMAIN pc = Conn
  BY DEF ServerInv, TypeOK, Places, Critical
<1>2. /\ pc' = [pc EXCEPT ![c] = "scan"] /\ refused' = TRUE
      /\ UNCHANGED <<circular_buffer, incomplete_command, buffers>>
      /\ pc'[c] = "scan"
  BY <1>1 DEF Continue, Goto, device
<1>3. /\ file_mutex = c /\ ~ refused
      /\ \A d \in Conn \ {c} : pc[d] \notin Critical
  BY OneCritical DEF Critical
<1>4. /\ Boxes' = [Boxes EXCEPT ![c] = Inbox(c)']
      /\ Unread(c)' = u /\ u \in Seq(Bytes)
      /\ write_buffer'[c] = w /\ w \in Seq(Bytes \ {NewLine})
  BY <1>2, SameBuffers
<1>5. Inbox(c) = Append(w, NewLine) \o u /\ Inbox(c)' = w \o u
  BY <1>2, <1>4, InboxIs, InboxIsNext
<1>6. /\ Packets!HasPacket(c)
      /\ Packets!AfterPacket(c) = u
      /\ Packets!Front(Packets!Packet(c)) = w
  BY <1>4, <1>5, PacketInInbox
<1>7. \A d \in Conn : pc'[d] # "newline"
  BY <1>1, <1>2, <1>3 DEF Critical
<1>8. Remnant' = incomplete_command
  <2>1. Remnant' = incomplete_command'
    BY <1>1, <1>7 DEF TypeOK, Remnant
  <2>. QED  BY <1>2, <2>1
<1>9. Remnant' \in {Remnant, Remnant \o w}
  <2>1. CASE pc[c] = "newline"
    BY <1>8, <2>1, RemnantInside
  <2>2. CASE pc[c] # "newline"
    <3>1. \A d \in Conn : pc[d] # "newline"
      BY <1>3, <2>2 DEF Critical
    <3>. QED  BY <1>1, <1>8, <3>1, RemnantOutside
  <2>. QED  BY <2>1, <2>2
<1>10. Commands' = Commands
  BY <1>2, SameCommands
<1> HIDE DEF w, u
<1>11. Packets!Leaves(c)
  BY <1>6, <1>9 DEF Packets!Leaves
<1>12. Boxes' = [Boxes EXCEPT ![c] = Packets!Front(Packets!Packet(c))
                                       \o Packets!AfterPacket(c)]
  BY <1>4, <1>5, <1>6
<1>. QED  BY <1>2, <1>3, <1>6, <1>10, <1>11, <1>12 DEF Packets!Refuse, Boxes

(* A permitted seek is obeyed.                                             *)
LEMMA IoctlRefines ==
  ASSUME ServerInv, ServerInv', NEW c \in Conn, Ioctl(c)
  PROVE  Packets!Obey(c) \/ Packets!Refuse(c)
<1>1. CASE Continue(c)
  BY <1>1, ContinueRefines DEF Ioctl
<1>2. ASSUME ~ Continue(c)
      PROVE  Packets!Obey(c)
  <2> DEFINE w == write_buffer[c]
             u == Unread(c)
  <2>1. /\ TypeOK /\ TypeOK' /\ pc \in [Conn -> Places] /\ DOMAIN pc = Conn
    BY DEF ServerInv, TypeOK, Places, Critical
  <2>2. /\ pc[c] = "ioctl" /\ pc' = [pc EXCEPT ![c] = "unlock"] /\ pc'[c] = "unlock"
        /\ UNCHANGED <<circular_buffer, incomplete_command, buffers, refused>>
    BY <1>2, <2>1 DEF Ioctl, Goto, device, history
  <2>3. /\ ~ refused
        /\ \A d \in Conn \ {c} : pc[d] \notin Critical
    BY <2>2, OneCritical DEF Critical
  <2>4. /\ Boxes' = [Boxes EXCEPT ![c] = Inbox(c)']
        /\ Unread(c)' = u /\ u \in Seq(Bytes) /\ w \in Seq(Bytes \ {NewLine})
    BY <2>2, SameBuffers
  <2>5. Inbox(c) = Append(w, NewLine) \o u /\ Inbox(c)' = u
    BY <2>2, <2>4, InboxIs, InboxIsNext
  <2>6. IsSeek(w)
    BY <2>2 DEF ServerInv, Buffers, BufferOf
  <2>7. /\ Packets!HasPacket(c)
        /\ Packets!AfterPacket(c) = u
        /\ Packets!IsSeek(Packets!Packet(c))
    BY <2>4, <2>5, <2>6, PacketInInbox
  <2>8. \A d \in Conn : pc[d] # "newline" /\ pc'[d] # "newline"
    BY <2>1, <2>2, <2>3 DEF Critical
  <2>9. Remnant' = Remnant
    BY <2>1, <2>2, <2>8, SameRemnant
  <2>10. Commands' = Commands
    BY <2>2, SameCommands
  <2> HIDE DEF w, u
  <2>11. Boxes' = [Boxes EXCEPT ![c] = Packets!AfterPacket(c)]
    BY <2>4, <2>5, <2>7
  <2>. QED  BY <2>2, <2>3, <2>7, <2>9, <2>10, <2>11 DEF Packets!Obey, Boxes
<1>. QED  BY <1>1, <1>2

(* The packet is written, and is not yet in the log.                       *)
LEMMA WritePacketRefines ==
  ASSUME ServerInv, ServerInv', NEW c \in Conn, WritePacket(c)
  PROVE  Unseen \/ Packets!Refuse(c)
<1>1. CASE Continue(c)
  BY <1>1, ContinueRefines DEF WritePacket
<1>2. ASSUME ~ Continue(c)
      PROVE  Unseen
  <2>1. /\ TypeOK /\ TypeOK' /\ pc \in [Conn -> Places] /\ DOMAIN pc = Conn
        /\ incomplete_command \in Seq(Bytes) /\ write_buffer[c] \in Seq(Bytes)
    <3>1. write_buffer[c] \in Seq(Bytes)
      BY DEF ServerInv, TypeOK
    <3>. QED  BY <3>1 DEF ServerInv, TypeOK, Places, Critical
  <2>2. /\ pc[c] = "write" /\ pc' = [pc EXCEPT ![c] = "newline"] /\ pc'[c] = "newline"
        /\ incomplete_command' = incomplete_command \o write_buffer[c]
        /\ UNCHANGED <<circular_buffer, file_mutex, buffers, refused>>
    BY <1>2, <2>1 DEF WritePacket, Goto, history
  <2>3. /\ file_mutex = c /\ file_mutex # NoThread
        /\ \A d \in Conn : pc[d] # "newline"
    BY <2>2, OneCritical, ConnAssumption DEF Critical
  <2>4. /\ Boxes' = [Boxes EXCEPT ![c] = Inbox(c)']
        /\ Unread(c)' = Unread(c) /\ write_buffer'[c] = write_buffer[c]
    BY <2>2, SameBuffers
  <2>5. Inbox(c)' = Inbox(c)
    BY <2>2, <2>4, InboxIs, InboxIsNext
  <2>6. Boxes' = Boxes
    BY <2>4, <2>5 DEF Boxes
  <2>7. Remnant = incomplete_command
    BY <2>1, <2>3, RemnantOutside
  <2>8. Remnant' = SubSeq(incomplete_command', 1,
                          Len(incomplete_command') - Len(write_buffer[c]))
    BY <2>2, <2>3, <2>4 DEF Remnant
  <2>9. Remnant' = incomplete_command
    BY <2>1, <2>2, <2>8, PrefixOfConcat
  <2>10. Commands' = Commands
    BY <2>2, SameCommands
  <2>. QED  BY <2>2, <2>6, <2>7, <2>9, <2>10 DEF Unseen
<1>. QED  BY <1>1, <1>2

(* The newline is written, and the packet is in the log.                   *)
LEMMA WriteNewLineRefines ==
  ASSUME ServerInv, ServerInv', NEW c \in Conn, WriteNewLine(c)
  PROVE  Packets!Store(c) \/ Packets!Refuse(c)
<1>1. CASE Continue(c)
  BY <1>1, ContinueRefines DEF WriteNewLine
<1>2. ASSUME ~ Continue(c)
      PROVE  Packets!Store(c)
  <2> DEFINE w == write_buffer[c]
             u == Unread(c)
             e == [buffptr |-> Stored(c), size |-> Len(Stored(c))]
  <2>1. /\ TypeOK /\ TypeOK' /\ pc \in [Conn -> Places] /\ DOMAIN pc = Conn
    BY DEF ServerInv, TypeOK, Places, Critical
  <2>2. /\ pc[c] = "newline" /\ pc' = [pc EXCEPT ![c] = "unlock"] /\ pc'[c] = "unlock"
        /\ circular_buffer' = AddEntry(circular_buffer, e)
        /\ incomplete_command' = << >>
        /\ UNCHANGED <<buffers, refused>>
    BY <1>2, <2>1 DEF WriteNewLine, Goto, Stored
  <2>3. ~ refused /\ \A d \in Conn \ {c} : pc[d] \notin Critical
    BY <2>2, OneCritical DEF Critical
  <2>4. /\ Boxes' = [Boxes EXCEPT ![c] = Inbox(c)']
        /\ Unread(c)' = u /\ u \in Seq(Bytes) /\ w \in Seq(Bytes \ {NewLine})
    BY <2>2, SameBuffers
  <2>5. Inbox(c) = Append(w, NewLine) \o u /\ Inbox(c)' = u
    BY <2>2, <2>4, InboxIs, InboxIsNext
  <2>6. ~ IsSeek(w)
    BY <2>2 DEF ServerInv, Buffers, BufferOf
  <2>7. /\ Packets!HasPacket(c)
        /\ Packets!Packet(c) = Append(w, NewLine)
        /\ Packets!AfterPacket(c) = u
        /\ ~ Packets!IsSeek(Packets!Packet(c))
    BY <2>4, <2>5, <2>6, PacketInInbox
  <2>8. Remnant \in Seq(Bytes) /\ incomplete_command = Remnant \o w
    BY <2>2, RemnantInside
  <2>9. Stored(c) = Remnant \o Packets!Packet(c)
    <3> DEFINE nl == << NewLine >>
               r  == Remnant
    <3>1. r \in Seq(Bytes) /\ w \in Seq(Bytes) /\ nl \in Seq(Bytes) /\ NewLine \in Bytes
      <4>1. w \in Seq(Bytes)
        BY <2>4
      <4>. QED  BY <2>8, <4>1 DEF Bytes
    <3> HIDE DEF w, r
    <3>2. r \o w \in Seq(Bytes)
      BY <3>1, ConcatParts
    <3>3. Append(r \o w, NewLine) = (r \o w) \o nl /\ Append(w, NewLine) = w \o nl
      BY <3>1, <3>2, AppendIsConcat
    <3> HIDE DEF nl
    <3>4. (r \o w) \o nl = r \o (w \o nl)
      BY <3>1, ConcatAssociates
    <3>. QED  BY <2>7, <2>8, <3>3, <3>4 DEF Stored, r
  <2>10. e \in Entries(Bytes) /\ e.buffptr = Stored(c)
    BY <2>1, StoredEntry
  <2>11. CommandsOf(circular_buffer') = BoundedAppend(Commands, e.buffptr, MaxOps)
    <3>1. /\ IsBuffer(circular_buffer, Entries(Bytes))
          /\ RingShape(circular_buffer, Entries(Bytes))
      BY DEF ServerInv, Ring, CommandRing
    <3> HIDE DEF e
    <3>. QED  BY <2>2, <2>10, <3>1, CommandsAppend DEF Commands
  <2>12. Commands' = BoundedAppend(Commands, Stored(c), MaxOps)
    BY <2>10, <2>11 DEF Commands
  <2>13. Commands' = Packets!BoundedAppend(Commands, Remnant \o Packets!Packet(c),
                                           AESDCHAR_MAX_WRITE_OPERATIONS_SUPPORTED)
    BY <2>9, <2>12 DEF BoundedAppend, Packets!BoundedAppend, MaxOps
  <2>14. Remnant' = << >>
    <3>1. \A d \in Conn : pc'[d] # "newline"
      BY <2>1, <2>2, <2>3 DEF Critical
    <3>2. Remnant' = incomplete_command'
      BY <2>1, <3>1 DEF TypeOK, Remnant
    <3>. QED  BY <2>2, <3>2
  <2> HIDE DEF w, u
  <2>15. Boxes' = [Boxes EXCEPT ![c] = Packets!AfterPacket(c)]
    BY <2>4, <2>5, <2>7
  <2>. QED  BY <2>2, <2>3, <2>7, <2>13, <2>14, <2>15 DEF Packets!Store, Boxes
<1>. QED  BY <1>1, <1>2

(* The server is killed and started again.                                 *)
LEMMA KillRefines ==
  ASSUME ServerInv, Kill
  PROVE  Packets!Restart
<1>1. /\ TypeOK /\ pc' = [d \in Conn |-> "closed"]
      /\ refused' = FALSE
      /\ UNCHANGED <<circular_buffer, incomplete_command>>
  BY DEF Kill, device, ServerInv
<1>2. Boxes' = [d \in Conn |-> << >>]
  <2>1. \A d \in Conn : Inbox(d)' = << >>
    BY <1>1, InboxIsNext
  <2>. QED  BY <2>1 DEF Boxes
<1>3. Remnant' = incomplete_command
  BY <1>1 DEF Kill, Remnant
<1>4. Commands' = Commands
  BY <1>1, SameCommands
<1>5. CASE \A d \in Conn : pc[d] # "newline"
  <2>1. Remnant' = Remnant
    BY <1>1, <1>3, <1>5, RemnantOutside
  <2>. QED  BY <1>1, <1>2, <1>4, <2>1 DEF Packets!Restart, Boxes
<1>6. ASSUME NEW c \in Conn, pc[c] = "newline"
      PROVE  Packets!Restart
  <2> DEFINE w == write_buffer[c]
             u == Unread(c)
  <2>1. w \in Seq(Bytes \ {NewLine}) /\ u \in Seq(Bytes)
    BY UnreadIs DEF ServerInv, TypeOK, Buffers, BufferOf
  <2>2. Inbox(c) = Append(w, NewLine) \o u
    BY <1>6, InboxIs
  <2>3. ~ IsSeek(w) /\ ~ refused
    BY <1>6, OneCritical DEF ServerInv, Buffers, BufferOf, Critical
  <2>4. /\ Packets!HasPacket(c)
        /\ ~ Packets!IsSeek(Packets!Packet(c))
        /\ Packets!Front(Packets!Packet(c)) = w
    BY <2>1, <2>2, <2>3, PacketInInbox
  <2>5. Remnant' = Remnant \o w
    BY <1>3, <1>6, RemnantInside
  <2> HIDE DEF w, u
  <2>6. Packets!Leaves(c)
    BY <2>4, <2>5 DEF Packets!Leaves
  <2>. QED  BY <1>1, <1>2, <1>4, <2>3, <2>4, <2>6 DEF Packets!Restart, Boxes
<1>. QED  BY <1>5, <1>6

(* However the handlers interleave, however recv cuts the streams,         *)
(* whichever calls fail and wherever the server is killed, the device's    *)
(* log is made of whole packets, each stored once and in its client's      *)
(* order.                                                                  *)
THEOREM ServerImplementsPacketLog == Spec => ImplementsPacketLog
<1>1. Init => Packets!Init
  <2> SUFFICES ASSUME Init
               PROVE  Packets!Init
    OBVIOUS
  <2>1. Commands = << >>
    BY NoCommands DEF Init, Commands
  <2>2. Remnant = << >>
    BY DEF Init, Remnant
  <2>3. \A c \in Conn : Inbox(c) = << >>
    BY InboxIs DEF Init
  <2>. QED  BY <2>1, <2>2, <2>3 DEF Init, Packets!Init
<1> DEFINE view == <<Commands, Remnant, [c \in Conn |-> Inbox(c)], refused>>
<1>2. ServerInv /\ ServerInv' /\ [Next]_vars => [Packets!Next]_view
  <2> SUFFICES ASSUME ServerInv, ServerInv', [Next]_vars
               PROVE  [Packets!Next]_view
    OBVIOUS
  <2>1. CASE Kill
    BY <2>1, KillRefines DEF Packets!Next
  <2>2. ASSUME NEW c \in Conn, Client(c) \/ Lock(c) \/ Continues(c)
        PROVE  [Packets!Next]_view
    <3>1. CASE Client(c)
      BY <3>1, ClientRefines DEF Client, Packets!Next, Unseen, Boxes
    <3>2. CASE Scan(c)
      BY <3>2, ScanRefines DEF Unseen, Boxes
    <3>3. CASE Lock(c) \/ Unlock(c) \/ Reply(c) \/ EndReply(c)
      BY <3>3, QuietRefines DEF Unseen, Boxes
    <3>4. CASE Ioctl(c)
      BY <3>4, IoctlRefines DEF Packets!Next
    <3>5. CASE WritePacket(c)
      BY <3>5, WritePacketRefines DEF Packets!Next, Unseen, Boxes
    <3>6. CASE WriteNewLine(c)
      BY <3>6, WriteNewLineRefines DEF Packets!Next
    <3>. QED  BY <2>2, <3>1, <3>2, <3>3, <3>4, <3>5, <3>6 DEF Continues
  <2>3. CASE UNCHANGED vars
    <3>1. Commands' = Commands
      BY <2>3, SameCommands DEF vars, device
    <3>2. Remnant' = Remnant /\ \A c \in Conn : Inbox(c)' = Inbox(c)
      BY <2>3 DEF vars, device, buffers, Remnant, Inbox, Unread
    <3>3. Boxes' = Boxes
      BY <3>2 DEF Boxes
    <3>. QED  BY <2>3, <3>1, <3>2, <3>3 DEF vars, history, Boxes
  <2>. QED  BY <2>1, <2>2, <2>3 DEF Next
<1>. QED
  BY <1>1, <1>2, ServerInvariant, PTL
     DEF Spec, ImplementsPacketLog, Packets!Spec, Packets!vars

-----------------------------------------------------------------------------
(* While the ring is filling, slot k holds the command k+1, and a look-up  *)
(* passes what is in front of it.                                          *)
LEMMA FillingRing ==
  ASSUME Ring, ~ circular_buffer.full
  PROVE  LET in == circular_buffer.in_offs
         IN  /\ circular_buffer.out_offs = 0
             /\ in \in Slots /\ in \in 0 .. MaxOps
             /\ Held(circular_buffer) = in /\ Len(Commands) = in
             /\ Len(Contents) = Passed(circular_buffer)[in]
             /\ \A k \in Slots : circular_buffer.entry[k].size # 0 => k < in
             /\ \A k \in 0 .. in :
                  Len(FlattenSeq(SubSeq(Commands, 1, k))) = Passed(circular_buffer)[k]
             /\ \A k \in Slots : k < in =>
                  Len(Commands[k + 1]) = circular_buffer.entry[k].size
<1> DEFINE buffer == circular_buffer
           in     == buffer.in_offs
           Es     == Entries(Bytes)
<1>1. /\ IsBuffer(buffer, Es) /\ RingShape(buffer, Es) /\ CommandRing(buffer, Es, Bytes)
      /\ buffer.full = FALSE
  BY DEF Ring, CommandRing, IsBuffer
<1>2. /\ buffer.out_offs = 0 /\ in \in Slots
      /\ \A k \in Slots : k < in \/ buffer.entry[k] = EmptyEntry
  BY <1>1 DEF RingShape, IsBuffer
<1>3. MaxOps \in Nat \ {0} /\ Slots = 0 .. MaxOps - 1
  BY <1>1, CommandRingSizes
<1>4. Held(buffer) = in
  BY <1>1, HeldValue
<1>5. in \in Nat /\ in \in 0 .. MaxOps /\ in \in 0 .. in
  BY <1>2, <1>3
<1>6. /\ Len(Commands) = in
      /\ \A k \in 1 .. in :
           Len(Commands[k]) = buffer.entry[Advance(buffer.out_offs, k-1)].size
  BY <1>1, <1>4, CommandsEnd DEF Commands
<1>7. \A k \in 0 .. in : Len(FlattenSeq(SubSeq(Commands, 1, k))) = Passed(buffer)[k]
  <2> HIDE DEF in, Es
  <2>. QED  BY <1>1, <1>4, CommandsLength DEF Commands
<1>8. Len(Contents) = Passed(buffer)[in]
  <2>1. SubSeq(Commands, 1, in) = Commands
    BY <1>1, <1>4, AllCommands DEF Commands
  <2>2. Len(FlattenSeq(SubSeq(Commands, 1, in))) = Passed(buffer)[in]
    BY <1>5, <1>7
  <2>. QED  BY <2>1, <2>2 DEF Contents
<1>9. \A k \in Slots : buffer.entry[k].size # 0 => k < in
  BY <1>2 DEF EmptyEntry
<1>10. ASSUME NEW k \in Slots, k < in
       PROVE  Len(Commands[k + 1]) = buffer.entry[k].size
  <2>1. k + 1 \in 1 .. in /\ (k + 1) - 1 = k /\ k \in 0 .. MaxOps
    BY <1>3, <1>5, <1>10
  <2>2. Advance(0, k) = IF 0 + k < MaxOps THEN 0 + k ELSE 0 + k - MaxOps
    BY <1>3, <2>1, AdvanceValue DEF MaxOps
  <2>3. Advance(0, k) = k
    BY <1>3, <2>2
  <2> HIDE DEF in, buffer
  <2>4. Len(Commands[k + 1]) = buffer.entry[Advance(buffer.out_offs, (k + 1) - 1)].size
    BY <1>6, <2>1
  <2>. QED  BY <1>2, <2>1, <2>3, <2>4
<1>. QED  BY <1>2, <1>4, <1>5, <1>6, <1>7, <1>8, <1>9, <1>10

(* A seek command at the start of what recv returned goes to the byte it   *)
(* names, until the ring is full, whatever the other handlers have stored  *)
(* since the client chose it.                                              *)
THEOREM ServerSeekLandsBeforeFull == Spec => SeekLandsBeforeFull
<1> DEFINE lands(c) ==
             LET seekto == Seeks[Head(read_buffer[c])]
             IN  /\ seekto[1] < Len(Commands)
                 /\ seekto[2] < Len(Commands[seekto[1] + 1])
                 /\ f_pos'[c] = Len(FlattenSeq(SubSeq(Commands, 1, seekto[1])))
                                  + seekto[2]
           sought(c) == /\ pc[c] = "ioctl" /\ pc'[c] = "unlock" /\ ~ circular_buffer.full
                        /\ Head(read_buffer[c]) \in Range(write_buffer[c]) \cap SeekCommands
<1>1. ASSUME ServerInv, [Next]_vars, NEW c \in Conn, sought(c)
      PROVE  lands(c)
  <2>1. /\ pc \in [Conn -> Places] /\ DOMAIN f_pos = Conn /\ Ring
        /\ read_buffer[c] \in Seq(Bytes) /\ i[c] \in Nat
        /\ i[c] <= Len(read_buffer[c])
    BY <1>1 DEF ServerInv, TypeOK, Places, Critical, Buffers, BufferOf
  <2>2. Ioctl(c)
    <3>1. ~ UNCHANGED vars
      BY <1>1 DEF vars
    <3>2. ~ Kill
      BY <1>1 DEF Kill
    <3>3. ASSUME NEW d \in Conn, d # c, Client(d) \/ Lock(d) \/ Continues(d)
          PROVE  FALSE
      <4>1. pc'[c] = pc[c]
        BY <2>1, <3>3 DEF Client, Connect, Disconnect, Recv, Lock, Continues, Scan, Ioctl,
           WritePacket, WriteNewLine, Continue, Unlock, Reply, EndReply, Goto
      <4>. QED  BY <1>1, <4>1
    <3>4. Client(c) \/ Lock(c) \/ Continues(c)
      BY <1>1, <3>1, <3>2, <3>3 DEF Next
    <3>. QED  BY <1>1, <3>4 DEF Client, Connect, Disconnect, Recv, Lock, Continues, Scan,
           WritePacket, WriteNewLine, Unlock, Reply, EndReply
  <2>3. ~ Continue(c)
    BY <1>1, <2>1 DEF Continue, Goto
  <2>4. PICK seekto \in Parsed(c) :
          /\ SeekAllowed(seekto[1], seekto[2])
          /\ f_pos' = [f_pos EXCEPT ![c] = SeekOffset(seekto[1], seekto[2])]
    BY <2>2, <2>3 DEF Ioctl
  <2>5. seekto = Seeks[Head(read_buffer[c])]
    <3>1. Head(read_buffer[c]) = read_buffer[c][1]
      OBVIOUS
    <3>. QED  BY <1>1, <2>4, <3>1 DEF Parsed
  <2> DEFINE cmd    == seekto[1]
             offset == seekto[2]
             in     == circular_buffer.in_offs
  <2>6. cmd \in Slots /\ offset \in Nat
    BY <2>1, <2>4, SeekTypes
  <2>7. offset < circular_buffer.entry[cmd].size
    BY <2>4 DEF SeekAllowed
  <2>8. f_pos'[c] = PassedFromSlotZero(circular_buffer)[cmd] + offset
    BY <2>1, <2>4 DEF SeekOffset
  <2> HIDE DEF cmd, offset
  <2>9. /\ circular_buffer.out_offs = 0 /\ Len(Commands) = in
        /\ in \in 0 .. MaxOps
        /\ \A k \in Slots : circular_buffer.entry[k].size # 0 => k < in
        /\ \A k \in 0 .. in :
             Len(FlattenSeq(SubSeq(Commands, 1, k))) = Passed(circular_buffer)[k]
        /\ \A k \in Slots : k < in =>
             Len(Commands[k + 1]) = circular_buffer.entry[k].size
    BY <1>1, <2>1, FillingRing
  <2>10. circular_buffer.entry[cmd].size # 0 /\ Slots = 0 .. MaxOps - 1
    BY <2>1, <2>6, <2>7, CommandRingSizes DEF Ring
  <2>11. cmd < in
    BY <2>6, <2>9, <2>10
  <2>12. PassedFromSlotZero(circular_buffer) = Passed(circular_buffer)
    BY <2>9 DEF PassedFromSlotZero, Passed
  <2>13. cmd \in 0 .. in
    BY <2>6, <2>9, <2>10, <2>11
  <2>14. Len(FlattenSeq(SubSeq(Commands, 1, cmd))) = Passed(circular_buffer)[cmd]
    BY <2>9, <2>13
  <2>15. Len(Commands[cmd + 1]) = circular_buffer.entry[cmd].size
    BY <2>6, <2>9, <2>11
  <2>. QED  BY <2>5, <2>7, <2>8, <2>9, <2>11, <2>12, <2>14, <2>15 DEF cmd, offset
<1>2. ServerInv /\ [Next]_vars => [\A c \in Conn : sought(c) => lands(c)]_vars
  BY <1>1
<1>. QED  BY <1>2, ServerInvariant, PTL DEF Spec, SeekLandsBeforeFull

-----------------------------------------------------------------------------
(* part is in bytes, k bytes in.                                           *)
At(bytes, part, k) ==
  /\ k \in Nat /\ k + Len(part) <= Len(bytes)
  /\ \A n \in 1 .. Len(part) : part[n] = bytes[k + n]

(* While the ring is filling nothing of the contents is lost, and a file   *)
(* position stays where it was put: what a handler has sent of an answer   *)
(* is what ends at its position, and the packet it answers lies at or      *)
(* behind the byte the answer began with.                                  *)
Echoing(c) ==
  /\ f_pos[c] <= Len(Contents)
  /\ Len(reply[c]) <= f_pos[c]
  /\ At(Contents, reply[c], f_pos[c] - Len(reply[c]))
  /\ packet[c] # << >> =>
       \E k \in f_pos[c] - Len(reply[c]) .. Len(Contents) : At(Contents, packet[c], k)

EchoOf(c) ==
  /\ reply[c] \in Seq(Bytes) /\ packet[c] \in Seq(Bytes)
  /\ reply[c] # << >> => pc[c] = "reply"
  /\ packet[c] # << >> => pc[c] \in {"unlock", "reply"}
  /\ ~ circular_buffer.full => Echoing(c)

EchoInv ==
  /\ reply \in [Conn -> Seq(Bytes)] /\ packet \in [Conn -> Seq(Bytes)]
  /\ \A c \in Conn : EchoOf(c)

-----------------------------------------------------------------------------
(* What is in bytes stays there when more is put behind it.                *)
LEMMA AtKept ==
  ASSUME NEW S, NEW a \in Seq(S), NEW b \in Seq(S), NEW part \in Seq(S),
         NEW k, At(a, part, k)
  PROVE  At(a \o b, part, k)
<1> DEFINE ab == a \o b
<1>1. /\ Len(ab) = Len(a) + Len(b) /\ \A n \in 1 .. Len(a) : ab[n] = a[n]
  BY ConcatParts
<1>2. /\ Len(a) \in Nat /\ Len(b) \in Nat /\ Len(part) \in Nat /\ k \in Nat
      /\ k + Len(part) <= Len(a)
  BY DEF At
<1> HIDE DEF ab
<1>3. k + Len(part) <= Len(ab)
  BY <1>1, <1>2
<1>4. ASSUME NEW n \in 1 .. Len(part)
      PROVE  part[n] = ab[k + n]
  <2>1. k + n \in 1 .. Len(a)
    BY <1>2
  <2>2. part[n] = a[k + n]
    BY DEF At
  <2>. QED  BY <1>1, <2>1, <2>2
<1>. QED  BY <1>2, <1>3, <1>4 DEF At, ab

(* The contents are bytes, and a stored packet is put behind them.         *)
LEMMA ContentsIsBytes ==
  ASSUME Ring
  PROVE  Contents \in Seq(Bytes) /\ Len(Contents) \in Nat
<1>1. CommandRing(circular_buffer, Entries(Bytes), Bytes)
  BY DEF Ring
<1>2. Held(circular_buffer) \in 0 .. Held(circular_buffer)
  <2>1. Held(circular_buffer) \in 0 .. MaxOps
    BY <1>1, CommandsEnd
  <2>. QED  BY <2>1
<1>3. Contents \in Seq(Bytes)
  BY <1>1, <1>2, AllCommands, CommandsInPlace DEF Contents, Commands, InPlace
<1>. QED  BY <1>3, LenNat

LEMMA ContentsAppend ==
  ASSUME TypeOK, Ring, ~ circular_buffer.full, NEW c \in Conn,
         circular_buffer' = AddEntry(circular_buffer,
                              [buffptr |-> Stored(c), size |-> Len(Stored(c))])
  PROVE  Contents' = Contents \o Stored(c)
<1> DEFINE e == [buffptr |-> Stored(c), size |-> Len(Stored(c))]
<1>1. /\ CommandRing(circular_buffer, Entries(Bytes), Bytes)
      /\ IsBuffer(circular_buffer, Entries(Bytes))
      /\ RingShape(circular_buffer, Entries(Bytes))
      /\ e \in Entries(Bytes) /\ Stored(c) \in Seq(Bytes) /\ e.buffptr = Stored(c)
  BY StoredEntry DEF Ring, CommandRing
<1>2. Commands' = BoundedAppend(Commands, Stored(c), MaxOps)
  <2>1. Commands' = CommandsOf(AddEntry(circular_buffer, e))
    BY DEF Commands
  <2> HIDE DEF e
  <2>2. CommandsOf(AddEntry(circular_buffer, e))
          = BoundedAppend(CommandsOf(circular_buffer), e.buffptr, MaxOps)
    BY <1>1, CommandsAppend
  <2>. QED  BY <1>1, <2>1, <2>2 DEF Commands
<1>3. Len(Commands) # MaxOps /\ Commands \in Seq(Seq(Bytes))
  <2>1. /\ Len(Commands) = circular_buffer.in_offs /\ circular_buffer.in_offs \in Slots
    BY FillingRing
  <2>2. Slots = 0 .. MaxOps - 1 /\ MaxOps \in Nat
    BY <1>1, CommandRingSizes
  <2>3. Commands \in Seq(Seq(Bytes))
    BY <1>1, CommandsEnd DEF Commands
  <2>. QED  BY <2>1, <2>2, <2>3
<1>4. Commands' = Append(Commands, Stored(c))
  BY <1>2, <1>3 DEF BoundedAppend
<1>. QED  BY <1>1, <1>3, <1>4, FlattenAppend DEF Contents

-----------------------------------------------------------------------------
(* While the ring is filling, a read returns the bytes of the contents at  *)
(* the file position, and nothing only at their end.                       *)
LEMMA ReplyReads ==
  ASSUME Ring, ~ circular_buffer.full, NEW position \in Nat,
         FindEntryOffset(circular_buffer, position) # NULL
  PROVE  LET found == FindEntryOffset(circular_buffer, position)
             entry == circular_buffer.entry[found.slot]
             bytes == SubSeq(entry.buffptr, found.offset + 1, entry.size)
         IN  /\ position + Len(bytes) <= Len(Contents)
             /\ \A n \in 1 .. Len(bytes) : bytes[n] = Contents[position + n]
<1> DEFINE found  == FindEntryOffset(circular_buffer, position)
           entry  == circular_buffer.entry[found.slot]
           bytes  == SubSeq(entry.buffptr, found.offset + 1, entry.size)
           passed == Passed(circular_buffer)
           in     == circular_buffer.in_offs
<1>1. /\ CommandRing(circular_buffer, Entries(Bytes), Bytes)
      /\ circular_buffer.out_offs = 0 /\ 0 \in Slots
      /\ \A k \in Slots : circular_buffer.entry[k].size \in Nat
      /\ passed \in [0 .. MaxOps -> Nat]
      /\ Slots = 0 .. MaxOps - 1 /\ MaxOps \in Nat \ {0}
  BY FillingRing, CommandRingSizes DEF Ring
<1>2. /\ in \in Slots /\ in \in 0 .. MaxOps
      /\ Held(circular_buffer) = in /\ Len(Commands) = in
      /\ Len(Contents) = passed[in]
      /\ \A k \in Slots : circular_buffer.entry[k].size # 0 => k < in
      /\ in \in Nat
  BY <1>1, FillingRing
<1>3. \A k \in 0 .. MaxOps : passed[k] <= passed[in]
  BY <1>1, PassedFilling DEF CommandRing
<1>4. PICK k \in Slots :
        /\ passed[k] <= position /\ position < passed[k+1]
        /\ found = [slot |-> Advance(0, k), offset |-> position - passed[k]]
  BY <1>1, FindStops
<1>5. /\ k \in 0 .. MaxOps /\ k + 1 \in 0 .. MaxOps /\ k \in Nat
      /\ Advance(0, k) = k
  <2>1. k \in 0 .. MaxOps /\ k + 1 \in 0 .. MaxOps /\ k \in Nat /\ k < MaxOps
    BY <1>1
  <2>2. Advance(0, k) = IF 0 + k < MaxOps THEN 0 + k ELSE 0 + k - MaxOps
    BY <1>1, <2>1, AdvanceValue DEF MaxOps
  <2>. QED  BY <2>1, <2>2
<1> DEFINE at == passed[k]
           to == passed[k+1]
           s  == circular_buffer.entry[k].buffptr
<1>6. /\ at \in Nat /\ to \in Nat /\ to = at + circular_buffer.entry[k].size
      /\ at <= position /\ position < to
  <2>1. \A m \in Slots :
          passed[m+1] = passed[m] + circular_buffer.entry[Advance(0, m)].size
    BY <1>1, PassedValue
  <2> HIDE DEF passed
  <2>. QED  BY <1>1, <1>4, <1>5, <2>1
<1>7. found.slot = k /\ found.offset = position - at
  BY <1>4, <1>5
<1>8. k < in /\ to <= Len(Contents)
  <2>1. circular_buffer.entry[k].size # 0
    <3> DEFINE size == circular_buffer.entry[k].size
    <3>1. size \in Nat
      BY <1>1
    <3> HIDE DEF size, at, to
    <3>2. size # 0
      BY <1>6, <3>1 DEF size
    <3>. QED  BY <3>2 DEF size
  <2>2. k < in
    BY <1>2, <2>1
  <2>3. to <= passed[in]
    BY <1>3, <1>5
  <2>. QED  BY <1>2, <2>2, <2>3
<1>9. /\ s \in Seq(Bytes) /\ Len(s) = circular_buffer.entry[k].size
      /\ \A n \in 1 .. Len(s) : Contents[at + n] = s[n]
  <2>1. /\ k + 1 \in 1 .. Held(circular_buffer) /\ (k + 1) - 1 = k
        /\ k \in 0 .. Held(circular_buffer)
        /\ Held(circular_buffer) \in 0 .. Held(circular_buffer)
    <3> HIDE DEF in
    <3>1. k + 1 \in 1 .. in /\ (k + 1) - 1 = k /\ k \in 0 .. in /\ in \in 0 .. in
      BY <1>2, <1>5, <1>8
    <3>. QED  BY <1>2, <3>1
  <2>2. Commands[k + 1] = s /\ Len(s) = circular_buffer.entry[k].size
    <3>1. LET e == circular_buffer.entry[Advance(circular_buffer.out_offs, (k + 1) - 1)]
          IN  Commands[k + 1] = e.buffptr /\ Len(Commands[k + 1]) = e.size
      BY <1>1, <2>1, CommandsEnd DEF Commands
    <3>. QED  BY <1>1, <1>5, <2>1, <3>1
  <2>3. Commands \in Seq(Seq(Bytes))
    BY <1>1, CommandsEnd DEF Commands
  <2>4. s \in Seq(Bytes)
    <3>1. k + 1 \in 1 .. Len(Commands)
      BY <1>2, <2>1
    <3>. QED  BY <2>2, <2>3, <3>1
  <2>5. InPlace(Commands, [m \in 0 .. Held(circular_buffer) |-> passed[m]], Bytes,
                Held(circular_buffer), Contents)
    <3>2. SubSeq(CommandsOf(circular_buffer), 1, Held(circular_buffer)) = Commands
      BY <1>1, AllCommands DEF Commands
    <3> HIDE DEF passed
    <3>. QED  BY <1>1, <2>1, <3>2, CommandsInPlace DEF Contents, passed
  <2>6. \A n \in 1 .. Len(s) : Contents[at + n] = s[n]
    <3> DEFINE ends == [m \in 0 .. Held(circular_buffer) |-> passed[m]]
    <3>1. \A n \in 1 .. Len(Commands[k + 1]) :
            Contents[ends[(k + 1) - 1] + n] = Commands[k + 1][n]
      <4> HIDE DEF ends
      <4>. QED  BY <2>1, <2>5 DEF InPlace, ends
    <3>2. ends[(k + 1) - 1] = at
      BY <2>1
    <3> HIDE DEF ends, at, s
    <3>. QED  BY <2>2, <3>1, <3>2
  <2>. QED  BY <2>2, <2>4, <2>6
<1> DEFINE a == position - at
           n == to - position
<1>10. a \in Nat /\ n \in Nat /\ a + n = Len(s) /\ a + n <= Len(s) /\ at + a = position
  <2> DEFINE size == circular_buffer.entry[k].size
  <2>1. size \in Nat
    BY <1>1
  <2> HIDE DEF at, to, s, size
  <2>2. at \in Nat /\ to = at + size /\ at <= position /\ position < to /\ Len(s) = size
    BY <1>6, <1>9 DEF size
  <2>. QED  BY <2>1, <2>2
<1>11. bytes = SubSeq(s, a + 1, a + n)
  <2>1. entry = circular_buffer.entry[k]
    BY <1>7
  <2>2. entry.size = a + n /\ found.offset = a /\ entry.buffptr = s
    BY <1>7, <1>9, <1>10, <2>1
  <2> HIDE DEF entry, found, a, n, s
  <2>. QED  BY <2>2
<1> HIDE DEF bytes, a, n, s, at, to
<1>12. Len(bytes) = n /\ \A j \in 1 .. n : bytes[j] = s[a + j]
  <2>1. s \in Seq(Bytes)
    BY <1>9
  <2>2. a \in Nat /\ n \in Nat /\ a + n <= Len(s)
    BY <1>10
  <2> DEFINE part == SubSeq(s, a + 1, a + n)
  <2>3. Len(part) = n /\ \A j \in 1 .. n : part[j] = s[a + j]
    BY <2>1, <2>2, Slice
  <2> HIDE DEF part
  <2>4. bytes = part
    BY <1>11 DEF part
  <2>. QED  BY <2>3, <2>4
<1>13. ASSUME NEW j \in 1 .. n
       PROVE  bytes[j] = Contents[position + j]
  <2>1. a + j \in 1 .. Len(s) /\ at + (a + j) = position + j
    BY <1>6, <1>10
  <2>2. Contents[at + (a + j)] = s[a + j]
    BY <1>9, <2>1
  <2>. QED  BY <1>12, <2>1, <2>2
<1>14. position + Len(bytes) <= Len(Contents)
  <2>1. position + n = to
    BY <1>6 DEF n
  <2>. QED  BY <1>8, <1>12, <2>1
<1>. QED  BY <1>12, <1>13, <1>14 DEF bytes

LEMMA ReplyEnds ==
  ASSUME Ring, ~ circular_buffer.full, NEW position \in Nat,
         FindEntryOffset(circular_buffer, position) = NULL
  PROVE  Len(Contents) <= position
<1> DEFINE passed == Passed(circular_buffer)
           in     == circular_buffer.in_offs
<1>1. /\ circular_buffer.out_offs \in Slots
      /\ \A k \in Slots : circular_buffer.entry[k].size \in Nat
      /\ passed \in [0 .. MaxOps -> Nat] /\ MaxOps \in Nat \ {0}
  BY CommandRingSizes DEF Ring
<1>2. in \in 0 .. MaxOps /\ in \in Slots /\ Len(Contents) = passed[in]
  BY FillingRing
<1>3. ~ position < passed[MaxOps]
  BY <1>1, FindStops
<1>4. passed[MaxOps] = passed[in]
  <2>1. MaxOps \in in .. MaxOps
    BY <1>1, <1>2
  <2>2. \A k \in in .. MaxOps : passed[k] = passed[in]
    BY <1>1, PassedFilling DEF Ring, CommandRing
  <2>. QED  BY <2>1, <2>2
<1>5. passed[in] \in Nat
  BY <1>1, <1>2
<1> HIDE DEF passed, in
<1>. QED  BY <1>2, <1>3, <1>4, <1>5

-----------------------------------------------------------------------------
(* A step of another handler keeps what one has of an answer: it leaves    *)
(* the contents alone, puts a command behind them, or fills the ring.      *)
Grown ==
  circular_buffer'.full \/
  (~ circular_buffer.full /\ \E b \in Seq(Bytes) : Contents' = Contents \o b)

LEMMA EchoOfOther ==
  ASSUME Ring, Grown, NEW d \in Conn, EchoOf(d), f_pos[d] \in Nat,
         f_pos'[d] = f_pos[d], reply'[d] = reply[d], packet'[d] = packet[d],
         pc'[d] = pc[d] \/ pc'[d] = "reply"
  PROVE  EchoOf(d)'
<1>1. CASE circular_buffer'.full
  BY <1>1 DEF EchoOf
<1>2. ASSUME ~ circular_buffer.full, NEW b \in Seq(Bytes), Contents' = Contents \o b
      PROVE  EchoOf(d)'
  <2>1. /\ Contents \in Seq(Bytes) /\ Contents' \in Seq(Bytes)
        /\ Len(Contents') = Len(Contents) + Len(b)
        /\ Len(Contents) \in Nat /\ Len(b) \in Nat
        /\ reply[d] \in Seq(Bytes) /\ packet[d] \in Seq(Bytes)
        /\ Len(reply[d]) \in Nat
    BY <1>2, ContentsIsBytes, ConcatParts DEF EchoOf
  <2>2. f_pos[d] <= Len(Contents')
    BY <1>2, <2>1 DEF EchoOf, Echoing
  <2>3. At(Contents', reply[d], f_pos[d] - Len(reply[d]))
    <3>1. At(Contents, reply[d], f_pos[d] - Len(reply[d]))
      BY <1>2 DEF EchoOf, Echoing
    <3>. QED  BY <1>2, <2>1, <3>1, AtKept
  <2>4. ASSUME packet[d] # << >>
        PROVE  \E k \in f_pos[d] - Len(reply[d]) .. Len(Contents') :
                 At(Contents', packet[d], k)
    <3>1. PICK k \in f_pos[d] - Len(reply[d]) .. Len(Contents) :
            At(Contents, packet[d], k)
      BY <1>2, <2>4 DEF EchoOf, Echoing
    <3>2. At(Contents', packet[d], k)
      BY <1>2, <2>1, <3>1, AtKept
    <3>3. k \in f_pos[d] - Len(reply[d]) .. Len(Contents')
      BY <2>1, <3>1
    <3>. QED  BY <3>2, <3>3
  <2>5. Echoing(d)'
    BY <1>2, <2>2, <2>3, <2>4 DEF EchoOf, Echoing
  <2>. QED  BY <2>5 DEF EchoOf
<1>. QED  BY <1>1, <1>2 DEF Grown

(* A handler that answers nothing need only stand in the contents.         *)
LEMMA EchoOfIdle ==
  ASSUME Ring', NEW c \in Conn, reply'[c] = << >>, packet'[c] = << >>,
         f_pos'[c] \in Nat, ~ circular_buffer'.full => f_pos'[c] <= Len(Contents')
  PROVE  EchoOf(c)'
<1>1. ASSUME ~ circular_buffer'.full
      PROVE  Echoing(c)'
  <2>1. Len(Contents') \in Nat
    <3>1. (Ring => Len(Contents) \in Nat)'
      BY ContentsIsBytes, PTL
    <3>. QED  BY <3>1
  <2>2. f_pos'[c] - Len(reply'[c]) = f_pos'[c] /\ Len(reply'[c]) = 0
    OBVIOUS
  <2>3. At(Contents', reply'[c], f_pos'[c] - Len(reply'[c]))
    BY <1>1, <2>1, <2>2 DEF At
  <2>. QED  BY <1>1, <2>2, <2>3 DEF Echoing
<1>. QED  BY <1>1 DEF EchoOf

(* A permitted seek goes into the contents.                                *)
LEMMA SeekInContents ==
  ASSUME Ring, ~ circular_buffer.full, NEW c \in Conn, NEW seekto \in Parsed(c),
         SeekAllowed(seekto[1], seekto[2])
  PROVE  SeekOffset(seekto[1], seekto[2]) <= Len(Contents)
<1> DEFINE cmd    == seekto[1]
           offset == seekto[2]
           in     == circular_buffer.in_offs
           passed == Passed(circular_buffer)
<1>1. /\ CommandRing(circular_buffer, Entries(Bytes), Bytes)
      /\ circular_buffer.out_offs = 0 /\ 0 \in Slots
      /\ \A k \in Slots : circular_buffer.entry[k].size \in Nat
      /\ passed \in [0 .. MaxOps -> Nat]
      /\ Slots = 0 .. MaxOps - 1 /\ MaxOps \in Nat \ {0}
  BY FillingRing, CommandRingSizes DEF Ring
<1>2. /\ cmd \in Slots /\ offset \in Nat /\ offset < circular_buffer.entry[cmd].size
      /\ SeekOffset(cmd, offset) = passed[cmd] + offset
  BY <1>1, SeekTypes
     DEF SeekAllowed, SeekOffset, PassedFromSlotZero, Passed
<1>3. /\ passed[cmd+1] = passed[cmd] + circular_buffer.entry[cmd].size
      /\ \A k \in 0 .. MaxOps : passed[k] <= passed[in]
  <2>1. /\ IsBuffer(circular_buffer, Entries(Bytes))
        /\ RingShape(circular_buffer, Entries(Bytes))
    BY <1>1 DEF CommandRing
  <2> HIDE DEF passed, cmd
  <2>. QED  BY <1>1, <1>2, <2>1, PassedFilling DEF passed
<1>4. Len(Contents) = passed[in] /\ in \in 0 .. MaxOps
  BY FillingRing
<1>5. /\ cmd \in 0 .. MaxOps /\ cmd + 1 \in 0 .. MaxOps
  BY <1>1, <1>2
<1> DEFINE at   == passed[cmd]
           to   == passed[cmd+1]
           end  == passed[in]
           size == circular_buffer.entry[cmd].size
<1>6. at \in Nat /\ to \in Nat /\ end \in Nat /\ size \in Nat
      /\ to = at + size /\ to <= end /\ offset < size
  BY <1>1, <1>2, <1>3, <1>4, <1>5
<1> HIDE DEF at, to, end, size, offset
<1>7. at + offset <= end
  BY <1>2, <1>6
<1>. QED  BY <1>2, <1>4, <1>7 DEF at, end, offset

(* A round of the reply adds to it the bytes that follow.                  *)
LEMMA EchoOfReply ==
  ASSUME TypeOK, Ring, DOMAIN reply = Conn, NEW c \in Conn, EchoOf(c), Reply(c)
  PROVE  EchoOf(c)'
<1> DEFINE found == FindEntryOffset(circular_buffer, f_pos[c])
           entry == circular_buffer.entry[found.slot]
           bytes == SubSeq(entry.buffptr, found.offset + 1, entry.size)
           all   == Contents
           at    == f_pos[c]
           sent  == reply[c]
<1>1. /\ UNCHANGED <<circular_buffer, pc, packet>>
      /\ found # NULL /\ pc[c] = "reply" /\ at \in Nat
      /\ sent \in Seq(Bytes) /\ packet[c] \in Seq(Bytes)
  BY DEF Reply, TypeOK, EchoOf, device
<1>2. bytes \in Seq(Bytes) /\ Len(bytes) \in Nat
  BY <1>1, ReplyBytes
<1>3. ~ circular_buffer.full =>
        /\ at + Len(bytes) <= Len(all)
        /\ \A n \in 1 .. Len(bytes) : bytes[n] = all[at + n]
  BY <1>1, ReplyReads
<1>4. f_pos'[c] = at + Len(bytes) /\ reply'[c] = sent \o bytes
  BY DEF Reply, TypeOK
<1> HIDE DEF bytes, found
<1>5. /\ reply'[c] \in Seq(Bytes) /\ Len(reply'[c]) = Len(sent) + Len(bytes)
      /\ \A n \in 1 .. Len(sent) : reply'[c][n] = sent[n]
      /\ \A n \in 1 .. Len(bytes) : reply'[c][Len(sent) + n] = bytes[n]
      /\ Len(sent) \in Nat
  <2>1. /\ sent \o bytes \in Seq(Bytes) /\ Len(sent \o bytes) = Len(sent) + Len(bytes)
        /\ \A n \in 1 .. Len(sent) : (sent \o bytes)[n] = sent[n]
        /\ \A n \in 1 .. Len(bytes) : (sent \o bytes)[Len(sent) + n] = bytes[n]
    BY <1>1, <1>2, ConcatParts
  <2>. QED  BY <1>1, <1>4, <2>1, LenNat
<1>6. Contents' = all
  BY <1>1 DEF Contents, Commands
<1>7. ASSUME ~ circular_buffer.full
      PROVE  Echoing(c)'
  <2> DEFINE start == at - Len(sent)
             new   == reply'[c]
  <2>1. /\ start \in Nat /\ f_pos'[c] - Len(new) = start /\ Len(new) <= f_pos'[c]
        /\ start + Len(sent) = at /\ start + Len(new) = at + Len(bytes)
    <3>1. Len(sent) <= at
      BY <1>7 DEF EchoOf, Echoing
    <3> HIDE DEF sent, at
    <3>. QED  BY <1>1, <1>2, <1>4, <1>5, <3>1
  <2>2. \A n \in 1 .. Len(sent) : sent[n] = all[start + n]
    BY <1>7 DEF EchoOf, Echoing, At
  <2>3. ASSUME NEW n \in 1 .. Len(new)
        PROVE  new[n] = all[start + n]
    <3>1. CASE n \in 1 .. Len(sent)
      BY <1>5, <2>2, <3>1
    <3>2. CASE n \notin 1 .. Len(sent)
      <4> DEFINE m == n - Len(sent)
      <4> HIDE DEF sent, at, new, start
      <4>1. Len(new) = Len(sent) + Len(bytes)
        BY <1>5 DEF new
      <4> DEFINE p == Len(sent)
                 q == Len(bytes)
      <4>2. /\ p \in Nat /\ q \in Nat /\ start \in Nat /\ start + p = at
            /\ n \in 1 .. p + q /\ n \notin 1 .. p
        BY <1>2, <1>5, <2>1, <3>2, <4>1
      <4> HIDE DEF p, q
      <4>3. m = n - p
        BY DEF p
      <4>4. m \in 1 .. q /\ p + m = n /\ at + m = start + n
        <5> HIDE DEF m
        <5>. QED  BY <4>2, <4>3
      <4>5. m \in 1 .. Len(bytes) /\ Len(sent) + m = n /\ at + m = start + n
        BY <4>4 DEF p, q
      <4> HIDE DEF m
      <4>6. new[Len(sent) + m] = bytes[m] /\ bytes[m] = all[at + m]
        BY <1>3, <1>5, <1>7, <4>5 DEF new
      <4>. QED  BY <4>5, <4>6
    <3>. QED  BY <3>1, <3>2
  <2>4. /\ f_pos'[c] <= Len(all)
        /\ At(all, new, start)
    <3> HIDE DEF all, at, sent, new, start
    <3>1. f_pos'[c] <= Len(all)
      BY <1>3, <1>4, <1>7
    <3>. QED  BY <1>3, <1>7, <2>1, <2>3, <3>1 DEF At
  <2>5. packet[c] # << >> => \E k \in start .. Len(all) : At(all, packet[c], k)
    BY <1>7 DEF EchoOf, Echoing
  <2>. QED  BY <1>1, <1>6, <2>1, <2>4, <2>5 DEF Echoing
<1>. QED  BY <1>1, <1>5, <1>7 DEF EchoOf

(* The write of a newline puts the packet at the end of the contents.      *)
LEMMA EchoOfStored ==
  ASSUME ServerInv, NEW c \in Conn, EchoOf(c), pc[c] = "newline",
         circular_buffer' = AddEntry(circular_buffer,
                              [buffptr |-> Stored(c), size |-> Len(Stored(c))]),
         f_pos'[c] = f_pos[c], reply'[c] = reply[c],
         packet'[c] = Append(write_buffer[c], NewLine), pc'[c] = "unlock",
         circular_buffer'.full \/ ~ circular_buffer.full
  PROVE  EchoOf(c)'
<1> DEFINE bytes == Append(write_buffer[c], NewLine)
<1>1. /\ TypeOK /\ Ring /\ f_pos[c] \in Nat
      /\ write_buffer[c] \in Seq(Bytes) /\ NewLine \in Bytes
      /\ reply[c] = << >> /\ reply[c] \in Seq(Bytes)
  <2>1. write_buffer[c] \in Seq(Bytes \ {NewLine})
    BY DEF ServerInv, TypeOK
  <2>2. TypeOK /\ Ring /\ f_pos[c] \in Nat /\ NewLine \in Bytes
    BY DEF ServerInv, TypeOK, Bytes
  <2>3. reply[c] = << >> /\ reply[c] \in Seq(Bytes)
    BY DEF EchoOf
  <2>4. write_buffer[c] \in Seq(Bytes)
    BY <2>1
  <2>. QED  BY <2>2, <2>3, <2>4
<1>2. bytes \in Seq(Bytes) /\ Len(bytes) \in Nat
  BY <1>1
<1>3. PICK rest \in Seq(Bytes) : incomplete_command = rest \o write_buffer[c]
  BY DEF ServerInv, Written
<1>4. Stored(c) = rest \o bytes
  <2>1. << NewLine >> \in Seq(Bytes)
    BY <1>1
  <2>2. Stored(c) = (rest \o write_buffer[c]) \o << NewLine >>
    <3>1. rest \o write_buffer[c] \in Seq(Bytes)
      BY <1>1, <1>3, ConcatParts
    <3>. QED  BY <1>1, <1>3, <3>1, AppendIsConcat DEF Stored
  <2>3. bytes = write_buffer[c] \o << NewLine >>
    BY <1>1, AppendIsConcat
  <2>4. (rest \o write_buffer[c]) \o << NewLine >>
          = rest \o (write_buffer[c] \o << NewLine >>)
    <3> DEFINE packed == write_buffer[c]
               end    == << NewLine >>
    <3>1. packed \in Seq(Bytes) /\ end \in Seq(Bytes)
      BY <1>1, <2>1
    <3> HIDE DEF packed, end
    <3>2. (rest \o packed) \o end = rest \o (packed \o end)
      BY <3>1, ConcatAssociates
    <3>. QED  BY <3>2 DEF packed, end
  <2> HIDE DEF bytes
  <2>. QED  BY <2>2, <2>3, <2>4
<1>5. ASSUME ~ circular_buffer'.full
      PROVE  Echoing(c)'
  <2> DEFINE all == Contents
             k   == Len(all) + Len(rest)
             now == Contents'
  <2>1. all \in Seq(Bytes) /\ Len(all) \in Nat /\ ~ circular_buffer.full
    BY <1>1, <1>5, ContentsIsBytes
  <2>2. now = all \o Stored(c)
    BY <1>1, <2>1, ContentsAppend
  <2> HIDE DEF all, now, bytes
  <2>3. /\ Len(rest) \in Nat /\ Stored(c) \in Seq(Bytes)
        /\ Len(Stored(c)) = Len(rest) + Len(bytes)
        /\ \A n \in 1 .. Len(bytes) : Stored(c)[Len(rest) + n] = bytes[n]
    <3>1. /\ rest \o bytes \in Seq(Bytes)
          /\ Len(rest \o bytes) = Len(rest) + Len(bytes)
          /\ \A n \in 1 .. Len(bytes) : (rest \o bytes)[Len(rest) + n] = bytes[n]
      BY <1>2, <1>3, ConcatParts
    <3>. QED  BY <1>3, <1>4, <3>1, LenNat
  <2>4. /\ now \in Seq(Bytes) /\ Len(now) = Len(all) + Len(Stored(c))
        /\ \A n \in 1 .. Len(Stored(c)) : now[Len(all) + n] = Stored(c)[n]
    <3>1. /\ all \o Stored(c) \in Seq(Bytes)
          /\ Len(all \o Stored(c)) = Len(all) + Len(Stored(c))
          /\ \A n \in 1 .. Len(Stored(c)) :
               (all \o Stored(c))[Len(all) + n] = Stored(c)[n]
      <4>1. all \in Seq(Bytes) /\ Stored(c) \in Seq(Bytes)
        BY <2>1, <2>3
      <4>. QED  BY <4>1, ConcatParts
    <3>. QED  BY <2>2, <3>1
  <2>5. At(now, bytes, k)
    <3>1. k \in Nat /\ k + Len(bytes) <= Len(now)
      BY <1>2, <2>1, <2>3, <2>4
    <3>2. ASSUME NEW n \in 1 .. Len(bytes)
          PROVE  bytes[n] = now[k + n]
      <4>1. /\ Len(rest) + n \in 1 .. Len(Stored(c))
            /\ k + n = Len(all) + (Len(rest) + n)
        BY <1>2, <2>1, <2>3
      <4> HIDE DEF k
      <4>. QED  BY <2>3, <2>4, <4>1
    <3> HIDE DEF k
    <3>. QED  BY <3>1, <3>2 DEF At
  <2>6. f_pos[c] <= Len(all)
    BY <1>5, <2>1 DEF EchoOf, Echoing, all
  <2>7. /\ f_pos[c] <= Len(now) /\ k \in f_pos[c] .. Len(now)
    BY <1>1, <1>2, <2>1, <2>3, <2>4, <2>6
  <2>8. Len(reply'[c]) = 0 /\ f_pos'[c] - Len(reply'[c]) = f_pos[c]
    BY <1>1
  <2>9. At(now, reply'[c], f_pos[c])
    BY <1>1, <2>4, <2>7, <2>8, LenNat DEF At
  <2> HIDE DEF k
  <2>. QED  BY <1>1, <2>5, <2>7, <2>8, <2>9 DEF Echoing, now, bytes
<1>. QED  BY <1>1, <1>2, <1>5 DEF EchoOf

LEMMA EchoInvInit == Init => EchoInv
<1> SUFFICES ASSUME Init
             PROVE  EchoInv
  OBVIOUS
<1>1. Ring
  BY ServerInvInit DEF ServerInv
<1>2. ASSUME NEW c \in Conn
      PROVE  EchoOf(c)
  <2>1. /\ f_pos[c] = 0 /\ reply[c] = << >> /\ packet[c] = << >>
        /\ Len(Contents) \in Nat /\ Len(reply[c]) = 0
    BY <1>1, ContentsIsBytes DEF Init
  <2>2. At(Contents, reply[c], 0)
    BY <2>1 DEF At
  <2>. QED  BY <2>1, <2>2 DEF EchoOf, Echoing
<1>. QED  BY <1>2 DEF EchoInv, Init

LEMMA EchoInvStep == ServerInv /\ EchoInv /\ [Next]_vars => EchoInv'
<1> SUFFICES ASSUME ServerInv, EchoInv, [Next]_vars
             PROVE  EchoInv'
  OBVIOUS
<1>1. /\ TypeOK /\ Ring /\ Ring' /\ TypeOK'
      /\ pc \in [Conn -> Places] /\ f_pos \in [Conn -> Nat] /\ f_pos' \in [Conn -> Nat]
      /\ reply \in [Conn -> Seq(Bytes)] /\ packet \in [Conn -> Seq(Bytes)]
      /\ \A c \in Conn : EchoOf(c)
      /\ circular_buffer.full \in BOOLEAN /\ circular_buffer'.full \in BOOLEAN
      /\ Contents \in Seq(Bytes)
  <2>1. ServerInv'
    BY ServerInvStep
  <2>2. TypeOK /\ Ring /\ Ring' /\ TypeOK'
    BY <2>1 DEF ServerInv
  <2>3. /\ circular_buffer.full \in BOOLEAN /\ circular_buffer'.full \in BOOLEAN
        /\ f_pos \in [Conn -> Nat] /\ f_pos' \in [Conn -> Nat]
        /\ pc \in [Conn -> Places]
    BY <2>2 DEF TypeOK, IsBuffer, Places, Critical
  <2>. QED  BY <2>2, <2>3, ContentsIsBytes DEF EchoInv
<1>2. UNCHANGED circular_buffer => Grown /\ Contents' = Contents
  <2>1. UNCHANGED circular_buffer => Contents' = Contents
    BY DEF Contents, Commands
  <2>2. Contents = Contents \o << >> /\ << >> \in Seq(Bytes)
    <3>1. Contents \in Seq(Bytes)
      BY <1>1
    <3>. QED  BY <3>1, EmptyConcat
  <2>. QED  BY <1>1, <2>1, <2>2 DEF Grown
(* A step of one handler: the others keep what they have of an answer.     *)
<1>3. ASSUME NEW c \in Conn, Grown, EchoOf(c)',
             \E v : pc' = [pc EXCEPT ![c] = v],
             \E v : f_pos' = [f_pos EXCEPT ![c] = v],
             \E v : reply' = [reply EXCEPT ![c] = v],
             \E v : packet' = [packet EXCEPT ![c] = v]
      PROVE  EchoInv'
  <2>1. reply' \in [Conn -> Seq(Bytes)] /\ packet' \in [Conn -> Seq(Bytes)]
    <3>1. reply'[c] \in Seq(Bytes) /\ packet'[c] \in Seq(Bytes)
      BY <1>3 DEF EchoOf
    <3>. QED  BY <1>1, <1>3, <3>1
  <2>2. ASSUME NEW d \in Conn \ {c}
        PROVE  EchoOf(d)'
    <3>1. /\ pc'[d] = pc[d] /\ f_pos'[d] = f_pos[d]
          /\ reply'[d] = reply[d] /\ packet'[d] = packet[d]
      BY <1>1, <1>3
    <3>2. d \in Conn /\ EchoOf(d) /\ f_pos[d] \in Nat
      BY <1>1
    <3>. QED  BY <1>1, <1>3, <3>1, <3>2, EchoOfOther
  <2>. QED  BY <1>3, <2>1, <2>2 DEF EchoInv
<1>4. ASSUME NEW c \in Conn
      PROVE  /\ pc = [pc EXCEPT ![c] = pc[c]]
             /\ f_pos = [f_pos EXCEPT ![c] = f_pos[c]]
             /\ reply = [reply EXCEPT ![c] = reply[c]]
             /\ packet = [packet EXCEPT ![c] = packet[c]]
  BY <1>1
(* One that is not at an answer stays in the contents.                     *)
<1>5. ASSUME NEW c \in Conn, UNCHANGED <<circular_buffer, reply, packet>>,
             pc[c] \notin {"unlock", "reply"},
             \E v : pc' = [pc EXCEPT ![c] = v],
             \E v : f_pos' = [f_pos EXCEPT ![c] = v],
             \/ f_pos'[c] = f_pos[c] \/ f_pos'[c] = 0
             \/ ~ circular_buffer.full => f_pos'[c] <= Len(Contents)
      PROVE  EchoInv'
  <2>1. reply'[c] = << >> /\ packet'[c] = << >>
    BY <1>1, <1>5 DEF EchoOf
  <2>2. ~ circular_buffer'.full => f_pos'[c] <= Len(Contents')
    <3>1. ~ circular_buffer.full => f_pos[c] <= Len(Contents)
      BY <1>1 DEF EchoOf, Echoing
    <3>2. 0 <= Len(Contents)
      BY <1>1, LenNat
    <3>. QED  BY <1>2, <1>5, <3>1, <3>2
  <2>3. EchoOf(c)'
    <3>1. f_pos'[c] \in Nat
      BY <1>1
    <3>. QED  BY <1>1, <2>1, <2>2, <3>1, EchoOfIdle
  <2>. QED  BY <1>2, <1>3, <1>4, <1>5, <2>3
<1>6. CASE Kill
  <2>1. /\ \A c \in Conn : reply'[c] = << >> /\ packet'[c] = << >> /\ f_pos'[c] = 0
        /\ reply' \in [Conn -> Seq(Bytes)] /\ packet' \in [Conn -> Seq(Bytes)]
        /\ UNCHANGED circular_buffer
    BY <1>6 DEF Kill, device
  <2>2. ASSUME NEW c \in Conn
        PROVE  EchoOf(c)'
    <3>1. reply'[c] = << >> /\ packet'[c] = << >> /\ f_pos'[c] = 0
      BY <2>1
    <3>2. 0 <= Len(Contents') /\ 0 \in Nat
      BY <1>1, <1>2, <2>1, LenNat
    <3>. QED  BY <1>1, <3>1, <3>2, EchoOfIdle
  <2>. QED  BY <2>1, <2>2 DEF EchoInv
<1>7. CASE UNCHANGED vars
  <2>1. UNCHANGED <<circular_buffer, f_pos, pc, reply, packet>>
    BY <1>7 DEF vars, device, history
  <2>2. \A c \in Conn : EchoOf(c)'
    BY <1>1, <1>2, <2>1, EchoOfOther
  <2>. QED  BY <1>1, <2>1, <2>2 DEF EchoInv
<1>8. ASSUME NEW c \in Conn, Client(c) \/ Scan(c) \/ Lock(c) \/ Continue(c),
             pc[c] \notin {"unlock", "reply"}
      PROVE  EchoInv'
  <2>1. /\ UNCHANGED <<circular_buffer, reply, packet>>
        /\ \E v : pc' = [pc EXCEPT ![c] = v]
        /\ f_pos' = f_pos \/ f_pos' = [f_pos EXCEPT ![c] = 0]
    BY <1>8 DEF Client, Connect, Disconnect, Recv, Scan, Lock, Continue, Goto,
                device, history
  <2>2. /\ \E v : f_pos' = [f_pos EXCEPT ![c] = v]
        /\ f_pos'[c] = f_pos[c] \/ f_pos'[c] = 0
    BY <1>1, <1>4, <2>1
  <2>. QED  BY <1>5, <1>8, <2>1, <2>2
<1>9. ASSUME NEW c \in Conn, Ioctl(c)
      PROVE  EchoInv'
  <2>1. CASE Continue(c)
    BY <1>8, <1>9, <2>1 DEF Ioctl
  <2>2. CASE ~ Continue(c)
    <3>1. PICK seekto \in Parsed(c) :
            /\ SeekAllowed(seekto[1], seekto[2])
            /\ f_pos' = [f_pos EXCEPT ![c] = SeekOffset(seekto[1], seekto[2])]
            /\ Goto(c, "unlock")
            /\ UNCHANGED <<device, history>>
      BY <1>9, <2>2 DEF Ioctl
    <3>2. ~ circular_buffer.full => f_pos'[c] <= Len(Contents)
      BY <1>1, <3>1, SeekInContents
    <3>3. /\ UNCHANGED <<circular_buffer, reply, packet>>
          /\ pc[c] \notin {"unlock", "reply"}
          /\ \E v : pc' = [pc EXCEPT ![c] = v]
          /\ \E v : f_pos' = [f_pos EXCEPT ![c] = v]
      BY <1>9, <3>1 DEF Ioctl, Goto, device, history
    <3>. QED  BY <1>5, <3>2, <3>3
  <2>. QED  BY <2>1, <2>2
<1>10. ASSUME NEW c \in Conn, WritePacket(c)
       PROVE  EchoInv'
  <2>1. CASE Continue(c)
    BY <1>8, <1>10, <2>1 DEF WritePacket
  <2>2. CASE ~ Continue(c)
    <3>1. /\ UNCHANGED <<circular_buffer, f_pos, reply, packet>>
          /\ pc[c] \notin {"unlock", "reply"}
          /\ \E v : pc' = [pc EXCEPT ![c] = v]
      BY <1>10, <2>2 DEF WritePacket, Goto, history
    <3>2. /\ \E v : f_pos' = [f_pos EXCEPT ![c] = v]
          /\ f_pos'[c] = f_pos[c]
      BY <1>4, <3>1
    <3>. QED  BY <1>5, <3>1, <3>2
  <2>. QED  BY <2>1, <2>2
<1>11. ASSUME NEW c \in Conn, WriteNewLine(c)
       PROVE  EchoInv'
  <2>1. CASE Continue(c)
    BY <1>8, <1>11, <2>1 DEF WriteNewLine
  <2>2. CASE ~ Continue(c)
    <3>1. /\ circular_buffer' = AddEntry(circular_buffer,
                                  [buffptr |-> Stored(c), size |-> Len(Stored(c))])
          /\ packet' = [packet EXCEPT ![c] = Append(write_buffer[c], NewLine)]
          /\ pc' = [pc EXCEPT ![c] = "unlock"]
          /\ UNCHANGED <<f_pos, reply>> /\ pc[c] = "newline"
      BY <1>11, <2>2 DEF WriteNewLine, Goto, Stored
    <3>2. circular_buffer.full => circular_buffer'.full
      BY <3>1 DEF AddEntry
    <3>3. circular_buffer'.full \/ ~ circular_buffer.full
      BY <3>2
    <3>4. EchoOf(c)'
      <4>1. /\ f_pos'[c] = f_pos[c] /\ reply'[c] = reply[c] /\ pc'[c] = "unlock"
            /\ packet'[c] = Append(write_buffer[c], NewLine)
        BY <1>1, <3>1
      <4>2. ServerInv /\ EchoOf(c)
        BY <1>1
      <4>. QED  BY <3>1, <3>3, <4>1, <4>2, EchoOfStored
    <3>5. Grown
      <4>1. ASSUME ~ circular_buffer.full
            PROVE  Contents' = Contents \o Stored(c) /\ Stored(c) \in Seq(Bytes)
        BY <1>1, <3>1, <4>1, StoredEntry, ContentsAppend
      <4>. QED  BY <3>3, <4>1 DEF Grown
    <3>. QED  BY <1>3, <1>4, <3>1, <3>4, <3>5
  <2>. QED  BY <2>1, <2>2
<1>12. ASSUME NEW c \in Conn, Unlock(c)
       PROVE  EchoInv'
  <2>1. /\ UNCHANGED <<circular_buffer, f_pos, reply, packet>>
        /\ pc' = [pc EXCEPT ![c] = "reply"]
    BY <1>12 DEF Unlock, Goto, device, history
  <2>2. EchoOf(c)'
    <3>1. pc'[c] = "reply"
      BY <1>1, <2>1
    <3>2. EchoOf(c) /\ f_pos[c] \in Nat
      BY <1>1
    <3>. QED  BY <1>1, <1>2, <2>1, <3>1, <3>2, EchoOfOther
  <2>. QED  BY <1>2, <1>3, <1>4, <2>1, <2>2
<1>13. ASSUME NEW c \in Conn, Reply(c)
       PROVE  EchoInv'
  <2>1. /\ UNCHANGED <<circular_buffer, pc, packet>>
        /\ \E v : f_pos' = [f_pos EXCEPT ![c] = v]
        /\ \E v : reply' = [reply EXCEPT ![c] = v]
    BY <1>13 DEF Reply, device
  <2>2. EchoOf(c)'
    <3>1. TypeOK /\ Ring /\ DOMAIN reply = Conn /\ EchoOf(c)
      BY <1>1
    <3>. QED  BY <1>13, <3>1, EchoOfReply
  <2>. QED  BY <1>2, <1>3, <1>4, <2>1, <2>2
<1>14. ASSUME NEW c \in Conn, EndReply(c)
       PROVE  EchoInv'
  <2>1. /\ UNCHANGED <<circular_buffer, f_pos>>
        /\ pc' = [pc EXCEPT ![c] = "scan"]
        /\ packet' = [packet EXCEPT ![c] = << >>]
        /\ reply' = [reply EXCEPT ![c] = << >>]
    BY <1>14 DEF EndReply, Goto, device
  <2>2. EchoOf(c)'
    <3>1. /\ reply'[c] = << >> /\ packet'[c] = << >>
          /\ f_pos'[c] = f_pos[c] /\ f_pos'[c] \in Nat
      BY <1>1, <2>1
    <3>2. ~ circular_buffer'.full => f_pos'[c] <= Len(Contents')
      BY <1>1, <1>2, <2>1, <3>1 DEF EchoOf, Echoing
    <3>. QED  BY <1>1, <3>1, <3>2, EchoOfIdle
  <2>. QED  BY <1>2, <1>3, <1>4, <2>1, <2>2
<1>15. ASSUME NEW c \in Conn, Client(c) \/ Scan(c) \/ Lock(c)
       PROVE  pc[c] \notin {"unlock", "reply"}
  BY <1>15 DEF Client, Connect, Disconnect, Recv, Scan, Lock
<1>. QED
  BY <1>6, <1>7, <1>8, <1>9, <1>10, <1>11, <1>12, <1>13, <1>14, <1>15 DEF Next, Continues

LEMMA EchoInvariant == Spec => []EchoInv
BY EchoInvInit, EchoInvStep, ServerInvariant, PTL DEF Spec

(* What a handler has sent when it stands at the end of the contents.      *)
LEMMA EchoEnds ==
  ASSUME Ring, ~ circular_buffer.full, NEW c \in Conn, EchoOf(c),
         f_pos[c] \in Nat, Len(Contents) <= f_pos[c], packet[c] # << >>
  PROVE  Holds(reply[c], packet[c]) /\ IsSuffix(reply[c], Contents)
<1> DEFINE all   == Contents
           sent  == reply[c]
           whole == packet[c]
           start == f_pos[c] - Len(sent)
           n     == Len(sent)
<1>1. /\ all \in Seq(Bytes) /\ sent \in Seq(Bytes) /\ whole \in Seq(Bytes)
      /\ Len(all) \in Nat /\ n \in Nat /\ Len(whole) \in Nat
  BY ContentsIsBytes, LenNat DEF EchoOf
<1>2. /\ f_pos[c] = Len(all) /\ start \in Nat /\ start + n = Len(all)
      /\ \A j \in 1 .. n : sent[j] = all[start + j]
  <2>1. f_pos[c] <= Len(all) /\ n <= f_pos[c] /\ At(all, sent, start)
    BY DEF EchoOf, Echoing
  <2>2. \A j \in 1 .. n : sent[j] = all[start + j]
    BY <2>1 DEF At
  <2>3. f_pos[c] = Len(all) /\ start \in Nat /\ start + n = Len(all)
    <3> HIDE DEF all, n
    <3>1. f_pos[c] = Len(all)
      BY <1>1, <2>1 DEF all
    <3>. QED  BY <1>1, <2>1, <3>1 DEF n
  <2>. QED  BY <2>2, <2>3
<1>3. PICK k \in start .. Len(all) : At(all, whole, k)
  BY DEF EchoOf, Echoing
<1> HIDE DEF all, sent, whole, start, n
<1>4. Holds(sent, whole)
  <2> DEFINE m == Len(whole)
             j == k - start
  <2>1. /\ k \in Nat /\ k + m <= Len(all) /\ \A l \in 1 .. m : whole[l] = all[k + l]
        /\ start <= k
    BY <1>1, <1>2, <1>3 DEF At
  <2> HIDE DEF m
  <2>2. j \in Nat /\ start + j = k /\ j + m <= n /\ j \in 0 .. n - m /\ m \in Nat
    BY <1>1, <1>2, <2>1 DEF m
  <2> HIDE DEF j
  <2> DEFINE part == SubSeq(sent, j + 1, j + m)
  <2>3. part \in Seq(Bytes) /\ Len(part) = m /\ \A l \in 1 .. m : part[l] = sent[j + l]
    <3>1. j + m <= Len(sent)
      BY <2>2 DEF n
    <3>. QED  BY <1>1, <2>2, <3>1, Slice
  <2> HIDE DEF part
  <2>4. ASSUME NEW l \in 1 .. m
        PROVE  part[l] = whole[l]
    <3>1. j + l \in 1 .. n /\ start + (j + l) = k + l
      BY <1>1, <1>2, <2>2
    <3>2. sent[j + l] = all[start + (j + l)]
      BY <1>2, <3>1
    <3>. QED  BY <2>1, <2>3, <3>1, <3>2
  <2>5. part = whole
    BY <1>1, <2>3, <2>4, SeqEqual DEF m
  <2>. QED  BY <2>2, <2>5 DEF Holds, part, m, n
<1>5. IsSuffix(sent, all)
  <2> DEFINE back == Reverse(sent)
             rest == Reverse(all)
             m    == Len(all)
             head == SubSeq(rest, 0 + 1, 0 + n)
             same == SubSeq(back, 0 + 1, 0 + n)
  <2>1. /\ back \in Seq(Bytes) /\ Len(back) = n
        /\ \A j \in 1 .. n : back[j] = sent[(n - j) + 1]
    BY <1>1 DEF Reverse, n
  <2>2. /\ rest \in Seq(Bytes) /\ Len(rest) = m
        /\ \A j \in 1 .. m : rest[j] = all[(m - j) + 1]
    BY <1>1 DEF Reverse
  <2> HIDE DEF back, rest, m
  <2>3. n \in Nat /\ m \in Nat /\ start \in Nat /\ start + n = m /\ n <= m /\ 0 + n <= n
    BY <1>1, <1>2 DEF m
  <2>4. head \in Seq(Bytes) /\ Len(head) = n /\ \A j \in 1 .. n : head[j] = rest[0 + j]
    <3>1. 0 \in Nat /\ n \in Nat /\ 0 + n <= Len(rest)
      BY <2>2, <2>3
    <3>. QED  BY <2>2, <3>1, Slice
  <2>5. same \in Seq(Bytes) /\ Len(same) = n /\ \A j \in 1 .. n : same[j] = back[0 + j]
    <3>1. 0 \in Nat /\ n \in Nat /\ 0 + n <= Len(back)
      BY <2>1, <2>3
    <3>. QED  BY <2>1, <3>1, Slice
  <2> HIDE DEF head, same
  <2>6. ASSUME NEW j \in 1 .. n
        PROVE  same[j] = head[j]
    <3> DEFINE l == (n - j) + 1
    <3>1. /\ l \in 1 .. n /\ start + l = (m - j) + 1 /\ j \in 1 .. m /\ 0 + j = j
      BY <2>3
    <3>2. back[j] = sent[l] /\ rest[j] = all[(m - j) + 1]
      BY <2>1, <2>2, <3>1
    <3> HIDE DEF l
    <3>3. sent[l] = all[start + l]
      BY <1>2, <3>1
    <3>. QED  BY <2>4, <2>5, <3>1, <3>2, <3>3
  <2>7. same = head
    BY <2>4, <2>5, <2>6, SeqEqual
  <2>8. SubSeq(back, 1, Len(back)) = SubSeq(rest, 1, Len(back)) /\ Len(back) <= Len(rest)
    <3>1. 0 + 1 = 1 /\ 0 + n = n
      BY <2>3
    <3>2. SubSeq(back, 1, n) = SubSeq(rest, 1, n)
      BY <2>7, <3>1 DEF same, head
    <3>. QED  BY <2>1, <2>2, <2>3, <3>2
  <2>. QED  BY <2>8 DEF IsSuffix, IsPrefix, back, rest
<1>. QED  BY <1>4, <1>5 DEF all, sent, whole

(* Until the ring is full, the reply to a packet holds the packet and      *)
(* reaches the end of the contents, although file_mutex is free while it   *)
(* is read and other handlers store packets between any two reads.         *)
THEOREM ServerEchoBeforeFull == Spec => EchoBeforeFull
<1> DEFINE echoed(c) == /\ Holds(reply[c], packet[c])
                        /\ IsSuffix(reply[c], Contents)
<1>1. ASSUME ServerInv, EchoInv, [Next]_vars, NEW c \in Conn,
             Replied(c), ~ circular_buffer.full
      PROVE  echoed(c)
  <2>1. /\ pc \in [Conn -> Places] /\ Ring /\ f_pos[c] \in Nat /\ EchoOf(c)
    BY <1>1 DEF ServerInv, TypeOK, EchoInv, Places, Critical
  <2>2. pc[c] = "reply" /\ pc'[c] = "scan" /\ packet[c] # << >>
    BY <1>1 DEF Replied
  <2>3. EndReply(c)
    <3>1. ~ UNCHANGED vars /\ ~ Kill
      BY <2>2 DEF vars, Kill
    <3>2. ASSUME NEW d \in Conn, d # c, Client(d) \/ Lock(d) \/ Continues(d)
          PROVE  FALSE
      <4>1. pc'[c] = pc[c]
        BY <2>1, <3>2 DEF Client, Connect, Disconnect, Recv, Lock, Continues, Scan, Ioctl,
           WritePacket, WriteNewLine, Continue, Unlock, Reply, EndReply, Goto
      <4>. QED  BY <2>2, <4>1
    <3>3. Client(c) \/ Lock(c) \/ Continues(c)
      BY <1>1, <3>1, <3>2 DEF Next
    <3>. QED  BY <2>2, <3>3 DEF Client, Connect, Disconnect, Recv, Lock, Continues, Scan,
           Ioctl, WritePacket, WriteNewLine, Unlock, Reply
  <2>4. Len(Contents) <= f_pos[c]
    BY <1>1, <2>1, <2>3, ReplyEnds DEF EndReply
  <2>. QED  BY <1>1, <2>1, <2>2, <2>4, EchoEnds
<1>2. ServerInv /\ EchoInv /\ [Next]_vars
        => [\A c \in Conn : Replied(c) /\ ~ circular_buffer.full => echoed(c)]_vars
  BY <1>1
<1>. QED  BY <1>2, ServerInvariant, EchoInvariant, PTL DEF Spec, EchoBeforeFull
=============================================================================
