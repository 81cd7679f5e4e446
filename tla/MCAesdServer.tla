---------------------------- MODULE MCAesdServer ----------------------------
(* Small instances of the socket server.  Each client's letter is the name *)
(* of its connection, so a packet that mixes two clients shows.            *)
EXTENDS AesdServer

NL == "nl"

NoSeeks == << >>

(* Into the first command, to the second, and beyond the ring.             *)
SomeSeeks == [s0 |-> <<0, 1>>, s1 |-> <<1, 0>>, s9 |-> <<9, 0>>]

(* The stream of one client comes cut anywhere: part of a packet, its end, *)
(* a whole one with part of the next, and an empty one; that of the other  *)
(* a packet at a time.                                                     *)
MCChunks ==
  LET first == CHOOSE c \in Conn : TRUE
  IN  [c \in Conn |-> IF c = first THEN {<<c>>, <<NL>>, <<c, NL, c>>}
                                   ELSE {<<c, NL>>}]

(* One packet, or one seek, to a recv, and a packet with a seek behind it. *)
PacketsAndSeeks ==
  [c \in Conn |-> {<<c, NL>>, <<c, NL, "s1", NL>>}
                    \cup {<<s, NL>> : s \in SeekCommands}]
=============================================================================
