------------------------ MODULE ServerProcessProofs ------------------------
(***************************************************************************)
(* For any number of connections and whichever call of the start fails:    *)
(* the types of ServerProcess, what the server releases and how often,     *)
(* whom it cuts off when it is told to end, and that no record of the data *)
(* file is torn by the handler of a signal.                                *)
(*                                                                         *)
(* The stack of a thread is read from below, where a signal that comes or  *)
(* whose handler returns changes nothing: level 1 is the thread's own      *)
(* code, and the labels of the handlers are on the levels above it.        *)
(***************************************************************************)
EXTENDS ServerProcess, WellFoundedInduction, TLAPS

Depth(t)    == Len(stack[t])
Level(t, k) == stack[t][Len(stack[t]) + 1 - k]

Labels == MainLabels \cup HandlerLabels \cup TermLabels \cup AlarmLabels

(* Each level has a label of its kind, and the main thread never ends.     *)
StackInv ==
  /\ stack \in [Thread -> Seq(Labels)]
  /\ Depth(Main) > 0
  /\ \A t \in Thread : Depth(t) > 0 =>
       Level(t, 1) \in IF t = Main THEN MainLabels ELSE HandlerLabels
  /\ \A t \in Thread : \A k \in 2 .. Depth(t) :
       Level(t, k) \in TermLabels \cup AlarmLabels

(* Where the main thread is once it accepts connections, and from where on *)
(* it has the socket.                                                      *)
ServerLabels ==
  {"accept", "add", "adding", "scan", "joining", "remove_entry", "removing"}
BoundLabels ==
  {"bind", "listen", "start_daemon", "timer_create", "timer_settime",
   "sigaction"} \cup ServerLabels

(* Some handler of SIGTERM is at one of the labels.                        *)
Ending(labels) ==
  \E t \in Thread : \E k \in 2 .. Depth(t) : Level(t, k) \in labels

(* Only a server that accepts connections handles signals, and SIGTERM is  *)
(* handled on one level of one thread.                                     *)
SignalInv ==
  /\ handlers => Level(Main, 1) \in ServerLabels
  /\ ~ handlers => \A t \in Thread : Depth(t) < 2
  /\ ~ told => ~ Ending(TermLabels)
  /\ \A t, u \in Thread : \A k \in 2 .. Depth(t), l \in 2 .. Depth(u) :
       Level(t, k) \in TermLabels /\ Level(u, l) \in TermLabels => t = u /\ k = l
  /\ ended = "handler" => Ending({"exit"})

(* What is there to be released, wherever the main thread and the handler  *)
(* of SIGTERM are.                                                         *)
Unlistening == failed \in {"bind", "listen"}

ResourceInv ==
  LET main == Level(Main, 1)
  IN
  /\ main \in BoundLabels => server_socket_fd = "socket"
  /\ main \in BoundLabels /\ ~ Ending({"freeaddrinfo", "remove", "exit"})
       => "socket" \in open_fds
  /\ main \in BoundLabels /\ ~ Ending({"remove", "exit"})
       => server_address_info = "live"
  /\ Ending({"freeaddrinfo", "remove", "exit"}) => "socket" \notin open_fds
  /\ Ending({"remove", "exit"}) => server_address_info = "freed"
  /\ Ending({"exit"}) => data_file \in {"removed", "remade"}
  /\ main \in {"getaddrinfo", "socket"} => server_socket_fd = "stdin"
  /\ main = "getaddrinfo" => server_address_info = "NULL"
  /\ main = "socket" => server_address_info = "live"
  /\ main \notin ServerLabels \cup DOMAIN After \cup {"exit"} => misused = {}
  /\ main = "exit_socket_bind" =>
       /\ Unlistening /\ server_socket_fd = "socket"
       /\ "socket" \in open_fds /\ server_address_info = "live"
  /\ main = "exit_free_addrinfo_struct" =>
       \/ /\ failed = "getaddrinfo"
          /\ server_address_info = "NULL" /\ server_socket_fd = "stdin"
       \/ /\ failed = "socket"
          /\ server_address_info = "live" /\ server_socket_fd = "stdin"
       \/ /\ Unlistening
          /\ server_address_info = "live" /\ server_socket_fd = "socket"
  /\ main = "close" =>
       \/ failed \in {"getaddrinfo", "socket"} /\ server_socket_fd = "stdin"
       \/ Unlistening /\ server_socket_fd = "socket"
       \/ /\ failed = "fork"
          /\ server_socket_fd = "socket" /\ "socket" \in open_fds
  /\ main \in {"close", "freeaddrinfo"} =>
       \/ failed \in {"socket", "bind", "listen"}
       \/ server_address_info # "freed"
  /\ "freed_twice" \in misused => failed \in {"socket", "bind", "listen"}
  /\ "closed_twice" \in misused => Unlistening
  /\ "stdin_closed" \in misused => failed \in {"getaddrinfo", "socket"}

(* Who is inside file_mutex: a handler between the writes of a packet, or  *)
(* a timestamp; and the file ends in a packet while its handler is.        *)
Inside(t, k) ==
  /\ k \in 1 .. Depth(t)
  /\ \/ k = 1 /\ Level(t, k) \in {"body", "newline"}
     \/ k > 1 /\ Level(t, k) = "timestamp_write"

FileInv ==
  /\ \A t \in Thread : \A k \in Nat : Inside(t, k) => file_mutex = t
  /\ \A t \in Thread : \A k, l \in Nat : Inside(t, k) /\ Inside(t, l) => k = l
  /\ \A t \in Thread : tail = t => Depth(t) > 0 /\ Level(t, 1) = "newline"

(* Whom the server still serves: all in the list, but for the one that is  *)
(* being added, unless the handler of SIGTERM runs in the thread of a      *)
(* client, which it forgets.                                               *)
Busy(c) == Depth(c) > 0 /\ Level(c, 1) \in {"recv", "lock", "body", "newline"}

EndingMain(labels) == \E k \in 2 .. Depth(Main) : Level(Main, k) \in labels
EndingClient ==
  \E c \in Conn : \E k \in 2 .. Depth(c) : Level(c, k) \in TermLabels

ServeInv ==
  /\ \A c \in is_complete : ~ Busy(c)
  /\ Level(Main, 1) \in {"joining", "remove_entry", "removing"}
       => target # NoThread /\ ~ Busy(target)
  /\ Level(Main, 1) \in {"add", "adding"} => target # NoThread
  /\ Ending({"freeall_joining", "freeall_remove", "freeall_removing"})
       => current_entry # NoThread
  /\ EndingMain({"freeall_remove", "freeall_removing"}) => ~ Busy(current_entry)
  /\ EndingMain({"close", "freeaddrinfo", "remove", "exit"})
       => thread_manager = << >>
  /\ \/ EndingClient
     \/ \A c \in Conn : Busy(c) =>
          \/ c \in Range(thread_manager)
          \/ c = target /\ Level(Main, 1) \in {"add", "adding"}

(* The types of the rest of the state.                                     *)
DataInv ==
  /\ ended \in {"no", "exit", "abort", "handler", "signal"}
  /\ failed \in Faults \cup {"none"}
  /\ server_address_info \in {"NULL", "live", "freed"}
  /\ server_socket_fd \in {"stdin", "socket"} /\ open_fds \subseteq {"stdin", "socket"}
  /\ data_file \in {"absent", "present", "removed", "remade"}
  /\ misused \subseteq {"stdin_closed", "closed_twice", "freed_twice"}
  /\ manager_mutex \in Thread \cup {NoThread} /\ file_mutex \in Thread \cup {NoThread}
  /\ target \in Conn \cup {NoThread} /\ current_entry \in Conn \cup {NoThread}
  /\ tail \in Conn \cup {NoThread}
  /\ thread_manager \in Seq(Conn) /\ walk \in Seq(Conn) /\ is_complete \subseteq Conn

FlagInv == handlers \in BOOLEAN /\ timer \in BOOLEAN /\ told \in BOOLEAN

IInv == /\ StackInv /\ DataInv /\ FlagInv /\ SignalInv /\ ResourceInv /\ FileInv
        /\ ServeInv

-----------------------------------------------------------------------------
(* What a step does to the levels: a label is replaced on the topmost one  *)
(* of a thread, a level is put on it or taken off it, a thread begins, or  *)
(* one is joined.                                                          *)
LevelsKept(t) ==
  /\ Depth(t)' = Depth(t)
  /\ \A k \in 1 .. Depth(t) : Level(t, k)' = Level(t, k)

Moves(t, label) ==
  /\ \A u \in Thread \ {t} : LevelsKept(u)
  /\ Depth(t)' = Depth(t)
  /\ \A k \in 1 .. Depth(t) :
       Level(t, k)' = IF k = Depth(t) THEN label ELSE Level(t, k)

Rises(t, label) ==
  /\ \A u \in Thread \ {t} : LevelsKept(u)
  /\ Depth(t)' = Depth(t) + 1
  /\ \A k \in 1 .. Depth(t) : Level(t, k)' = Level(t, k)
  /\ Level(t, Depth(t))' = label

Sinks(t) ==
  /\ \A u \in Thread \ {t} : LevelsKept(u)
  /\ Depth(t)' = Depth(t) - 1
  /\ \A k \in 1 .. Depth(t) - 1 : Level(t, k)' = Level(t, k)

LEMMA DepthType == ASSUME StackInv, NEW t \in Thread PROVE Depth(t) \in Nat
BY DEF StackInv, Depth

(* The label that runs is that of the topmost level.                       *)
LEMMA TopLevel ==
  ASSUME StackInv, NEW t \in Thread, NEW label, At(t, label)
  PROVE  /\ Depth(t) \in Nat /\ Depth(t) > 0 /\ Level(t, Depth(t)) = label
         /\ ended = "no"
BY DEF StackInv, Depth, Level, At

LEMMA GotoMoves ==
  ASSUME StackInv, NEW t \in Thread, NEW label \in Labels, Depth(t) > 0,
         Goto(t, label)
  PROVE  stack' \in [Thread -> Seq(Labels)] /\ Moves(t, label)
<1> DEFINE s == stack[t]
           r == <<label>> \o Tail(s)
<1>1. s \in Seq(Labels) /\ Len(s) > 0
  BY DEF StackInv, Depth
<1>2. /\ stack' = [stack EXCEPT ![t] = r]
  BY DEF Goto
<1>3. Tail(s) \in Seq(Labels) /\ Len(Tail(s)) = Len(s) - 1
      /\ \A i \in 1 .. Len(s) - 1 : Tail(s)[i] = s[i + 1]
  BY <1>1
<1>4. r \in Seq(Labels) /\ Len(r) = Len(s)
      /\ \A i \in 1 .. Len(s) : r[i] = IF i = 1 THEN label ELSE s[i]
  BY <1>1, <1>3
<1> HIDE DEF r, s
<1>5. stack' \in [Thread -> Seq(Labels)]
  BY <1>2, <1>4 DEF StackInv
<1>6. stack'[t] = r /\ \A u \in Thread \ {t} : stack'[u] = stack[u]
  BY <1>2 DEF StackInv
<1>7. Len(s) \in Nat
  BY <1>1
<1>8. \A k \in 1 .. Len(s) : r[Len(s) + 1 - k] =
        IF k = Len(s) THEN label ELSE s[Len(s) + 1 - k]
  BY <1>1, <1>4, <1>7
<1>. QED  BY <1>4, <1>5, <1>6, <1>8 DEF s, Moves, LevelsKept, Depth, Level

LEMMA PushRises ==
  ASSUME StackInv, NEW t \in Thread, NEW label \in Labels, Push(t, label)
  PROVE  stack' \in [Thread -> Seq(Labels)] /\ Rises(t, label)
<1> DEFINE s == stack[t]
           r == <<label>> \o s
<1>1. s \in Seq(Labels) /\ Len(s) \in Nat
  BY DEF StackInv
<1>2. stack' = [stack EXCEPT ![t] = r]
  BY DEF Push
<1>4. r \in Seq(Labels) /\ Len(r) = Len(s) + 1
      /\ \A i \in 1 .. Len(s) + 1 : r[i] = IF i = 1 THEN label ELSE s[i - 1]
  BY <1>1
<1> HIDE DEF r, s
<1>5. stack' \in [Thread -> Seq(Labels)]
  BY <1>2, <1>4 DEF StackInv
<1>6. stack'[t] = r /\ \A u \in Thread \ {t} : stack'[u] = stack[u]
  BY <1>2 DEF StackInv
<1>8. /\ \A k \in 1 .. Len(s) : r[Len(r) + 1 - k] = s[Len(s) + 1 - k]
      /\ r[Len(r) + 1 - Len(r)] = label
  BY <1>1, <1>4
<1>. QED  BY <1>4, <1>5, <1>6, <1>8 DEF s, Rises, LevelsKept, Depth, Level

(* The handler that writes a timestamp returns.                            *)
Pops(t) == stack' = [stack EXCEPT ![t] = Tail(stack[t])]

LEMMA PopSinks ==
  ASSUME StackInv, NEW t \in Thread, Depth(t) > 0,
         Pops(t)
  PROVE  stack' \in [Thread -> Seq(Labels)] /\ Sinks(t)
<1> DEFINE s == stack[t]
           r == Tail(s)
<1>1. s \in Seq(Labels) /\ Len(s) \in Nat /\ Len(s) > 0
  BY DEF StackInv, Depth
<1>2. stack' = [stack EXCEPT ![t] = r]
  BY DEF Pops
<1>4. r \in Seq(Labels) /\ Len(r) = Len(s) - 1
      /\ \A i \in 1 .. Len(s) - 1 : r[i] = s[i + 1]
  BY <1>1
<1> HIDE DEF r, s
<1>5. stack' \in [Thread -> Seq(Labels)]
  BY <1>2, <1>4 DEF StackInv
<1>6. stack'[t] = r /\ \A u \in Thread \ {t} : stack'[u] = stack[u]
  BY <1>2 DEF StackInv
<1>8. \A k \in 1 .. Len(s) - 1 : r[Len(r) + 1 - k] = s[Len(s) + 1 - k]
  BY <1>1, <1>4
<1>. QED  BY <1>4, <1>5, <1>6, <1>8 DEF s, Sinks, LevelsKept, Depth, Level

-----------------------------------------------------------------------------
(* The stacks.                                                             *)

(* A label on a level of its kind.                                         *)
Fits(t, k, label) ==
  IF k > 1 THEN label \in TermLabels \cup AlarmLabels
  ELSE label \in IF t = Main THEN MainLabels ELSE HandlerLabels

LEMMA FitsLabels ==
  ASSUME NEW t, NEW k, NEW label, Fits(t, k, label) PROVE label \in Labels
BY DEF Fits, Labels

LEMMA StackFits ==
  ASSUME StackInv, NEW t \in Thread, NEW k \in 1 .. Depth(t)
  PROVE  Fits(t, k, Level(t, k))
<1>1. Depth(t) \in Nat
  BY DepthType
<1>. QED  BY <1>1 DEF StackInv, Fits

LEMMA StackFromLevels ==
  ASSUME stack' \in [Thread -> Seq(Labels)], Depth(Main)' > 0,
         \A t \in Thread : Depth(t)' \in Nat,
         \A t \in Thread : \A k \in 1 .. Depth(t)' : Fits(t, k, Level(t, k)')
  PROVE  StackInv'
<1>1. \A t \in Thread : Depth(t)' > 0 => Fits(t, 1, Level(t, 1)')
  OBVIOUS
<1>2. \A t \in Thread : \A k \in 2 .. Depth(t)' : Fits(t, k, Level(t, k)')
  OBVIOUS
<1>. QED  BY <1>1, <1>2 DEF StackInv, Fits

LEMMA GotoStack ==
  ASSUME StackInv, NEW t \in Thread, NEW from, NEW to, At(t, from), Goto(t, to),
         Fits(t, Depth(t), to)
  PROVE  StackInv' /\ Moves(t, to)
<1>1. /\ Depth(t) > 0 /\ to \in Labels
      /\ \A u \in Thread : Depth(u) \in Nat
  BY TopLevel, FitsLabels, DepthType
<1>2. stack' \in [Thread -> Seq(Labels)] /\ Moves(t, to)
  BY <1>1, GotoMoves
<1>3. /\ \A u \in Thread : Depth(u)' = Depth(u)
      /\ \A u \in Thread : \A k \in 1 .. Depth(u) :
           Level(u, k)' = IF u = t /\ k = Depth(u) THEN to ELSE Level(u, k)
  BY <1>2 DEF Moves, LevelsKept
<1>4. \A u \in Thread : \A k \in 1 .. Depth(u) : Fits(u, k, Level(u, k)')
  BY <1>3, StackFits
<1>5. Depth(Main)' > 0
  BY <1>3 DEF StackInv, Thread
<1>. QED  BY <1>1, <1>2, <1>3, <1>4, <1>5, StackFromLevels

LEMMA PushStack ==
  ASSUME StackInv, NEW t \in Thread, Depth(t) > 0,
         NEW label \in TermLabels \cup AlarmLabels, Push(t, label)
  PROVE  StackInv' /\ Rises(t, label)
<1>1. \A u \in Thread : Depth(u) \in Nat
  BY DepthType
<1>2. stack' \in [Thread -> Seq(Labels)] /\ Rises(t, label)
  BY PushRises DEF Labels
<1>3. /\ \A u \in Thread : Depth(u)' = IF u = t THEN Depth(u) + 1 ELSE Depth(u)
      /\ \A u \in Thread : \A k \in 1 .. Depth(u) : Level(u, k)' = Level(u, k)
  BY <1>2 DEF Rises, LevelsKept
<1>4. \A k : k = Depth(t)' => Level(t, k)' = label
  BY <1>2 DEF Rises
<1>5. Fits(t, Depth(t)', label)
  BY <1>1, <1>3 DEF Fits
<1>6. \A u \in Thread : \A k \in 1 .. Depth(u)' : Fits(u, k, Level(u, k)')
  BY <1>1, <1>3, <1>4, <1>5, StackFits
<1>7. Depth(Main)' > 0
  BY <1>1, <1>3 DEF StackInv, Thread
<1>. QED  BY <1>1, <1>2, <1>3, <1>6, <1>7, StackFromLevels

LEMMA PopStack ==
  ASSUME StackInv, NEW t \in Thread, Depth(t) > 1,
         Pops(t)
  PROVE  StackInv' /\ Sinks(t)
<1>1. \A u \in Thread : Depth(u) \in Nat
  BY DepthType
<1>2. stack' \in [Thread -> Seq(Labels)] /\ Sinks(t)
  BY <1>1, PopSinks
<1>3. /\ \A u \in Thread : Depth(u)' = IF u = t THEN Depth(u) - 1 ELSE Depth(u)
      /\ \A u \in Thread : \A k \in 1 .. Depth(u)' : Level(u, k)' = Level(u, k)
  BY <1>2 DEF Sinks, LevelsKept
<1>6. \A u \in Thread : \A k \in 1 .. Depth(u)' : Fits(u, k, Level(u, k)')
  BY <1>1, <1>3, StackFits
<1>7. Depth(Main)' > 0
  BY <1>1, <1>3 DEF StackInv, Thread
<1>. QED  BY <1>1, <1>2, <1>3, <1>6, <1>7, StackFromLevels

-----------------------------------------------------------------------------
(* Where the handler of SIGTERM is.                                        *)

(* The levels above the first have the same labels of a set as before.     *)
SameAbove(labels) ==
  /\ \A t \in Thread : \A k \in 2 .. Depth(t) : Level(t, k) \in labels =>
       k \in 2 .. Depth(t)' /\ Level(t, k)' \in labels
  /\ \A t \in Thread : \A k \in 2 .. Depth(t)' : Level(t, k)' \in labels =>
       k \in 2 .. Depth(t) /\ Level(t, k) \in labels

LEMMA MovesAbove ==
  ASSUME StackInv, NEW t \in Thread, NEW from, NEW to, At(t, from), Moves(t, to),
         NEW labels, Depth(t) > 1 => (from \in labels <=> to \in labels)
  PROVE  SameAbove(labels)
<1>1. Depth(t) > 0 /\ Level(t, Depth(t)) = from /\ \A u \in Thread : Depth(u) \in Nat
  BY TopLevel, DepthType
<1>3. /\ \A u \in Thread : Depth(u)' = Depth(u)
      /\ \A u \in Thread : \A k \in 1 .. Depth(u) :
           Level(u, k)' = IF u = t /\ k = Depth(u) THEN to ELSE Level(u, k)
  BY DEF Moves, LevelsKept
<1>. QED  BY <1>1, <1>3 DEF SameAbove

LEMMA RisesAbove ==
  ASSUME StackInv, NEW t \in Thread, NEW to, Rises(t, to), Depth(t) > 0,
         NEW labels, to \notin labels
  PROVE  SameAbove(labels)
<1>1. \A u \in Thread : Depth(u) \in Nat
  BY DepthType
<1>3. /\ \A u \in Thread : Depth(u)' = IF u = t THEN Depth(u) + 1 ELSE Depth(u)
      /\ \A u \in Thread : \A k \in 1 .. Depth(u) : Level(u, k)' = Level(u, k)
      /\ \A k : k = Depth(t)' => Level(t, k)' = to
  BY DEF Rises, LevelsKept
<1>. QED  BY <1>1, <1>3 DEF SameAbove

LEMMA SinksAbove ==
  ASSUME StackInv, NEW t \in Thread, NEW from, At(t, from), Sinks(t),
         NEW labels, from \notin labels
  PROVE  SameAbove(labels)
<1>1. Depth(t) > 0 /\ Level(t, Depth(t)) = from /\ \A u \in Thread : Depth(u) \in Nat
  BY TopLevel, DepthType
<1>3. /\ \A u \in Thread : Depth(u)' = IF u = t THEN Depth(u) - 1 ELSE Depth(u)
      /\ \A u \in Thread : \A k \in 1 .. Depth(u)' : Level(u, k)' = Level(u, k)
  BY DEF Sinks, LevelsKept
<1>. QED  BY <1>1, <1>3 DEF SameAbove

LEMMA AboveEnding ==
  ASSUME NEW labels, SameAbove(labels)
  PROVE  (Ending(labels)' <=> Ending(labels))
         /\ (EndingMain(labels)' <=> EndingMain(labels))
<1>1. Main \in Thread
  BY DEF Thread
<1>. QED  BY <1>1 DEF SameAbove, Ending, EndingMain

(* A step that leaves the handlers where they are.                         *)
LEMMA SameSignals ==
  ASSUME StackInv, SignalInv, ended = "no", ended' \in {"no", "abort", "exit", "signal"},
         UNCHANGED <<handlers, told>>, SameAbove(TermLabels),
         \A t \in Thread : Depth(t)' <= Depth(t) \/ Depth(t)' < 2,
         \A t \in Thread : Depth(t)' \in Nat /\ Depth(t) \in Nat,
         Level(Main, 1)' = Level(Main, 1)
           \/ Level(Main, 1) \notin ServerLabels
           \/ Level(Main, 1)' \in ServerLabels
  PROVE  SignalInv'
<1>1. handlers' => Level(Main, 1)' \in ServerLabels
  BY DEF SignalInv
<1>2. ~ handlers' => \A t \in Thread : Depth(t)' < 2
  BY DEF SignalInv
<1>3. ~ told' => ~ Ending(TermLabels)'
  BY AboveEnding DEF SignalInv
<1>4. \A t, u \in Thread : \A k \in 2 .. Depth(t)', l \in 2 .. Depth(u)' :
        Level(t, k)' \in TermLabels /\ Level(u, l)' \in TermLabels => t = u /\ k = l
  BY DEF SignalInv, SameAbove
<1>5. ended' # "handler"
  OBVIOUS
<1>. QED  BY <1>1, <1>2, <1>3, <1>4, <1>5 DEF SignalInv

(* Before the main thread accepts connections it is alone, but for those   *)
(* it accepts without a handler, and nothing is on any level but the first.*)
LEMMA MainAlone ==
  ASSUME SignalInv, Level(Main, 1) \notin ServerLabels
  PROVE  ~ handlers /\ \A t \in Thread : Depth(t) < 2
BY DEF SignalInv

LEMMA NoLevels ==
  ASSUME StackInv, \A t \in Thread : Depth(t) < 2, NEW labels
  PROVE  ~ Ending(labels) /\ ~ EndingMain(labels)
<1>1. \A t \in Thread : Depth(t) \in Nat
  BY DepthType
<1>2. Main \in Thread
  BY DEF Thread
<1>. QED  BY <1>1, <1>2 DEF Ending, EndingMain

(* A step of the main thread in its own code.                              *)
LEMMA MainMoves ==
  ASSUME StackInv, NEW from, NEW to \in MainLabels, At(Main, from),
         Goto(Main, to), Depth(Main) = 1
  PROVE  /\ StackInv' /\ Moves(Main, to)
         /\ Level(Main, 1) = from /\ Level(Main, 1)' = to
         /\ \A t \in Thread : Depth(t)' = Depth(t) /\ Depth(t) \in Nat
         /\ \A labels : SameAbove(labels)
<1>0. Main \in Thread
  BY DEF Thread
<1>1. StackInv' /\ Moves(Main, to)
  BY <1>0, GotoStack DEF Fits
<1>2. Level(Main, 1) = from
  BY <1>0, TopLevel
<1>3. Level(Main, 1)' = to
  BY <1>1 DEF Moves
<1>4. \A t \in Thread : Depth(t)' = Depth(t) /\ Depth(t) \in Nat
  BY <1>1, DepthType DEF Moves, LevelsKept
<1>5. ASSUME NEW labels PROVE SameAbove(labels)
  BY <1>0, <1>1, MovesAbove
<1>. QED  BY <1>1, <1>2, <1>3, <1>4, <1>5

(* A label that is only of the thread's own code is on the first level.    *)
LEMMA OwnLevel ==
  ASSUME StackInv, NEW t \in Thread, NEW label, At(t, label),
         label \notin TermLabels \cup AlarmLabels
  PROVE  Depth(t) = 1 /\ Level(t, 1) = label
<1>1. Depth(t) \in Nat /\ Depth(t) > 0 /\ Level(t, Depth(t)) = label
  BY TopLevel
<1>2. Fits(t, Depth(t), label)
  BY <1>1, StackFits
<1>. QED  BY <1>1, <1>2 DEF Fits

(* A label that is only of a signal handler is not.                        *)
LEMMA HandlerLevel ==
  ASSUME StackInv, NEW t \in Thread, NEW label, At(t, label),
         label \notin MainLabels \cup HandlerLabels
  PROVE  Depth(t) > 1 /\ Level(t, Depth(t)) = label
<1>1. Depth(t) \in Nat /\ Depth(t) > 0 /\ Level(t, Depth(t)) = label
  BY TopLevel
<1>2. Fits(t, Depth(t), label)
  BY <1>1, StackFits
<1>. QED  BY <1>1, <1>2 DEF Fits

-----------------------------------------------------------------------------
(* The steps that leave a part of the invariant as it is.                  *)

Written == {"body", "newline", "timestamp_write"}

SameInside == \A t \in Thread : \A k \in Nat : Inside(t, k)' <=> Inside(t, k)
SameNewLine ==
  \A t \in Thread : Depth(t) > 0 /\ Level(t, 1) = "newline" =>
    Depth(t)' > 0 /\ Level(t, 1)' = "newline"

LEMMA SameFile ==
  ASSUME DataInv, FileInv, UNCHANGED <<file_mutex, tail>>, SameInside, SameNewLine
  PROVE  FileInv'
<1>2. /\ \A t \in Thread : \A k \in Nat : Inside(t, k)' => file_mutex' = t
      /\ \A t \in Thread : \A k, l \in Nat : Inside(t, k)' /\ Inside(t, l)' => k = l
  BY DEF FileInv, SameInside
<1>3. \A t \in Thread : tail' = t => Depth(t)' > 0 /\ Level(t, 1)' = "newline"
  BY DEF FileInv, SameNewLine
<1>. QED  BY <1>2, <1>3 DEF FileInv

LEMMA MovesFile ==
  ASSUME StackInv, NEW t \in Thread, NEW from, NEW to, At(t, from), Moves(t, to),
         from \notin Written, to \notin Written
  PROVE  SameInside /\ SameNewLine
<1>1. Depth(t) > 0 /\ Level(t, Depth(t)) = from /\ \A u \in Thread : Depth(u) \in Nat
  BY TopLevel, DepthType
<1>3. /\ \A u \in Thread : Depth(u)' = Depth(u)
      /\ \A u \in Thread : \A k \in 1 .. Depth(u) :
           Level(u, k)' = IF u = t /\ k = Depth(u) THEN to ELSE Level(u, k)
  BY DEF Moves, LevelsKept
<1>4. SameInside
  BY <1>1, <1>3 DEF SameInside, Inside, Written
<1>5. SameNewLine
  BY <1>1, <1>3 DEF SameNewLine, Written
<1>. QED  BY <1>4, <1>5

LEMMA RisesFile ==
  ASSUME StackInv, NEW t \in Thread, NEW to, Rises(t, to), Depth(t) > 0,
         to \notin Written
  PROVE  SameInside /\ SameNewLine
<1>1. \A u \in Thread : Depth(u) \in Nat
  BY DepthType
<1>3. /\ \A u \in Thread : Depth(u)' = IF u = t THEN Depth(u) + 1 ELSE Depth(u)
      /\ \A u \in Thread : \A k \in 1 .. Depth(u) : Level(u, k)' = Level(u, k)
      /\ \A k : k = Depth(t)' => Level(t, k)' = to
  BY DEF Rises, LevelsKept
<1>4. SameInside
  BY <1>1, <1>3 DEF SameInside, Inside, Written
<1>5. SameNewLine
  BY <1>1, <1>3 DEF SameNewLine
<1>. QED  BY <1>4, <1>5

(* Nobody becomes busy, and what the list says of those who are stays.     *)
LessBusy == \A c \in Conn : Busy(c)' => Busy(c)

LEMMA SameServe ==
  ASSUME DataInv, ServeInv, LessBusy, UNCHANGED list,
         \/ Level(Main, 1)' = Level(Main, 1)
         \/ /\ Level(Main, 1) \notin {"add", "adding"}
            /\ Level(Main, 1)' \notin {"add", "adding", "joining", "remove_entry",
                                       "removing"}
         \/ Level(Main, 1) = "add" /\ Level(Main, 1)' = "adding"
         \/ Level(Main, 1) \in {"joining", "remove_entry"}
              /\ Level(Main, 1)' \in {"remove_entry", "removing"},
         Ending({"freeall_joining", "freeall_remove", "freeall_removing"})'
           => Ending({"freeall_joining", "freeall_remove", "freeall_removing"}),
         EndingMain({"freeall_remove", "freeall_removing"})'
           => \/ EndingMain({"freeall_remove", "freeall_removing"})
              \/ ~ Busy(current_entry)',
         EndingMain({"close", "freeaddrinfo", "remove", "exit"})'
           => EndingMain({"close", "freeaddrinfo", "remove", "exit"}),
         EndingClient => EndingClient'
  PROVE  ServeInv'
<1> USE DEF list
<1>1. \A c \in is_complete' : ~ Busy(c)'
  BY DEF DataInv, ServeInv, LessBusy
<1>2. Level(Main, 1)' \in {"joining", "remove_entry", "removing"}
       => target' # NoThread /\ ~ Busy(target)'
  BY DEF DataInv, ServeInv, LessBusy
<1>3. Level(Main, 1)' \in {"add", "adding"} => target' # NoThread
  BY DEF ServeInv
<1>4. Ending({"freeall_joining", "freeall_remove", "freeall_removing"})'
       => current_entry' # NoThread
  BY DEF ServeInv
<1>5. EndingMain({"freeall_remove", "freeall_removing"})' => ~ Busy(current_entry)'
  <2>1. CASE ~ Busy(current_entry)'
    BY <2>1
  <2>2. CASE EndingMain({"freeall_remove", "freeall_removing"})
    <3>1. Ending({"freeall_joining", "freeall_remove", "freeall_removing"})
      BY <2>2 DEF EndingMain, Ending, Thread
    <3>2. current_entry \in Conn
      BY <3>1 DEF DataInv, ServeInv
    <3>3. ~ Busy(current_entry)
      BY <2>2 DEF ServeInv
    <3>. QED  BY <3>2, <3>3 DEF LessBusy
  <2>. QED  BY <2>1, <2>2
<1>6. EndingMain({"close", "freeaddrinfo", "remove", "exit"})'
       => thread_manager' = << >>
  BY DEF ServeInv
<1>7. \/ EndingClient'
      \/ \A c \in Conn : Busy(c)' =>
           \/ c \in Range(thread_manager)'
           \/ c = target' /\ Level(Main, 1)' \in {"add", "adding"}
  BY DEF ServeInv, LessBusy
<1>. QED  BY <1>1, <1>2, <1>3, <1>4, <1>5, <1>6, <1>7 DEF ServeInv

-----------------------------------------------------------------------------
(* The start.                                                              *)

LEMMA InitIInv == Init => IInv
<1> SUFFICES ASSUME Init PROVE IInv
  OBVIOUS
<1>0. /\ <<"getaddrinfo">> \in Seq(Labels) /\ << >> \in Seq(Labels)
      /\ << >> \in Seq(Conn)
  <2>1. "getaddrinfo" \in Labels
    BY DEF Labels, MainLabels
  <2>. QED  BY <2>1
<1>1. /\ stack \in [Thread -> Seq(Labels)]
      /\ stack[Main] = <<"getaddrinfo">>
      /\ \A c \in Conn : stack[c] = << >>
  BY <1>0, ThreadAssumption DEF Init, Thread
<1>2. /\ Depth(Main) = 1 /\ Level(Main, 1) = "getaddrinfo"
      /\ \A c \in Conn : Depth(c) = 0
  BY <1>1 DEF Depth, Level
<1>3. StackInv
  BY <1>1, <1>2 DEF StackInv, Thread, MainLabels
<1>4. \A labels : ~ Ending(labels) /\ ~ EndingMain(labels)
  BY <1>2, <1>3, NoLevels DEF Thread
<1>5. DataInv
  BY <1>0 DEF Init, DataInv
<1>10. FlagInv
  BY DEF Init, FlagInv
<1>6. SignalInv
  BY <1>2, <1>4 DEF Init, SignalInv, Thread
<1>7. ResourceInv
  BY <1>2, <1>4 DEF Init, ResourceInv, BoundLabels, ServerLabels, After
<1>8. FileInv
  BY <1>2, ThreadAssumption DEF Init, FileInv, Inside, Thread
<1>9. ServeInv
  BY <1>2, <1>4 DEF Init, ServeInv, Busy
<1>. QED  BY <1>3, <1>5, <1>6, <1>7, <1>8, <1>9, <1>10 DEF IInv

StartLabels == {"getaddrinfo", "socket", "bind", "listen", "start_daemon",
                "timer_create", "timer_settime", "sigaction"}

(* Every step of the start takes the main thread, alone, from one label to *)
(* another.                                                                *)
LEMMA StartGoto ==
  ASSUME Start
  PROVE  \E from \in StartLabels :
           \E to \in StartLabels \cup {"accept", "exit_socket_bind",
                                       "exit_free_addrinfo_struct", "close"} :
             At(Main, from) /\ Goto(Main, to)
BY DEF Start, getaddrinfo, socket, bind_and_listen, start_daemon,
       initialize_timer, Fails, Goes, ForkFailed, StartLabels

(* What each of them does to the resources, where nothing is ending.       *)
LEMMA StartResources ==
  ASSUME DataInv, ResourceInv, Start, ~ handlers,
         \A label \in StartLabels : At(Main, label) => Level(Main, 1) = label,
         \A label \in MainLabels : Goto(Main, label) => Level(Main, 1)' = label,
         \A labels : ~ Ending(labels) /\ ~ Ending(labels)'
  PROVE  DataInv' /\ ResourceInv' /\ (handlers' => Level(Main, 1)' = "accept")
<1> USE DEF StartLabels, MainLabels, After, BoundLabels, ServerLabels, Fails, Goes,
            Unlistening
<1>1. /\ UNCHANGED <<ended, data_file, misused, told, manager_mutex, file_mutex,
                     thread_manager, is_complete, walk, target, current_entry, tail>>
  BY DEF Start, mutexes, list
<1>2. CASE getaddrinfo
  <2>1. /\ Level(Main, 1) = "getaddrinfo" /\ misused = {}
        /\ server_socket_fd = "stdin" /\ server_address_info = "NULL"
    BY <1>2 DEF getaddrinfo, ResourceInv
  <2>2. /\ UNCHANGED <<server_socket_fd, open_fds, timer, handlers>>
        /\ \/ /\ Level(Main, 1)' = "socket" /\ failed' = failed
              /\ server_address_info' = "live"
           \/ /\ Level(Main, 1)' = "exit_free_addrinfo_struct"
              /\ failed' = "getaddrinfo" /\ failed' \in Faults
              /\ server_address_info' = server_address_info
    BY <1>2 DEF getaddrinfo
  <2>3. DataInv'
    BY <1>1, <2>2 DEF DataInv, Thread
  <2>4. ResourceInv'
    BY <1>1, <2>1, <2>2 DEF ResourceInv
  <2>. QED  BY <2>2, <2>3, <2>4
<1>3. CASE socket
  <2>1. /\ Level(Main, 1) = "socket" /\ misused = {}
        /\ server_socket_fd = "stdin" /\ server_address_info = "live"
    BY <1>3 DEF socket, ResourceInv
  <2>2. /\ UNCHANGED <<server_address_info, timer, handlers>>
        /\ \/ /\ Level(Main, 1)' = "bind" /\ failed' = failed
              /\ server_socket_fd' = "socket"
              /\ open_fds' = open_fds \cup {"socket"}
           \/ /\ Level(Main, 1)' = "exit_free_addrinfo_struct"
              /\ failed' = "socket" /\ failed' \in Faults
              /\ UNCHANGED <<server_socket_fd, open_fds>>
    BY <1>3 DEF socket
  <2>5. open_fds' \subseteq {"stdin", "socket"}
    BY <2>2 DEF DataInv
  <2>6. server_socket_fd' \in {"stdin", "socket"} /\ failed' \in Faults \cup {"none"}
    BY <2>2 DEF DataInv
  <2>3. DataInv'
    BY <1>1, <2>2, <2>5, <2>6 DEF DataInv, Thread
  <2>4. ResourceInv'
    BY <1>1, <2>1, <2>2 DEF ResourceInv
  <2>. QED  BY <2>2, <2>3, <2>4
<1>4. CASE bind_and_listen
  <2>1. /\ Level(Main, 1) \in {"bind", "listen"} /\ misused = {}
        /\ server_socket_fd = "socket" /\ server_address_info = "live"
        /\ "socket" \in open_fds
    BY <1>4 DEF bind_and_listen, ResourceInv
  <2>2. /\ UNCHANGED <<server_address_info, server_socket_fd, open_fds, timer, handlers>>
        /\ \/ Level(Main, 1)' \in {"listen", "start_daemon"} /\ failed' = failed
           \/ /\ Level(Main, 1)' = "exit_socket_bind"
              /\ failed' \in {"bind", "listen"} /\ failed' \in Faults
    BY <1>4 DEF bind_and_listen
  <2>3. DataInv'
    BY <1>1, <2>2 DEF DataInv, Thread
  <2>4. ResourceInv'
    BY <1>1, <2>1, <2>2 DEF ResourceInv
  <2>. QED  BY <2>2, <2>3, <2>4
<1>5. CASE start_daemon
  <2>1. /\ Level(Main, 1) = "start_daemon" /\ misused = {}
        /\ server_socket_fd = "socket" /\ server_address_info = "live"
        /\ "socket" \in open_fds
    BY <1>5 DEF start_daemon, ResourceInv
  <2>2. /\ UNCHANGED <<server_address_info, server_socket_fd, open_fds, timer, handlers>>
        /\ \/ Level(Main, 1)' = "timer_create" /\ failed' = failed
           \/ /\ Level(Main, 1)' = "close"
              /\ failed' = "fork" /\ failed' \in Faults
    BY <1>5 DEF start_daemon, ForkFailed
  <2>3. DataInv'
    BY <1>1, <2>2 DEF DataInv, Thread
  <2>4. ResourceInv'
    BY <1>1, <2>1, <2>2 DEF ResourceInv
  <2>. QED  BY <2>2, <2>3, <2>4
<1>6. CASE initialize_timer
  <2>1. /\ Level(Main, 1) \in {"timer_create", "timer_settime", "sigaction"}
        /\ misused = {}
        /\ server_socket_fd = "socket" /\ server_address_info = "live"
        /\ "socket" \in open_fds
    BY <1>6 DEF initialize_timer, ResourceInv
  <2>2. /\ UNCHANGED <<server_address_info, server_socket_fd, open_fds>>
        /\ Level(Main, 1)' \in {"timer_settime", "sigaction", "accept"}
        /\ failed' = failed \/ failed' \in Faults
        /\ timer' \in {timer, TRUE}
        /\ \/ handlers' = handlers
           \/ handlers' = TRUE /\ Level(Main, 1)' = "accept"
    BY <1>6 DEF initialize_timer
  <2>3. DataInv'
    BY <1>1, <2>2 DEF DataInv, Thread
  <2>4. ResourceInv'
    BY <1>1, <2>1, <2>2 DEF ResourceInv
  <2>. QED  BY <2>2, <2>3, <2>4
<1>. QED  BY <1>2, <1>3, <1>4, <1>5, <1>6 DEF Start

LEMMA StartStep == ASSUME IInv, Start PROVE IInv'
<1> USE DEF IInv
<1>0. Main \in Thread
  BY DEF Thread
<1>1. PICK from \in StartLabels,
           to \in StartLabels \cup {"accept", "exit_socket_bind",
                                    "exit_free_addrinfo_struct", "close"} :
             At(Main, from) /\ Goto(Main, to)
  BY StartGoto
<1>2. Depth(Main) = 1 /\ Level(Main, 1) = from /\ to \in MainLabels
      /\ from \notin ServerLabels /\ from \in MainLabels
  BY <1>0, <1>1, OwnLevel
  DEF StartLabels, TermLabels, AlarmLabels, MainLabels, After, ServerLabels
<1>3. ~ handlers /\ \A t \in Thread : Depth(t) < 2
  BY <1>2, MainAlone
<1>4. /\ StackInv' /\ Moves(Main, to) /\ Level(Main, 1)' = to
      /\ \A t \in Thread : Depth(t)' = Depth(t) /\ Depth(t) \in Nat
      /\ \A labels : SameAbove(labels)
  BY <1>1, <1>2, MainMoves
<1>5. /\ \A labels : ~ Ending(labels) /\ ~ EndingMain(labels)
      /\ \A labels : ~ Ending(labels)' /\ ~ EndingMain(labels)'
  BY <1>3, <1>4, NoLevels, AboveEnding
<1>6. DataInv' /\ ResourceInv' /\ (handlers' => Level(Main, 1)' = "accept")
  <2>1. \A label \in StartLabels : At(Main, label) => Level(Main, 1) = label
    BY <1>0, <1>2, TopLevel
  <2>2. \A label \in MainLabels : Goto(Main, label) => Level(Main, 1)' = label
    BY <1>1, <1>2, MainMoves
  <2>. QED  BY <1>3, <1>5, <2>1, <2>2, StartResources
<1>7. SignalInv'
  <2>2. told' = told /\ ended' = ended /\ ended = "no"
    BY <1>0, <1>1, TopLevel DEF Start
  <2>. QED  BY <1>3, <1>4, <1>5, <1>6, <2>2 DEF SignalInv, ServerLabels
<1>8. SameInside /\ SameNewLine
  BY <1>0, <1>1, <1>4, MovesFile DEF Written, StartLabels
<1>9. FileInv'
  BY <1>8, SameFile DEF Start, mutexes
<1>10. LessBusy
  BY <1>4, ThreadAssumption DEF LessBusy, Busy, Moves, LevelsKept, Thread
<1>11. EndingClient => EndingClient'
  BY <1>3, <1>4 DEF EndingClient, Thread
<1>12. ServeInv'
  BY <1>2, <1>4, <1>5, <1>10, <1>11, SameServe DEF Start, StartLabels
<1>13. FlagInv'
  BY DEF FlagInv, Start, getaddrinfo, socket, bind_and_listen, start_daemon,
         initialize_timer, Fails
<1>. QED  BY <1>4, <1>6, <1>7, <1>9, <1>12, <1>13

-----------------------------------------------------------------------------
(* Cleaning up.                                                            *)

(* The handler of SIGTERM is where it is, and nowhere else.                *)
LEMMA EndingOnly ==
  ASSUME NEW t \in Thread, NEW k \in 2 .. Depth(t), Level(t, k) \in TermLabels,
         \A u, v \in Thread : \A i \in 2 .. Depth(u), j \in 2 .. Depth(v) :
           Level(u, i) \in TermLabels /\ Level(v, j) \in TermLabels => u = v /\ i = j,
         NEW labels \in SUBSET TermLabels
  PROVE  /\ Ending(labels) <=> Level(t, k) \in labels
         /\ EndingMain(labels) <=> t = Main /\ Level(t, k) \in labels
<1>1. \A u \in Thread : \A i \in 2 .. Depth(u) :
        Level(u, i) \in labels => u = t /\ i = k
  OBVIOUS
<1>2. Main \in Thread
  BY DEF Thread
<1>. QED  BY <1>1, <1>2 DEF Ending, EndingMain

(* A step of the handler of SIGTERM.                                       *)
LEMMA EndingMoves ==
  ASSUME StackInv, SignalInv, NEW t \in Thread, NEW from \in TermLabels,
         NEW to \in TermLabels, At(t, from), Goto(t, to), Depth(t) > 1
  PROVE  /\ StackInv' /\ Moves(t, to) /\ ended = "no"
         /\ \A u \in Thread : Depth(u)' = Depth(u) /\ Depth(u) \in Nat
         /\ \A u \in Thread : Depth(u) > 0 => Level(u, 1)' = Level(u, 1)
         /\ Level(Main, 1)' = Level(Main, 1) /\ Level(Main, 1) \in ServerLabels
         /\ SameAbove(TermLabels)
         /\ \A labels \in SUBSET TermLabels :
              /\ Ending(labels) <=> from \in labels
              /\ EndingMain(labels) <=> t = Main /\ from \in labels
              /\ Ending(labels)' <=> to \in labels
              /\ EndingMain(labels)' <=> t = Main /\ to \in labels
<1>1. Depth(t) \in Nat /\ Level(t, Depth(t)) = from /\ ended = "no"
  BY TopLevel
<1>2. StackInv' /\ Moves(t, to)
  BY <1>1, GotoStack DEF Fits
<1>3. \A u \in Thread : Depth(u)' = Depth(u) /\ Depth(u) \in Nat
  BY <1>2, DepthType DEF Moves, LevelsKept
<1>4. \A u \in Thread : Depth(u) > 0 => Level(u, 1)' = Level(u, 1)
  BY <1>2, <1>3 DEF Moves, LevelsKept
<1>5. Level(Main, 1)' = Level(Main, 1) /\ Level(Main, 1) \in ServerLabels
  <2>1. Main \in Thread /\ Depth(Main) > 0 /\ ~ (Depth(t) < 2)
    BY <1>1 DEF StackInv, Thread
  <2>2. handlers
    BY <2>1 DEF SignalInv
  <2>3. Level(Main, 1)' = Level(Main, 1)
    BY <1>4, <2>1
  <2>4. Level(Main, 1) \in ServerLabels
    BY <2>2 DEF SignalInv
  <2>. QED  BY <2>3, <2>4
<1>6. SameAbove(TermLabels)
  BY <1>2, MovesAbove
<1>7. \A u, v \in Thread : \A i \in 2 .. Depth(u), j \in 2 .. Depth(v) :
        Level(u, i) \in TermLabels /\ Level(v, j) \in TermLabels => u = v /\ i = j
  BY DEF SignalInv
<1>8. \A u, v \in Thread : \A i \in 2 .. Depth(u)', j \in 2 .. Depth(v)' :
        Level(u, i)' \in TermLabels /\ Level(v, j)' \in TermLabels => u = v /\ i = j
  BY <1>6, <1>7 DEF SameAbove
<1>9. \A k \in 1 .. Depth(t) : k = Depth(t) => Level(t, k)' = to
  BY <1>2 DEF Moves
<1>10. PICK k \in 2 .. Depth(t) : k = Depth(t)
  BY <1>1
<1>11. ASSUME NEW labels \in SUBSET TermLabels
       PROVE  /\ Ending(labels) <=> from \in labels
              /\ EndingMain(labels) <=> t = Main /\ from \in labels
  <2>1. Level(t, k) = from
    BY <1>1, <1>10
  <2>. QED  BY <1>7, <2>1, EndingOnly
<1>12. ASSUME NEW labels \in SUBSET TermLabels
       PROVE  /\ Ending(labels)' <=> to \in labels
              /\ EndingMain(labels)' <=> t = Main /\ to \in labels
  <2>1. Level(t, k)' = to /\ k \in 2 .. Depth(t)'
    BY <1>3, <1>9, <1>10
  <2>2. \A u \in Thread : \A i \in 2 .. Depth(u)' :
          Level(u, i)' \in labels => u = t /\ i = k
    BY <1>8, <2>1
  <2>. QED  BY <2>1, <2>2 DEF Ending, EndingMain, Thread
<1>. QED  BY <1>1, <1>2, <1>3, <1>4, <1>5, <1>6, <1>11, <1>12

(* Where cleaning up goes on, and where it ends the process.               *)
Releases(t) == close(t) \/ freeaddrinfo(t) \/ remove(t) \/ exit(t)

LEMMA CleanUpGoto ==
  ASSUME NEW t, CleanUp(t)
  PROVE  /\ Releases(t)
         /\ UNCHANGED <<failed, server_socket_fd, handlers, timer, told,
                        manager_mutex, file_mutex, list, tail>>
         /\ \E from \in DOMAIN After \cup {"exit"} :
              /\ At(t, from)
              /\ \/ from # "exit" /\ Goto(t, After[from]) /\ UNCHANGED ended
                 \/ /\ UNCHANGED stack
                    /\ from \in {"exit_free_addrinfo_struct", "freeaddrinfo", "exit"}
                    /\ ended' = "abort" => server_address_info = "freed"
                    /\ ended' \in {"abort", "exit", "handler"}
                    /\ ended' = "handler" => from = "exit" /\ Len(stack[t]) # 1
BY DEF CleanUp, Releases, close, freeaddrinfo, remove, exit, After, signals, mutexes

LEMMA Released ==
  ASSUME DataInv, NEW t, Releases(t)
  PROVE  /\ server_address_info' \in {"NULL", "live", "freed"}
         /\ open_fds' \subseteq {"stdin", "socket"}
         /\ data_file' \in {"absent", "present", "removed", "remade"}
         /\ misused' \subseteq {"stdin_closed", "closed_twice", "freed_twice"}
         /\ ended' \in {"no", "exit", "abort", "handler", "signal"}
<1>1. CASE close(t)
  BY <1>1 DEF close, DataInv
<1>2. CASE freeaddrinfo(t)
  BY <1>2 DEF freeaddrinfo, DataInv
<1>3. CASE remove(t)
  BY <1>3 DEF remove, DataInv
<1>4. CASE exit(t)
  BY <1>4 DEF exit, DataInv
<1>. QED  BY <1>1, <1>2, <1>3, <1>4 DEF Releases

LEMMA CleanUpData == ASSUME DataInv, FlagInv, NEW t, CleanUp(t) PROVE DataInv' /\ FlagInv'
<1>1. Releases(t) /\ UNCHANGED <<failed, server_socket_fd, handlers, timer, told,
                                 manager_mutex, file_mutex, thread_manager, walk,
                                 is_complete, target, current_entry, tail>>
  BY CleanUpGoto DEF list
<1>2. DataInv'
  BY <1>1, Released DEF DataInv, Thread
<1>3. FlagInv'
  BY <1>1 DEF FlagInv
<1>. QED  BY <1>2, <1>3

LEMMA MainReleases ==
  ASSUME DataInv, ResourceInv, Releases(Main), UNCHANGED <<failed, server_socket_fd>>,
         \A label : At(Main, label) => Level(Main, 1) = label,
         \A label \in MainLabels : Goto(Main, label) => Level(Main, 1)' = label,
         UNCHANGED stack => Level(Main, 1)' = Level(Main, 1),
         \A labels : ~ Ending(labels) /\ ~ Ending(labels)'
  PROVE  ResourceInv'
<1> USE DEF MainLabels, After, BoundLabels, ServerLabels, Unlistening
<1>1. CASE close(Main)
  <2>1. /\ misused' = misused \cup
             IF server_socket_fd = "stdin" THEN {"stdin_closed"}
             ELSE IF server_socket_fd \notin open_fds THEN {"closed_twice"} ELSE {}
        /\ UNCHANGED server_address_info
        /\ \/ /\ Level(Main, 1) = "exit_socket_bind"
              /\ Level(Main, 1)' = "exit_free_addrinfo_struct"
           \/ Level(Main, 1) = "close" /\ Level(Main, 1)' = "freeaddrinfo"
    BY <1>1 DEF close
  <2>2. server_socket_fd \in {"stdin", "socket"}
    BY DEF DataInv
  <2>3. CASE Level(Main, 1) = "exit_socket_bind"
    <3>1. /\ Unlistening /\ server_socket_fd = "socket" /\ misused' = misused
          /\ server_address_info = "live"
      BY <2>1, <2>3 DEF ResourceInv
    <3>. QED  BY <2>1, <2>3, <3>1 DEF ResourceInv
  <2>4. CASE Level(Main, 1) = "close"
    <3>1. /\ "stdin_closed" \in misused' => failed \in {"getaddrinfo", "socket"}
          /\ "closed_twice" \in misused' => Unlistening
          /\ "freed_twice" \in misused' => failed \in {"socket", "bind", "listen"}
          /\ \/ failed \in {"socket", "bind", "listen"}
             \/ server_address_info # "freed"
      BY <2>1, <2>2, <2>4 DEF ResourceInv
    <3>. QED  BY <2>1, <2>4, <3>1 DEF ResourceInv
  <2>. QED  BY <2>1, <2>3, <2>4
<1>2. CASE freeaddrinfo(Main)
  <2>1. /\ UNCHANGED <<open_fds, data_file>>
        /\ server_address_info' =
             IF server_address_info = "NULL" THEN "NULL" ELSE "freed"
        /\ misused' = misused \cup
             IF server_address_info = "freed" THEN {"freed_twice"} ELSE {}
        /\ \/ /\ Level(Main, 1) = "exit_free_addrinfo_struct"
              /\ \/ Level(Main, 1)' = "close"
                 \/ /\ Level(Main, 1)' = "exit_free_addrinfo_struct"
                    /\ server_address_info = "freed"
           \/ /\ Level(Main, 1) = "freeaddrinfo"
              /\ \/ Level(Main, 1)' = "remove"
                 \/ /\ Level(Main, 1)' = "freeaddrinfo"
                    /\ server_address_info = "freed"
    BY <1>2 DEF freeaddrinfo
  <2>2. CASE Level(Main, 1) = "exit_free_addrinfo_struct"
    <3>1. /\ server_address_info # "freed"
          /\ \/ /\ failed = "getaddrinfo"
                /\ server_address_info = "NULL" /\ server_socket_fd = "stdin"
             \/ /\ failed = "socket"
                /\ server_address_info = "live" /\ server_socket_fd = "stdin"
             \/ /\ Unlistening
                /\ server_address_info = "live" /\ server_socket_fd = "socket"
      BY <2>2 DEF ResourceInv
    <3>2. misused' = misused /\ Level(Main, 1)' = "close"
      BY <2>1, <2>2, <3>1
    <3>. QED  BY <2>1, <2>2, <3>1, <3>2 DEF ResourceInv
  <2>3. CASE Level(Main, 1) = "freeaddrinfo"
    <3>1. /\ "stdin_closed" \in misused' => failed \in {"getaddrinfo", "socket"}
          /\ "closed_twice" \in misused' => Unlistening
          /\ "freed_twice" \in misused' => failed \in {"socket", "bind", "listen"}
          /\ \/ failed \in {"socket", "bind", "listen"}
             \/ server_address_info # "freed"
      BY <2>1, <2>3 DEF ResourceInv
    <3>. QED  BY <2>1, <2>3, <3>1 DEF ResourceInv
  <2>. QED  BY <2>1, <2>2, <2>3
<1>3. CASE remove(Main)
  <2>1. /\ UNCHANGED <<open_fds, server_address_info, misused>>
        /\ Level(Main, 1) = "remove" /\ Level(Main, 1)' = "exit"
    BY <1>3 DEF remove
  <2>. QED  BY <2>1 DEF ResourceInv
<1>4. CASE exit(Main)
  <2>1. /\ UNCHANGED <<open_fds, server_address_info, misused, data_file>>
        /\ Level(Main, 1) = "exit" /\ Level(Main, 1)' = "exit"
    BY <1>4 DEF exit
  <2>. QED  BY <2>1 DEF ResourceInv
<1>. QED  BY <1>1, <1>2, <1>3, <1>4 DEF Releases

(* The handler of SIGTERM releases what the server has, each thing once.   *)
LEMMA HandlerReleases ==
  ASSUME DataInv, ResourceInv, NEW t, NEW from \in TermLabels, At(t, from), Releases(t),
         UNCHANGED <<failed, server_socket_fd>>,
         Level(Main, 1) \in ServerLabels,
         NEW to \in TermLabels,
         to = IF from = "exit" THEN "exit" ELSE After[from],
         \A labels \in SUBSET TermLabels : Ending(labels) <=> from \in labels,
         Goto(t, to) \/ (from = to /\ UNCHANGED stack) =>
           /\ Level(Main, 1)' = Level(Main, 1)
           /\ \A labels \in SUBSET TermLabels : Ending(labels)' <=> to \in labels
  PROVE  /\ ResourceInv'
         /\ from \in {"close", "freeaddrinfo", "remove", "exit"}
         /\ from # "exit" => Goto(t, to) /\ ended' = ended
         /\ from = "exit" => UNCHANGED stack /\ ended' \in {"exit", "handler"}
<1> USE DEF After, TermLabels
<1>1. from \in {"close", "freeaddrinfo", "remove", "exit"}
  BY DEF Releases, close, freeaddrinfo, remove, exit, At
<1>2. server_socket_fd = "socket"
  BY DEF ResourceInv, BoundLabels
<1>3. /\ "freed_twice" \in misused => failed \in {"socket", "bind", "listen"}
      /\ "closed_twice" \in misused => Unlistening
      /\ "stdin_closed" \in misused => failed \in {"getaddrinfo", "socket"}
  BY DEF ResourceInv
<1>4. /\ Ending({"freeaddrinfo", "remove", "exit"})
             <=> from \in {"freeaddrinfo", "remove", "exit"}
      /\ Ending({"remove", "exit"}) <=> from \in {"remove", "exit"}
      /\ Ending({"exit"}) <=> from \in {"exit"}
  OBVIOUS
<1>10. ASSUME Goto(t, to) \/ (from = to /\ UNCHANGED stack)
       PROVE  /\ Ending({"freeaddrinfo", "remove", "exit"})'
                    <=> to \in {"freeaddrinfo", "remove", "exit"}
              /\ Ending({"remove", "exit"})' <=> to \in {"remove", "exit"}
              /\ Ending({"exit"})' <=> to \in {"exit"}
              /\ Level(Main, 1)' = Level(Main, 1)
  BY <1>10
<1>5. Level(Main, 1) \in BoundLabels
  BY DEF BoundLabels
<1>6. CASE from = "close"
  <2>1. "socket" \in open_fds /\ server_address_info = "live"
    BY <1>4, <1>5, <1>6 DEF ResourceInv
  <2>2. Goto(t, "freeaddrinfo") /\ ended' = ended /\ misused' = misused
        /\ server_address_info' = "live" /\ "socket" \notin open_fds'
    BY <1>2, <1>6, <2>1 DEF Releases, close, freeaddrinfo, remove, exit, At
  <2>3. to = "freeaddrinfo"
    BY <1>6
  <2>4. /\ Level(Main, 1)' = Level(Main, 1)
        /\ Ending({"freeaddrinfo", "remove", "exit"})'
        /\ Ending({"remove", "exit"})' <=> to \in {"remove", "exit"}
        /\ Ending({"exit"})' <=> to = "exit"
    BY <1>10, <2>2, <2>3
  <2>5. ResourceInv'
    BY <1>2, <1>3, <2>2, <2>3, <2>4 DEF ResourceInv, ServerLabels, BoundLabels, Unlistening
  <2>. QED  BY <1>6, <1>1, <2>2, <2>3, <2>5
<1>7. CASE from = "freeaddrinfo"
  <2>1. "socket" \notin open_fds /\ server_address_info = "live"
    BY <1>4, <1>5, <1>7 DEF ResourceInv
  <2>2. Goto(t, "remove") /\ ended' = ended /\ misused' = misused
        /\ server_address_info' = "freed" /\ "socket" \notin open_fds'
    BY <1>2, <1>7, <2>1 DEF Releases, close, freeaddrinfo, remove, exit, At
  <2>3. to = "remove"
    BY <1>7
  <2>4. /\ Level(Main, 1)' = Level(Main, 1)
        /\ Ending({"freeaddrinfo", "remove", "exit"})'
        /\ Ending({"remove", "exit"})' <=> to \in {"remove", "exit"}
        /\ Ending({"exit"})' <=> to = "exit"
    BY <1>10, <2>2, <2>3
  <2>5. ResourceInv'
    BY <1>2, <1>3, <2>2, <2>3, <2>4 DEF ResourceInv, ServerLabels, BoundLabels, Unlistening
  <2>. QED  BY <1>7, <1>1, <2>2, <2>3, <2>5
<1>8. CASE from = "remove"
  <2>1. "socket" \notin open_fds /\ server_address_info = "freed"
    BY <1>4, <1>5, <1>8 DEF ResourceInv
  <2>2. Goto(t, "exit") /\ ended' = ended /\ misused' = misused
        /\ server_address_info' = "freed" /\ "socket" \notin open_fds'
        /\ data_file' = "removed"
    BY <1>2, <1>8, <2>1 DEF Releases, close, freeaddrinfo, remove, exit, At
  <2>3. to = "exit"
    BY <1>8
  <2>4. /\ Level(Main, 1)' = Level(Main, 1)
        /\ Ending({"freeaddrinfo", "remove", "exit"})'
        /\ Ending({"remove", "exit"})' <=> to \in {"remove", "exit"}
        /\ Ending({"exit"})' <=> to = "exit"
    BY <1>10, <2>2, <2>3
  <2>5. ResourceInv'
    BY <1>2, <1>3, <2>2, <2>3, <2>4 DEF ResourceInv, ServerLabels, BoundLabels, Unlistening
  <2>. QED  BY <1>8, <1>1, <2>2, <2>3, <2>5
<1>9. CASE from = "exit"
  <2>1. /\ "socket" \notin open_fds /\ server_address_info = "freed"
        /\ data_file \in {"removed", "remade"}
    BY <1>4, <1>5, <1>9 DEF ResourceInv
  <2>2. /\ UNCHANGED <<stack, misused, server_address_info, open_fds, data_file>>
        /\ ended' \in {"exit", "handler"}
    BY <1>2, <1>9, <2>1 DEF Releases, close, freeaddrinfo, remove, exit, At
  <2>. QED  BY <1>1, <1>2, <1>3, <1>10, <1>9, <2>1, <2>2
            DEF ResourceInv, ServerLabels, BoundLabels, Unlistening
<1>. QED  BY <1>1, <1>6, <1>7, <1>8, <1>9

(* A step that leaves the stacks as they are.                              *)
LEMMA SameStack ==
  ASSUME UNCHANGED stack, StackInv
  PROVE  /\ StackInv' /\ SameInside /\ SameNewLine /\ LessBusy
         /\ \A t : Depth(t)' = Depth(t)
         /\ \A t, k : Level(t, k)' = Level(t, k)
         /\ \A labels : SameAbove(labels)
         /\ EndingClient <=> EndingClient'
<1>1. /\ \A t : Depth(t)' = Depth(t)
      /\ \A t, k : Level(t, k)' = Level(t, k)
  BY DEF Depth, Level
<1>2. StackInv'
  BY <1>1 DEF StackInv
<1>3. /\ SameInside /\ SameNewLine /\ LessBusy
      /\ \A labels : SameAbove(labels)
      /\ EndingClient <=> EndingClient'
  BY <1>1 DEF SameInside, SameNewLine, LessBusy, SameAbove, EndingClient, Inside, Busy
<1>. QED  BY <1>1, <1>2, <1>3

LEMMA CleanUpMain == ASSUME IInv, CleanUp(Main), Depth(Main) = 1 PROVE IInv'
<1> USE DEF IInv
<1>0. Main \in Thread
  BY DEF Thread
<1>1. /\ Releases(Main)
      /\ UNCHANGED <<failed, server_socket_fd, handlers, timer, told,
                     manager_mutex, file_mutex, list, tail>>
  BY CleanUpGoto
<1>2. PICK from \in DOMAIN After \cup {"exit"} :
        /\ At(Main, from)
        /\ \/ from # "exit" /\ Goto(Main, After[from]) /\ UNCHANGED ended
           \/ /\ UNCHANGED stack
              /\ ended' \in {"abort", "exit", "handler"}
              /\ ended' = "handler" => Len(stack[Main]) # 1
  BY CleanUpGoto
<1>3. /\ Level(Main, 1) = from /\ from \notin ServerLabels /\ ended = "no"
      /\ from # "exit" => After[from] \in MainLabels \ (BoundLabels \cup
           {"add", "adding", "joining", "remove_entry", "removing"} \cup Written)
      /\ from \notin Written
  BY <1>0, <1>2, TopLevel DEF After, ServerLabels, BoundLabels, MainLabels, Written
<1>4. ~ handlers /\ \A t \in Thread : Depth(t) < 2
  BY <1>3, MainAlone
<1>5. DataInv' /\ FlagInv'
  BY CleanUpData
<1>6. /\ StackInv' /\ SameInside /\ SameNewLine /\ LessBusy
      /\ \A t \in Thread : Depth(t)' = Depth(t) /\ Depth(t) \in Nat
      /\ \A labels : SameAbove(labels)
      /\ \/ Level(Main, 1)' = Level(Main, 1)
         \/ Level(Main, 1)' \notin ServerLabels
  <2>1. CASE UNCHANGED stack
    BY <2>1, SameStack, DepthType
  <2>2. CASE from # "exit" /\ Goto(Main, After[from])
    <3> DEFINE to == After[from]
    <3>1. to \in MainLabels /\ to \notin ServerLabels /\ to \notin Written
      BY <1>3, <2>2 DEF ServerLabels, BoundLabels
    <3>2. /\ StackInv' /\ Moves(Main, to) /\ Level(Main, 1)' = to
          /\ \A t \in Thread : Depth(t)' = Depth(t) /\ Depth(t) \in Nat
          /\ \A labels : SameAbove(labels)
      BY <1>2, <2>2, <3>1, MainMoves
    <3>3. SameInside /\ SameNewLine
      BY <1>0, <1>2, <1>3, <3>1, <3>2, MovesFile
    <3>4. LessBusy
      BY <3>2, ThreadAssumption DEF LessBusy, Busy, Moves, LevelsKept, Thread
    <3>. QED  BY <3>1, <3>2, <3>3, <3>4
  <2>. QED  BY <1>2, <2>1, <2>2
<1>7. /\ \A labels : ~ Ending(labels) /\ ~ EndingMain(labels)
      /\ \A labels : ~ Ending(labels)' /\ ~ EndingMain(labels)'
  BY <1>4, <1>6, NoLevels, AboveEnding
<1>8. ResourceInv'
  <2>1. \A label : At(Main, label) => Level(Main, 1) = label
    BY <1>0, TopLevel
  <2>2. \A label \in MainLabels : Goto(Main, label) => Level(Main, 1)' = label
    BY <1>2, MainMoves
  <2>3. UNCHANGED stack => Level(Main, 1)' = Level(Main, 1)
    BY SameStack
  <2>. QED  BY <1>1, <1>7, <2>1, <2>2, <2>3, MainReleases
<1>9. SignalInv'
  <2>1. ended' \in {"no", "abort", "exit", "signal"}
    BY <1>2, <1>3 DEF Depth
  <2>. QED  BY <1>1, <1>3, <1>6, <2>1, SameSignals
<1>10. FileInv'
  BY <1>1, <1>6, SameFile
<1>11. ServeInv'
  <2>1. EndingClient => EndingClient'
    BY <1>4, <1>6 DEF EndingClient, Thread
  <2>2. \/ Level(Main, 1)' = Level(Main, 1)
        \/ /\ Level(Main, 1) \notin {"add", "adding"}
           /\ Level(Main, 1)' \notin {"add", "adding", "joining", "remove_entry",
                                      "removing"}
    BY <1>3, <1>6 DEF ServerLabels
  <2>. QED  BY <1>1, <1>6, <1>7, <2>1, <2>2, SameServe
<1>. QED  BY <1>5, <1>6, <1>8, <1>9, <1>10, <1>11

LEMMA CleanUpHandler ==
  ASSUME IInv, NEW t \in Thread, CleanUp(t), Depth(t) > 1 PROVE IInv'
<1> USE DEF IInv
<1>1. /\ Releases(t)
      /\ UNCHANGED <<failed, server_socket_fd, handlers, timer, told,
                     manager_mutex, file_mutex, list, tail>>
  BY CleanUpGoto
<1>2. PICK from \in DOMAIN After \cup {"exit"} : At(t, from)
  BY CleanUpGoto
<1>3. /\ Level(t, Depth(t)) = from /\ Depth(t) \in Nat /\ ended = "no"
  BY <1>2, TopLevel
<1>4. from \in {"close", "freeaddrinfo", "remove", "exit"}
  <2>1. Fits(t, Depth(t), from)
    BY <1>3, StackFits
  <2>. QED  BY <1>3, <2>1 DEF Fits, After, TermLabels, AlarmLabels
<1>5. DataInv' /\ FlagInv'
  BY CleanUpData
<1> DEFINE to == IF from = "exit" THEN "exit" ELSE After[from]
<1>6. /\ from \in TermLabels /\ to \in TermLabels
      /\ from \notin Written /\ to \notin Written
      /\ to \in {"freeaddrinfo", "remove", "exit"}
  BY <1>4 DEF TermLabels, After, Written
<1> HIDE DEF to
<1>7. /\ \A labels \in SUBSET TermLabels :
           /\ Ending(labels) <=> from \in labels
           /\ EndingMain(labels) <=> t = Main /\ from \in labels
      /\ Level(Main, 1) \in ServerLabels
  <2>1. PICK k \in 2 .. Depth(t) : Level(t, k) = from
    BY <1>3
  <2>2. \A u, v \in Thread : \A i \in 2 .. Depth(u), j \in 2 .. Depth(v) :
          Level(u, i) \in TermLabels /\ Level(v, j) \in TermLabels => u = v /\ i = j
    BY DEF SignalInv
  <2>3. ~ (Depth(t) < 2)
    BY <1>3
  <2>4. handlers
    BY <2>3 DEF SignalInv
  <2>5. Level(Main, 1) \in ServerLabels
    BY <2>4 DEF SignalInv
  <2>. QED  BY <1>6, <2>1, <2>2, <2>5, EndingOnly
<1>8. ASSUME Goto(t, to) \/ (from = to /\ UNCHANGED stack)
      PROVE  /\ StackInv' /\ SameInside /\ SameNewLine /\ LessBusy
             /\ \A u \in Thread : Depth(u)' = Depth(u) /\ Depth(u) \in Nat
             /\ Level(Main, 1)' = Level(Main, 1)
             /\ SameAbove(TermLabels)
             /\ \A labels \in SUBSET TermLabels :
                  /\ Ending(labels)' <=> to \in labels
                  /\ EndingMain(labels)' <=> t = Main /\ to \in labels
  <2>1. CASE from = to /\ UNCHANGED stack
    BY <1>7, <2>1, SameStack, DepthType, AboveEnding
  <2>2. CASE Goto(t, to)
    <3>1. /\ StackInv' /\ Moves(t, to)
          /\ \A u \in Thread : Depth(u)' = Depth(u) /\ Depth(u) \in Nat
          /\ \A u \in Thread : Depth(u) > 0 => Level(u, 1)' = Level(u, 1)
          /\ Level(Main, 1)' = Level(Main, 1)
          /\ SameAbove(TermLabels)
          /\ \A labels \in SUBSET TermLabels :
               /\ Ending(labels)' <=> to \in labels
               /\ EndingMain(labels)' <=> t = Main /\ to \in labels
      BY <1>2, <1>6, <2>2, EndingMoves
    <3>2. SameInside /\ SameNewLine
      BY <1>2, <1>6, <3>1, MovesFile
    <3>3. LessBusy
      BY <3>1 DEF LessBusy, Busy, Thread
    <3>. QED  BY <3>1, <3>2, <3>3
  <2>. QED  BY <1>8, <2>1, <2>2
<1>9. /\ ResourceInv'
      /\ from # "exit" => Goto(t, to) /\ ended' = ended
      /\ from = "exit" => UNCHANGED stack /\ ended' \in {"exit", "handler"}
  <2>1. Goto(t, to) \/ (from = to /\ UNCHANGED stack) =>
           /\ Level(Main, 1)' = Level(Main, 1)
           /\ \A labels \in SUBSET TermLabels : Ending(labels)' <=> to \in labels
    BY <1>8
  <2>2. to = IF from = "exit" THEN "exit" ELSE After[from]
    BY DEF to
  <2>. QED  BY <1>1, <1>2, <1>6, <1>7, <2>1, <2>2, HandlerReleases
<1>10. /\ StackInv' /\ SameInside /\ SameNewLine /\ LessBusy
       /\ \A u \in Thread : Depth(u)' = Depth(u) /\ Depth(u) \in Nat
       /\ Level(Main, 1)' = Level(Main, 1)
       /\ SameAbove(TermLabels)
       /\ \A labels \in SUBSET TermLabels :
            /\ Ending(labels)' <=> to \in labels
            /\ EndingMain(labels)' <=> t = Main /\ to \in labels
  <2>1. Goto(t, to) \/ (from = to /\ UNCHANGED stack)
    BY <1>9 DEF to
  <2>. QED  BY <1>8, <2>1
<1>11. SignalInv'
  <2>1. /\ handlers' => Level(Main, 1)' \in ServerLabels
        /\ ~ told' => ~ Ending(TermLabels)'
    BY <1>1, <1>10, AboveEnding DEF SignalInv
  <2>2. \A u, v \in Thread : \A i \in 2 .. Depth(u)', j \in 2 .. Depth(v)' :
          Level(u, i)' \in TermLabels /\ Level(v, j)' \in TermLabels => u = v /\ i = j
    BY <1>10 DEF SignalInv, SameAbove
  <2>3. ~ handlers' => \A u \in Thread : Depth(u)' < 2
    BY <1>1, <1>10 DEF SignalInv
  <2>4. ended' = "handler" => Ending({"exit"})'
    <3>1. {"exit"} \in SUBSET TermLabels
      BY DEF TermLabels
    <3>. QED  BY <1>3, <1>9, <1>10, <3>1 DEF to
  <2>. QED  BY <2>1, <2>2, <2>3, <2>4 DEF SignalInv
<1>12. FileInv'
  BY <1>1, <1>10, SameFile
<1>13. ServeInv'
  <2>1. /\ {"freeall_joining", "freeall_remove", "freeall_removing"} \in SUBSET TermLabels
        /\ {"freeall_remove", "freeall_removing"} \in SUBSET TermLabels
        /\ {"close", "freeaddrinfo", "remove", "exit"} \in SUBSET TermLabels
    BY DEF TermLabels
  <2>2. /\ ~ Ending({"freeall_joining", "freeall_remove", "freeall_removing"})'
        /\ ~ EndingMain({"freeall_remove", "freeall_removing"})'
        /\ EndingMain({"close", "freeaddrinfo", "remove", "exit"})'
             => EndingMain({"close", "freeaddrinfo", "remove", "exit"})
    BY <1>4, <1>6, <1>7, <1>10, <2>1
  <2>3. EndingClient => EndingClient'
    BY <1>10 DEF EndingClient, SameAbove, Thread
  <2>. QED  BY <1>1, <1>10, <2>2, <2>3, SameServe
<1>. QED  BY <1>5, <1>9, <1>10, <1>11, <1>12, <1>13

LEMMA CleanUpStep == ASSUME IInv, NEW t \in Thread, CleanUp(t) PROVE IInv'
<1>1. PICK from \in DOMAIN After \cup {"exit"} : At(t, from)
  BY CleanUpGoto
<1>2. Depth(t) \in Nat /\ Depth(t) > 0 /\ Level(t, Depth(t)) = from
  BY <1>1, TopLevel DEF IInv
<1>3. CASE Depth(t) = 1
  <2>1. Fits(t, 1, from)
    BY <1>2, <1>3, StackFits DEF IInv
  <2>2. t = Main
    BY <2>1 DEF Fits, After, HandlerLabels
  <2>. QED  BY <1>3, <2>2, CleanUpMain
<1>4. CASE Depth(t) > 1
  BY <1>4, CleanUpHandler
<1>. QED  BY <1>2, <1>3, <1>4

-----------------------------------------------------------------------------
(* Steps of a thread that accepts, serves or ends: what is to be released  *)
(* stays.                                                                  *)
LEMMA SameResources ==
  ASSUME ResourceInv, UNCHANGED <<failed, resources>>,
         data_file' \in {data_file, AfterOpen},
         \/ Level(Main, 1)' = Level(Main, 1)
         \/ Level(Main, 1) \in ServerLabels /\ Level(Main, 1)' \in ServerLabels,
         Ending({"freeaddrinfo", "remove", "exit"})'
           <=> Ending({"freeaddrinfo", "remove", "exit"}),
         Ending({"remove", "exit"})' <=> Ending({"remove", "exit"}),
         Ending({"exit"})' <=> Ending({"exit"})
  PROVE  ResourceInv'
<1> USE DEF resources
<1>1. data_file \in {"removed", "remade"} => data_file' \in {"removed", "remade"}
  BY DEF AfterOpen
<1>2. CASE Level(Main, 1)' = Level(Main, 1)
  BY <1>1, <1>2 DEF ResourceInv, Unlistening
<1>3. CASE Level(Main, 1) \in ServerLabels /\ Level(Main, 1)' \in ServerLabels
  <2>1. Level(Main, 1) \in BoundLabels
    BY <1>3 DEF BoundLabels
  <2>2. /\ server_socket_fd = "socket"
        /\ ~ Ending({"freeaddrinfo", "remove", "exit"}) => "socket" \in open_fds
        /\ ~ Ending({"remove", "exit"}) => server_address_info = "live"
        /\ Ending({"freeaddrinfo", "remove", "exit"}) => "socket" \notin open_fds
        /\ Ending({"remove", "exit"}) => server_address_info = "freed"
        /\ Ending({"exit"}) => data_file \in {"removed", "remade"}
        /\ "freed_twice" \in misused => failed \in {"socket", "bind", "listen"}
        /\ "closed_twice" \in misused => Unlistening
        /\ "stdin_closed" \in misused => failed \in {"getaddrinfo", "socket"}
    BY <2>1 DEF ResourceInv
  <2>3. Level(Main, 1)' \notin {"getaddrinfo", "socket"} \cup DOMAIN After \cup {"exit"}
    BY <1>3 DEF ServerLabels, After
  <2>. QED  BY <1>1, <1>3, <2>2, <2>3 DEF ResourceInv, Unlistening, After
<1>. QED  BY <1>2, <1>3

LEMMA OwnStep ==
  ASSUME IInv, NEW t \in Thread, NEW from, NEW to, At(t, from), Goto(t, to),
         Depth(t) = 1, UNCHANGED <<process, signals>>,
         \/ t = Main /\ from \in ServerLabels /\ to \in ServerLabels
         \/ t \in Conn /\ to \in HandlerLabels
  PROVE  /\ StackInv' /\ FlagInv' /\ SignalInv' /\ ResourceInv' /\ Moves(t, to)
         /\ Level(t, 1) = from /\ Level(t, 1)' = to
         /\ \A u \in Thread : Depth(u)' = Depth(u) /\ Depth(u) \in Nat
         /\ \A u \in Thread \ {t} : Depth(u) > 0 => Level(u, 1)' = Level(u, 1)
         /\ \A labels : /\ Ending(labels)' <=> Ending(labels)
                        /\ EndingMain(labels)' <=> EndingMain(labels)
         /\ EndingClient' <=> EndingClient
         /\ t = Main => \A labels : ~ EndingMain(labels)
<1> USE DEF IInv
<1>1. Main \in Thread /\ Depth(Main) > 0
  BY DEF Thread, StackInv
<1>2. Level(t, 1) = from /\ ended = "no"
  BY TopLevel
<1>3. Fits(t, Depth(t), to)
  BY ThreadAssumption DEF Fits, ServerLabels, MainLabels
<1>4. StackInv' /\ Moves(t, to)
  BY <1>3, GotoStack
<1>5. /\ \A u \in Thread : Depth(u)' = Depth(u) /\ Depth(u) \in Nat
      /\ \A u \in Thread \ {t} : Depth(u) > 0 => Level(u, 1)' = Level(u, 1)
      /\ Level(t, 1)' = to
  BY <1>4, DepthType DEF Moves, LevelsKept
<1>6. ASSUME NEW labels PROVE SameAbove(labels)
  BY <1>4, MovesAbove
<1>7. /\ \A labels : /\ Ending(labels)' <=> Ending(labels)
                     /\ EndingMain(labels)' <=> EndingMain(labels)
  BY <1>6, AboveEnding
<1>8. EndingClient' <=> EndingClient
  BY <1>6 DEF EndingClient, SameAbove, Thread
<1>9. \/ Level(Main, 1)' = Level(Main, 1)
      \/ Level(Main, 1) \in ServerLabels /\ Level(Main, 1)' \in ServerLabels
  BY <1>1, <1>2, <1>5, ThreadAssumption
<1>10. ResourceInv'
  BY <1>7, <1>9, SameResources DEF process
<1>11. SignalInv'
  BY <1>2, <1>5, <1>6, <1>9, SameSignals DEF process, signals
<1>12. FlagInv'
  BY DEF FlagInv, signals
<1>13. t = Main => \A labels : ~ EndingMain(labels)
  BY DEF EndingMain
<1>. QED  BY <1>2, <1>4, <1>5, <1>7, <1>8, <1>10, <1>11, <1>12, <1>13

LEMMA HandlerStep ==
  ASSUME IInv, NEW t \in Thread, NEW from \in TermLabels, NEW to \in TermLabels,
         At(t, from), Goto(t, to), Depth(t) > 1,
         UNCHANGED <<process, signals, file_mutex, tail>>,
         from \notin {"freeaddrinfo", "remove", "exit"},
         to \notin {"freeaddrinfo", "remove", "exit"}
  PROVE  /\ StackInv' /\ FlagInv' /\ SignalInv' /\ ResourceInv' /\ FileInv'
         /\ LessBusy
         /\ Level(Main, 1)' = Level(Main, 1)
         /\ \A labels \in SUBSET TermLabels :
              /\ Ending(labels) <=> from \in labels
              /\ EndingMain(labels) <=> t = Main /\ from \in labels
              /\ Ending(labels)' <=> to \in labels
              /\ EndingMain(labels)' <=> t = Main /\ to \in labels
         /\ EndingClient' <=> EndingClient
         /\ EndingClient <=> t # Main
<1> USE DEF IInv
<1>1. /\ StackInv' /\ Moves(t, to) /\ ended = "no"
      /\ \A u \in Thread : Depth(u)' = Depth(u) /\ Depth(u) \in Nat
      /\ \A u \in Thread : Depth(u) > 0 => Level(u, 1)' = Level(u, 1)
      /\ Level(Main, 1)' = Level(Main, 1) /\ Level(Main, 1) \in ServerLabels
      /\ SameAbove(TermLabels)
  BY EndingMoves
<1>2. \A labels \in SUBSET TermLabels :
        /\ Ending(labels) <=> from \in labels
        /\ EndingMain(labels) <=> t = Main /\ from \in labels
        /\ Ending(labels)' <=> to \in labels
        /\ EndingMain(labels)' <=> t = Main /\ to \in labels
  BY EndingMoves
<1>3. from \notin Written /\ to \notin Written
  BY DEF TermLabels, Written
<1>4. SameInside /\ SameNewLine
  BY <1>1, <1>3, MovesFile
<1>5. FileInv'
  BY <1>4, SameFile
<1>6. LessBusy
  BY <1>1 DEF LessBusy, Busy, Thread
<1>7. EndingClient' <=> EndingClient
  BY <1>1 DEF EndingClient, SameAbove, Thread
<1>8. EndingClient <=> t # Main
  <2>1. Ending(TermLabels) /\ (EndingMain(TermLabels) <=> t = Main)
    BY <1>2
  <2>2. CASE t = Main
    <3>1. PICK k \in 2 .. Depth(Main) : Level(Main, k) \in TermLabels
      BY <2>1, <2>2 DEF EndingMain
    <3>2. \A c \in Conn : \A l \in 2 .. Depth(c) :
            Level(c, l) \in TermLabels => c = Main
      BY <3>1 DEF SignalInv, Thread
    <3>. QED  BY <2>2, <3>2, ThreadAssumption DEF EndingClient
  <2>3. CASE t # Main
    BY <2>1, <2>3 DEF Ending, EndingMain, EndingClient, Thread
  <2>. QED  BY <2>2, <2>3
<1>9. ResourceInv'
  <2>1. /\ {"freeaddrinfo", "remove", "exit"} \in SUBSET TermLabels
        /\ {"remove", "exit"} \in SUBSET TermLabels
        /\ {"exit"} \in SUBSET TermLabels
    BY DEF TermLabels
  <2>2. /\ Ending({"freeaddrinfo", "remove", "exit"})'
           <=> Ending({"freeaddrinfo", "remove", "exit"})
        /\ Ending({"remove", "exit"})' <=> Ending({"remove", "exit"})
        /\ Ending({"exit"})' <=> Ending({"exit"})
    BY <1>2, <2>1
  <2>. QED  BY <1>1, <2>2, SameResources DEF process
<1>10. SignalInv'
  BY <1>1, SameSignals DEF process, signals
<1>11. FlagInv'
  BY DEF FlagInv, signals
<1>. QED  BY <1>1, <1>2, <1>5, <1>6, <1>7, <1>8, <1>9, <1>10, <1>11

-----------------------------------------------------------------------------
(* The mutexes.                                                            *)

LEMMA LockManagerStep == ASSUME IInv, NEW t \in Thread, LockManager(t) PROVE IInv'
<1> USE DEF IInv
<1>0. /\ UNCHANGED <<process, signals, file_mutex, list, tail>> /\ manager_mutex' = t
  BY DEF LockManager
<1>1. PICK from \in {"add", "remove_entry", "mark", "freeall_remove"} :
        At(t, from) /\ Goto(t, WantsManager[from])
  BY DEF LockManager, WantsManager
<1> DEFINE to == WantsManager[from]
<1>2. DataInv'
  BY <1>0 DEF DataInv, process, resources, list
<1>3. CASE from \in {"add", "remove_entry"}
  <2>1. Depth(t) = 1 /\ Level(t, 1) = from
    BY <1>1, <1>3, OwnLevel DEF TermLabels, AlarmLabels
  <2>2. t = Main
    <3>1. Fits(t, 1, from)
      BY <2>1, StackFits
    <3>. QED  BY <1>3, <3>1 DEF Fits, HandlerLabels
  <2>3. \/ from = "add" /\ to = "adding"
        \/ from = "remove_entry" /\ to = "removing"
    BY <1>3 DEF WantsManager
  <2> HIDE DEF to
  <2>4. /\ StackInv' /\ FlagInv' /\ SignalInv' /\ ResourceInv' /\ Moves(t, to)
        /\ Level(Main, 1)' = to
        /\ \A u \in Thread : Depth(u)' = Depth(u) /\ Depth(u) \in Nat
        /\ \A u \in Thread \ {t} : Depth(u) > 0 => Level(u, 1)' = Level(u, 1)
        /\ \A labels : /\ Ending(labels)' <=> Ending(labels)
                       /\ EndingMain(labels)' <=> EndingMain(labels)
        /\ EndingClient' <=> EndingClient
    BY <1>0, <1>1, <2>1, <2>2, <2>3, OwnStep DEF ServerLabels, to
  <2>5. SameInside /\ SameNewLine
    BY <1>1, <2>3, <2>4, MovesFile DEF Written
  <2>6. LessBusy
    BY <2>2, <2>4, ThreadAssumption DEF LessBusy, Busy, Thread
  <2>7. ServeInv'
    BY <1>0, <2>1, <2>2, <2>3, <2>4, <2>6, SameServe
  <2>8. FileInv'
    BY <1>0, <2>5, SameFile
  <2>. QED  BY <1>2, <2>4, <2>7, <2>8
<1>4. CASE from = "mark"
  <2>1. Depth(t) = 1 /\ Level(t, 1) = from
    BY <1>1, <1>4, OwnLevel DEF TermLabels, AlarmLabels
  <2>2. t \in Conn
    <3>1. Fits(t, 1, from)
      BY <2>1, StackFits
    <3>. QED  BY <1>4, <3>1 DEF Fits, MainLabels, After, Thread
  <2>3. to = "marking"
    BY <1>4 DEF WantsManager
  <2> HIDE DEF to
  <2>4. /\ StackInv' /\ FlagInv' /\ SignalInv' /\ ResourceInv' /\ Moves(t, to)
        /\ Level(t, 1)' = to
        /\ \A u \in Thread : Depth(u)' = Depth(u) /\ Depth(u) \in Nat
        /\ \A u \in Thread \ {t} : Depth(u) > 0 => Level(u, 1)' = Level(u, 1)
        /\ \A labels : /\ Ending(labels)' <=> Ending(labels)
                       /\ EndingMain(labels)' <=> EndingMain(labels)
        /\ EndingClient' <=> EndingClient
    BY <1>0, <1>1, <2>1, <2>2, <2>3, OwnStep DEF HandlerLabels, to
  <2>5. SameInside /\ SameNewLine
    BY <1>1, <1>4, <2>3, <2>4, MovesFile DEF Written
  <2>6. LessBusy
    BY <2>2, <2>3, <2>4, ThreadAssumption DEF LessBusy, Busy, Thread
  <2>7. Level(Main, 1)' = Level(Main, 1)
    BY <2>2, <2>4, ThreadAssumption DEF StackInv, Thread
  <2>8. ServeInv'
    BY <1>0, <2>4, <2>6, <2>7, SameServe
  <2>9. FileInv'
    BY <1>0, <2>5, SameFile
  <2>. QED  BY <1>2, <2>4, <2>8, <2>9
<1>5. CASE from = "freeall_remove"
  <2>1. Depth(t) > 1
    BY <1>1, <1>5, HandlerLevel DEF MainLabels, HandlerLabels, After
  <2>2. to = "freeall_removing" /\ to \in TermLabels /\ from \in TermLabels
    BY <1>5 DEF WantsManager, TermLabels
  <2> HIDE DEF to
  <2>3. /\ StackInv' /\ FlagInv' /\ SignalInv' /\ ResourceInv' /\ FileInv'
        /\ LessBusy
        /\ Level(Main, 1)' = Level(Main, 1)
        /\ \A labels \in SUBSET TermLabels :
             /\ Ending(labels) <=> from \in labels
             /\ EndingMain(labels) <=> t = Main /\ from \in labels
             /\ Ending(labels)' <=> to \in labels
             /\ EndingMain(labels)' <=> t = Main /\ to \in labels
        /\ EndingClient' <=> EndingClient
    BY <1>0, <1>1, <1>5, <2>1, <2>2, HandlerStep DEF to
  <2>4. /\ {"freeall_joining", "freeall_remove", "freeall_removing"} \in SUBSET TermLabels
        /\ {"freeall_remove", "freeall_removing"} \in SUBSET TermLabels
        /\ {"close", "freeaddrinfo", "remove", "exit"} \in SUBSET TermLabels
    BY DEF TermLabels
  <2>5. /\ Ending({"freeall_joining", "freeall_remove", "freeall_removing"})
        /\ EndingMain({"freeall_remove", "freeall_removing"})'
             => EndingMain({"freeall_remove", "freeall_removing"})
        /\ ~ EndingMain({"close", "freeaddrinfo", "remove", "exit"})'
    BY <1>5, <2>2, <2>3, <2>4
  <2>6. ServeInv'
    BY <1>0, <2>3, <2>5, SameServe
  <2>. QED  BY <1>2, <2>3, <2>6
<1>. QED  BY <1>1, <1>3, <1>4, <1>5

(* While nobody is inside, the file ends in no packet.                     *)
LEMMA NoTail ==
  ASSUME StackInv, DataInv, FileInv, NEW t \in Thread \cup {NoThread},
         file_mutex = t, t \in Thread => ~ Inside(t, 1)
  PROVE  tail \notin Thread
<1>1. ASSUME NEW u \in Thread, tail = u PROVE FALSE
  <2>1. Depth(u) \in Nat /\ Depth(u) > 0 /\ Level(u, 1) = "newline"
    BY <1>1, DepthType DEF FileInv
  <2>2. Inside(u, 1)
    BY <2>1 DEF Inside
  <2>3. file_mutex = u
    BY <2>2 DEF FileInv
  <2>. QED  BY <2>2, <2>3
<1>. QED  BY <1>1

(* A step of the handler that writes a timestamp: it may end a client that *)
(* receives, and else concerns the data file only.                         *)
LEMMA StampStep ==
  ASSUME IInv, StackInv', ended = "no", LessBusy,
         UNCHANGED <<ended, failed, resources, signals, list>>,
         data_file' \in {data_file, AfterOpen},
         Level(Main, 1)' = Level(Main, 1),
         \A labels \in SUBSET TermLabels : SameAbove(labels),
         ~ handlers => \A u \in Thread : Depth(u)' < 2
  PROVE  FlagInv' /\ SignalInv' /\ ResourceInv' /\ ServeInv'
<1> USE DEF IInv
<1>1. \A labels \in SUBSET TermLabels :
        /\ Ending(labels)' <=> Ending(labels)
        /\ EndingMain(labels)' <=> EndingMain(labels)
  BY AboveEnding
<1>2. FlagInv'
  BY DEF FlagInv, signals
<1>3. SignalInv'
  <2>1. /\ handlers' => Level(Main, 1)' \in ServerLabels
        /\ ~ told' => ~ Ending(TermLabels)'
    BY <1>1 DEF SignalInv, signals
  <2>2. ~ handlers' => \A u \in Thread : Depth(u)' < 2
    BY DEF signals
  <2>3. \A u, v \in Thread : \A i \in 2 .. Depth(u)', j \in 2 .. Depth(v)' :
          Level(u, i)' \in TermLabels /\ Level(v, j)' \in TermLabels => u = v /\ i = j
    BY DEF SignalInv, SameAbove
  <2>4. ended' # "handler"
    OBVIOUS
  <2>. QED  BY <2>1, <2>2, <2>3, <2>4 DEF SignalInv
<1>4. /\ {"freeall_joining", "freeall_remove", "freeall_removing"} \in SUBSET TermLabels
      /\ {"freeall_remove", "freeall_removing"} \in SUBSET TermLabels
      /\ {"close", "freeaddrinfo", "remove", "exit"} \in SUBSET TermLabels
      /\ {"freeaddrinfo", "remove", "exit"} \in SUBSET TermLabels
      /\ {"remove", "exit"} \in SUBSET TermLabels
      /\ {"exit"} \in SUBSET TermLabels
  BY DEF TermLabels
<1>5. ResourceInv'
  BY <1>1, <1>4, SameResources
<1>6. EndingClient => EndingClient'
  BY DEF EndingClient, SameAbove, Thread
<1>7. ServeInv'
  <2>1. /\ Ending({"freeall_joining", "freeall_remove", "freeall_removing"})'
           => Ending({"freeall_joining", "freeall_remove", "freeall_removing"})
        /\ EndingMain({"freeall_remove", "freeall_removing"})'
           => EndingMain({"freeall_remove", "freeall_removing"})
        /\ EndingMain({"close", "freeaddrinfo", "remove", "exit"})'
           => EndingMain({"close", "freeaddrinfo", "remove", "exit"})
    BY <1>1, <1>4
  <2>. QED  BY <1>6, <2>1, SameServe
<1>. QED  BY <1>2, <1>3, <1>5, <1>7

LEMMA LockFileStep == ASSUME IInv, NEW t \in Thread, LockFile(t) PROVE IInv'
<1> USE DEF IInv
<1>0. /\ UNCHANGED <<process, signals, manager_mutex, list, tail>> /\ file_mutex' = t
      /\ file_mutex = NoThread
  BY DEF LockFile, Free
<1>1. PICK from \in {"lock", "timestamp"} : At(t, from) /\ Goto(t, WantsFile[from])
  BY DEF LockFile, WantsFile
<1>2. DataInv'
  BY <1>0 DEF DataInv, process, resources, list
<1>3. \A u \in Thread : \A k \in Nat : ~ Inside(u, k)
  BY <1>0, ThreadAssumption DEF FileInv, Thread
<1>4. tail' \notin Thread
  BY <1>0, ThreadAssumption, NoTail DEF Thread
<1>5. ASSUME NEW to, Moves(t, to) PROVE FileInv'
  <2>1. /\ \A u \in Thread : Depth(u)' = Depth(u) /\ Depth(u) \in Nat
        /\ \A u \in Thread : \A k \in 1 .. Depth(u) :
             Level(u, k)' = IF u = t /\ k = Depth(u) THEN to ELSE Level(u, k)
    BY <1>5, DepthType DEF Moves, LevelsKept
  <2>2. \A u \in Thread : \A k \in Nat : Inside(u, k)' => u = t /\ k = Depth(t)
    BY <1>3, <2>1 DEF Inside
  <2>. QED  BY <1>0, <1>4, <2>2 DEF FileInv
<1>6. CASE from = "lock"
  <2>1. Depth(t) = 1 /\ Level(t, 1) = from
    BY <1>1, <1>6, OwnLevel DEF TermLabels, AlarmLabels
  <2>2. t \in Conn
    <3>1. Fits(t, 1, from)
      BY <2>1, StackFits
    <3>. QED  BY <1>6, <3>1 DEF Fits, MainLabels, After, Thread
  <2>3. Goto(t, "body")
    BY <1>1, <1>6 DEF WantsFile
  <2>4. /\ StackInv' /\ FlagInv' /\ SignalInv' /\ ResourceInv' /\ Moves(t, "body")
        /\ \A u \in Thread : Depth(u)' = Depth(u) /\ Depth(u) \in Nat
        /\ \A u \in Thread \ {t} : Depth(u) > 0 => Level(u, 1)' = Level(u, 1)
        /\ \A labels : /\ Ending(labels)' <=> Ending(labels)
                       /\ EndingMain(labels)' <=> EndingMain(labels)
        /\ EndingClient' <=> EndingClient
    BY <1>0, <1>1, <2>1, <2>2, <2>3, OwnStep DEF HandlerLabels
  <2>6. LessBusy
    BY <1>6, <2>1, <2>2, <2>4, ThreadAssumption DEF LessBusy, Busy, Thread
  <2>7. Level(Main, 1)' = Level(Main, 1)
    BY <2>2, <2>4, ThreadAssumption DEF StackInv, Thread
  <2>8. ServeInv'
    BY <1>0, <2>4, <2>6, <2>7, SameServe
  <2>. QED  BY <1>2, <1>5, <2>4, <2>8
<1>7. CASE from = "timestamp"
  <2>1. Depth(t) > 1
    BY <1>1, <1>7, HandlerLevel DEF MainLabels, HandlerLabels, After
  <2>2. Goto(t, "timestamp_write")
    BY <1>1, <1>7 DEF WantsFile
  <2>3. StackInv' /\ Moves(t, "timestamp_write")
    BY <1>1, <2>1, <2>2, GotoStack DEF Fits, AlarmLabels
  <2>4. /\ \A u \in Thread : Depth(u)' = Depth(u) /\ Depth(u) \in Nat
        /\ \A u \in Thread : Depth(u) > 0 => Level(u, 1)' = Level(u, 1)
    BY <2>1, <2>3, DepthType DEF Moves, LevelsKept
  <2>5. Level(Main, 1)' = Level(Main, 1) /\ ended = "no"
    BY <1>1, <2>4, TopLevel DEF StackInv, Thread
  <2>6. ASSUME NEW labels \in SUBSET TermLabels PROVE SameAbove(labels)
    <3>1. from \notin labels /\ "timestamp_write" \notin labels
      BY <1>7 DEF TermLabels
    <3>. QED  BY <1>1, <2>3, <3>1, MovesAbove
  <2>7. LessBusy
    BY <2>4 DEF LessBusy, Busy, Thread
  <2>8. ~ handlers => \A u \in Thread : Depth(u)' < 2
    BY <2>4 DEF SignalInv
  <2>9. FlagInv' /\ SignalInv' /\ ResourceInv' /\ ServeInv'
    BY <1>0, <2>3, <2>5, <2>6, <2>7, <2>8, StampStep DEF process
  <2>. QED  BY <1>2, <1>5, <2>3, <2>9
<1>. QED  BY <1>1, <1>6, <1>7

-----------------------------------------------------------------------------
(* accept_connections.                                                     *)

LEMMA AcceptStack ==
  ASSUME StackInv, NEW c \in Conn, At(Main, "accept"), stack[c] = << >>,
         stack' = [stack EXCEPT ![Main] = <<"add">> \o Tail(@), ![c] = <<"recv">>]
  PROVE  /\ StackInv'
         /\ \A u \in Thread : Depth(u)' \in Nat /\ Depth(u) \in Nat
         /\ Depth(Main) = 1 /\ Level(Main, 1) = "accept"
         /\ Depth(Main)' = 1 /\ Level(Main, 1)' = "add"
         /\ Depth(c) = 0 /\ Depth(c)' = 1 /\ Level(c, 1)' = "recv"
         /\ \A u \in Thread \ {Main, c} : LevelsKept(u)
<1>1. Main \in Thread /\ c \in Thread /\ c # Main
  BY ThreadAssumption DEF Thread
<1>2. Depth(Main) = 1 /\ Level(Main, 1) = "accept"
  BY <1>1, OwnLevel DEF TermLabels, AlarmLabels
<1>3. stack[Main] \in Seq(Labels) /\ Len(stack[Main]) = 1
  BY <1>1, <1>2 DEF StackInv, Depth
<1>4. PICK r : r = <<"add">> \o Tail(stack[Main])
  OBVIOUS
<1>12. r \in Seq(Labels) /\ Len(r) = 1 /\ r[1] = "add"
  <2>1. PICK s : s = stack[Main]
    OBVIOUS
  <2>2. s \in Seq(Labels) /\ Len(s) = 1
    BY <1>3, <2>1
  <2>3. Tail(s) \in Seq(Labels) /\ Len(Tail(s)) = Len(s) - 1
    BY <2>2
  <2>4. Tail(s) \in Seq(Labels) /\ Len(Tail(s)) = 0
    BY <2>2, <2>3
  <2>5. "add" \in Labels
    BY DEF Labels, MainLabels
  <2>6. <<"add">> \o Tail(s) \in Seq(Labels) /\ Len(<<"add">> \o Tail(s)) = 1
        /\ (<<"add">> \o Tail(s))[1] = "add"
    BY <2>4, <2>5
  <2>. QED  BY <1>4, <2>1, <2>6
<1>5. /\ stack'[Main] = r /\ stack'[c] = <<"recv">>
      /\ \A u \in Thread \ {Main, c} : stack'[u] = stack[u]
  BY <1>1, <1>4 DEF StackInv
<1>6. <<"recv">> \in Seq(Labels)
  <2>1. "recv" \in Labels
    BY DEF Labels, HandlerLabels
  <2>. QED  BY <2>1
<1>7. stack' \in [Thread -> Seq(Labels)]
  BY <1>1, <1>4, <1>6, <1>12 DEF StackInv
<1>8. /\ Depth(Main)' = 1 /\ Level(Main, 1)' = "add"
      /\ Depth(c) = 0 /\ Depth(c)' = 1 /\ Level(c, 1)' = "recv"
      /\ \A u \in Thread \ {Main, c} : LevelsKept(u)
  <2>1. Depth(Main)' = 1 /\ Level(Main, 1)' = "add"
    BY <1>5, <1>12 DEF Depth, Level
  <2>2. Depth(c) = 0 /\ Depth(c)' = 1 /\ Level(c, 1)' = "recv"
    <3>1. Len(<< >>) = 0 /\ Len(<<"recv">>) = 1 /\ <<"recv">>[1] = "recv"
      OBVIOUS
    <3>2. Depth(c) = 0 /\ Depth(c)' = 1
      BY <1>5, <3>1 DEF Depth
    <3>3. Level(c, 1)' = "recv"
      <4>1. PICK q : q = <<"recv">>
        OBVIOUS
      <4>2. Len(q) = 1 /\ q[1] = "recv" /\ stack'[c] = q
        BY <1>5, <3>1, <4>1
      <4>3. Len(q) + 1 - 1 = 1
        BY <4>2
      <4>. QED  BY <4>2, <4>3 DEF Level
    <3>. QED  BY <3>2, <3>3
  <2>3. \A u \in Thread \ {Main, c} : LevelsKept(u)
    BY <1>5 DEF Depth, Level, LevelsKept
  <2>. QED  BY <2>1, <2>2, <2>3
<1>9. \A u \in Thread : Depth(u)' \in Nat /\ Depth(u) \in Nat
  BY <1>8, DepthType DEF LevelsKept
<1>10. \A u \in Thread : \A k \in 1 .. Depth(u)' : Fits(u, k, Level(u, k)')
  <2>1. \A u \in Thread \ {Main, c} : \A k \in 1 .. Depth(u)' : Fits(u, k, Level(u, k)')
    BY <1>8, StackFits DEF LevelsKept
  <2>2. Fits(Main, 1, Level(Main, 1)') /\ Fits(c, 1, Level(c, 1)')
    BY <1>1, <1>8 DEF Fits, MainLabels, HandlerLabels
  <2>. QED  BY <1>8, <2>1, <2>2
<1>11. StackInv'
  <2>1. Depth(Main)' > 0
    BY <1>8
  <2>2. \A u \in Thread : Depth(u)' \in Nat
    BY <1>9
  <2>. QED  BY <1>7, <1>10, <2>1, <2>2, StackFromLevels
<1>. QED  BY <1>2, <1>8, <1>9, <1>11

LEMMA AcceptStep == ASSUME IInv, NEW c \in Conn, Accept(c) PROVE IInv'
<1> USE DEF IInv
<1>0. /\ At(Main, "accept") /\ stack[c] = << >>
      /\ stack' = [stack EXCEPT ![Main] = <<"add">> \o Tail(@), ![c] = <<"recv">>]
      /\ target' = c /\ is_complete' = is_complete \ {c} /\ data_file' = AfterOpen
      /\ UNCHANGED <<ended, failed, resources, signals, manager_mutex, file_mutex,
                     thread_manager, walk, current_entry, tail>>
      /\ ended = "no"
  BY DEF Accept, mutexes, At
<1>1. Main \in Thread /\ c \in Thread /\ c # Main
  BY ThreadAssumption DEF Thread
<1>2. /\ StackInv'
      /\ \A u \in Thread : Depth(u)' \in Nat /\ Depth(u) \in Nat
      /\ Depth(Main) = 1 /\ Level(Main, 1) = "accept"
      /\ Depth(Main)' = 1 /\ Level(Main, 1)' = "add"
      /\ Depth(c) = 0 /\ Depth(c)' = 1 /\ Level(c, 1)' = "recv"
      /\ \A u \in Thread \ {Main, c} : LevelsKept(u)
  BY <1>0, AcceptStack
<1>3. data_file' \in {"absent", "present", "removed", "remade"}
  BY <1>0 DEF AfterOpen, DataInv
<1>4. DataInv'
  BY <1>0, <1>3 DEF DataInv, resources
<1>5. FlagInv'
  BY <1>0 DEF FlagInv, signals
<1>6. ASSUME NEW labels PROVE SameAbove(labels)
  BY <1>1, <1>2 DEF SameAbove, LevelsKept
<1>7. /\ \A labels : /\ Ending(labels)' <=> Ending(labels)
                     /\ EndingMain(labels)' <=> EndingMain(labels)
  BY <1>6, AboveEnding
<1>8. Level(Main, 1) \in ServerLabels /\ Level(Main, 1)' \in ServerLabels
  BY <1>2 DEF ServerLabels
<1>9. SignalInv'
  <2>1. \A u \in Thread : Depth(u)' <= Depth(u) \/ Depth(u)' < 2
    BY <1>2 DEF LevelsKept
  <2>. QED  BY <1>0, <1>2, <1>6, <1>8, <2>1, SameSignals DEF signals
<1>10. ResourceInv'
  BY <1>0, <1>7, <1>8, SameResources
<1>11. FileInv'
  <2>1. SameInside
    BY <1>1, <1>2 DEF SameInside, Inside, LevelsKept
  <2>2. SameNewLine
    BY <1>1, <1>2 DEF SameNewLine, LevelsKept
  <2>. QED  BY <1>0, <2>1, <2>2, SameFile
<1>12. ServeInv'
  <2>1. /\ \A d \in Conn \ {c} : Busy(d)' => Busy(d)
        /\ ~ Busy(c)
    BY <1>2, ThreadAssumption DEF Busy, LevelsKept, Thread
  <2>2. \A labels : ~ EndingMain(labels) /\ ~ EndingMain(labels)'
    BY <1>2, <1>7 DEF EndingMain
  <2>3. EndingClient => EndingClient'
    BY <1>6 DEF EndingClient, SameAbove, Thread
  <2>4. \A d \in is_complete' : ~ Busy(d)'
    BY <1>0, <2>1 DEF ServeInv, DataInv
  <2>5. /\ Level(Main, 1)' \notin {"joining", "remove_entry", "removing"}
        /\ target' # NoThread
    BY <1>0, <1>2, ThreadAssumption
  <2>6. Ending({"freeall_joining", "freeall_remove", "freeall_removing"})'
          => current_entry' # NoThread
    BY <1>0, <1>7 DEF ServeInv
  <2>7. \/ EndingClient'
        \/ \A d \in Conn : Busy(d)' =>
             \/ d \in Range(thread_manager)'
             \/ d = target' /\ Level(Main, 1)' \in {"add", "adding"}
    BY <1>0, <1>2, <2>1, <2>3 DEF ServeInv
  <2>. QED  BY <2>2, <2>4, <2>5, <2>6, <2>7 DEF ServeInv
<1>. QED  BY <1>2, <1>4, <1>5, <1>9, <1>10, <1>11, <1>12

(* What the main thread does with the list, in its own code.               *)
LEMMA ListStep ==
  ASSUME IInv, NEW from \in ServerLabels, NEW to \in ServerLabels, At(Main, from),
         Goto(Main, to), UNCHANGED <<process, signals, file_mutex, tail>>
  PROVE  /\ StackInv' /\ FlagInv' /\ SignalInv' /\ ResourceInv' /\ FileInv'
         /\ \A c \in Conn : Busy(c)' <=> Busy(c)
         /\ Level(Main, 1) = from /\ Level(Main, 1)' = to
         /\ \A labels : /\ ~ EndingMain(labels) /\ ~ EndingMain(labels)'
                        /\ Ending(labels)' <=> Ending(labels)
         /\ EndingClient' <=> EndingClient
<1> USE DEF IInv
<1>1. Main \in Thread
  BY DEF Thread
<1>2. Depth(Main) = 1
  BY <1>1, OwnLevel DEF TermLabels, AlarmLabels, ServerLabels
<1>3. /\ StackInv' /\ FlagInv' /\ SignalInv' /\ ResourceInv' /\ Moves(Main, to)
      /\ Level(Main, 1) = from /\ Level(Main, 1)' = to
      /\ \A u \in Thread : Depth(u)' = Depth(u) /\ Depth(u) \in Nat
      /\ \A u \in Thread \ {Main} : Depth(u) > 0 => Level(u, 1)' = Level(u, 1)
      /\ \A labels : /\ Ending(labels)' <=> Ending(labels)
                     /\ EndingMain(labels)' <=> EndingMain(labels)
      /\ EndingClient' <=> EndingClient
      /\ \A labels : ~ EndingMain(labels)
  BY <1>1, <1>2, OwnStep
<1>4. SameInside /\ SameNewLine
  BY <1>1, <1>3, MovesFile DEF Written, ServerLabels
<1>5. FileInv'
  BY <1>4, SameFile
<1>6. \A c \in Conn : Busy(c)' <=> Busy(c)
  BY <1>3, ThreadAssumption DEF Busy, Thread
<1>. QED  BY <1>3, <1>5, <1>6

LEMMA AddStep == ASSUME IInv, Add PROVE IInv'
<1> USE DEF IInv
<1>0. /\ At(Main, "adding") /\ Goto(Main, "scan")
      /\ thread_manager' = <<target>> \o thread_manager
      /\ target' = NoThread /\ walk' = thread_manager' /\ manager_mutex' = NoThread
      /\ UNCHANGED <<process, signals, file_mutex, is_complete, current_entry, tail>>
  BY DEF Add, UnlockManager
<1>1. /\ StackInv' /\ FlagInv' /\ SignalInv' /\ ResourceInv' /\ FileInv'
      /\ \A c \in Conn : Busy(c)' <=> Busy(c)
      /\ Level(Main, 1) = "adding" /\ Level(Main, 1)' = "scan"
      /\ \A labels : /\ ~ EndingMain(labels) /\ ~ EndingMain(labels)'
                     /\ Ending(labels)' <=> Ending(labels)
      /\ EndingClient' <=> EndingClient
  BY <1>0, ListStep DEF ServerLabels
<1>2. target \in Conn
  BY <1>1 DEF ServeInv, DataInv
<1>3. /\ thread_manager' \in Seq(Conn)
      /\ Range(thread_manager') = {target} \cup Range(thread_manager)
  <2> DEFINE s == thread_manager
             r == <<target>> \o s
  <2>1. s \in Seq(Conn) /\ Len(s) \in Nat
    BY DEF DataInv
  <2>2. r \in Seq(Conn) /\ Len(r) = Len(s) + 1
        /\ \A i \in 1 .. Len(s) + 1 : r[i] = IF i = 1 THEN target ELSE s[i - 1]
    BY <1>2, <2>1
  <2>3. DOMAIN r = 1 .. Len(s) + 1 /\ DOMAIN s = 1 .. Len(s)
    BY <2>1, <2>2
  <2> HIDE DEF r, s
  <2>4. r[1] = target /\ \A i \in 1 .. Len(s) : i + 1 \in 1 .. Len(s) + 1 /\ r[i + 1] = s[i]
    BY <2>1, <2>2
  <2>5. {r[i] : i \in 1 .. Len(s) + 1} = {target} \cup {s[i] : i \in 1 .. Len(s)}
    <3>1. \A i \in 1 .. Len(s) + 1 : i = 1 \/ i - 1 \in 1 .. Len(s)
      BY <2>1
    <3>. QED  BY <2>1, <2>2, <2>4, <3>1
  <2>6. Range(r) = {target} \cup Range(s)
    BY <2>3, <2>5 DEF Range
  <2>. QED  BY <1>0, <2>2, <2>6 DEF r, s
<1>4. DataInv'
  BY <1>0, <1>3 DEF DataInv, process, resources
<1>5. ServeInv'
  <2>1. \A c \in is_complete' : ~ Busy(c)'
    BY <1>0, <1>1 DEF ServeInv, DataInv
  <2>2. \/ EndingClient'
        \/ \A c \in Conn : Busy(c)' => c \in Range(thread_manager')
    BY <1>1, <1>3 DEF ServeInv
  <2>3. Ending({"freeall_joining", "freeall_remove", "freeall_removing"})'
          => current_entry' # NoThread
    BY <1>0, <1>1 DEF ServeInv
  <2>. QED  BY <1>1, <2>1, <2>2, <2>3 DEF ServeInv
<1>. QED  BY <1>1, <1>4, <1>5

-----------------------------------------------------------------------------
(* What the helpers on sequences return.                                   *)

LEMMA LeastIndex ==
  ASSUME NEW I \in SUBSET Nat, I # {} PROVE Min(I) \in I
<1> DEFINE R == {ss \in Nat \X Nat : ss[1] < ss[2]}
<1>1. IsWellFoundedOn(R, Nat)
  BY NatLessThanWellFounded DEF OpToRel
<1>2. PICK n \in I : \A m \in I : ~ (<<m, n>> \in R)
  <2> HIDE DEF R
  <2>. QED  BY <1>1, WFMin
<1>3. ASSUME NEW m \in I PROVE n <= m
  <2>1. n \in Nat /\ m \in Nat /\ ~ (<<m, n>> \in R)
    BY <1>2
  <2>2. ~ (m < n)
    BY <2>1
  <2>. QED  BY <2>1, <2>2
<1>. QED  BY <1>3 DEF Min

LEMMA SelectedCompleted ==
  ASSUME NEW S, NEW s \in Seq(S), NEW T
  PROVE  LET next == SelectInSeq(s, LAMBDA e : e \in T)
         IN  next = 0 \/ (next \in 1 .. Len(s) /\ s[next] \in T)
<1> DEFINE I == {i \in 1 .. Len(s) : s[i] \in T}
<1>1. I \in SUBSET Nat
  OBVIOUS
<1>2. SelectInSeq(s, LAMBDA e : e \in T) = IF I # {} THEN Min(I) ELSE 0
  BY DEF SelectInSeq
<1>3. I # {} => Min(I) \in I
  BY <1>1, LeastIndex
<1>. QED  BY <1>2, <1>3

(* A concatenation is one sequence and then the other.                     *)
LEMMA ConcatValue ==
  ASSUME NEW S, NEW a \in Seq(S), NEW b \in Seq(S)
  PROVE  /\ a \o b \in Seq(S)
         /\ Len(a \o b) = Len(a) + Len(b)
         /\ \A i \in 1 .. Len(a) + Len(b) :
              (a \o b)[i] = IF i <= Len(a) THEN a[i] ELSE b[i - Len(a)]
OBVIOUS

(* thread_entry_remove takes away one entry and keeps the others.          *)
LEMMA FirstRemoved ==
  ASSUME NEW S, NEW s \in Seq(S), NEW e
  PROVE  /\ RemoveFirst(s, e) \in Seq(S)
         /\ \A x \in Range(s) : x # e => x \in Range(RemoveFirst(s, e))
<1>1. CASE ~ \E i \in 1 .. Len(s) : s[i] = e
  BY <1>1 DEF RemoveFirst
<1>2. CASE \E i \in 1 .. Len(s) : s[i] = e
  <2> DEFINE I == {i \in 1 .. Len(s) : s[i] = e}
  <2>1. I \in SUBSET Nat /\ I # {}
    BY <1>2
  <2>2. SelectInSeq(s, LAMBDA v : v = e) = Min(I)
    BY <2>1 DEF SelectInSeq
  <2>3. PICK j \in 1 .. Len(s) : j = Min(I) /\ s[j] = e
    <3>1. Min(I) \in I
      BY <2>1, LeastIndex
    <3>. QED  BY <3>1
  <2> DEFINE a == SubSeq(s, 1, j - 1)
             b == SubSeq(s, j + 1, Len(s))
             r == a \o b
  <2>4. RemoveFirst(s, e) = r
    BY <1>2, <2>2, <2>3 DEF RemoveFirst, RemoveAt
  <2>5. Len(s) \in Nat /\ j \in Nat /\ 1 <= j /\ j <= Len(s)
    OBVIOUS
  <2>6. a \in Seq(S) /\ Len(a) = j - 1 /\ \A i \in 1 .. j - 1 : a[i] = s[i]
    BY <2>5
  <2>7. b \in Seq(S) /\ Len(b) = Len(s) - j /\ \A i \in 1 .. Len(s) - j : b[i] = s[j + i]
    BY <2>5
  <2> HIDE DEF a, b
  <2>8. /\ r \in Seq(S) /\ Len(r) = Len(s) - 1
        /\ \A i \in 1 .. Len(s) - 1 : r[i] = IF i < j THEN a[i] ELSE b[i - (j - 1)]
    <3>0. a \in Seq(S) /\ b \in Seq(S)
      BY <2>6, <2>7
    <3>1. r \in Seq(S) /\ Len(r) = Len(a) + Len(b)
      BY <3>0, ConcatValue
    <3>2. \A i \in 1 .. Len(a) + Len(b) :
             r[i] = IF i <= Len(a) THEN a[i] ELSE b[i - Len(a)]
      BY <3>0, ConcatValue
    <3>3. Len(a) = j - 1 /\ Len(a) + Len(b) = Len(s) - 1
      BY <2>5, <2>6, <2>7
    <3> HIDE DEF r
    <3>4. Len(r) = Len(s) - 1
      BY <3>1, <3>3
    <3>5. \A i \in 1 .. Len(s) - 1 : i < j <=> i <= j - 1
      BY <2>5
    <3>6. \A i \in 1 .. Len(s) - 1 :
             r[i] = IF i < j THEN a[i] ELSE b[i - (j - 1)]
      BY <3>2, <3>3, <3>5
    <3>. QED  BY <3>1, <3>4, <3>6
  <2> HIDE DEF r
  <2>9. ASSUME NEW i \in 1 .. Len(s), i # j PROVE \E k \in 1 .. Len(r) : r[k] = s[i]
    <3>1. CASE i < j
      <4>1. i \in 1 .. Len(r) /\ r[i] = s[i]
        BY <2>5, <2>6, <2>8, <3>1
      <4>. QED  BY <4>1
    <3>2. CASE i > j
      <4>1. i - 1 \in 1 .. Len(r) /\ i - 1 >= j
        BY <2>5, <2>8, <3>2
      <4>2. i - j \in 1 .. Len(s) - j /\ (i - 1) - (j - 1) = i - j /\ j + (i - j) = i
        BY <2>5, <3>2
      <4>3. r[i - 1] = b[(i - 1) - (j - 1)]
        BY <2>5, <2>8, <4>1
      <4>4. b[i - j] = s[j + (i - j)]
        BY <2>7, <4>2
      <4>5. r[i - 1] = s[i]
        BY <4>2, <4>3, <4>4
      <4>. QED  BY <4>1, <4>5
    <3>. QED  BY <2>5, <2>9, <3>1, <3>2
  <2>10. DOMAIN r = 1 .. Len(r) /\ DOMAIN s = 1 .. Len(s)
    BY <2>8
  <2>11. ASSUME NEW x \in Range(s), x # e PROVE x \in Range(r)
    <3>1. PICK i \in 1 .. Len(s) : x = s[i]
      BY <2>10, <2>11 DEF Range
    <3>2. i # j
      BY <2>3, <2>11, <3>1
    <3>3. PICK k \in 1 .. Len(r) : r[k] = s[i]
      BY <2>9, <3>2
    <3>. QED  BY <2>10, <3>1, <3>3 DEF Range
  <2>. QED  BY <2>4, <2>8, <2>11
<1>. QED  BY <1>1, <1>2

-----------------------------------------------------------------------------
(* The main thread looks at its list, joins and removes.                   *)

LEMMA ListServe ==
  ASSUME DataInv, ServeInv, \A c \in Conn : Busy(c)' <=> Busy(c),
         \A labels : ~ EndingMain(labels)' /\ (Ending(labels)' <=> Ending(labels)),
         EndingClient' <=> EndingClient,
         is_complete' \subseteq is_complete, UNCHANGED current_entry,
         Level(Main, 1)' \notin {"add", "adding"},
         Level(Main, 1)' \in {"joining", "remove_entry", "removing"} =>
           \E c \in Conn : c = target' /\ ~ Busy(c),
         EndingClient \/ \A c \in Conn : Busy(c) => c \in Range(thread_manager')
  PROVE  ServeInv'
<1>1. \A c \in is_complete' : ~ Busy(c)'
  BY DEF ServeInv, DataInv
<1>2. Level(Main, 1)' \in {"joining", "remove_entry", "removing"}
        => target' # NoThread /\ ~ Busy(target)'
  BY ThreadAssumption
<1>3. Ending({"freeall_joining", "freeall_remove", "freeall_removing"})'
        => current_entry' # NoThread
  BY DEF ServeInv
<1>4. \/ EndingClient'
      \/ \A c \in Conn : Busy(c)' => c \in Range(thread_manager')
  OBVIOUS
<1>. QED  BY <1>1, <1>2, <1>3, <1>4 DEF ServeInv

LEMMA ScanStep == ASSUME IInv, Scan PROVE IInv'
<1> USE DEF IInv
<1> DEFINE next == SelectInSeq(walk, LAMBDA e : e \in is_complete)
<1>0. /\ At(Main, "scan")
      /\ \/ /\ next = 0
            /\ Goto(Main, "accept") /\ walk' = << >> /\ UNCHANGED target
         \/ /\ next # 0
            /\ \E to \in {"joining", "remove_entry"} : Goto(Main, to)
            /\ target' = walk[next] /\ walk' = SubSeq(walk, next + 1, Len(walk))
      /\ UNCHANGED <<process, signals, manager_mutex, file_mutex, thread_manager,
                     is_complete, current_entry, tail>>
  BY DEF Scan, mutexes
<1>1. walk \in Seq(Conn) /\ is_complete \subseteq Conn
  BY DEF DataInv
<1>2. next = 0 \/ (next \in 1 .. Len(walk) /\ walk[next] \in is_complete)
  BY <1>1, SelectedCompleted
<1> HIDE DEF next
<1>3. PICK to \in {"accept", "joining", "remove_entry"} :
        /\ Goto(Main, to)
        /\ to # "accept" => target' \in is_complete
        /\ target' \in Conn \cup {NoThread}
  BY <1>0, <1>1, <1>2 DEF DataInv
<1>4. walk' \in Seq(Conn)
  <2>1. CASE walk' = << >>
    BY <2>1
  <2>2. CASE next \in 1 .. Len(walk) /\ walk' = SubSeq(walk, next + 1, Len(walk))
    BY <1>1, <2>2
  <2>. QED  BY <1>0, <1>2, <2>1, <2>2
<1>5. DataInv'
  BY <1>0, <1>3, <1>4 DEF DataInv, process, resources
<1>6. /\ StackInv' /\ FlagInv' /\ SignalInv' /\ ResourceInv' /\ FileInv'
      /\ \A c \in Conn : Busy(c)' <=> Busy(c)
      /\ Level(Main, 1) = "scan" /\ Level(Main, 1)' = to
      /\ \A labels : /\ ~ EndingMain(labels) /\ ~ EndingMain(labels)'
                     /\ Ending(labels)' <=> Ending(labels)
      /\ EndingClient' <=> EndingClient
  BY <1>0, <1>3, ListStep DEF ServerLabels
<1>7. ServeInv'
  <2>1. to # "accept" => \E c \in Conn : c = target' /\ ~ Busy(c)
    BY <1>1, <1>3 DEF ServeInv
  <2>2. EndingClient \/ \A c \in Conn : Busy(c) => c \in Range(thread_manager')
    BY <1>0, <1>6 DEF ServeInv
  <2>. QED  BY <1>0, <1>6, <2>1, <2>2, ListServe
<1>. QED  BY <1>5, <1>6, <1>7

LEMMA Unlisted ==
  ASSUME DataInv, NEW e, Unlist(e)
  PROVE  /\ thread_manager' \in Seq(Conn)
         /\ is_complete' \subseteq is_complete
         /\ \A c \in Conn : c \in Range(thread_manager) /\ c # e
              => c \in Range(thread_manager')
<1>1. thread_manager \in Seq(Conn)
  BY DEF DataInv
<1>. QED  BY <1>1, FirstRemoved DEF Unlist

LEMMA RemoveEntryStep == ASSUME IInv, RemoveEntry PROVE IInv'
<1> USE DEF IInv
<1>0. /\ At(Main, "removing") /\ Goto(Main, "scan") /\ Unlist(target)
      /\ target' = NoThread /\ manager_mutex' = NoThread
      /\ UNCHANGED <<process, signals, file_mutex, walk, current_entry, tail>>
  BY DEF RemoveEntry, UnlockManager
<1>1. /\ StackInv' /\ FlagInv' /\ SignalInv' /\ ResourceInv' /\ FileInv'
      /\ \A c \in Conn : Busy(c)' <=> Busy(c)
      /\ Level(Main, 1) = "removing" /\ Level(Main, 1)' = "scan"
      /\ \A labels : /\ ~ EndingMain(labels) /\ ~ EndingMain(labels)'
                     /\ Ending(labels)' <=> Ending(labels)
      /\ EndingClient' <=> EndingClient
  BY <1>0, ListStep DEF ServerLabels
<1>2. /\ thread_manager' \in Seq(Conn) /\ is_complete' \subseteq is_complete
      /\ \A c \in Conn : c \in Range(thread_manager) /\ c # target
           => c \in Range(thread_manager')
  BY <1>0, Unlisted
<1>3. DataInv'
  BY <1>0, <1>2 DEF DataInv, process, resources
<1>4. ServeInv'
  <2>1. EndingClient \/ \A c \in Conn : Busy(c) => c \in Range(thread_manager')
    BY <1>1, <1>2 DEF ServeInv
  <2>. QED  BY <1>0, <1>1, <1>2, <2>1, ListServe
<1>. QED  BY <1>1, <1>3, <1>4

LEMMA NewTop ==
  ASSUME NEW s \in Seq(Labels), Len(s) > 0, NEW label \in Labels,
         NEW r, r = <<label>> \o Tail(s)
  PROVE  /\ r \in Seq(Labels) /\ Len(r) = Len(s)
         /\ \A k \in 1 .. Len(s) : r[Len(s) + 1 - k] =
              IF k = Len(s) THEN label ELSE s[Len(s) + 1 - k]
<1>1. Tail(s) \in Seq(Labels) /\ Len(Tail(s)) = Len(s) - 1
      /\ \A i \in 1 .. Len(s) - 1 : Tail(s)[i] = s[i + 1]
  OBVIOUS
<1>2. r \in Seq(Labels) /\ Len(r) = Len(s)
      /\ \A i \in 1 .. Len(s) : r[i] = IF i = 1 THEN label ELSE s[i]
  BY <1>1
<1>3. \A k \in 1 .. Len(s) :
        Len(s) + 1 - k \in 1 .. Len(s) /\ (Len(s) + 1 - k = 1 <=> k = Len(s))
  OBVIOUS
<1>. QED  BY <1>2, <1>3

(* A thread is joined: it has returned, and is no more.                    *)
LEMMA JoinStack ==
  ASSUME StackInv, NEW t \in Thread, NEW e \in Conn, NEW from, NEW to, At(t, from),
         from # "returned", Joined(t, e, to), Fits(t, Depth(t), to)
  PROVE  /\ StackInv' /\ t # e /\ ended = "no"
         /\ Depth(t) > 0 /\ Level(t, Depth(t)) = from
         /\ \A u \in Thread : Depth(u)' \in Nat /\ Depth(u) \in Nat
         /\ \A u \in Thread \ {t, e} : LevelsKept(u)
         /\ Depth(e) = 1 /\ Level(e, 1) = "returned" /\ Depth(e)' = 0
         /\ Depth(t)' = Depth(t)
         /\ \A k \in 1 .. Depth(t) :
              Level(t, k)' = IF k = Depth(t) THEN to ELSE Level(t, k)
<1>0. e \in Thread
  BY DEF Thread
<1>1. /\ stack[e] = <<"returned">>
      /\ stack' = [stack EXCEPT ![t] = <<to>> \o Tail(@), ![e] = << >>]
  BY DEF Joined
<1>2. /\ Depth(t) > 0 /\ Level(t, Depth(t)) = from /\ ended = "no"
      /\ Head(stack[t]) = from
      /\ \A u \in Thread : Depth(u) \in Nat
  BY TopLevel, DepthType DEF At
<1>3. t # e
  <2>1. Head(<<"returned">>) = "returned"
    OBVIOUS
  <2>. QED  BY <1>1, <1>2, <2>1
<1> DEFINE s == stack[t]
<1>4. PICK r : r = <<to>> \o Tail(s)
  OBVIOUS
<1>5. s \in Seq(Labels) /\ Len(s) > 0 /\ to \in Labels
  BY <1>2, FitsLabels DEF StackInv, Depth
<1>6. /\ r \in Seq(Labels) /\ Len(r) = Len(s)
      /\ \A k \in 1 .. Len(s) : r[Len(s) + 1 - k] =
           IF k = Len(s) THEN to ELSE s[Len(s) + 1 - k]
  BY <1>4, <1>5, NewTop
<1>7. /\ stack'[t] = r /\ stack'[e] = << >>
      /\ \A u \in Thread \ {t, e} : stack'[u] = stack[u]
  BY <1>0, <1>1, <1>3, <1>4 DEF StackInv
<1>8. << >> \in Seq(Labels) /\ Len(<< >>) = 0
  OBVIOUS
<1>9. stack' \in [Thread -> Seq(Labels)]
  BY <1>0, <1>1, <1>4, <1>6, <1>8 DEF StackInv
<1>10. \A u \in Thread \ {t, e} : LevelsKept(u)
  BY <1>7 DEF LevelsKept, Depth, Level
<1>11. /\ Depth(t)' = Depth(t)
       /\ \A k \in 1 .. Depth(t) :
            Level(t, k)' = IF k = Depth(t) THEN to ELSE Level(t, k)
  <2> HIDE DEF s
  <2>. QED  BY <1>6, <1>7 DEF Depth, Level, s
<1>12. Depth(e) = 1 /\ Level(e, 1) = "returned" /\ Depth(e)' = 0
  <2>1. PICK q : q = <<"returned">>
    OBVIOUS
  <2>2. Len(q) = 1 /\ q[1] = "returned" /\ stack[e] = q
    BY <1>1, <2>1
  <2>3. Len(q) + 1 - 1 = 1
    BY <2>2
  <2>4. Depth(e) = 1 /\ Level(e, 1) = "returned"
    BY <2>2, <2>3 DEF Depth, Level
  <2>. QED  BY <1>7, <1>8, <2>4 DEF Depth
<1>13. \A u \in Thread : Depth(u)' \in Nat
  BY <1>2, <1>10, <1>11, <1>12 DEF LevelsKept
<1>14. \A u \in Thread : \A k \in 1 .. Depth(u)' : Fits(u, k, Level(u, k)')
  <2>1. \A u \in Thread \ {t, e} : \A k \in 1 .. Depth(u)' : Fits(u, k, Level(u, k)')
    BY <1>10, StackFits DEF LevelsKept
  <2>2. \A k \in 1 .. Depth(t)' : Fits(t, k, Level(t, k)')
    BY <1>11, StackFits
  <2>. QED  BY <1>12, <2>1, <2>2
<1>15. Depth(Main)' > 0
  <2>1. Main \in Thread /\ Main # e
    BY ThreadAssumption DEF Thread
  <2>2. Depth(Main)' = Depth(Main)
    BY <1>10, <1>11, <2>1 DEF LevelsKept
  <2>. QED  BY <2>2 DEF StackInv
<1>16. StackInv'
  BY <1>9, <1>13, <1>14, <1>15, StackFromLevels
<1>. QED  BY <1>2, <1>3, <1>10, <1>11, <1>12, <1>13, <1>16

LEMMA JoinSame ==
  ASSUME StackInv, NEW t \in Thread, NEW e \in Conn, NEW from, NEW to, At(t, from),
         Joined(t, e, to), Fits(t, Depth(t), to), from # "returned",
         from \notin Written, to \notin Written, Depth(t) > 1 \/ t = Main
  PROVE  /\ SameInside /\ SameNewLine /\ LessBusy
         /\ \A u \in Thread \ {t, e} : Depth(u) > 0 => Level(u, 1)' = Level(u, 1)
         /\ Depth(t) > 1 => Level(t, 1)' = Level(t, 1)
         /\ \A labels : (Depth(t) > 1 => (from \in labels <=> to \in labels))
              => SameAbove(labels)
<1>1. /\ t # e /\ Depth(t) > 0 /\ Level(t, Depth(t)) = from
      /\ \A u \in Thread : Depth(u)' \in Nat /\ Depth(u) \in Nat
      /\ \A u \in Thread \ {t, e} : LevelsKept(u)
      /\ Depth(e) = 1 /\ Level(e, 1) = "returned" /\ Depth(e)' = 0
      /\ Depth(t)' = Depth(t)
      /\ \A k \in 1 .. Depth(t) :
           Level(t, k)' = IF k = Depth(t) THEN to ELSE Level(t, k)
  BY JoinStack
<1>2. /\ \A u \in Thread \ {t, e} : Depth(u)' = Depth(u)
      /\ \A u \in Thread \ {t, e} : \A k \in 1 .. Depth(u) : Level(u, k)' = Level(u, k)
  BY <1>1 DEF LevelsKept
<1>3. /\ \A u \in Thread \ {t, e} : Depth(u) > 0 => Level(u, 1)' = Level(u, 1)
      /\ Depth(t) > 1 => Level(t, 1)' = Level(t, 1)
  BY <1>1, <1>2
<1>4. SameInside
  <2>1. \A u \in Thread \ {t, e} : \A k \in Nat : Inside(u, k)' <=> Inside(u, k)
    BY <1>1, <1>2 DEF Inside
  <2>2. \A k \in Nat : Inside(t, k)' <=> Inside(t, k)
    BY <1>1 DEF Inside, Written
  <2>3. \A k \in Nat : ~ Inside(e, k)' /\ ~ Inside(e, k)
    BY <1>1 DEF Inside
  <2>. QED  BY <2>1, <2>2, <2>3 DEF SameInside
<1>5. SameNewLine
  <2>1. \A u \in Thread \ {t, e} : Depth(u) > 0 /\ Level(u, 1) = "newline" =>
          Depth(u)' > 0 /\ Level(u, 1)' = "newline"
    BY <1>2, <1>3
  <2>2. Level(t, 1) = "newline" => Depth(t)' > 0 /\ Level(t, 1)' = "newline"
    BY <1>1 DEF Written
  <2>. QED  BY <1>1, <2>1, <2>2 DEF SameNewLine
<1>6. LessBusy
  <2>1. \A c \in Conn \ {t, e} : Busy(c)' => Busy(c)
    BY <1>2, <1>3 DEF Busy, Thread
  <2>2. ~ Busy(e)'
    BY <1>1 DEF Busy
  <2>3. t \in Conn => Depth(t) > 1
    BY ThreadAssumption
  <2>4. t \in Conn /\ Busy(t)' => Busy(t)
    BY <1>1, <1>3, <2>3 DEF Busy
  <2>. QED  BY <2>1, <2>2, <2>4 DEF LessBusy
<1>7. ASSUME NEW labels, Depth(t) > 1 => (from \in labels <=> to \in labels)
      PROVE  SameAbove(labels)
  <2>1. \A u \in Thread \ {t, e} : \A k \in 2 .. Depth(u) : Level(u, k)' = Level(u, k)
    BY <1>1, <1>2
  <2>2. \A k \in 2 .. Depth(t) : Level(t, k)' \in labels <=> Level(t, k) \in labels
    BY <1>1, <1>7
  <2>. QED  BY <1>1, <1>2, <2>1, <2>2 DEF SameAbove
<1>. QED  BY <1>3, <1>4, <1>5, <1>6, <1>7

LEMMA JoinStep == ASSUME IInv, Join PROVE IInv'
<1> USE DEF IInv
<1>0. /\ At(Main, "joining") /\ Joined(Main, target, "remove_entry")
      /\ UNCHANGED <<process, signals, manager_mutex, file_mutex, list, tail>>
  BY DEF Join, Joined, mutexes
<1>1. Main \in Thread
  BY DEF Thread
<1>2. Depth(Main) = 1 /\ Level(Main, 1) = "joining"
  BY <1>0, <1>1, OwnLevel DEF TermLabels, AlarmLabels
<1>3. PICK e \in Conn : e = target
  BY <1>2 DEF ServeInv, DataInv
<1>4. Fits(Main, Depth(Main), "remove_entry") /\ Joined(Main, e, "remove_entry")
  BY <1>0, <1>2, <1>3 DEF Fits, MainLabels
<1>5. /\ StackInv' /\ ended = "no"
      /\ \A u \in Thread : Depth(u)' \in Nat /\ Depth(u) \in Nat
      /\ \A u \in Thread \ {Main, e} : LevelsKept(u)
      /\ Depth(e)' = 0 /\ Depth(Main)' = Depth(Main)
      /\ Level(Main, 1)' = "remove_entry"
  BY <1>0, <1>1, <1>2, <1>4, JoinStack
<1>6. /\ SameInside /\ SameNewLine /\ LessBusy
      /\ \A labels : SameAbove(labels)
  BY <1>0, <1>1, <1>2, <1>4, JoinSame DEF Written
<1>7. Level(Main, 1) \in ServerLabels /\ Level(Main, 1)' \in ServerLabels
  BY <1>2, <1>5 DEF ServerLabels
<1>8. /\ \A labels : /\ Ending(labels)' <=> Ending(labels)
                     /\ EndingMain(labels)' <=> EndingMain(labels)
  BY <1>6, AboveEnding
<1>9. DataInv'
  BY <1>0 DEF DataInv, process, resources, list
<1>10. FlagInv'
  BY <1>0 DEF FlagInv, signals
<1>11. SignalInv'
  <2>1. \A u \in Thread : Depth(u)' <= Depth(u)
    BY <1>5 DEF LevelsKept
  <2>. QED  BY <1>0, <1>5, <1>6, <1>7, <2>1, SameSignals DEF process, signals
<1>12. ResourceInv'
  BY <1>0, <1>7, <1>8, SameResources DEF process
<1>13. FileInv'
  BY <1>0, <1>6, SameFile
<1>14. ServeInv'
  <2>1. EndingClient => EndingClient'
    BY <1>6 DEF EndingClient, SameAbove, Thread
  <2>. QED  BY <1>0, <1>2, <1>5, <1>6, <1>8, <2>1, SameServe
<1>. QED  BY <1>5, <1>9, <1>10, <1>11, <1>12, <1>13, <1>14

LEMMA FreeAllJoinStep == ASSUME IInv, NEW t \in Thread, FreeAllJoin(t) PROVE IInv'
<1> USE DEF IInv
<1>0. /\ At(t, "freeall_joining") /\ Joined(t, current_entry, "freeall_remove")
      /\ UNCHANGED <<process, signals, manager_mutex, file_mutex, list, tail>>
  BY DEF FreeAllJoin, Joined, mutexes
<1>2. Depth(t) > 1 /\ Level(t, Depth(t)) = "freeall_joining" /\ Depth(t) \in Nat
  BY <1>0, HandlerLevel, DepthType DEF MainLabels, HandlerLabels, After
<1>3. PICK e \in Conn : e = current_entry
  <2>1. Ending({"freeall_joining", "freeall_remove", "freeall_removing"})
    BY <1>2 DEF Ending
  <2>. QED  BY <2>1 DEF ServeInv, DataInv
<1>4. Fits(t, Depth(t), "freeall_remove") /\ Joined(t, e, "freeall_remove")
  BY <1>0, <1>2, <1>3 DEF Fits, TermLabels
<1>5. /\ StackInv' /\ ended = "no" /\ t # e
      /\ \A u \in Thread : Depth(u)' \in Nat /\ Depth(u) \in Nat
      /\ \A u \in Thread \ {t, e} : LevelsKept(u)
      /\ Depth(e)' = 0 /\ Depth(t)' = Depth(t)
  BY <1>0, <1>4, JoinStack
<1>6. /\ SameInside /\ SameNewLine /\ LessBusy
      /\ \A u \in Thread \ {t, e} : Depth(u) > 0 => Level(u, 1)' = Level(u, 1)
      /\ Level(t, 1)' = Level(t, 1)
      /\ \A labels : ("freeall_joining" \in labels <=> "freeall_remove" \in labels)
           => SameAbove(labels)
  BY <1>0, <1>2, <1>4, JoinSame DEF Written
<1>7. Level(Main, 1)' = Level(Main, 1)
  <2>1. Main \in Thread /\ Main # e /\ Depth(Main) > 0
    BY ThreadAssumption DEF Thread, StackInv
  <2>. QED  BY <1>6, <2>1
<1>8. \A labels : ("freeall_joining" \in labels <=> "freeall_remove" \in labels) =>
        /\ Ending(labels)' <=> Ending(labels)
        /\ EndingMain(labels)' <=> EndingMain(labels)
  BY <1>6, AboveEnding
<1>9. DataInv'
  BY <1>0 DEF DataInv, process, resources, list
<1>10. FlagInv'
  BY <1>0 DEF FlagInv, signals
<1>11. SameAbove(TermLabels)
  BY <1>6 DEF TermLabels
<1>12. SignalInv'
  <2>1. \A u \in Thread : Depth(u)' <= Depth(u)
    BY <1>5 DEF LevelsKept
  <2>. QED  BY <1>0, <1>5, <1>7, <1>11, <2>1, SameSignals DEF process, signals
<1>13. ResourceInv'
  BY <1>0, <1>7, <1>8, SameResources DEF process
<1>14. FileInv'
  BY <1>0, <1>6, SameFile
<1>15. ServeInv'
  <2>1. EndingClient => EndingClient'
    BY <1>11 DEF EndingClient, SameAbove, Thread
  <2>2. ~ Busy(current_entry)'
    <3>1. ~ Busy(e)' /\ current_entry' = e
      BY <1>0, <1>3, <1>5 DEF Busy, list
    <3>. QED  BY <3>1
  <2>3. Ending({"freeall_joining", "freeall_remove", "freeall_removing"})'
          => Ending({"freeall_joining", "freeall_remove", "freeall_removing"})
    BY <1>8
  <2>4. EndingMain({"close", "freeaddrinfo", "remove", "exit"})'
          => EndingMain({"close", "freeaddrinfo", "remove", "exit"})
    BY <1>8
  <2>. QED  BY <1>0, <1>6, <1>7, <2>1, <2>2, <2>3, <2>4, SameServe
<1>. QED  BY <1>5, <1>9, <1>10, <1>12, <1>13, <1>14, <1>15

-----------------------------------------------------------------------------
(* client_handler.                                                         *)

LEMMA ClientStep ==
  ASSUME IInv, NEW c \in Conn, NEW from \in HandlerLabels, NEW to \in HandlerLabels,
         At(c, from), Goto(c, to), UNCHANGED <<process, signals>>
  PROVE  /\ StackInv' /\ FlagInv' /\ SignalInv' /\ ResourceInv' /\ Moves(c, to)
         /\ c \in Thread /\ Depth(c) = 1 /\ Level(c, 1) = from /\ Level(c, 1)' = to
         /\ \A u \in Thread : Depth(u)' = Depth(u) /\ Depth(u) \in Nat
         /\ \A u \in Thread \ {c} : Depth(u) > 0 => Level(u, 1)' = Level(u, 1)
         /\ \A d \in Conn \ {c} : Busy(d)' <=> Busy(d)
         /\ \A labels : /\ Ending(labels)' <=> Ending(labels)
                        /\ EndingMain(labels)' <=> EndingMain(labels)
         /\ EndingClient' <=> EndingClient
         /\ Level(Main, 1)' = Level(Main, 1)
<1> USE DEF IInv
<1>1. c \in Thread /\ Main \in Thread /\ Main # c /\ Depth(Main) > 0
  BY ThreadAssumption DEF Thread, StackInv
<1>2. Depth(c) = 1
  BY <1>1, OwnLevel DEF TermLabels, AlarmLabels, HandlerLabels
<1>3. /\ StackInv' /\ FlagInv' /\ SignalInv' /\ ResourceInv' /\ Moves(c, to)
      /\ Level(c, 1) = from /\ Level(c, 1)' = to
      /\ \A u \in Thread : Depth(u)' = Depth(u) /\ Depth(u) \in Nat
      /\ \A u \in Thread \ {c} : Depth(u) > 0 => Level(u, 1)' = Level(u, 1)
      /\ \A labels : /\ Ending(labels)' <=> Ending(labels)
                     /\ EndingMain(labels)' <=> EndingMain(labels)
      /\ EndingClient' <=> EndingClient
  BY <1>1, <1>2, OwnStep
<1>4. \A d \in Conn \ {c} : Busy(d)' <=> Busy(d)
  BY <1>3 DEF Busy, Thread
<1>5. Level(Main, 1)' = Level(Main, 1)
  BY <1>1, <1>3
<1>. QED  BY <1>1, <1>2, <1>3, <1>4, <1>5

LEMMA ReceiveStep ==
  ASSUME IInv, NEW c \in Conn, Receive(c) \/ Disconnect(c) PROVE IInv'
<1> USE DEF IInv
<1>0. PICK to \in {"lock", "mark"} :
        /\ At(c, "recv") /\ Goto(c, to)
        /\ UNCHANGED <<process, signals, manager_mutex, file_mutex, list, tail>>
  BY DEF Receive, Disconnect, mutexes
<1>1. /\ StackInv' /\ FlagInv' /\ SignalInv' /\ ResourceInv' /\ Moves(c, to)
      /\ c \in Thread /\ Depth(c) = 1 /\ Level(c, 1) = "recv"
      /\ \A d \in Conn \ {c} : Busy(d)' <=> Busy(d)
      /\ \A labels : /\ Ending(labels)' <=> Ending(labels)
                     /\ EndingMain(labels)' <=> EndingMain(labels)
      /\ EndingClient' <=> EndingClient
      /\ Level(Main, 1)' = Level(Main, 1)
  BY <1>0, ClientStep DEF HandlerLabels
<1>2. Busy(c)
  BY <1>1 DEF Busy
<1>3. LessBusy
  BY <1>1, <1>2 DEF LessBusy
<1>4. SameInside /\ SameNewLine
  BY <1>0, <1>1, MovesFile DEF Written
<1>5. FileInv'
  BY <1>0, <1>4, SameFile
<1>6. DataInv'
  BY <1>0 DEF DataInv, process, resources, list
<1>7. ServeInv'
  BY <1>0, <1>1, <1>3, SameServe
<1>. QED  BY <1>1, <1>5, <1>6, <1>7

LEMMA WriteBodyStep == ASSUME IInv, NEW c \in Conn, WriteBody(c) PROVE IInv'
<1> USE DEF IInv
<1>0. /\ At(c, "body") /\ Goto(c, "newline") /\ tail' = c
      /\ UNCHANGED <<process, signals, manager_mutex, file_mutex, list>>
  BY DEF WriteBody, mutexes
<1>1. /\ StackInv' /\ FlagInv' /\ SignalInv' /\ ResourceInv' /\ Moves(c, "newline")
      /\ c \in Thread /\ Depth(c) = 1 /\ Level(c, 1) = "body"
      /\ Level(c, 1)' = "newline"
      /\ \A u \in Thread : Depth(u)' = Depth(u) /\ Depth(u) \in Nat
      /\ \A d \in Conn \ {c} : Busy(d)' <=> Busy(d)
      /\ \A labels : /\ Ending(labels)' <=> Ending(labels)
                     /\ EndingMain(labels)' <=> EndingMain(labels)
      /\ EndingClient' <=> EndingClient
      /\ Level(Main, 1)' = Level(Main, 1)
  BY <1>0, ClientStep DEF HandlerLabels
<1>2. Busy(c)
  BY <1>1 DEF Busy
<1>3. LessBusy
  BY <1>1, <1>2 DEF LessBusy
<1>4. SameInside
  <2>1. \A u \in Thread : \A k \in 1 .. Depth(u) :
          Level(u, k)' = IF u = c /\ k = 1 THEN "newline" ELSE Level(u, k)
    BY <1>1 DEF Moves, LevelsKept
  <2>. QED  BY <1>1, <2>1 DEF SameInside, Inside
<1>5. FileInv'
  <2>1. /\ \A u \in Thread : \A k \in Nat : Inside(u, k)' => file_mutex' = u
        /\ \A u \in Thread : \A k, l \in Nat : Inside(u, k)' /\ Inside(u, l)' => k = l
    BY <1>0, <1>4 DEF FileInv, SameInside
  <2>2. \A u \in Thread : tail' = u => Depth(u)' > 0 /\ Level(u, 1)' = "newline"
    BY <1>0, <1>1
  <2>. QED  BY <2>1, <2>2 DEF FileInv
<1>6. DataInv'
  BY <1>0 DEF DataInv, process, resources, list
<1>7. ServeInv'
  BY <1>0, <1>1, <1>3, SameServe
<1>. QED  BY <1>1, <1>5, <1>6, <1>7

(* When the one inside leaves, nobody is inside.                           *)
LEMMA Leaves ==
  ASSUME FileInv, NEW t \in Thread, NEW i \in Nat, Inside(t, i),
         \A u \in Thread : \A k \in Nat : Inside(u, k)' => Inside(u, k),
         ~ Inside(t, i)', \A u \in Thread : tail' # u
  PROVE  FileInv'
<1>1. \A u \in Thread : \A k \in Nat : Inside(u, k) => u = t /\ k = i
  BY DEF FileInv
<1>2. \A u \in Thread : \A k \in Nat : ~ Inside(u, k)'
  BY <1>1
<1>. QED  BY <1>2 DEF FileInv

LEMMA WriteNewLineStep == ASSUME IInv, NEW c \in Conn, WriteNewLine(c) PROVE IInv'
<1> USE DEF IInv
<1>0. /\ At(c, "newline") /\ Goto(c, "recv") /\ tail' = NoThread
      /\ file_mutex' = NoThread
      /\ UNCHANGED <<process, signals, manager_mutex, list>>
  BY DEF WriteNewLine, Release
<1>1. /\ StackInv' /\ FlagInv' /\ SignalInv' /\ ResourceInv' /\ Moves(c, "recv")
      /\ c \in Thread /\ Depth(c) = 1 /\ Level(c, 1) = "newline"
      /\ Level(c, 1)' = "recv"
      /\ \A u \in Thread : Depth(u)' = Depth(u) /\ Depth(u) \in Nat
      /\ \A d \in Conn \ {c} : Busy(d)' <=> Busy(d)
      /\ \A labels : /\ Ending(labels)' <=> Ending(labels)
                     /\ EndingMain(labels)' <=> EndingMain(labels)
      /\ EndingClient' <=> EndingClient
      /\ Level(Main, 1)' = Level(Main, 1)
  BY <1>0, ClientStep DEF HandlerLabels
<1>2. Busy(c)
  BY <1>1 DEF Busy
<1>3. LessBusy
  BY <1>1, <1>2 DEF LessBusy
<1>4. /\ Inside(c, 1) /\ ~ Inside(c, 1)'
      /\ \A u \in Thread : \A k \in Nat : Inside(u, k)' => Inside(u, k)
  <2>1. \A u \in Thread : \A k \in 1 .. Depth(u) :
          Level(u, k)' = IF u = c /\ k = 1 THEN "recv" ELSE Level(u, k)
    BY <1>1 DEF Moves, LevelsKept
  <2>. QED  BY <1>1, <2>1 DEF Inside
<1>5. FileInv'
  BY <1>0, <1>1, <1>4, Leaves, ThreadAssumption DEF Thread
<1>6. DataInv'
  BY <1>0 DEF DataInv, process, resources, list
<1>7. ServeInv'
  BY <1>0, <1>1, <1>3, SameServe
<1>. QED  BY <1>1, <1>5, <1>6, <1>7

LEMMA MarkStep == ASSUME IInv, NEW c \in Conn, Mark(c) PROVE IInv'
<1> USE DEF IInv
<1>0. /\ At(c, "marking") /\ Goto(c, "returned") /\ manager_mutex' = NoThread
      /\ is_complete' \subseteq is_complete \cup {c}
      /\ UNCHANGED <<process, signals, file_mutex, thread_manager, walk, target,
                     current_entry, tail>>
  BY DEF Mark, UnlockManager
<1>1. /\ StackInv' /\ FlagInv' /\ SignalInv' /\ ResourceInv' /\ Moves(c, "returned")
      /\ c \in Thread /\ Depth(c) = 1 /\ Level(c, 1) = "marking"
      /\ Level(c, 1)' = "returned"
      /\ \A d \in Conn \ {c} : Busy(d)' <=> Busy(d)
      /\ \A labels : /\ Ending(labels)' <=> Ending(labels)
                     /\ EndingMain(labels)' <=> EndingMain(labels)
      /\ EndingClient' <=> EndingClient
      /\ Level(Main, 1)' = Level(Main, 1)
  BY <1>0, ClientStep DEF HandlerLabels
<1>2. ~ Busy(c) /\ ~ Busy(c)'
  BY <1>1 DEF Busy
<1>3. \A d \in Conn : Busy(d)' <=> Busy(d)
  BY <1>1, <1>2
<1>4. SameInside /\ SameNewLine
  BY <1>0, <1>1, MovesFile DEF Written
<1>5. FileInv'
  BY <1>0, <1>4, SameFile
<1>6. DataInv'
  BY <1>0 DEF DataInv, process, resources
<1>7. ServeInv'
  <2>1. \A d \in is_complete' : ~ Busy(d)'
    BY <1>0, <1>2, <1>3 DEF ServeInv, DataInv
  <2>2. /\ Level(Main, 1)' \in {"joining", "remove_entry", "removing"}
            => target' # NoThread /\ ~ Busy(target)'
        /\ Level(Main, 1)' \in {"add", "adding"} => target' # NoThread
    BY <1>0, <1>1, <1>3 DEF ServeInv, DataInv
  <2>3. /\ Ending({"freeall_joining", "freeall_remove", "freeall_removing"})'
            => current_entry' # NoThread
        /\ EndingMain({"close", "freeaddrinfo", "remove", "exit"})'
            => thread_manager' = << >>
    BY <1>0, <1>1 DEF ServeInv
  <2>4. EndingMain({"freeall_remove", "freeall_removing"})' => ~ Busy(current_entry)'
    <3>1. SUFFICES ASSUME EndingMain({"freeall_remove", "freeall_removing"})
                   PROVE  ~ Busy(current_entry)'
      BY <1>1
    <3>2. Ending({"freeall_joining", "freeall_remove", "freeall_removing"})
      BY <3>1 DEF EndingMain, Ending, Thread
    <3>3. current_entry \in Conn /\ ~ Busy(current_entry)
      BY <3>1, <3>2 DEF ServeInv, DataInv
    <3>. QED  BY <1>0, <1>3, <3>3
  <2>5. \/ EndingClient'
        \/ \A d \in Conn : Busy(d)' =>
             \/ d \in Range(thread_manager)'
             \/ d = target' /\ Level(Main, 1)' \in {"add", "adding"}
    BY <1>0, <1>1, <1>3 DEF ServeInv
  <2>. QED  BY <2>1, <2>2, <2>3, <2>4, <2>5 DEF ServeInv
<1>. QED  BY <1>1, <1>5, <1>6, <1>7

-----------------------------------------------------------------------------
(* Signals.                                                                *)

LEMMA SIGALRMStep == ASSUME IInv, NEW t \in Thread, SIGALRM(t) PROVE IInv'
<1> USE DEF IInv
<1>0. /\ Push(t, "timestamp") /\ handlers /\ data_file' = AfterOpen /\ ended = "no"
      /\ stack[t] # << >>
      /\ UNCHANGED <<ended, failed, resources, signals, manager_mutex, file_mutex,
                     list, tail>>
  BY DEF SIGALRM, Runs, mutexes
<1>1. \A u \in Thread : Depth(u) \in Nat
  BY DepthType
<1>2. Depth(t) > 0
  <2>1. stack[t] \in Seq(Labels)
    BY DEF StackInv
  <2>. QED  BY <1>0, <2>1 DEF Depth
<1>3. StackInv' /\ Rises(t, "timestamp")
  BY <1>0, <1>2, PushStack DEF AlarmLabels
<1>4. \A u \in Thread : Depth(u) > 0 => Depth(u)' > 0 /\ Level(u, 1)' = Level(u, 1)
  BY <1>1, <1>3 DEF Rises, LevelsKept
<1>5. \A u \in Thread : Depth(u)' > 0 => Depth(u) > 0
  BY <1>1, <1>2, <1>3 DEF Rises, LevelsKept
<1>6. Level(Main, 1)' = Level(Main, 1)
  BY <1>4 DEF StackInv, Thread
<1>7. LessBusy
  BY <1>4, <1>5 DEF LessBusy, Busy, Thread
<1>8. ASSUME NEW labels \in SUBSET TermLabels PROVE SameAbove(labels)
  <2>1. "timestamp" \notin labels
    BY DEF TermLabels
  <2>. QED  BY <1>2, <1>3, <2>1, RisesAbove
<1>9. FlagInv' /\ SignalInv' /\ ResourceInv' /\ ServeInv'
  <2>1. ~ handlers => \A u \in Thread : Depth(u)' < 2
    BY <1>0
  <2>. QED  BY <1>0, <1>3, <1>6, <1>7, <1>8, <2>1, StampStep
<1>10. FileInv'
  <2>1. SameInside /\ SameNewLine
    BY <1>2, <1>3, RisesFile DEF Written
  <2>. QED  BY <1>0, <2>1, SameFile
<1>11. DataInv'
  <2>1. data_file' \in {"absent", "present", "removed", "remade"}
    BY <1>0 DEF AfterOpen, DataInv
  <2>. QED  BY <1>0, <2>1 DEF DataInv, resources, list
<1>. QED  BY <1>3, <1>9, <1>10, <1>11

LEMMA SIGTERMStep == ASSUME IInv, NEW t \in Thread, SIGTERM(t) PROVE IInv'
<1> USE DEF IInv
<1>0. /\ Push(t, "freeall") /\ handlers /\ ~ told /\ told' = TRUE /\ ended = "no"
      /\ stack[t] # << >>
      /\ UNCHANGED <<ended, failed, resources, data_file, handlers, timer,
                     manager_mutex, file_mutex, list, tail>>
  BY DEF SIGTERM, Runs, mutexes, process
<1>1. \A u \in Thread : Depth(u) \in Nat
  BY DepthType
<1>2. Depth(t) > 0
  <2>1. stack[t] \in Seq(Labels)
    BY DEF StackInv
  <2>. QED  BY <1>0, <2>1 DEF Depth
<1>3. StackInv' /\ Rises(t, "freeall")
  BY <1>0, <1>2, PushStack DEF TermLabels
<1>4. \A u \in Thread : Depth(u) > 0 => Depth(u)' > 0 /\ Level(u, 1)' = Level(u, 1)
  BY <1>1, <1>3 DEF Rises, LevelsKept
<1>5. \A u \in Thread : Depth(u)' > 0 => Depth(u) > 0
  BY <1>1, <1>2, <1>3 DEF Rises, LevelsKept
<1>6. Level(Main, 1)' = Level(Main, 1)
  BY <1>4 DEF StackInv, Thread
<1>7. LessBusy
  BY <1>4, <1>5 DEF LessBusy, Busy, Thread
<1>8. \A labels : "freeall" \notin labels =>
        /\ Ending(labels)' <=> Ending(labels)
        /\ EndingMain(labels)' <=> EndingMain(labels)
  BY <1>2, <1>3, RisesAbove, AboveEnding
<1>9. ResourceInv'
  BY <1>0, <1>6, <1>8, SameResources
<1>10. SignalInv'
  <2>1. handlers' => Level(Main, 1)' \in ServerLabels
    BY <1>0, <1>6 DEF SignalInv
  <2>2. \A u \in Thread : \A k \in 2 .. Depth(u) : Level(u, k) \notin TermLabels
    BY <1>0 DEF SignalInv, Ending
  <2>3. \A u \in Thread : \A k \in 2 .. Depth(u)' :
          Level(u, k)' \in TermLabels => u = t /\ k = Depth(t) + 1
    <3>1. \A u \in Thread \ {t} : \A k \in 2 .. Depth(u)' : Level(u, k)' \notin TermLabels
      BY <1>1, <1>3, <2>2 DEF Rises, LevelsKept
    <3>2. \A k \in 2 .. Depth(t)' : k # Depth(t) + 1 => Level(t, k)' \notin TermLabels
      BY <1>1, <1>3, <2>2 DEF Rises
    <3>. QED  BY <3>1, <3>2
  <2>4. handlers' /\ told' /\ ended' = "no"
    BY <1>0
  <2>5. \A u, v \in Thread : \A k \in 2 .. Depth(u)', l \in 2 .. Depth(v)' :
          Level(u, k)' \in TermLabels /\ Level(v, l)' \in TermLabels => u = v /\ k = l
    BY <2>3
  <2>6. ended' # "handler"
    BY <2>4
  <2>. QED  BY <2>1, <2>4, <2>5, <2>6 DEF SignalInv
<1>11. FileInv'
  <2>1. SameInside /\ SameNewLine
    BY <1>2, <1>3, RisesFile DEF Written
  <2>. QED  BY <1>0, <2>1, SameFile
<1>12. DataInv'
  BY <1>0 DEF DataInv, resources, list
<1>13. FlagInv'
  BY <1>0 DEF FlagInv
<1>14. ServeInv'
  <2>1. EndingClient => EndingClient'
    BY <1>1, <1>3 DEF EndingClient, Rises, LevelsKept, Thread
  <2>. QED  BY <1>0, <1>6, <1>7, <1>8, <2>1, SameServe
<1>. QED  BY <1>3, <1>9, <1>10, <1>11, <1>12, <1>13, <1>14

(* A recv that the signal interrupted fails.                               *)
LEMMA InterruptStack ==
  ASSUME StackInv, NEW t \in Thread, Depth(t) > 1, Head(Tail(stack[t])) = "recv",
         stack' = [stack EXCEPT ![t] = Interrupted(Tail(stack[t]))]
  PROVE  /\ StackInv' /\ t \in Conn
         /\ Depth(t) = 2 /\ Level(t, 1) = "recv"
         /\ Depth(t)' = 1 /\ Level(t, 1)' = "mark"
         /\ \A u \in Thread \ {t} : LevelsKept(u)
         /\ \A u \in Thread : Depth(u)' \in Nat /\ Depth(u) \in Nat
<1> DEFINE s == stack[t]
           b == Tail(s)
<1>1. PICK r : r = <<"mark">> \o Tail(b)
  OBVIOUS
<1>2. s \in Seq(Labels) /\ Len(s) \in Nat /\ Len(s) > 1
  BY DEF StackInv, Depth
<1>3. b \in Seq(Labels) /\ Len(b) = Len(s) - 1
      /\ \A i \in 1 .. Len(s) - 1 : b[i] = s[i + 1]
  BY <1>2
<1>4. Head(b) = s[2]
  BY <1>2, <1>3
<1>5. s[2] = "recv" /\ Level(t, Len(s) - 1) = "recv"
  <2>1. Len(s) + 1 - (Len(s) - 1) = 2
    BY <1>2
  <2>. QED  BY <1>4, <2>1 DEF Level
<1>6. Fits(t, Len(s) - 1, "recv")
  <2>1. Len(s) - 1 \in 1 .. Depth(t)
    BY <1>2 DEF Depth
  <2>. QED  BY <1>5, <2>1, StackFits
<1>7. Len(s) = 2 /\ t # Main
  <2>1. ~ (Len(s) - 1 > 1)
    <3>1. "recv" \notin TermLabels \cup AlarmLabels
      BY DEF TermLabels, AlarmLabels
    <3>. QED  BY <1>6, <3>1 DEF Fits
  <2>2. t # Main
    <3>1. "recv" \notin MainLabels
      BY DEF MainLabels, After
    <3>. QED  BY <1>6, <2>1, <3>1 DEF Fits
  <2>3. PICK n : n = Len(s)
    OBVIOUS
  <2>4. n \in Nat /\ n > 1 /\ ~ (n - 1 > 1)
    BY <1>2, <2>1, <2>3
  <2>5. n = 2
    BY <2>4
  <2>. QED  BY <2>2, <2>3, <2>5
<1>8. "mark" \in Labels
  BY DEF Labels, HandlerLabels
<1>9. r \in Seq(Labels) /\ Len(r) = 1 /\ r[1] = "mark"
  <2> HIDE DEF b, s
  <2>1. Len(b) = 1
    BY <1>2, <1>3, <1>7
  <2>2. /\ r \in Seq(Labels) /\ Len(r) = Len(b)
        /\ \A k \in 1 .. Len(b) : r[Len(b) + 1 - k] =
             IF k = Len(b) THEN "mark" ELSE b[Len(b) + 1 - k]
    BY <1>1, <1>3, <1>8, <2>1, NewTop
  <2>3. Len(b) + 1 - 1 = 1
    BY <2>1
  <2>. QED  BY <2>1, <2>2, <2>3
<1>10. stack' = [stack EXCEPT ![t] = r]
  BY <1>1 DEF Interrupted
<1>11. stack' \in [Thread -> Seq(Labels)]
  BY <1>9, <1>10 DEF StackInv
<1>12. stack'[t] = r /\ \A u \in Thread \ {t} : stack'[u] = stack[u]
  BY <1>10 DEF StackInv
<1>13. \A u \in Thread \ {t} : LevelsKept(u)
  BY <1>12 DEF LevelsKept, Depth, Level
<1>14. Depth(t)' = 1 /\ Level(t, 1)' = "mark"
  <2>1. Len(r) + 1 - 1 = 1
    BY <1>9
  <2>. QED  BY <1>9, <1>12, <2>1 DEF Depth, Level
<1>15. Depth(t) = 2 /\ Level(t, 1) = "recv"
  <2>1. Len(s) - 1 = 1
    BY <1>7
  <2>. QED  BY <1>5, <1>7, <2>1 DEF Depth
<1>16. \A u \in Thread : Depth(u)' \in Nat /\ Depth(u) \in Nat
  BY <1>13, <1>14, DepthType DEF LevelsKept
<1>17. StackInv'
  <2>1. \A u \in Thread \ {t} : \A k \in 1 .. Depth(u)' : Fits(u, k, Level(u, k)')
    BY <1>13, StackFits DEF LevelsKept
  <2>2. \A k \in 1 .. Depth(t)' : Fits(t, k, Level(t, k)')
    BY <1>7, <1>14 DEF Fits, HandlerLabels
  <2>3. Depth(Main)' > 0
    BY <1>7, <1>13 DEF LevelsKept, StackInv, Thread
  <2>. QED  BY <1>11, <1>16, <2>1, <2>2, <2>3, StackFromLevels
<1>. QED  BY <1>7, <1>13, <1>14, <1>15, <1>16, <1>17 DEF Thread

LEMMA WriteTimestampStep == ASSUME IInv, NEW t \in Thread, WriteTimestamp(t) PROVE IInv'
<1> USE DEF IInv
<1>0. /\ At(t, "timestamp_write")
      /\ \/ Pops(t)
         \/ /\ Head(Tail(stack[t])) = "recv"
            /\ stack' = [stack EXCEPT ![t] = Interrupted(Tail(stack[t]))]
      /\ file_mutex' = NoThread
      /\ UNCHANGED <<process, signals, manager_mutex, list, tail>>
  BY DEF WriteTimestamp, Release, Pops
<1>1. /\ Depth(t) > 1 /\ Level(t, Depth(t)) = "timestamp_write" /\ ended = "no"
      /\ \A u \in Thread : Depth(u) \in Nat
  BY <1>0, HandlerLevel, TopLevel, DepthType DEF MainLabels, HandlerLabels, After
<1>2. PICK i \in Nat : i = Depth(t) /\ i > 1
  BY <1>1
<1>3. Inside(t, i)
  BY <1>1, <1>2 DEF Inside
<1>4. \A u \in Thread : tail' # u
  <2>1. file_mutex = t /\ ~ Inside(t, 1)
    BY <1>2, <1>3 DEF FileInv
  <2>. QED  BY <1>0, <2>1, NoTail
<1>5. DataInv'
  BY <1>0 DEF DataInv, process, resources, list
<1>6. /\ StackInv' /\ LessBusy
      /\ Level(Main, 1)' = Level(Main, 1)
      /\ \A labels \in SUBSET TermLabels : SameAbove(labels)
      /\ \A u \in Thread : Depth(u)' \in Nat /\ Depth(u)' <= Depth(u)
      /\ \A u \in Thread : \A k \in Nat : Inside(u, k)' => Inside(u, k)
      /\ ~ Inside(t, i)'
  <2>1. CASE Pops(t)
    <3>1. StackInv' /\ Sinks(t)
      BY <1>1, <2>1, PopStack
    <3>2. /\ \A u \in Thread : Depth(u)' = IF u = t THEN Depth(u) - 1 ELSE Depth(u)
          /\ \A u \in Thread : \A k \in 1 .. Depth(u)' : Level(u, k)' = Level(u, k)
      BY <3>1 DEF Sinks, LevelsKept
    <3>3. \A u \in Thread : Depth(u)' > 0 => Depth(u) > 0 /\ Level(u, 1)' = Level(u, 1)
      BY <1>1, <3>2
    <3>4. LessBusy
      BY <3>3 DEF LessBusy, Busy, Thread
    <3>5. Level(Main, 1)' = Level(Main, 1)
      BY <3>1, <3>3 DEF StackInv, Thread
    <3>6. ASSUME NEW labels \in SUBSET TermLabels PROVE SameAbove(labels)
      <4>1. "timestamp_write" \notin labels
        BY DEF TermLabels
      <4>. QED  BY <1>0, <3>1, <4>1, SinksAbove
    <3>7. /\ \A u \in Thread : \A k \in Nat : Inside(u, k)' => Inside(u, k)
          /\ ~ Inside(t, i)'
      BY <1>1, <1>2, <3>2 DEF Inside
    <3>. QED  BY <1>1, <3>1, <3>2, <3>4, <3>5, <3>6, <3>7
  <2>2. CASE /\ Head(Tail(stack[t])) = "recv"
             /\ stack' = [stack EXCEPT ![t] = Interrupted(Tail(stack[t]))]
    <3>1. /\ StackInv' /\ t \in Conn
          /\ Depth(t) = 2 /\ Level(t, 1) = "recv"
          /\ Depth(t)' = 1 /\ Level(t, 1)' = "mark"
          /\ \A u \in Thread \ {t} : LevelsKept(u)
          /\ \A u \in Thread : Depth(u)' \in Nat /\ Depth(u) \in Nat
      BY <1>1, <2>2, InterruptStack
    <3>2. /\ \A u \in Thread \ {t} : Depth(u)' = Depth(u)
          /\ \A u \in Thread \ {t} : \A k \in 1 .. Depth(u) : Level(u, k)' = Level(u, k)
      BY <3>1 DEF LevelsKept
    <3>3. \A u \in Thread \ {t} : Depth(u) > 0 => Level(u, 1)' = Level(u, 1)
      BY <3>1, <3>2
    <3>4. LessBusy
      <4>1. \A c \in Conn \ {t} : Busy(c)' => Busy(c)
        BY <3>2, <3>3 DEF Busy, Thread
      <4>2. ~ Busy(t)'
        BY <3>1 DEF Busy
      <4>. QED  BY <4>1, <4>2 DEF LessBusy
    <3>5. Level(Main, 1)' = Level(Main, 1)
      <4>1. Main \in Thread \ {t}
        BY <3>1, ThreadAssumption DEF Thread
      <4>. QED  BY <3>3, <4>1 DEF StackInv
    <3>6. ASSUME NEW labels \in SUBSET TermLabels PROVE SameAbove(labels)
      <4>1. Level(t, 2) = "timestamp_write" /\ "timestamp_write" \notin labels
        BY <1>1, <3>1 DEF TermLabels
      <4>2. \A u \in Thread \ {t} : \A k \in 2 .. Depth(u) : Level(u, k)' = Level(u, k)
        BY <3>1, <3>2
      <4>3. \A k \in 2 .. Depth(t) : Level(t, k) \notin labels
        BY <3>1, <4>1
      <4>. QED  BY <3>1, <3>2, <4>2, <4>3 DEF SameAbove
    <3>7. /\ \A u \in Thread : \A k \in Nat : Inside(u, k)' => Inside(u, k)
          /\ ~ Inside(t, i)'
      BY <1>1, <1>2, <3>1, <3>2 DEF Inside
    <3>. QED  BY <3>1, <3>2, <3>4, <3>5, <3>6, <3>7
  <2>. QED  BY <1>0, <2>1, <2>2
<1>7. FlagInv' /\ SignalInv' /\ ResourceInv' /\ ServeInv'
  <2>1. ~ handlers => \A u \in Thread : Depth(u)' < 2
    <3>1. ~ (Depth(t) < 2)
      BY <1>1
    <3>. QED  BY <3>1 DEF SignalInv
  <2>. QED  BY <1>0, <1>1, <1>6, <2>1, StampStep DEF process
<1>8. FileInv'
  BY <1>3, <1>4, <1>6, Leaves
<1>. QED  BY <1>5, <1>6, <1>7, <1>8

-----------------------------------------------------------------------------
(* thread_entry_freeall, in the handler of SIGTERM.                        *)

LEMMA InRange ==
  ASSUME StackInv, NEW t \in Thread, NEW label \in Range(stack[t])
  PROVE  \E k \in 1 .. Depth(t) : Level(t, k) = label
<1> DEFINE s == stack[t]
<1>1. s \in Seq(Labels) /\ Len(s) \in Nat /\ DOMAIN s = 1 .. Len(s)
  BY DEF StackInv
<1>2. PICK i \in 1 .. Len(s) : s[i] = label
  BY <1>1 DEF Range
<1>3. Len(s) + 1 - i \in 1 .. Len(s) /\ Len(s) + 1 - (Len(s) + 1 - i) = i
  BY <1>1
<1>. QED  BY <1>2, <1>3 DEF Depth, Level

(* Whom thread_entry_freeall does not join has ended, or its own thread is *)
(* interrupted.                                                            *)
LEMMA NotJoined ==
  ASSUME IInv, NEW t \in Thread, NEW e \in Conn, At(t, "freeall"), e # t, ~ Joins(e, t)
  PROVE  ~ Busy(e)
<1> USE DEF IInv
<1>1. Depth(t) > 1 /\ Depth(t) \in Nat /\ Level(t, Depth(t)) = "freeall"
  BY HandlerLevel, DepthType DEF MainLabels, HandlerLabels, After
<1>2. CASE stack[e] = << >>
  <2>1. Len(<< >>) = 0
    OBVIOUS
  <2>. QED  BY <1>2, <2>1 DEF Busy, Depth
<1>3. CASE target = e /\ "joining" \in Range(stack[Main])
  <2>1. Main \in Thread
    BY DEF Thread
  <2>2. PICK k \in 1 .. Depth(Main) : Level(Main, k) = "joining"
    BY <1>3, <2>1, InRange
  <2>3. Fits(Main, k, "joining")
    BY <2>1, <2>2, StackFits
  <2>4. k = 1
    <3>1. "joining" \notin TermLabels \cup AlarmLabels
      BY DEF TermLabels, AlarmLabels
    <3>. QED  BY <2>3, <3>1 DEF Fits
  <2>. QED  BY <1>3, <2>2, <2>4 DEF ServeInv
<1>4. CASE \E u \in Thread : "freeall_joining" \in Range(stack[u])
  <2>1. PICK u \in Thread : "freeall_joining" \in Range(stack[u])
    BY <1>4
  <2>2. PICK k \in 1 .. Depth(u) : Level(u, k) = "freeall_joining"
    BY <2>1, InRange
  <2>3. Fits(u, k, "freeall_joining")
    BY <2>2, StackFits
  <2>4. k > 1
    <3>1. "freeall_joining" \notin MainLabels \cup HandlerLabels
      BY DEF MainLabels, HandlerLabels, After
    <3>. QED  BY <2>3, <3>1 DEF Fits
  <2>5. Level(t, Depth(t)) \in TermLabels /\ Level(u, k) \in TermLabels
    BY <1>1, <2>2 DEF TermLabels
  <2>6. u = t /\ k = Depth(t)
    BY <1>1, <2>4, <2>5, DepthType DEF SignalInv
  <2>. QED  BY <1>1, <2>2, <2>6
<1>. QED  BY <1>2, <1>3, <1>4 DEF Joins, BeingJoined

LEMMA FreeAllStep == ASSUME IInv, NEW t \in Thread, FreeAll(t) PROVE IInv'
<1> USE DEF IInv
<1>0. /\ At(t, "freeall")
      /\ UNCHANGED <<process, signals, manager_mutex, file_mutex, thread_manager,
                     is_complete, walk, target, tail>>
  BY DEF FreeAll, mutexes
<1>1. thread_manager \in Seq(Conn) /\ current_entry \in Conn \cup {NoThread}
  BY DEF DataInv
<1>2. PICK to \in {"close", "freeall_joining", "freeall_remove"} :
        /\ Goto(t, to)
        /\ to = "close" => thread_manager = << >>
        /\ to # "close" => current_entry' \in Conn
        /\ to = "freeall_remove" => ~ Joins(current_entry', t)
        /\ current_entry' \in Conn \cup {NoThread}
  <2>1. CASE thread_manager = << >>
    BY <1>1, <2>1 DEF FreeAll
  <2>2. CASE thread_manager # << >>
    <3>1. Head(thread_manager) \in Conn
      BY <1>1, <2>2
    <3>. QED  BY <2>2, <3>1 DEF FreeAll
  <2>. QED  BY <2>1, <2>2
<1>3. Depth(t) > 1
  BY <1>0, HandlerLevel DEF MainLabels, HandlerLabels, After
<1>4. /\ "freeall" \in TermLabels /\ to \in TermLabels
      /\ "freeall" \notin {"freeaddrinfo", "remove", "exit"}
      /\ to \notin {"freeaddrinfo", "remove", "exit"}
  BY DEF TermLabels
<1>5. /\ StackInv' /\ FlagInv' /\ SignalInv' /\ ResourceInv' /\ FileInv'
      /\ LessBusy
      /\ Level(Main, 1)' = Level(Main, 1)
      /\ \A labels \in SUBSET TermLabels :
           /\ Ending(labels)' <=> to \in labels
           /\ EndingMain(labels)' <=> t = Main /\ to \in labels
      /\ EndingClient' <=> EndingClient
  BY <1>0, <1>2, <1>3, <1>4, HandlerStep
<1>6. DataInv'
  BY <1>0, <1>2 DEF DataInv, process, resources
<1>7. /\ {"freeall_joining", "freeall_remove", "freeall_removing"} \in SUBSET TermLabels
      /\ {"freeall_remove", "freeall_removing"} \in SUBSET TermLabels
      /\ {"close", "freeaddrinfo", "remove", "exit"} \in SUBSET TermLabels
  BY DEF TermLabels
<1>8. ServeInv'
  <2>1. \A c \in is_complete' : ~ Busy(c)'
    BY <1>0, <1>5 DEF ServeInv, DataInv, LessBusy
  <2>2. /\ Level(Main, 1)' \in {"joining", "remove_entry", "removing"}
            => target' # NoThread /\ ~ Busy(target)'
        /\ Level(Main, 1)' \in {"add", "adding"} => target' # NoThread
    BY <1>0, <1>5 DEF ServeInv, DataInv, LessBusy
  <2>3. Ending({"freeall_joining", "freeall_remove", "freeall_removing"})'
            => current_entry' # NoThread
    <3>1. SUFFICES ASSUME to \in {"freeall_joining", "freeall_remove", "freeall_removing"}
                   PROVE  current_entry' # NoThread
      BY <1>5, <1>7
    <3>. QED  BY <1>2, <3>1, ThreadAssumption
  <2>4. EndingMain({"close", "freeaddrinfo", "remove", "exit"})'
            => thread_manager' = << >>
    <3>1. SUFFICES ASSUME to \in {"close", "freeaddrinfo", "remove", "exit"}
                   PROVE  thread_manager' = << >>
      BY <1>5, <1>7
    <3>. QED  BY <1>0, <1>2, <3>1
  <2>5. EndingMain({"freeall_remove", "freeall_removing"})' => ~ Busy(current_entry)'
    <3>1. SUFFICES ASSUME t = Main, to \in {"freeall_remove", "freeall_removing"}
                   PROVE  ~ Busy(current_entry)'
      BY <1>5, <1>7
    <3>2. PICK e \in Conn : e = current_entry'
      BY <1>2, <3>1
    <3>3. e # t /\ ~ Joins(e, t)
      BY <1>2, <3>1, <3>2, ThreadAssumption
    <3>4. ~ Busy(e)
      BY <1>0, <3>3, NotJoined
    <3>. QED  BY <1>5, <3>2, <3>4 DEF LessBusy
  <2>6. \/ EndingClient'
        \/ \A c \in Conn : Busy(c)' =>
             \/ c \in Range(thread_manager)'
             \/ c = target' /\ Level(Main, 1)' \in {"add", "adding"}
    BY <1>0, <1>5 DEF ServeInv, LessBusy
  <2>. QED  BY <2>1, <2>2, <2>3, <2>4, <2>5, <2>6 DEF ServeInv
<1>. QED  BY <1>5, <1>6, <1>8

LEMMA FreeAllRemoveStep ==
  ASSUME IInv, NEW t \in Thread, FreeAllRemove(t) PROVE IInv'
<1> USE DEF IInv
<1>0. /\ At(t, "freeall_removing") /\ Goto(t, "freeall") /\ Unlist(current_entry)
      /\ current_entry' = NoThread /\ manager_mutex' = NoThread
      /\ UNCHANGED <<process, signals, file_mutex, walk, target, tail>>
  BY DEF FreeAllRemove, UnlockManager
<1>1. /\ thread_manager' \in Seq(Conn) /\ is_complete' \subseteq is_complete
      /\ \A c \in Conn : c \in Range(thread_manager) /\ c # current_entry
           => c \in Range(thread_manager')
  BY <1>0, Unlisted
<1>3. Depth(t) > 1
  BY <1>0, HandlerLevel DEF MainLabels, HandlerLabels, After
<1>4. /\ "freeall" \in TermLabels /\ "freeall_removing" \in TermLabels
  BY DEF TermLabels
<1>5. /\ StackInv' /\ FlagInv' /\ SignalInv' /\ ResourceInv' /\ FileInv'
      /\ LessBusy
      /\ Level(Main, 1)' = Level(Main, 1)
      /\ \A labels \in SUBSET TermLabels :
           /\ EndingMain(labels) <=> t = Main /\ "freeall_removing" \in labels
           /\ Ending(labels)' <=> "freeall" \in labels
           /\ EndingMain(labels)' <=> t = Main /\ "freeall" \in labels
      /\ EndingClient' <=> EndingClient
      /\ EndingClient <=> t # Main
  BY <1>0, <1>3, <1>4, HandlerStep
<1>6. DataInv'
  BY <1>0, <1>1 DEF DataInv, process, resources
<1>7. /\ {"freeall_joining", "freeall_remove", "freeall_removing"} \in SUBSET TermLabels
      /\ {"freeall_remove", "freeall_removing"} \in SUBSET TermLabels
      /\ {"close", "freeaddrinfo", "remove", "exit"} \in SUBSET TermLabels
  BY DEF TermLabels
<1>8. ServeInv'
  <2>1. \A c \in is_complete' : ~ Busy(c)'
    BY <1>1, <1>5 DEF ServeInv, DataInv, LessBusy
  <2>2. /\ Level(Main, 1)' \in {"joining", "remove_entry", "removing"}
            => target' # NoThread /\ ~ Busy(target)'
        /\ Level(Main, 1)' \in {"add", "adding"} => target' # NoThread
    BY <1>0, <1>5 DEF ServeInv, DataInv, LessBusy
  <2>3. /\ ~ Ending({"freeall_joining", "freeall_remove", "freeall_removing"})'
        /\ ~ EndingMain({"freeall_remove", "freeall_removing"})'
        /\ ~ EndingMain({"close", "freeaddrinfo", "remove", "exit"})'
    BY <1>5, <1>7
  <2>4. CASE t # Main
    BY <1>5, <2>1, <2>2, <2>3, <2>4 DEF ServeInv
  <2>5. CASE t = Main
    <3>1. ~ Busy(current_entry)
      BY <1>5, <1>7, <2>5 DEF ServeInv
    <3>2. \A c \in Conn : Busy(c)' =>
            \/ c \in Range(thread_manager')
            \/ c = target' /\ Level(Main, 1)' \in {"add", "adding"}
      BY <1>0, <1>1, <1>5, <2>5, <3>1 DEF ServeInv, LessBusy
    <3>. QED  BY <2>1, <2>2, <2>3, <3>2 DEF ServeInv
  <2>. QED  BY <2>4, <2>5
<1>. QED  BY <1>5, <1>6, <1>8

-----------------------------------------------------------------------------
(* Every step.                                                             *)

LEMMA StuttersIInv == ASSUME IInv, UNCHANGED vars PROVE IInv'
<1> USE DEF IInv
<1>1. /\ StackInv' /\ SameInside /\ SameNewLine /\ LessBusy
      /\ \A t : Depth(t)' = Depth(t)
      /\ \A t, k : Level(t, k)' = Level(t, k)
      /\ \A labels : SameAbove(labels)
      /\ EndingClient <=> EndingClient'
  BY SameStack DEF vars
<1>2. /\ UNCHANGED <<ended, failed, resources, data_file, signals, manager_mutex,
                     file_mutex, list, tail>>
  BY DEF vars, process, mutexes
<1>3. /\ \A labels : /\ Ending(labels)' <=> Ending(labels)
                     /\ EndingMain(labels)' <=> EndingMain(labels)
  BY <1>1, AboveEnding
<1>4. DataInv'
  BY <1>2 DEF DataInv, resources, list
<1>5. FlagInv'
  BY <1>2 DEF FlagInv, signals
<1>6. SignalInv'
  <2>1. /\ handlers' => Level(Main, 1)' \in ServerLabels
        /\ ~ told' => ~ Ending(TermLabels)'
    BY <1>1, <1>2, <1>3 DEF SignalInv, signals
  <2>2. ~ handlers' => \A t \in Thread : Depth(t)' < 2
    BY <1>1, <1>2 DEF SignalInv, signals
  <2>3. \A t, u \in Thread : \A k \in 2 .. Depth(t)', l \in 2 .. Depth(u)' :
          Level(t, k)' \in TermLabels /\ Level(u, l)' \in TermLabels => t = u /\ k = l
    BY <1>1 DEF SignalInv
  <2>4. ended' = "handler" => Ending({"exit"})'
    BY <1>2, <1>3 DEF SignalInv
  <2>. QED  BY <2>1, <2>2, <2>3, <2>4 DEF SignalInv
<1>7. ResourceInv'
  BY <1>1, <1>2, <1>3, SameResources
<1>8. FileInv'
  BY <1>1, <1>2, SameFile
<1>9. ServeInv'
  BY <1>1, <1>2, <1>3, SameServe
<1>. QED  BY <1>1, <1>4, <1>5, <1>6, <1>7, <1>8, <1>9

(* An unknown option or a signal without a handler ends the process.       *)
LEMMA EndsStep ==
  ASSUME IInv, ended = "no", ended' \in {"exit", "signal"},
         UNCHANGED <<stack, failed, resources, data_file, signals, mutexes, list, tail>>
  PROVE  IInv'
<1> USE DEF IInv
<1>1. /\ StackInv' /\ SameInside /\ SameNewLine /\ LessBusy
      /\ \A t : Depth(t)' = Depth(t)
      /\ \A t, k : Level(t, k)' = Level(t, k)
      /\ \A labels : SameAbove(labels)
      /\ EndingClient <=> EndingClient'
  BY SameStack
<1>2. /\ \A labels : /\ Ending(labels)' <=> Ending(labels)
                     /\ EndingMain(labels)' <=> EndingMain(labels)
  BY <1>1, AboveEnding
<1>3. DataInv'
  BY DEF DataInv, resources, list, mutexes
<1>4. FlagInv'
  BY DEF FlagInv, signals
<1>5. SignalInv'
  <2>1. \A t \in Thread : Depth(t)' \in Nat /\ Depth(t) \in Nat /\ Depth(t)' <= Depth(t)
    BY <1>1, DepthType
  <2>. QED  BY <1>1, <2>1, SameSignals DEF signals
<1>6. ResourceInv'
  BY <1>1, <1>2, SameResources
<1>7. FileInv'
  BY <1>1, SameFile DEF mutexes
<1>8. ServeInv'
  BY <1>1, <1>2, SameServe
<1>. QED  BY <1>1, <1>3, <1>4, <1>5, <1>6, <1>7, <1>8

LEMMA NextIInv == ASSUME IInv, [Next]_vars PROVE IInv'
<1>1. CASE UNCHANGED vars
  BY <1>1, StuttersIInv
<1>2. CASE UnknownOption \/ DefaultAction
  BY <1>2, EndsStep DEF UnknownOption, DefaultAction, At
<1>3. ASSUME NEW c \in Conn, Accept(c) \/ Receive(c) \/ Disconnect(c) PROVE IInv'
  BY <1>3, AcceptStep, ReceiveStep
<1>4. ASSUME NEW t \in Thread,
             Own(t) \/ Stamp(t) \/ Stop(t) \/ SIGALRM(t) \/ SIGTERM(t)
      PROVE  IInv'
  <2>1. CASE Locks(t)
    BY <2>1, LockManagerStep, LockFileStep DEF Locks
  <2>2. CASE Start \/ Add \/ Scan \/ Join \/ RemoveEntry
    BY <2>2, StartStep, AddStep, ScanStep, JoinStep, RemoveEntryStep
  <2>3. CASE CleanUp(t)
    BY <2>3, CleanUpStep
  <2>4. CASE t \in Conn /\ (WriteBody(t) \/ WriteNewLine(t) \/ Mark(t))
    BY <2>4, WriteBodyStep, WriteNewLineStep, MarkStep
  <2>5. CASE FreeAll(t) \/ FreeAllJoin(t) \/ FreeAllRemove(t)
    BY <2>5, FreeAllStep, FreeAllJoinStep, FreeAllRemoveStep
  <2>6. CASE WriteTimestamp(t) \/ SIGALRM(t) \/ SIGTERM(t)
    BY <2>6, WriteTimestampStep, SIGALRMStep, SIGTERMStep
  <2>. QED  BY <1>4, <2>1, <2>2, <2>3, <2>4, <2>5, <2>6 DEF Own, Stamp, Stop
<1>. QED  BY <1>1, <1>2, <1>3, <1>4 DEF Next

LEMMA SpecIInv == Spec => []IInv
<1>1. Init => IInv
  BY InitIInv
<1>2. IInv /\ [Next]_vars => IInv'
  BY NextIInv
<1>. QED  BY <1>1, <1>2, PTL DEF Spec

-----------------------------------------------------------------------------
(* What the server keeps to, as the runs check it.                         *)

LEMMA LastLevel ==
  ASSUME StackInv, NEW t \in Thread, stack[t] # << >>
  PROVE  /\ Depth(t) > 0 /\ Last(stack[t]) = Level(t, 1)
         /\ \A label \in Range(Front(stack[t])) :
              \E k \in 2 .. Depth(t) : Level(t, k) = label
<1> DEFINE s == stack[t]
<1>1. s \in Seq(Labels) /\ Len(s) \in Nat /\ Len(s) > 0
  BY DEF StackInv
<1>2. Last(s) = Level(t, 1)
  BY <1>1 DEF Last, Level
<1>3. ASSUME NEW label \in Range(Front(s))
      PROVE  \E k \in 2 .. Depth(t) : Level(t, k) = label
  <2> DEFINE f == Front(s)
  <2>1. DOMAIN f = 1 .. Len(s) - 1 /\ \A i \in 1 .. Len(s) - 1 : f[i] = s[i]
    BY <1>1 DEF Front
  <2>2. PICK i \in 1 .. Len(s) - 1 : s[i] = label
    BY <1>3, <2>1 DEF Range
  <2>3. /\ Len(s) + 1 - i \in 2 .. Len(s)
        /\ Len(s) + 1 - (Len(s) + 1 - i) = i
    BY <1>1
  <2>. QED  BY <2>2, <2>3 DEF Depth, Level
<1>. QED  BY <1>1, <1>2, <1>3 DEF Depth

(* The types, for any number of connections: a thread's own label is at    *)
(* the bottom of its stack, and only handlers of signals are above it.     *)
THEOREM ServerProcessTypeOK == Spec => []TypeOK
<1>1. IInv => TypeOK
  <2> SUFFICES ASSUME IInv PROVE TypeOK
    OBVIOUS
  <2> USE DEF IInv
  <2>1. ASSUME NEW t \in Thread, stack[t] # << >>
        PROVE  /\ Last(stack[t]) \in IF t = Main THEN MainLabels ELSE HandlerLabels
               /\ Range(Front(stack[t])) \subseteq TermLabels \cup AlarmLabels
    BY <2>1, LastLevel DEF StackInv
  <2>2. Range(thread_manager \o walk) \subseteq Conn
    <3>1. thread_manager \o walk \in Seq(Conn)
      BY DEF DataInv
    <3>. QED  BY <3>1 DEF Range
  <2>3. handlers \in BOOLEAN /\ timer \in BOOLEAN /\ told \in BOOLEAN
    BY DEF FlagInv
  <2>4. /\ ended \in {"no", "exit", "abort", "handler", "signal"}
        /\ failed \in Faults \cup {"none"}
        /\ server_address_info \in {"NULL", "live", "freed"}
        /\ server_socket_fd \in {"stdin", "socket"}
        /\ open_fds \subseteq {"stdin", "socket"}
        /\ data_file \in {"absent", "present", "removed", "remade"}
        /\ misused \subseteq {"stdin_closed", "closed_twice", "freed_twice"}
        /\ {manager_mutex, file_mutex} \subseteq Thread \cup {NoThread}
        /\ {target, current_entry, tail} \subseteq Conn \cup {NoThread}
        /\ is_complete \subseteq Conn
    BY DEF DataInv
  <2>. QED  BY <2>1, <2>2, <2>3, <2>4 DEF TypeOK
<1>. QED  BY <1>1, SpecIInv, PTL

(* Whatever fails, the socket and the address list are released once, and  *)
(* what is not the server's never, but on the paths where main's labels    *)
(* and cleanup_server release the same things (aesdsocket.c:61-72,         *)
(* 132-149); and the handler of SIGTERM leaves nothing.                    *)
THEOREM ServerProcessReleasedOnce == Spec => []ReleasedOnce
<1>1. IInv => ReleasedOnce
  <2> SUFFICES ASSUME IInv PROVE ReleasedOnce
    OBVIOUS
  <2>1. /\ "freed_twice" \in misused => failed \in {"socket", "bind", "listen"}
        /\ "closed_twice" \in misused => failed \in {"bind", "listen"}
        /\ "stdin_closed" \in misused => failed \in {"getaddrinfo", "socket"}
    BY DEF IInv, ResourceInv, Unlistening
  <2>2. ASSUME ended = "handler"
        PROVE  /\ server_address_info = "freed"
               /\ "socket" \notin open_fds
               /\ data_file \in {"removed", "remade"}
    <3>1. Ending({"exit"})
      BY <2>2 DEF IInv, SignalInv
    <3>2. Ending({"remove", "exit"}) /\ Ending({"freeaddrinfo", "remove", "exit"})
      BY <3>1 DEF Ending
    <3>. QED  BY <3>1, <3>2 DEF IInv, ResourceInv
  <2>. QED  BY <2>1, <2>2 DEF ReleasedOnce
<1>. QED  BY <1>1, SpecIInv, PTL

(* When the main thread handles SIGTERM, exit cuts off no client but the   *)
(* one whose thread it had started and not yet added (aesdsocket.c:187-193)*)
(* however many there are.                                                 *)
THEOREM ServerProcessNobodyCutOff == Spec => []NobodyCutOff
<1>1. IInv => NobodyCutOff
  <2> SUFFICES ASSUME IInv, ended = "handler",
                      TermLabels \cap Range(stack[Main]) # {},
                      NEW c \in Conn, Serving(c)
               PROVE  c = target /\ Last(stack[Main]) \in {"add", "adding"}
    BY DEF NobodyCutOff
  <2> USE DEF IInv
  <2>0. Main \in Thread /\ c \in Thread
    BY DEF Thread
  <2>12. PICK u \in Thread : \E l \in 2 .. Depth(u) : Level(u, l) = "exit"
    BY DEF SignalInv, Ending
  <2>1. PICK l \in 2 .. Depth(u) : Level(u, l) = "exit"
    BY <2>12
  <2>2. Level(Main, 1) \in ServerLabels
    <3>1. Depth(u) \in Nat
      BY DepthType
    <3>2. ~ (Depth(u) < 2)
      BY <2>1, <3>1
    <3>3. handlers
      BY <3>2 DEF SignalInv
    <3>. QED  BY <3>3 DEF SignalInv
  <2>3. PICK k \in 1 .. Depth(Main) : Level(Main, k) \in TermLabels
    BY <2>0, InRange
  <2>4. k # 1
    BY <2>2, <2>3 DEF ServerLabels, TermLabels
  <2>5. u = Main /\ l = k
    <3>1. k \in 2 .. Depth(Main)
      BY <2>0, <2>4, DepthType
    <3>2. Level(u, l) \in TermLabels
      BY <2>1 DEF TermLabels
    <3>. QED  BY <2>0, <2>1, <2>3, <3>1, <3>2 DEF SignalInv
  <2>6. thread_manager = << >>
    <3>1. EndingMain({"close", "freeaddrinfo", "remove", "exit"})
      BY <2>1, <2>5 DEF EndingMain
    <3>. QED  BY <3>1 DEF ServeInv
  <2>7. ~ EndingClient
    <3>1. ASSUME NEW d \in Conn, NEW i \in 2 .. Depth(d), Level(d, i) \in TermLabels
          PROVE  FALSE
      <4>1. d \in Thread /\ d # Main
        BY ThreadAssumption DEF Thread
      <4>2. Level(u, l) \in TermLabels
        BY <2>1 DEF TermLabels
      <4>3. d = u
        BY <2>1, <3>1, <4>1, <4>2 DEF SignalInv
      <4>. QED  BY <2>5, <4>1, <4>3
    <3>. QED  BY <3>1 DEF EndingClient
  <2>8. Busy(c)
    BY <2>0, LastLevel DEF Serving, Busy
  <2>9. c \notin Range(thread_manager)
    <3>1. Range(<< >>) = {}
      BY DEF Range
    <3>. QED  BY <2>6, <3>1
  <2>10. c = target /\ Level(Main, 1) \in {"add", "adding"}
    BY <2>7, <2>8, <2>9 DEF ServeInv
  <2>11. stack[Main] # << >>
    <3>1. Len(<< >>) = 0
      OBVIOUS
    <3>. QED  BY <3>1 DEF StackInv, Depth
  <2>. QED  BY <2>0, <2>10, <2>11, LastLevel
<1>. QED  BY <1>1, SpecIInv, PTL

(* Only a client that writes a packet changes what the file ends in.       *)
LEMMA TailSteps ==
  ASSUME [Next]_vars, tail' # tail
  PROVE  \E c \in Conn : WriteBody(c) \/ (WriteNewLine(c) /\ tail' = NoThread)
<1>1. ~ UNCHANGED vars
  BY DEF vars
<1>2. ~ UnknownOption /\ ~ DefaultAction
  BY DEF UnknownOption, DefaultAction
<1>3. \A c \in Conn : ~ Accept(c) /\ ~ Receive(c) /\ ~ Disconnect(c)
  BY DEF Accept, Receive, Disconnect
<1>4. \A t \in Thread : ~ Locks(t) /\ ~ CleanUp(t) /\ ~ Mark(t)
  BY DEF Locks, LockManager, LockFile, CleanUp, Mark
<1>5. ~ Start /\ ~ Add /\ ~ Scan /\ ~ Join /\ ~ RemoveEntry
  BY DEF Start, Add, Scan, Join, Joined, RemoveEntry
<1>6. \A t \in Thread : ~ FreeAll(t) /\ ~ FreeAllJoin(t) /\ ~ FreeAllRemove(t)
  BY DEF FreeAll, FreeAllJoin, Joined, FreeAllRemove
<1>7. \A t \in Thread : ~ WriteTimestamp(t) /\ ~ SIGALRM(t) /\ ~ SIGTERM(t)
  BY DEF WriteTimestamp, SIGALRM, SIGTERM
<1>8. \A c : WriteNewLine(c) => tail' = NoThread
  BY DEF WriteNewLine
<1>9. PICK t \in Thread : Own(t) \/ Stamp(t) \/ Stop(t)
  BY <1>1, <1>2, <1>3, <1>7 DEF Next
<1>. QED  BY <1>4, <1>5, <1>6, <1>7, <1>8, <1>9 DEF Own, Stamp, Stop

LEMMA RecordsWholeStep ==
  ASSUME IInv, [Next]_vars
  PROVE  /\ (\E t \in Thread : Stamped(t)) => tail = NoThread
         /\ tail' \in Conn => tail \in {NoThread, tail'}
<1> USE DEF IInv
<1>1. tail \in Conn \cup {NoThread}
  BY DEF DataInv
<1>2. ASSUME NEW t \in Thread, Stamped(t) PROVE tail = NoThread
  <2>1. At(t, "timestamp_write")
    BY <1>2 DEF Stamped
  <2>2. Depth(t) > 1 /\ Level(t, Depth(t)) = "timestamp_write" /\ Depth(t) \in Nat
    BY <2>1, HandlerLevel, DepthType DEF MainLabels, HandlerLabels, After
  <2>3. PICK i \in Nat : i = Depth(t) /\ i > 1
    BY <2>2
  <2>4. Inside(t, i)
    BY <2>2, <2>3 DEF Inside
  <2>5. file_mutex = t /\ ~ Inside(t, 1)
    BY <2>3, <2>4 DEF FileInv
  <2>6. tail \notin Thread
    BY <2>5, NoTail
  <2>. QED  BY <1>1, <2>6 DEF Thread
<1>3. ASSUME NEW c \in Conn, WriteBody(c) PROVE tail = NoThread
  <2>1. At(c, "body") /\ c \in Thread
    BY <1>3 DEF WriteBody, Thread
  <2>2. Depth(c) = 1 /\ Level(c, 1) = "body"
    BY <2>1, OwnLevel DEF TermLabels, AlarmLabels
  <2>3. Inside(c, 1)
    BY <2>2 DEF Inside
  <2>4. ASSUME NEW u \in Thread, tail = u PROVE FALSE
    <3>1. Depth(u) \in Nat /\ Depth(u) > 0 /\ Level(u, 1) = "newline"
      BY <2>4, DepthType DEF FileInv
    <3>2. Inside(u, 1)
      BY <3>1 DEF Inside
    <3>3. u = c
      BY <2>1, <2>3, <3>2 DEF FileInv
    <3>. QED  BY <2>2, <3>1, <3>3
  <2>. QED  BY <1>1, <2>4 DEF Thread
<1>4. ASSUME tail' \in Conn PROVE tail \in {NoThread, tail'}
  <2>1. CASE tail' = tail
    BY <2>1
  <2>2. CASE tail' # tail
    <3>1. PICK c \in Conn : WriteBody(c)
      BY <1>4, <2>2, TailSteps, ThreadAssumption
    <3>. QED  BY <1>3, <3>1
  <2>. QED  BY <2>1, <2>2
<1>. QED  BY <1>2, <1>4

(* A timestamp is written, and a packet begun, only where the file does    *)
(* not end in a packet, whichever threads the signals interrupt            *)
(* (aesdsocket.c:277-294, 505-528).                                        *)
THEOREM ServerProcessRecordsWhole == Spec => RecordsWhole
<1>1. IInv /\ [Next]_vars =>
        [/\ (\E t \in Thread : Stamped(t)) => tail = NoThread
         /\ tail' \in Conn => tail \in {NoThread, tail'}]_vars
  BY RecordsWholeStep
<1>. QED  BY <1>1, SpecIInv, PTL DEF Spec, RecordsWhole
=============================================================================
