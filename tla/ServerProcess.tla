--------------------------- MODULE ServerProcess ---------------------------
(***************************************************************************)
(* The server of server/aesdsocket.c as a process, in the build that       *)
(* writes to a file (USE_AESD_CHAR_DEVICE 0): how main starts and cleans   *)
(* up, the timer, and the signal handler, which may interrupt any thread   *)
(* wherever it is, to write a timestamp or to shut the server down.        *)
(*                                                                         *)
(* A thread is a stack of labels: at the bottom where it is in its own     *)
(* code, and above that one label for each signal handler that interrupted *)
(* it; only the topmost runs.  Client handlers and the thread list are     *)
(* those of AesdServer and ThreadManager with less in them: a packet is    *)
(* the two writes made for it, the reply is left out, the list is a        *)
(* sequence, and no call fails once the server accepts connections.        *)
(***************************************************************************)
EXTENDS Naturals, SequencesExt

CONSTANTS
  Conn,       \* the connections, and their threads
  Main,       \* the main thread
  NoThread,   \* none: the owner of a free mutex, the end of a whole file
  Faults      \* the calls of the start that may fail

ASSUME ThreadAssumption == Main \notin Conn /\ NoThread \notin Conn \cup {Main}

Thread == Conn \cup {Main}

VARIABLES
  stack,             \* of each thread, the topmost label first
  ended,             \* how the process ended, or "no"
  failed,            \* history: the call of the start that failed, or "none"
  server_address_info,
  server_socket_fd,  \* the descriptor it names: 0, "stdin", until it is set
  open_fds,
  data_file,         \* "absent", "present", "removed", or made again: "remade"
  misused,           \* history: what was released twice, or is not the server's
  handlers,          \* whether signal_handler is installed
  timer,             \* whether the timer is armed
  told,              \* SIGINT or SIGTERM was sent
  manager_mutex,     \* \ who holds it, or NoThread
  file_mutex,        \* /
  thread_manager,    \* the list, its head first
  is_complete,       \* the connections whose entry is marked
  walk,              \* main: the entries SLIST_FOREACH has still to look at
  target,            \* main: the entry it adds, or joins and removes
  current_entry,     \* thread_entry_freeall: the entry it joins and removes
  tail               \* the connection in whose packet the file ends

resources == <<server_address_info, server_socket_fd, open_fds, misused>>
process   == <<ended, failed, resources, data_file>>
signals   == <<handlers, timer, told>>
mutexes   == <<manager_mutex, file_mutex>>
list      == <<thread_manager, is_complete, walk, target, current_entry>>
vars      == <<stack, process, signals, mutexes, list, tail>>

Init ==
  /\ stack = [t \in Thread |-> IF t = Main THEN <<"getaddrinfo">> ELSE << >>]
  /\ ended = "no"
  /\ failed = "none"
  /\ server_address_info = "NULL"
  /\ server_socket_fd = "stdin"
  /\ open_fds = {"stdin"}
  /\ data_file = "absent"
  /\ misused = {}
  /\ handlers = FALSE
  /\ timer = FALSE
  /\ told = FALSE
  /\ manager_mutex = NoThread
  /\ file_mutex = NoThread
  /\ thread_manager = << >>
  /\ is_complete = {}
  /\ walk = << >>
  /\ target = NoThread
  /\ current_entry = NoThread
  /\ tail = NoThread

At(t, label) == ended = "no" /\ stack[t] # << >> /\ Head(stack[t]) = label

Goto(t, label) == stack' = [stack EXCEPT ![t] = <<label>> \o Tail(@)]

-----------------------------------------------------------------------------
(* main, until it accepts connections.                                     *)

Fails(call, label) ==
  /\ call \in Faults
  /\ failed' = call
  /\ Goto(Main, label)
  /\ UNCHANGED <<server_address_info, server_socket_fd, open_fds, timer, handlers>>

Goes(label) == Goto(Main, label) /\ UNCHANGED failed

getaddrinfo ==
  /\ At(Main, "getaddrinfo")
  /\ \/ /\ Goes("socket")
        /\ server_address_info' = "live"
        /\ UNCHANGED <<server_socket_fd, open_fds, timer, handlers>>
     \/ Fails("getaddrinfo", "exit_free_addrinfo_struct")

socket ==
  /\ At(Main, "socket")
  /\ \/ /\ Goes("bind")
        /\ server_socket_fd' = "socket"
        /\ open_fds' = open_fds \cup {"socket"}
        /\ UNCHANGED <<server_address_info, timer, handlers>>
     \/ Fails("socket", "exit_free_addrinfo_struct")

bind_and_listen ==
  /\ UNCHANGED <<server_address_info, server_socket_fd, open_fds, timer, handlers>>
  /\ \/ At(Main, "bind") /\ (Goes("listen") \/ Fails("bind", "exit_socket_bind"))
     \/ At(Main, "listen")
          /\ (Goes("start_daemon") \/ Fails("listen", "exit_socket_bind"))

(* Without -d the process goes on as it is, with it as the child of its    *)
(* child, which has the same memory and files.  A fork that fails, either  *)
(* of the two, ends the process it fails in, after cleanup_server, whose   *)
(* list is still empty.                                                    *)
ForkFailedToMain == "exit_socket_bind"     \* variant: main's labels follow
ForkFailed == "close"

start_daemon ==
  /\ At(Main, "start_daemon")
  /\ \/ Goes("timer_create")
     \/ Fails("fork", ForkFailed)
  /\ UNCHANGED <<server_address_info, server_socket_fd, open_fds, timer, handlers>>

(* An option that is not known: exit(-1), and nothing is released.         *)
UnknownOption ==
  /\ At(Main, "start_daemon")
  /\ ended' = "exit"
  /\ UNCHANGED <<stack, failed, resources, data_file, signals, mutexes, list, tail>>

(* When the timer cannot be made or set, no handler is installed.          *)
initialize_timer ==
  /\ \/ /\ At(Main, "timer_create")
        /\ \/ Goes("timer_settime") /\ UNCHANGED <<timer, handlers>>
           \/ Fails("timer_create", "accept")
     \/ /\ At(Main, "timer_settime")
        /\ \/ Goes("sigaction") /\ timer' = TRUE /\ UNCHANGED handlers
           \/ Fails("timer_settime", "accept")
     \/ /\ At(Main, "sigaction")
        /\ Goes("accept")
        /\ handlers' = TRUE
        /\ UNCHANGED timer
  /\ UNCHANGED <<server_address_info, server_socket_fd, open_fds>>

Start ==
  /\ \/ getaddrinfo \/ socket \/ bind_and_listen \/ start_daemon
     \/ initialize_timer
  /\ UNCHANGED <<ended, data_file, misused, told, mutexes, list, tail>>

-----------------------------------------------------------------------------
(* Cleaning up: main's labels, and cleanup_server from its second call on, *)
(* in whichever thread runs it.                                            *)

After == [exit_socket_bind          |-> "exit_free_addrinfo_struct",
          exit_free_addrinfo_struct |-> "close",
          close                     |-> "freeaddrinfo",
          freeaddrinfo              |-> "remove",
          remove                    |-> "exit"]

close(t) ==
  \E label \in {"exit_socket_bind", "close"} :
    /\ At(t, label)
    /\ Goto(t, After[label])
    /\ open_fds' = open_fds \ {server_socket_fd}
    /\ misused' = misused \cup
         IF server_socket_fd = "stdin" THEN {"stdin_closed"}
         ELSE IF server_socket_fd \notin open_fds THEN {"closed_twice"} ELSE {}
    /\ UNCHANGED <<ended, server_address_info, data_file>>

(* freeaddrinfo(NULL) does nothing.  When the list is freed again, malloc  *)
(* finds out and aborts, or it does not.                                   *)
freeaddrinfo(t) ==
  \E label \in {"exit_free_addrinfo_struct", "freeaddrinfo"} :
    /\ At(t, label)
    /\ \/ Goto(t, After[label]) /\ UNCHANGED ended
       \/ server_address_info = "freed" /\ ended' = "abort" /\ UNCHANGED stack
    /\ server_address_info' =
         IF server_address_info = "NULL" THEN "NULL" ELSE "freed"
    /\ misused' = misused \cup
         IF server_address_info = "freed" THEN {"freed_twice"} ELSE {}
    /\ UNCHANGED <<open_fds, data_file>>

remove(t) ==
  /\ At(t, "remove")
  /\ Goto(t, After["remove"])
  /\ data_file' = "removed"
  /\ UNCHANGED <<ended, server_address_info, open_fds, misused>>

(* main returns, or exit is called: the process ends, every thread with it.*)
exit(t) ==
  /\ At(t, "exit")
  /\ ended' = IF Len(stack[t]) = 1 THEN "exit" ELSE "handler"
  /\ UNCHANGED <<stack, server_address_info, open_fds, data_file, misused>>

CleanUp(t) ==
  /\ close(t) \/ freeaddrinfo(t) \/ remove(t) \/ exit(t)
  /\ UNCHANGED <<failed, server_socket_fd, signals, mutexes, list, tail>>

-----------------------------------------------------------------------------
(* The mutexes.  Neither is recursive: a thread that wants one it has      *)
(* waits for itself.                                                       *)

AlwaysFree(mutex) == TRUE         \* variant: the mutex is not waited for
Free(mutex) == mutex = NoThread

WantsManager ==
  [add |-> "adding", remove_entry |-> "removing",
   mark |-> "marking", freeall_remove |-> "freeall_removing"]

WantsFile == [lock |-> "body", timestamp |-> "timestamp_write"]

LockManager(t) ==
  /\ Free(manager_mutex)
  /\ \E label \in DOMAIN WantsManager :
       At(t, label) /\ Goto(t, WantsManager[label])
  /\ manager_mutex' = t
  /\ UNCHANGED <<process, signals, file_mutex, list, tail>>

LockFile(t) ==
  /\ Free(file_mutex)
  /\ \E label \in DOMAIN WantsFile : At(t, label) /\ Goto(t, WantsFile[label])
  /\ file_mutex' = t
  /\ UNCHANGED <<process, signals, manager_mutex, list, tail>>

UnlockManager == manager_mutex' = NoThread

NoRelease == UNCHANGED file_mutex          \* variant: the unlock is missing
Release == file_mutex' = NoThread

-----------------------------------------------------------------------------
(* accept_connections.                                                     *)

AfterOpen == CASE data_file = "absent"  -> "present"
               [] data_file = "removed" -> "remade"
               [] OTHER                 -> data_file

(* A connection is accepted, the data file opened, and the thread started. *)
(* Once the socket is closed accept fails, and is called again.            *)
Accept(c) ==
  /\ At(Main, "accept")
  /\ "socket" \in open_fds
  /\ stack[c] = << >> /\ c \notin Range(thread_manager)
  /\ stack' = [stack EXCEPT ![Main] = <<"add">> \o Tail(@), ![c] = <<"recv">>]
  /\ target' = c
  /\ is_complete' = is_complete \ {c}
  /\ data_file' = AfterOpen
  /\ UNCHANGED <<ended, failed, resources, signals, mutexes, thread_manager, walk,
                 current_entry, tail>>

(* thread_entry_printall, which follows, takes the mutex again and only    *)
(* logs.                                                                   *)
Add ==
  /\ At(Main, "adding")
  /\ Goto(Main, "scan")
  /\ thread_manager' = <<target>> \o thread_manager
  /\ target' = NoThread
  /\ walk' = thread_manager'
  /\ UnlockManager
  /\ UNCHANGED <<process, signals, file_mutex, is_complete, current_entry, tail>>

(* pthread_join waits for thread e, unless e is the caller, was joined, or *)
(* is being joined: then it returns an error, and nobody looks at it.      *)
NeverJoined(e, t) == FALSE        \* variant: there is no join
BeingJoined(e) ==
  \/ target = e /\ "joining" \in Range(stack[Main])
  \/ current_entry = e /\ \E t \in Thread : "freeall_joining" \in Range(stack[t])
Joins(e, t) == e # t /\ stack[e] # << >> /\ ~ BeingJoined(e)

(* The next entry of the walk that is marked, if there is one, is joined.  *)
Scan ==
  LET next == SelectInSeq(walk, LAMBDA e : e \in is_complete)
  IN  /\ At(Main, "scan")
      /\ \/ /\ next = 0
            /\ Goto(Main, "accept")
            /\ walk' = << >>
            /\ UNCHANGED target
         \/ /\ next # 0
            /\ Goto(Main, IF Joins(walk[next], Main) THEN "joining" ELSE "remove_entry")
            /\ target' = walk[next]
            /\ walk' = SubSeq(walk, next + 1, Len(walk))
      /\ UNCHANGED <<process, signals, mutexes, thread_manager, is_complete,
                     current_entry, tail>>

Joined(t, e, label) ==
  /\ stack[e] = <<"returned">>
  /\ stack' = [stack EXCEPT ![t] = <<label>> \o Tail(@), ![e] = << >>]
  /\ UNCHANGED <<process, signals, mutexes, list, tail>>

Join == At(Main, "joining") /\ Joined(Main, target, "remove_entry")

(* Its first entry, if the list has one, is removed and freed.  What it    *)
(* says stays in the freed memory.                                         *)
Unlist(e) ==
  /\ thread_manager' = RemoveFirst(thread_manager, e)
  /\ is_complete' = IF e \in Range(walk) THEN is_complete ELSE is_complete \ {e}

RemoveEntry ==
  /\ At(Main, "removing")
  /\ Goto(Main, "scan")
  /\ Unlist(target)
  /\ target' = NoThread
  /\ UnlockManager
  /\ UNCHANGED <<process, signals, file_mutex, walk, current_entry, tail>>

-----------------------------------------------------------------------------
(* client_handler.                                                         *)

Receive(c) ==
  /\ At(c, "recv")
  /\ Goto(c, "lock")
  /\ UNCHANGED <<process, signals, mutexes, list, tail>>

Disconnect(c) ==
  /\ At(c, "recv")
  /\ Goto(c, "mark")
  /\ UNCHANGED <<process, signals, mutexes, list, tail>>

WriteBody(c) ==
  /\ At(c, "body")
  /\ Goto(c, "newline")
  /\ tail' = c
  /\ UNCHANGED <<process, signals, mutexes, list>>

WriteNewLine(c) ==
  /\ At(c, "newline")
  /\ Goto(c, "recv")
  /\ tail' = NoThread
  /\ Release
  /\ UNCHANGED <<process, signals, manager_mutex, list>>

Mark(c) ==
  /\ At(c, "marking")
  /\ Goto(c, "returned")
  /\ is_complete' = is_complete \cup ({c} \cap Range(thread_manager))
  /\ UnlockManager
  /\ UNCHANGED <<process, signals, file_mutex, thread_manager, walk, target,
                 current_entry, tail>>

-----------------------------------------------------------------------------
(* Signals.  The kernel delivers one to any thread that does not block it; *)
(* a handler blocks its own signal in its thread.  Without a handler the   *)
(* process dies of it.                                                     *)

TermLabels == {"freeall", "freeall_joining", "freeall_remove", "freeall_removing",
               "close", "freeaddrinfo", "remove", "exit"}
AlarmLabels == {"timestamp", "timestamp_write"}

Runs(t) == ended = "no" /\ stack[t] # << >> /\ Head(stack[t]) # "returned"

Push(t, label) == stack' = [stack EXCEPT ![t] = <<label>> \o @]

(* The timer has fired: append_timestamp, up to where it has opened the    *)
(* file.  It fires every TIMER_FREQ_S (10) seconds; here not again until   *)
(* the last timestamp is written, which is a bound on the model.           *)
SIGALRM(t) ==
  /\ Runs(t)
  /\ timer /\ handlers
  /\ \A u \in Thread : AlarmLabels \cap Range(stack[u]) = {}
  /\ Push(t, "timestamp")
  /\ data_file' = AfterOpen
  /\ UNCHANGED <<ended, failed, resources, signals, mutexes, list, tail>>

(* Then, with the mutex, the timestamp is written, the mutex unlocked and  *)
(* the file closed.  sa_flags is 0: a recv that was waiting when the       *)
(* signal came fails with EINTR, and the handler takes that for the end of *)
(* its connection.                                                         *)
ReceivesOn(below) == <<"mark">> \o below       \* variant: the loop goes on
Interrupted(below) == <<"mark">> \o Tail(below)

WriteTimestamp(t) ==
  LET below == Tail(stack[t])
  IN  /\ At(t, "timestamp_write")
      /\ \/ stack' = [stack EXCEPT ![t] = below]
         \/ /\ Head(below) = "recv"
            /\ stack' = [stack EXCEPT ![t] = Interrupted(below)]
      /\ Release
      /\ UNCHANGED <<process, signals, manager_mutex, list, tail>>

(* SIGINT or SIGTERM, sent once.                                           *)
SIGTERM(t) ==
  /\ Runs(t)
  /\ handlers /\ ~ told
  /\ told' = TRUE
  /\ Push(t, "freeall")
  /\ UNCHANGED <<process, handlers, timer, mutexes, list, tail>>

DefaultAction ==
  /\ ended = "no"
  /\ ~ handlers
  /\ ended' = "signal"
  /\ UNCHANGED <<stack, failed, resources, data_file, signals, mutexes, list, tail>>

(* thread_entry_freeall, which cleanup_server calls first: it looks at the *)
(* head of the list without the mutex.                                     *)
FreeAll(t) ==
  /\ At(t, "freeall")
  /\ \/ /\ thread_manager = << >>
        /\ Goto(t, "close")
        /\ UNCHANGED current_entry
     \/ /\ thread_manager # << >>
        /\ current_entry' = Head(thread_manager)
        /\ Goto(t, IF Joins(Head(thread_manager), t) THEN "freeall_joining"
                                                     ELSE "freeall_remove")
  /\ UNCHANGED <<process, signals, mutexes, thread_manager, is_complete, walk,
                 target, tail>>

FreeAllJoin(t) ==
  At(t, "freeall_joining") /\ Joined(t, current_entry, "freeall_remove")

FreeAllRemove(t) ==
  /\ At(t, "freeall_removing")
  /\ Goto(t, "freeall")
  /\ Unlist(current_entry)
  /\ current_entry' = NoThread
  /\ UnlockManager
  /\ UNCHANGED <<process, signals, file_mutex, walk, target, tail>>

-----------------------------------------------------------------------------
(* What each thread does by itself: in its own code, in the handler that   *)
(* writes a timestamp, and in the one that shuts the server down.          *)
Stops(t) == Len(stack[t]) > 1 /\ (\E label \in TermLabels : At(t, label))
Stamps(t) == \E label \in AlarmLabels : At(t, label)

Locks(t) == LockManager(t) \/ LockFile(t)

Own(t) ==
  /\ ~ Stops(t) /\ ~ Stamps(t)
  /\ \/ Locks(t)
     \/ t = Main /\ (Start \/ CleanUp(t) \/ Add \/ Scan \/ Join \/ RemoveEntry)
     \/ t \in Conn /\ (WriteBody(t) \/ WriteNewLine(t) \/ Mark(t))

Stamp(t) == Stamps(t) /\ (Locks(t) \/ WriteTimestamp(t))

Stop(t) == Stops(t) /\ (\/ Locks(t) \/ FreeAll(t) \/ FreeAllJoin(t)
                        \/ FreeAllRemove(t) \/ CleanUp(t))

Next ==
  \/ UnknownOption \/ DefaultAction
  \/ \E c \in Conn : Accept(c) \/ Receive(c) \/ Disconnect(c)
  \/ \E t \in Thread : Own(t) \/ Stamp(t) \/ Stop(t) \/ SIGALRM(t) \/ SIGTERM(t)

Spec == Init /\ [][Next]_vars

(* Whatever a thread can do it does in the end, although the timer         *)
(* interrupts it again and again, and clients leave some time.             *)
Fairness ==
  /\ \A t \in Thread : SF_vars(Own(t) \/ Stop(t))
  /\ SF_vars(\E t \in Thread : Stamp(t))
  /\ \A c \in Conn : SF_vars(Disconnect(c))

FairSpec == Spec /\ Fairness

-----------------------------------------------------------------------------
(* The types: at the bottom of a stack a label of the thread's own code,   *)
(* and above it labels of the signal handler.                              *)
MainLabels ==
  {"getaddrinfo", "socket", "bind", "listen", "start_daemon", "timer_create",
   "timer_settime", "sigaction", "accept", "add", "adding", "scan", "joining",
   "remove_entry", "removing"} \cup DOMAIN After \cup {"exit"}
HandlerLabels ==
  {"recv", "lock", "body", "newline", "mark", "marking", "returned"}

TypeOK ==
  /\ \A t \in Thread : stack[t] # << >> =>
       /\ Last(stack[t]) \in IF t = Main THEN MainLabels ELSE HandlerLabels
       /\ Range(Front(stack[t])) \subseteq TermLabels \cup AlarmLabels
  /\ ended \in {"no", "exit", "abort", "handler", "signal"}
  /\ failed \in Faults \cup {"none"}
  /\ server_address_info \in {"NULL", "live", "freed"}
  /\ server_socket_fd \in {"stdin", "socket"} /\ open_fds \subseteq {"stdin", "socket"}
  /\ data_file \in {"absent", "present", "removed", "remade"}
  /\ misused \subseteq {"stdin_closed", "closed_twice", "freed_twice"}
  /\ handlers \in BOOLEAN /\ timer \in BOOLEAN /\ told \in BOOLEAN
  /\ {manager_mutex, file_mutex} \subseteq Thread \cup {NoThread}
  /\ {target, current_entry, tail} \subseteq Conn \cup {NoThread}
  /\ is_complete \subseteq Conn /\ Range(thread_manager \o walk) \subseteq Conn

(* No record in the data file is torn: a packet is begun, and a timestamp  *)
(* written, only where the file does not end in the middle of a packet,    *)
(* whichever threads the signals interrupt between the two writes of one.  *)
Stamped(t) == At(t, "timestamp_write") /\ stack'[t] # stack[t]
                /\ Len(stack'[t]) < Len(stack[t])

RecordsWhole ==
  [][/\ (\E t \in Thread : Stamped(t)) => tail = NoThread
     /\ tail' \in Conn => tail \in {NoThread, tail'}]_vars

(* When the server is told to end and the main thread handles the signal,  *)
(* exit cuts off no client, except one whose thread the interrupted main   *)
(* thread had started and not yet added to the list (aesdsocket.c:187-193).*)
Serving(c) ==
  stack[c] # << >> /\ Last(stack[c]) \in {"recv", "lock", "body", "newline"}

NobodyCutOff ==
  ended = "handler" /\ TermLabels \cap Range(stack[Main]) # {} =>
    \A c \in Conn : Serving(c) =>
      c = target /\ Last(stack[Main]) \in {"add", "adding"}

(* The socket and the address list are released once, and descriptors that *)
(* are not the server's never, unless the start failed before the socket   *)
(* was listening: main's labels and cleanup_server then release the same   *)
(* things (aesdsocket.c:61-72, 132-149).  Nothing is left when the signal  *)
(* handler has ended the server, but a data file opened again since.       *)
ReleasedOnce ==
  /\ "freed_twice" \in misused => failed \in {"socket", "bind", "listen"}
  /\ "closed_twice" \in misused => failed \in {"bind", "listen"}
  /\ "stdin_closed" \in misused => failed \in {"getaddrinfo", "socket"}
  /\ ended = "handler" => /\ server_address_info = "freed"
                          /\ "socket" \notin open_fds
                          /\ data_file \in {"removed", "remade"}

(* A timestamp is written in the end, unless a signal has interrupted the  *)
(* thread that holds file_mutex: then the handler may wait for itself.     *)
HolderInterrupted(mutex) == mutex # NoThread /\ Len(stack[mutex]) > 1

Stamping == \E t \in Thread : At(t, "timestamp")
TimestampsEnd == Stamping ~> ~ Stamping \/ HolderInterrupted(file_mutex)

(* Told to end, the server ends when its clients have left, if the main    *)
(* thread handles the signal and no handler interrupted the holder of a    *)
(* mutex ("gracefully shut down", aesdsocket.h:126).                       *)
ShutdownEnds ==
  TermLabels \cap Range(stack[Main]) # {} ~>
    \/ ended # "no"
    \/ HolderInterrupted(manager_mutex) \/ HolderInterrupted(file_mutex)
=============================================================================
