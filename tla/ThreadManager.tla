---------------------------- MODULE ThreadManager ----------------------------
(***************************************************************************)
(* The threads of server/aesdsocket.c: the main thread accepts connections *)
(* and starts a client_handler for each; a handler marks its entry in the  *)
(* thread_manager list when its client has gone; and the main thread, each *)
(* time it has accepted another connection, joins the handlers that were   *)
(* marked and frees their entries.  What a handler does for its client is  *)
(* in AesdServer: here it serves until the client disconnects.          *)
(*                                                                         *)
(* A connection stands for all that accept_connections makes for it: its   *)
(* descriptors, its thread_entry_t, and its thread, whose id is taken to   *)
(* be the connection.  (pthread_create stores the id before the thread     *)
(* runs, and an id is not used again before its thread was joined.)  All   *)
(* of them may serve a later connection once they were given back.         *)
(*                                                                         *)
(* The list is modelled by its links, because the main thread follows the  *)
(* link of an entry it has just freed.  What is done in one go while the   *)
(* manager mutex is held is one step, except for the walk of               *)
(* thread_entry_markcomplete, which takes a step for each entry.           *)
(***************************************************************************)
EXTENDS Naturals

CONSTANTS
  Conn,      \* the connections the server can have at a time
  NULL,      \* no entry
  NoThread,  \* the owner of a free mutex
  Faults     \* which calls may fail: "malloc", "pthread_create"

ASSUME ConnAssumption == NULL \notin Conn /\ NoThread \notin Conn

VARIABLES
  main_pc,         \* where the main thread is in accept_connections
  new_connection,  \* its locals: the entry being set up,
  current_entry,   \* and the one SLIST_FOREACH looks at
  heap,            \* the state of each entry's memory
  is_complete,     \* \ fields of thread_entry_t
  sle_next,        \* /
  slh_first,       \* the head of the thread_manager list
  manager_mutex,   \* the handler that holds the mutex, or NoThread
  thread,          \* where each connection's handler is
  cursor,          \* the entry thread_entry_markcomplete looks at
  client_fds,      \* the connections whose socket is open
  tmpdata_fds,     \* the connections whose data file is open
  failed           \* history: connections given up in accept_connections

main    == <<main_pc, new_connection, current_entry>>
list    == <<heap, is_complete, sle_next, slh_first, manager_mutex>>
handler == <<thread, cursor>>
fds     == <<client_fds, tmpdata_fds, failed>>
vars    == <<main, list, handler, fds>>

Init ==
  /\ main_pc = "accept"
  /\ new_connection = NULL
  /\ current_entry = NULL
  /\ heap = [c \in Conn |-> "none"]
  /\ is_complete = [c \in Conn |-> FALSE]
  /\ sle_next = [c \in Conn |-> NULL]
  /\ slh_first = NULL
  /\ manager_mutex = NoThread
  /\ thread = [c \in Conn |-> "none"]
  /\ cursor = [c \in Conn |-> NULL]
  /\ client_fds = {}
  /\ tmpdata_fds = {}
  /\ failed = {}

(* The manager mutex is free to be taken.                                  *)
AlwaysUnlocked == TRUE            \* variant: the mutex is not waited for
Unlocked == manager_mutex = NoThread

(* What becomes of the memory of entry e.                                  *)
thread_entry_create(e) ==
  /\ heap' = [heap EXCEPT ![e] = "live"]
  /\ is_complete' = [is_complete EXCEPT ![e] = FALSE]

thread_entry_free(e) == heap' = [heap EXCEPT ![e] = "freed"]

-----------------------------------------------------------------------------
(* The main thread: accept_connections.                                    *)

(* accept, or opening the data file, fails: whatever was made is closed,   *)
(* and the loop goes on.                                                   *)
AcceptFails ==
  /\ main_pc = "accept"
  /\ UNCHANGED vars

(* Accept a connection, open the data file for it and make its entry.      *)
(* When thread_entry_create has no memory both descriptors stay open.      *)
Accept(c) ==
  /\ main_pc = "accept"
  /\ c \notin client_fds \cup tmpdata_fds
  /\ heap[c] # "live"
  /\ client_fds' = client_fds \cup {c}
  /\ tmpdata_fds' = tmpdata_fds \cup {c}
  /\ \/ /\ main_pc' = "create"
        /\ new_connection' = c
        /\ thread_entry_create(c)
        /\ UNCHANGED failed
     \/ /\ "malloc" \in Faults
        /\ failed' = failed \cup {c}
        /\ UNCHANGED <<main_pc, new_connection, heap, is_complete>>
  /\ UNCHANGED <<current_entry, sle_next, slh_first, manager_mutex, handler>>

(* pthread_create.  When it fails the data file stays open.                *)
Create ==
  LET c == new_connection
  IN  /\ main_pc = "create"
      /\ \/ /\ main_pc' = "add"
            /\ thread' = [thread EXCEPT ![c] = "serving"]
            /\ UNCHANGED <<heap, client_fds, failed>>
         \/ /\ "pthread_create" \in Faults
            /\ main_pc' = "accept"
            /\ client_fds' = client_fds \ {c}
            /\ thread_entry_free(c)
            /\ failed' = failed \cup {c}
            /\ UNCHANGED thread
      /\ UNCHANGED <<new_connection, current_entry, is_complete, sle_next,
                     slh_first, manager_mutex, cursor, tmpdata_fds>>

(* SLIST_INSERT_HEAD.                                                      *)
InsertAlone(e) ==                 \* variant: the link is not set
  UNCHANGED sle_next /\ slh_first' = e
InsertHead(e) ==
  sle_next' = [sle_next EXCEPT ![e] = slh_first] /\ slh_first' = e

thread_entry_add ==
  /\ main_pc = "add"
  /\ Unlocked
  /\ main_pc' = "print"
  /\ InsertHead(new_connection)
  /\ UNCHANGED <<new_connection, current_entry, heap, is_complete,
                 manager_mutex, handler, fds>>

(* It takes the mutex, and SLIST_FOREACH then starts at the head without.  *)
thread_entry_printall ==
  /\ main_pc = "print"
  /\ Unlocked
  /\ main_pc' = "scan"
  /\ current_entry' = slh_first
  /\ UNCHANGED <<new_connection, list, handler, fds>>

(* is_complete is read without the mutex.                                  *)
JoinableAlways == TRUE            \* variant: is_complete is not looked at
Joinable == is_complete[current_entry]

Scan ==
  /\ main_pc = "scan"
  /\ IF current_entry = NULL
       THEN main_pc' = "accept" /\ UNCHANGED current_entry
       ELSE IF Joinable
         THEN main_pc' = "join" /\ UNCHANGED current_entry
         ELSE current_entry' = sle_next[current_entry] /\ UNCHANGED main_pc
  /\ UNCHANGED <<new_connection, list, handler, fds>>

(* pthread_join returns when the handler has; then the data file is closed.*)
KeepDataFile(c) == UNCHANGED tmpdata_fds    \* variant: it is not closed
CloseDataFile(c) == tmpdata_fds' = tmpdata_fds \ {c}

Join ==
  /\ main_pc = "join"
  /\ thread[current_entry] = "returned"
  /\ main_pc' = "remove"
  /\ thread' = [thread EXCEPT ![current_entry] = "none"]
  /\ CloseDataFile(current_entry)
  /\ UNCHANGED <<new_connection, current_entry, list, cursor, client_fds, failed>>

(* SLIST_REMOVE makes the entry before this one, which is the only other   *)
(* to point to it, point past it.                                          *)
thread_entry_remove ==
  LET e == current_entry
  IN  /\ main_pc = "remove"
      /\ Unlocked
      /\ main_pc' = "next"
      /\ IF slh_first = e
           THEN slh_first' = sle_next[e] /\ UNCHANGED sle_next
           ELSE /\ sle_next' = [c \in Conn |->
                     IF heap[c] = "live" /\ sle_next[c] = e
                       THEN sle_next[e] ELSE sle_next[c]]
                /\ UNCHANGED slh_first
      /\ thread_entry_free(e)
      /\ UNCHANGED <<new_connection, current_entry, is_complete, manager_mutex,
                     handler, fds>>

(* SLIST_FOREACH goes on from the entry that was just freed.  Nothing was  *)
(* allocated since and free leaves the link alone, so it is still there.   *)
StopAtFreed == NULL               \* variant: one entry is removed at a time
FollowFreed == sle_next[current_entry]

FollowLink ==
  /\ main_pc = "next"
  /\ main_pc' = "scan"
  /\ current_entry' = FollowFreed
  /\ UNCHANGED <<new_connection, list, handler, fds>>

-----------------------------------------------------------------------------
(* A connection's thread: client_handler, from where its client has gone.  *)

Disconnect(c) ==
  /\ thread[c] = "serving"
  /\ thread' = [thread EXCEPT ![c] = "gone"]
  /\ UNCHANGED <<main, list, cursor, fds>>

(* thread_entry_markcomplete looks for the entry of this thread.           *)
MarkLock(c) ==
  /\ thread[c] = "gone"
  /\ Unlocked
  /\ manager_mutex' = c
  /\ cursor' = [cursor EXCEPT ![c] = slh_first]
  /\ thread' = [thread EXCEPT ![c] = "marking"]
  /\ UNCHANGED <<main, heap, is_complete, sle_next, slh_first, fds>>

MarkKeepsLock(c) ==               \* variant: the mutex_unlock is missing
  /\ thread' = [thread EXCEPT ![c] = "marked"]
  /\ cursor' = [cursor EXCEPT ![c] = NULL]
  /\ UNCHANGED manager_mutex
MarkUnlock(c) ==
  /\ thread' = [thread EXCEPT ![c] = "marked"]
  /\ cursor' = [cursor EXCEPT ![c] = NULL]
  /\ manager_mutex' = NoThread

MarkStep(c) ==
  /\ thread[c] = "marking"
  /\ \/ /\ cursor[c] = NULL                      \* no entry matched: -1
        /\ MarkUnlock(c)
        /\ UNCHANGED is_complete
     \/ /\ cursor[c] = c
        /\ is_complete' = [is_complete EXCEPT ![c] = TRUE]
        /\ MarkUnlock(c)
     \/ /\ cursor[c] \in Conn \ {c}
        /\ cursor' = [cursor EXCEPT ![c] = sle_next[cursor[c]]]
        /\ UNCHANGED <<is_complete, manager_mutex, thread>>
  /\ UNCHANGED <<main, heap, sle_next, slh_first, fds>>

CloseClient(c) ==
  /\ thread[c] = "marked"
  /\ client_fds' = client_fds \ {c}
  /\ thread' = [thread EXCEPT ![c] = "returned"]
  /\ UNCHANGED <<main, list, cursor, tmpdata_fds, failed>>

-----------------------------------------------------------------------------
MainLocks == thread_entry_add \/ thread_entry_printall \/ thread_entry_remove

MainRuns == Create \/ Scan \/ Join \/ FollowLink

HandlerRuns(c) == MarkStep(c) \/ CloseClient(c)

Next ==
  \/ AcceptFails \/ MainRuns \/ MainLocks
  \/ \E c \in Conn :
       Accept(c) \/ Disconnect(c) \/ MarkLock(c) \/ HandlerRuns(c)

Spec == Init /\ [][Next]_vars

(* A thread that can run does in the end, and one that waits for the mutex *)
(* gets it in turn.  Whether clients come and go is up to them.            *)
Fairness ==
  /\ WF_vars(MainRuns) /\ SF_vars(MainLocks)
  /\ \A c \in Conn : WF_vars(HandlerRuns(c)) /\ SF_vars(MarkLock(c))

FairSpec == Spec /\ Fairness

-----------------------------------------------------------------------------
TypeOK ==
  /\ main_pc \in {"accept", "create", "add", "print", "scan", "join", "remove",
                  "next"}
  /\ new_connection \in Conn \cup {NULL}
  /\ current_entry \in Conn \cup {NULL}
  /\ heap \in [Conn -> {"none", "live", "freed"}]
  /\ is_complete \in [Conn -> BOOLEAN]
  /\ sle_next \in [Conn -> Conn \cup {NULL}]
  /\ slh_first \in Conn \cup {NULL}
  /\ manager_mutex \in Conn \cup {NoThread}
  /\ thread \in [Conn -> {"none", "serving", "gone", "marking", "marked",
                          "returned"}]
  /\ cursor \in [Conn -> Conn \cup {NULL}]
  /\ client_fds \subseteq Conn
  /\ tmpdata_fds \subseteq Conn
  /\ failed \subseteq Conn

(* The entries that are in the list: those that were added and not freed.  *)
SetUp(c) == main_pc \in {"create", "add"} /\ c = new_connection
Listed == {c \in Conn : heap[c] = "live" /\ ~ SetUp(c)}

(* No thread reaches freed memory through the list or its own entry: the   *)
(* list links live entries only, a handler walks it while nobody changes   *)
(* it, and the entry of a handler stays until the handler was joined.      *)
EntriesLive ==
  /\ slh_first \in Listed \cup {NULL}
  /\ \A c \in Listed : sle_next[c] \in Listed \cup {NULL}
  /\ \A c \in Conn : thread[c] # "none" => heap[c] = "live"
  /\ \A c \in Conn : thread[c] = "marking" => cursor[c] \in Listed \cup {NULL}

(* pthread_join, called in the loop that accepts connections, never waits  *)
(* for a client: the handler it waits for has nothing left but to close.   *)
JoinWaitsForNoClient ==
  main_pc = "join" => thread[current_entry] \in {"marked", "returned"}

(* A socket is open as long as its handler lives, the data file as long as *)
(* its entry has a thread to be joined, and the only descriptors nobody    *)
(* will close are those of connections accept_connections gave up.         *)
DescriptorsOwned ==
  /\ client_fds \ failed =
       {c \in Conn : \/ thread[c] \in {"serving", "gone", "marking", "marked"}
                     \/ main_pc = "create" /\ c = new_connection}
  /\ tmpdata_fds \ failed =
       {c \in Conn : \/ thread[c] # "none"
                     \/ main_pc = "create" /\ c = new_connection}
  /\ failed \subseteq tmpdata_fds

(* Once it has accepted a connection the main thread comes back to accept  *)
(* the next, whatever the handlers do and however long clients stay.       *)
AcceptsAgain == main_pc # "accept" ~> main_pc = "accept"

(* As long as connections keep arriving, a handler that was marked in the  *)
(* list is joined and its entry freed: "check if any of the current        *)
(* threads need to be joined" (aesdsocket.c:198).                          *)
MarkedAreReaped ==
  []<>(main_pc = "print") =>
    \A c \in Conn : (is_complete[c] /\ thread[c] = "returned")
                      ~> heap[c] = "freed"

(* thread_entry_markcomplete, which "marks a thread in the thread manager  *)
(* as complete" (aesdsocket.h:234), marks the thread that calls it, unless *)
(* the main thread, which starts a thread before it adds the entry, has    *)
(* not come to that: a walk misses no listed entry, whatever was removed   *)
(* around it.                                                              *)
MarksIfListed ==
  [][\A c \in Conn : thread[c] = "marking" /\ thread'[c] = "marked"
       => (is_complete'[c] <=> c \in Listed)]_vars
=============================================================================
