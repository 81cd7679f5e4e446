------------------------- MODULE ThreadManagerProofs -------------------------
(***************************************************************************)
(* The server's threads, for any number of connections and any failing     *)
(* calls: no thread reaches a freed entry, the main thread joins nobody    *)
(* who still serves a client, and no descriptor is lost that the code does *)
(* not give up where it accepts.                                           *)
(*                                                                         *)
(* What makes the list safe is its shape: following links leads to listed  *)
(* entries, no two entries link to the same one, none links to the first,  *)
(* and there are no cycles (the links descend in some ranking).  Hence     *)
(* once SLIST_REMOVE has redirected one link, nothing leads to the entry   *)
(* that is then freed.                                                     *)
(***************************************************************************)
EXTENDS ThreadManager, TLAPS

(* The links form a list.                                                  *)
Ranks(r) ==
  /\ r \in [Conn -> Nat]
  /\ \A c \in Listed : sle_next[c] # NULL => r[sle_next[c]] < r[c]

WellLinked ==
  /\ \A c \in Listed : sle_next[c] # NULL => sle_next[c] # slh_first
  /\ \A c, d \in Listed : sle_next[c] = sle_next[d] /\ sle_next[c] # NULL => c = d
  /\ \E r : Ranks(r)

(* The mutex is held by exactly the handler that walks the list.           *)
MutexInv == \A c \in Conn : manager_mutex = c <=> thread[c] = "marking"

(* Where the main thread's locals point.                                   *)
MainInv ==
  /\ main_pc = "create" => /\ new_connection \in Conn
                           /\ heap[new_connection] = "live"
                           /\ thread[new_connection] = "none"
                           /\ ~ is_complete[new_connection]
  /\ main_pc = "add" => /\ new_connection \in Conn
                        /\ heap[new_connection] = "live"
                        /\ thread[new_connection] # "none"
  /\ main_pc = "scan" => current_entry \in Listed \cup {NULL}
  /\ main_pc \in {"join", "remove"} => current_entry \in Listed
  /\ main_pc = "remove" => thread[current_entry] = "none"
  /\ main_pc = "next" => /\ current_entry \in Conn
                         /\ sle_next[current_entry] \in Listed \cup {NULL}

(* Entry c is between pthread_join and thread_entry_remove.                *)
Joined(c) == main_pc = "remove" /\ c = current_entry

(* Every listed entry has a thread until it is joined, and one that is     *)
(* marked has a thread that is done with its client.                       *)
ThreadInv ==
  /\ \A c \in Listed : thread[c] # "none" \/ Joined(c)
  /\ \A c \in Conn : heap[c] = "live" /\ is_complete[c]
                       => thread[c] \in {"marked", "returned"} \/ Joined(c)

IInv ==
  /\ TypeOK /\ EntriesLive /\ WellLinked /\ MutexInv /\ MainInv /\ ThreadInv
  /\ JoinWaitsForNoClient /\ DescriptorsOwned

-----------------------------------------------------------------------------
LEMMA IInvInit == Init => IInv
<1> SUFFICES ASSUME Init PROVE IInv
  OBVIOUS
<1>1. TypeOK /\ EntriesLive /\ MutexInv /\ MainInv /\ ThreadInv
  BY ConnAssumption
  DEF Init, TypeOK, EntriesLive, Listed, MutexInv, MainInv, ThreadInv
<1>2. JoinWaitsForNoClient /\ DescriptorsOwned
  BY ConnAssumption DEF Init, JoinWaitsForNoClient, DescriptorsOwned
<1>3. Ranks([c \in Conn |-> 0]) /\ Listed = {}
  BY DEF Init, Ranks, Listed
<1>4. WellLinked
  BY <1>3 DEF WellLinked
<1>. QED  BY <1>1, <1>2, <1>4 DEF IInv

(* A listed entry is a live one.                                           *)
LEMMA ListedLive == \A c \in Listed : c \in Conn /\ heap[c] = "live"
BY DEF Listed

LEMMA IInvStutters == ASSUME IInv, UNCHANGED vars PROVE IInv'
<1>1. Listed' = Listed
  BY DEF vars, main, list, Listed, SetUp
<1>2. TypeOK' /\ EntriesLive' /\ MutexInv' /\ JoinWaitsForNoClient'
  BY <1>1 DEF IInv, vars, main, list, handler, fds, TypeOK, EntriesLive, MutexInv,
              JoinWaitsForNoClient
<1>3. WellLinked'
  BY <1>1 DEF IInv, vars, list, WellLinked, Ranks
<1>4. MainInv' /\ ThreadInv'
  BY <1>1 DEF IInv, vars, main, list, handler, MainInv, ThreadInv, Joined
<1>5. DescriptorsOwned'
  BY DEF IInv, vars, main, handler, fds, DescriptorsOwned
<1>. QED  BY <1>2, <1>3, <1>4, <1>5 DEF IInv

LEMMA AcceptStep ==
  ASSUME IInv, NEW c \in Conn, Accept(c) PROVE IInv'
<1>0. Listed' = Listed
  BY DEF IInv, TypeOK, Listed, SetUp, Accept, thread_entry_create
<1>1. TypeOK'
  <2>1. /\ client_fds' \subseteq Conn /\ tmpdata_fds' \subseteq Conn
        /\ failed' \subseteq Conn
    BY DEF IInv, TypeOK, Accept, thread_entry_create
  <2>2. /\ heap' \in [Conn -> {"none", "live", "freed"}]
        /\ is_complete' \in [Conn -> BOOLEAN]
    BY DEF IInv, TypeOK, Accept, thread_entry_create
  <2>3. /\ main_pc' \in {"accept", "create"}
        /\ new_connection' \in Conn \cup {NULL}
    BY DEF IInv, TypeOK, Accept, thread_entry_create
  <2>. QED  BY <2>1, <2>2, <2>3 DEF IInv, TypeOK, Accept, handler
<1>2. EntriesLive'
  BY <1>0
  DEF IInv, TypeOK, EntriesLive, MutexInv, Accept, thread_entry_create, handler
<1>3. WellLinked'
  BY <1>0 DEF IInv, WellLinked, Ranks, Accept, thread_entry_create
<1>4. MutexInv'
  BY DEF IInv, MutexInv, Accept, thread_entry_create, handler
<1>5. MainInv'
  BY DEF IInv, TypeOK, MainInv, EntriesLive, Accept, thread_entry_create,
      handler
<1>6. ThreadInv'
  BY <1>0
  DEF IInv, TypeOK, ThreadInv, Joined, Accept, thread_entry_create, handler
<1>7. JoinWaitsForNoClient'
  BY DEF IInv, JoinWaitsForNoClient, Accept, thread_entry_create
<1>8. DescriptorsOwned'
  BY DEF IInv, DescriptorsOwned, Accept, thread_entry_create, handler
<1>. QED  BY <1>1, <1>2, <1>3, <1>4, <1>5, <1>6, <1>7, <1>8 DEF IInv

LEMMA CreateStep ==
  ASSUME IInv, Create PROVE IInv'
<1>0. Listed' = Listed
  BY DEF IInv, TypeOK, Listed, SetUp, Create, thread_entry_free
<1>1. TypeOK'
  BY DEF IInv, TypeOK, MainInv, Create, thread_entry_free
<1>2. EntriesLive'
  BY <1>0
  DEF IInv, TypeOK, EntriesLive, MutexInv, MainInv, Create, thread_entry_free
<1>3. WellLinked'
  BY <1>0 DEF IInv, WellLinked, Ranks, Create, thread_entry_free
<1>4. MutexInv'
  BY DEF IInv, TypeOK, MutexInv, MainInv, Create, thread_entry_free
<1>5. MainInv'
  BY DEF IInv, TypeOK, MainInv, Create, thread_entry_free
<1>6. ThreadInv'
  <2>1. /\ main_pc = "create" /\ main_pc' \in {"add", "accept"}
        /\ new_connection \in Conn /\ ~ is_complete[new_connection]
        /\ is_complete' = is_complete
    BY DEF IInv, MainInv, Create, thread_entry_free
  <2>2. \A c \in Conn \ {new_connection} :
          heap'[c] = heap[c] /\ thread'[c] = thread[c]
    BY <2>1 DEF IInv, TypeOK, Create, thread_entry_free
  <2>3. new_connection \notin Listed
    BY <2>1 DEF Listed, SetUp
  <2>. QED  BY <1>0, <2>1, <2>2, <2>3, ListedLive DEF IInv, ThreadInv, Joined
<1>7. JoinWaitsForNoClient'
  BY DEF IInv, JoinWaitsForNoClient, Create, thread_entry_free
<1>8. DescriptorsOwned'
  BY DEF IInv, TypeOK, DescriptorsOwned, MainInv, Create, thread_entry_free
<1>. QED  BY <1>1, <1>2, <1>3, <1>4, <1>5, <1>6, <1>7, <1>8 DEF IInv

LEMMA AddStep ==
  ASSUME IInv, thread_entry_add PROVE IInv'
<1>0. Listed' = Listed \cup {new_connection}
  BY DEF IInv, MainInv, Listed, SetUp, thread_entry_add, handler, fds
<1>1. TypeOK'
  BY DEF IInv, TypeOK, thread_entry_add, InsertHead, handler, fds
<1>2. EntriesLive'
  BY <1>0
  DEF IInv, TypeOK, EntriesLive, MutexInv, MainInv, thread_entry_add, InsertHead, handler,
      fds
<1>3. WellLinked'
  <2>1. /\ new_connection \in Conn \ Listed
        /\ sle_next' = [sle_next EXCEPT ![new_connection] = slh_first]
        /\ slh_first' = new_connection
    BY DEF IInv, MainInv, Listed, SetUp, thread_entry_add, InsertHead
  <2>2. /\ sle_next'[new_connection] = slh_first
        /\ \A c \in Listed : sle_next'[c] = sle_next[c]
    BY <2>1, ListedLive DEF IInv, TypeOK
  <2>3. \A c \in Listed' : sle_next'[c] # NULL => sle_next'[c] \in Listed
    BY <1>0, <2>2 DEF IInv, EntriesLive
  <2>4. \A c \in Listed' : sle_next'[c] # NULL => sle_next'[c] # slh_first'
    BY <2>1, <2>3
  <2>5. \A c, d \in Listed' :
          sle_next'[c] = sle_next'[d] /\ sle_next'[c] # NULL => c = d
    BY <1>0, <2>2 DEF IInv, WellLinked
  <2>6. \E r : Ranks(r)'
    <3>1. PICK r : Ranks(r)
      BY DEF IInv, WellLinked
    <3>2. slh_first # NULL => slh_first \in Listed /\ slh_first \in Conn
      BY ListedLive DEF IInv, EntriesLive
    <3>3. PICK top \in Nat : slh_first # NULL => r[slh_first] < top
      <4>1. CASE slh_first = NULL
        BY <4>1
      <4>2. CASE slh_first # NULL
        <5>1. r[slh_first] \in Nat /\ r[slh_first] < r[slh_first] + 1
          BY <3>1, <3>2, <4>2 DEF Ranks
        <5>. QED  BY <5>1
      <4>. QED  BY <4>1, <4>2
    <3>4. PICK n \in Conn : n = new_connection
      BY <2>1, ListedLive
    <3>. DEFINE s == [r EXCEPT ![n] = top]
    <3>5. s \in [Conn -> Nat]
      BY <3>1 DEF Ranks
    <3>6. s[n] = top /\ \A c \in Listed : s[c] = r[c]
      BY <2>1, <3>1, <3>4, ListedLive DEF Ranks
    <3>7. ASSUME NEW c \in Listed', sle_next'[c] # NULL
          PROVE  s[sle_next'[c]] < s[c]
      <4>1. sle_next'[c] \in Listed
        BY <2>3, <3>7
      <4>2. CASE c = n
        BY <2>2, <3>1, <3>2, <3>3, <3>4, <3>6, <3>7, <4>1, <4>2
      <4>3. CASE c \in Listed
        BY <2>2, <3>1, <3>6, <3>7, <4>1, <4>3 DEF Ranks
      <4>. QED  BY <1>0, <3>4, <4>2, <4>3
    <3>8. Ranks(s)'
      BY <3>5, <3>7 DEF Ranks
    <3>. QED  BY <3>8
  <2>. QED  BY <2>4, <2>5, <2>6 DEF WellLinked
<1>4. MutexInv'
  BY DEF IInv, MutexInv, thread_entry_add, InsertHead, handler, fds
<1>5. MainInv'
  BY DEF IInv, MainInv, thread_entry_add, fds
<1>6. ThreadInv'
  BY <1>0 DEF IInv, ThreadInv, MainInv, Joined, thread_entry_add, handler, fds
<1>7. JoinWaitsForNoClient'
  BY DEF IInv, JoinWaitsForNoClient, thread_entry_add, fds
<1>8. DescriptorsOwned'
  BY DEF IInv, DescriptorsOwned, thread_entry_add, handler, fds
<1>. QED  BY <1>1, <1>2, <1>3, <1>4, <1>5, <1>6, <1>7, <1>8 DEF IInv

LEMMA PrintStep ==
  ASSUME IInv, thread_entry_printall PROVE IInv'
<1>0. Listed' = Listed
  BY DEF IInv, Listed, SetUp, thread_entry_printall, list, fds
<1>1. TypeOK'
  BY DEF IInv, TypeOK, thread_entry_printall, list, handler, fds
<1>2. EntriesLive'
  BY <1>0
  DEF IInv, EntriesLive, MutexInv, thread_entry_printall, list, handler, fds
<1>3. WellLinked'
  BY <1>0 DEF IInv, WellLinked, Ranks, thread_entry_printall, list, fds
<1>4. MutexInv'
  BY DEF IInv, MutexInv, thread_entry_printall, list, handler, fds
<1>5. MainInv'
  BY <1>0
  DEF IInv, MainInv, EntriesLive, thread_entry_printall, list, handler, fds
<1>6. ThreadInv'
  BY <1>0
  DEF IInv, ThreadInv, Joined, thread_entry_printall, list, handler, fds
<1>7. JoinWaitsForNoClient'
  BY DEF IInv, JoinWaitsForNoClient, thread_entry_printall, list, fds
<1>8. DescriptorsOwned'
  BY DEF IInv, DescriptorsOwned, thread_entry_printall, list, handler, fds
<1>. QED  BY <1>1, <1>2, <1>3, <1>4, <1>5, <1>6, <1>7, <1>8 DEF IInv

LEMMA ScanStep ==
  ASSUME IInv, Scan PROVE IInv'
<1>0. Listed' = Listed
  BY DEF IInv, Listed, SetUp, Scan, Joinable, list, fds
<1>1. TypeOK'
  BY DEF IInv, TypeOK, Scan, Joinable, list, handler, fds
<1>2. EntriesLive'
  BY <1>0 DEF IInv, EntriesLive, MutexInv, Scan, Joinable, list, handler, fds
<1>3. WellLinked'
  BY <1>0 DEF IInv, WellLinked, Ranks, Scan, Joinable, list, fds
<1>4. MutexInv'
  BY DEF IInv, MutexInv, Scan, Joinable, list, handler, fds
<1>5. MainInv'
  BY <1>0 DEF IInv, MainInv, EntriesLive, Scan, Joinable, list, handler, fds
<1>6. ThreadInv'
  BY <1>0 DEF IInv, ThreadInv, Joined, Scan, Joinable, list, handler, fds
<1>7. JoinWaitsForNoClient'
  BY ListedLive
  DEF IInv, JoinWaitsForNoClient, MainInv, ThreadInv, Joined, Scan, Joinable,
      handler
<1>8. DescriptorsOwned'
  BY DEF IInv, DescriptorsOwned, Scan, Joinable, list, handler, fds
<1>. QED  BY <1>1, <1>2, <1>3, <1>4, <1>5, <1>6, <1>7, <1>8 DEF IInv

LEMMA JoinStep ==
  ASSUME IInv, Join PROVE IInv'
<1>0. Listed' = Listed
  BY DEF IInv, Listed, SetUp, Join, CloseDataFile, list
<1>1. TypeOK'
  BY DEF IInv, TypeOK, Join, CloseDataFile, list
<1>2. EntriesLive'
  BY <1>0 DEF IInv, EntriesLive, Join, CloseDataFile, list
<1>3. WellLinked'
  BY <1>0 DEF IInv, WellLinked, Ranks, Join, CloseDataFile, list
<1>4. MutexInv'
  BY DEF IInv, MutexInv, Join, CloseDataFile, list
<1>5. MainInv'
  BY <1>0, ListedLive DEF IInv, TypeOK, MainInv, Join, list
<1>6. ThreadInv'
  BY <1>0 DEF IInv, ThreadInv, Joined, Join, CloseDataFile, list
<1>7. JoinWaitsForNoClient'
  BY DEF IInv, JoinWaitsForNoClient, Join, CloseDataFile, list
<1>8. DescriptorsOwned'
  BY DEF IInv, TypeOK, DescriptorsOwned, Join, CloseDataFile, list
<1>. QED  BY <1>1, <1>2, <1>3, <1>4, <1>5, <1>6, <1>7, <1>8 DEF IInv

(* SLIST_REMOVE leaves no link to the entry that is freed, and redirects   *)
(* at most the link of the entry before it.                                *)
LEMMA RemoveUnlinks ==
  ASSUME IInv, thread_entry_remove
  PROVE  /\ current_entry \in Listed
         /\ slh_first' # current_entry
         /\ slh_first' = IF slh_first = current_entry
                           THEN sle_next[current_entry] ELSE slh_first
         /\ \A c \in Listed :
              /\ sle_next'[c] # current_entry
              /\ sle_next'[c] = IF sle_next[c] = current_entry
                                  THEN sle_next[current_entry] ELSE sle_next[c]
         /\ sle_next'[current_entry] = sle_next[current_entry]
<1>. DEFINE e == current_entry
<1>1. e \in Listed /\ e \in Conn /\ heap[e] = "live" /\ e # NULL
  BY ListedLive, ConnAssumption
  DEF IInv, MainInv, thread_entry_remove, thread_entry_free
<1>2. sle_next[e] # e
  <2>1. PICK r : Ranks(r)
    BY DEF IInv, WellLinked
  <2>. QED  BY <1>1, <2>1 DEF Ranks
<1>3. CASE slh_first = e
  <2>1. slh_first' = sle_next[e] /\ sle_next' = sle_next
    BY <1>3 DEF thread_entry_remove, thread_entry_free
  <2>2. \A c \in Listed : sle_next[c] # e
    BY <1>1, <1>3 DEF IInv, WellLinked
  <2>. QED  BY <1>1, <1>2, <1>3, <2>1, <2>2
<1>4. CASE slh_first # e
  <2>1. /\ slh_first' = slh_first
        /\ \A c \in Conn : sle_next'[c] =
             IF heap[c] = "live" /\ sle_next[c] = e
               THEN sle_next[e] ELSE sle_next[c]
    BY <1>4 DEF thread_entry_remove, thread_entry_free
  <2>. QED  BY <1>1, <1>2, <1>4, <2>1, ListedLive
<1>. QED  BY <1>3, <1>4

LEMMA RemoveStep ==
  ASSUME IInv, thread_entry_remove PROVE IInv'
<1>0. Listed' = Listed \ {current_entry}
  BY DEF IInv, TypeOK, Listed, SetUp, thread_entry_remove, thread_entry_free,
      fds
<1>1. TypeOK'
  BY ListedLive
  DEF IInv, TypeOK, MainInv, thread_entry_remove, thread_entry_free, handler,
      fds
<1>2. EntriesLive'
  <2>1. /\ slh_first' \in Listed' \cup {NULL}
        /\ \A c \in Listed' : sle_next'[c] \in Listed' \cup {NULL}
    BY <1>0, RemoveUnlinks DEF IInv, EntriesLive
  <2>2. /\ thread' = thread /\ cursor' = cursor
        /\ thread[current_entry] = "none" /\ manager_mutex = NoThread
        /\ current_entry \in Conn /\ heap' = [heap EXCEPT ![current_entry] = "freed"]
    BY ListedLive
    DEF IInv, MainInv, thread_entry_remove, thread_entry_free, Unlocked,
        handler
  <2>3. \A c \in Conn : thread[c] # "marking"
    BY <2>2, ConnAssumption DEF IInv, MutexInv
  <2>4. \A c \in Conn : thread'[c] # "none" => heap'[c] = "live"
    BY <2>2 DEF IInv, EntriesLive
  <2>. QED  BY <2>1, <2>2, <2>3, <2>4 DEF EntriesLive
<1>3. WellLinked'
  <2>. DEFINE e == current_entry
  <2>a. /\ \A c \in Listed : sle_next[c] # NULL => sle_next[c] # slh_first
        /\ \A c, d \in Listed :
             sle_next[c] = sle_next[d] /\ sle_next[c] # NULL => c = d
    BY DEF IInv, WellLinked
  <2>b. /\ e \in Listed /\ e # NULL
        /\ \A c \in Listed' : c \in Listed /\ c # e
    BY <1>0, RemoveUnlinks, ListedLive, ConnAssumption
  <2>1. ASSUME NEW c \in Listed', sle_next'[c] # NULL
        PROVE  sle_next'[c] # slh_first'
    <3>1. CASE slh_first = e
      BY <2>a, <2>b, <2>1, <3>1, RemoveUnlinks
    <3>2. CASE slh_first # e
      BY <2>a, <2>b, <2>1, <3>2, RemoveUnlinks
    <3>. QED  BY <3>1, <3>2
  <2>2. ASSUME NEW c \in Listed', NEW d \in Listed',
               sle_next'[c] = sle_next'[d], sle_next'[c] # NULL
        PROVE  c = d
    <3>1. CASE sle_next[c] = e \/ sle_next[d] = e
      BY <2>a, <2>b, <2>2, <3>1, RemoveUnlinks
    <3>2. CASE sle_next[c] # e /\ sle_next[d] # e
      BY <2>a, <2>b, <2>2, <3>2, RemoveUnlinks
    <3>. QED  BY <3>1, <3>2
  <2>3. PICK r : Ranks(r)
    BY DEF IInv, WellLinked
  <2>4. ASSUME NEW c \in Listed', sle_next'[c] # NULL
        PROVE  r[sle_next'[c]] < r[c]
    <3>1. CASE sle_next[c] = e
      <4>1. sle_next'[c] = sle_next[e] /\ e \in Listed /\ c \in Listed /\ e # NULL
        BY <1>0, <3>1, RemoveUnlinks, ListedLive, ConnAssumption
      <4>2. sle_next[e] \in Conn /\ e \in Conn /\ c \in Conn
        BY <2>4, <4>1, ListedLive DEF IInv, EntriesLive
      <4>3. r[sle_next[e]] < r[e] /\ r[e] < r[c]
        BY <2>3, <2>4, <3>1, <4>1 DEF Ranks
      <4>4. r[sle_next[e]] \in Nat /\ r[e] \in Nat /\ r[c] \in Nat
        BY <2>3, <4>2 DEF Ranks
      <4>. QED  BY <4>1, <4>3, <4>4
    <3>2. CASE sle_next[c] # e
      BY <1>0, <2>3, <2>4, <3>2, RemoveUnlinks DEF Ranks
    <3>. QED  BY <3>1, <3>2
  <2>5. Ranks(r)'
    BY <2>3, <2>4 DEF Ranks
  <2>. QED  BY <2>1, <2>2, <2>5 DEF WellLinked
<1>4. MutexInv'
  BY DEF IInv, MutexInv, thread_entry_remove, thread_entry_free, handler, fds
<1>5. MainInv'
  <2>1. /\ main_pc' = "next" /\ current_entry' = current_entry
        /\ current_entry \in Conn
    BY ListedLive DEF IInv, MainInv, thread_entry_remove, thread_entry_free
  <2>2. sle_next'[current_entry] \in Listed' \cup {NULL}
    <3>1. sle_next[current_entry] \in Listed \cup {NULL}
      BY RemoveUnlinks DEF IInv, EntriesLive
    <3>2. sle_next[current_entry] # current_entry
      <4>1. PICK r : Ranks(r)
        BY DEF IInv, WellLinked
      <4>. QED  BY <2>1, <4>1, RemoveUnlinks, ConnAssumption DEF Ranks
    <3>. QED  BY <1>0, <3>1, <3>2, RemoveUnlinks
  <2>. QED  BY <2>1, <2>2 DEF MainInv
<1>6. ThreadInv'
  BY <1>0
  DEF IInv, TypeOK, ThreadInv, Joined, thread_entry_remove, thread_entry_free,
      handler, fds
<1>7. JoinWaitsForNoClient'
  BY DEF IInv, JoinWaitsForNoClient, thread_entry_remove, thread_entry_free,
      fds
<1>8. DescriptorsOwned'
  BY DEF IInv, DescriptorsOwned, thread_entry_remove, thread_entry_free,
      handler, fds
<1>. QED  BY <1>1, <1>2, <1>3, <1>4, <1>5, <1>6, <1>7, <1>8 DEF IInv

LEMMA FollowStep ==
  ASSUME IInv, FollowLink PROVE IInv'
<1>0. Listed' = Listed
  BY DEF IInv, Listed, SetUp, FollowLink, FollowFreed, list, fds
<1>1. TypeOK'
  BY DEF IInv, TypeOK, MainInv, FollowLink, FollowFreed, list, handler, fds
<1>2. EntriesLive'
  BY <1>0
  DEF IInv, EntriesLive, MutexInv, FollowLink, FollowFreed, list, handler, fds
<1>3. WellLinked'
  BY <1>0 DEF IInv, WellLinked, Ranks, FollowLink, FollowFreed, list, fds
<1>4. MutexInv'
  BY DEF IInv, MutexInv, FollowLink, FollowFreed, list, handler, fds
<1>5. MainInv'
  BY <1>0 DEF IInv, MainInv, FollowLink, FollowFreed, list, fds
<1>6. ThreadInv'
  BY <1>0
  DEF IInv, ThreadInv, Joined, FollowLink, FollowFreed, list, handler, fds
<1>7. JoinWaitsForNoClient'
  BY DEF IInv, JoinWaitsForNoClient, FollowLink, FollowFreed, list, fds
<1>8. DescriptorsOwned'
  BY DEF IInv, DescriptorsOwned, FollowLink, FollowFreed, list, handler, fds
<1>. QED  BY <1>1, <1>2, <1>3, <1>4, <1>5, <1>6, <1>7, <1>8 DEF IInv

LEMMA DisconnectStep ==
  ASSUME IInv, NEW c \in Conn, Disconnect(c) PROVE IInv'
<1>0. Listed' = Listed
  BY DEF IInv, Listed, SetUp, Disconnect, main, list, fds
<1>1. TypeOK'
  BY DEF IInv, TypeOK, Disconnect, main, list, fds
<1>2. EntriesLive'
  BY <1>0 DEF IInv, EntriesLive, Disconnect, main, list, fds
<1>3. WellLinked'
  BY <1>0 DEF IInv, WellLinked, Ranks, Disconnect, main, list, fds
<1>4. MutexInv'
  BY DEF IInv, MutexInv, Disconnect, main, list, fds
<1>5. MainInv'
  BY <1>0 DEF IInv, MainInv, Disconnect, main, list, fds
<1>6. ThreadInv'
  BY <1>0 DEF IInv, ThreadInv, Joined, Disconnect, main, list, fds
<1>7. JoinWaitsForNoClient'
  BY DEF IInv, JoinWaitsForNoClient, Disconnect, main, list, fds
<1>8. DescriptorsOwned'
  BY DEF IInv, DescriptorsOwned, Disconnect, main, list, fds
<1>. QED  BY <1>1, <1>2, <1>3, <1>4, <1>5, <1>6, <1>7, <1>8 DEF IInv

LEMMA MarkLockStep ==
  ASSUME IInv, NEW c \in Conn, MarkLock(c) PROVE IInv'
<1>0. Listed' = Listed
  BY DEF IInv, Listed, SetUp, MarkLock, main, fds
<1>1. TypeOK'
  BY DEF IInv, TypeOK, MarkLock, main, fds
<1>2. EntriesLive'
  BY <1>0 DEF IInv, TypeOK, EntriesLive, MarkLock, main, fds
<1>3. WellLinked'
  BY <1>0 DEF IInv, WellLinked, Ranks, MarkLock, main, fds
<1>4. MutexInv'
  BY ConnAssumption DEF IInv, TypeOK, MutexInv, MarkLock, Unlocked
<1>5. MainInv'
  BY <1>0 DEF IInv, MainInv, MarkLock, main, fds
<1>6. ThreadInv'
  BY <1>0 DEF IInv, ThreadInv, Joined, MarkLock, main, fds
<1>7. JoinWaitsForNoClient'
  BY DEF IInv, JoinWaitsForNoClient, MarkLock, main, fds
<1>8. DescriptorsOwned'
  BY DEF IInv, DescriptorsOwned, MarkLock, main, fds
<1>. QED  BY <1>1, <1>2, <1>3, <1>4, <1>5, <1>6, <1>7, <1>8 DEF IInv

(* A step of thread_entry_markcomplete disturbs its own thread and mark.   *)
LEMMA MarkStepTouches ==
  ASSUME TypeOK, NEW c \in Conn, MarkStep(c)
  PROVE  /\ thread[c] = "marking" /\ thread'[c] \in {"marking", "marked"}
         /\ is_complete'[c] => is_complete[c] \/ thread'[c] = "marked"
         /\ \A d \in Conn \ {c} :
              thread'[d] = thread[d] /\ is_complete'[d] = is_complete[d]
         /\ UNCHANGED <<main_pc, new_connection, current_entry, heap, sle_next>>
<1>1. thread[c] = "marking" /\ thread' \in [Conn -> {"none", "serving", "gone",
                                       "marking", "marked", "returned"}]
  BY DEF TypeOK, MarkStep, MarkUnlock
<1>2. thread' = thread \/ thread' = [thread EXCEPT ![c] = "marked"]
  BY DEF MarkStep, MarkUnlock
<1>3. \/ is_complete' = is_complete
      \/ /\ is_complete' = [is_complete EXCEPT ![c] = TRUE]
         /\ thread' = [thread EXCEPT ![c] = "marked"]
  BY DEF MarkStep, MarkUnlock
<1>4. UNCHANGED <<main_pc, new_connection, current_entry, heap, sle_next>>
  BY DEF MarkStep, main
<1>. QED  BY <1>1, <1>2, <1>3, <1>4 DEF TypeOK

LEMMA MarkStepStep ==
  ASSUME IInv, NEW c \in Conn, MarkStep(c) PROVE IInv'
<1>0. Listed' = Listed
  BY DEF IInv, Listed, SetUp, MarkStep, MarkUnlock, main, fds
<1>1. TypeOK'
  BY DEF IInv, TypeOK, MarkStep, MarkUnlock, main, fds
<1>2. EntriesLive'
  BY <1>0, ConnAssumption
  DEF IInv, TypeOK, EntriesLive, MarkStep, MarkUnlock, main, fds
<1>3. WellLinked'
  BY <1>0 DEF IInv, WellLinked, Ranks, MarkStep, MarkUnlock, main, fds
<1>4. MutexInv'
  BY ConnAssumption DEF IInv, TypeOK, MutexInv, MarkStep, MarkUnlock, main, fds
<1>5. MainInv'
  BY <1>0, MarkStepTouches, ListedLive DEF IInv, MainInv
<1>6. ThreadInv'
  <2>1. ASSUME NEW d \in Listed'
        PROVE  thread'[d] # "none" \/ Joined(d)'
    BY <1>0, <2>1, MarkStepTouches, ListedLive DEF IInv, ThreadInv, Joined
  <2>2. ~ is_complete[c]
    BY MarkStepTouches DEF IInv, ThreadInv, EntriesLive, MainInv, Joined
  <2>3. ASSUME NEW d \in Conn, heap'[d] = "live", is_complete'[d]
        PROVE  thread'[d] \in {"marked", "returned"} \/ Joined(d)'
    BY <2>2, <2>3, MarkStepTouches DEF IInv, ThreadInv, Joined
  <2>. QED  BY <2>1, <2>3 DEF ThreadInv
<1>7. JoinWaitsForNoClient'
  BY MarkStepTouches, ListedLive DEF IInv, JoinWaitsForNoClient, MainInv
<1>8. DescriptorsOwned'
  BY DEF IInv, TypeOK, DescriptorsOwned, MarkStep, MarkUnlock, main, fds
<1>. QED  BY <1>1, <1>2, <1>3, <1>4, <1>5, <1>6, <1>7, <1>8 DEF IInv

LEMMA CloseClientStep ==
  ASSUME IInv, NEW c \in Conn, CloseClient(c) PROVE IInv'
<1>0. Listed' = Listed
  BY DEF IInv, Listed, SetUp, CloseClient, main, list
<1>1. TypeOK'
  BY DEF IInv, TypeOK, CloseClient, main, list
<1>2. EntriesLive'
  BY <1>0 DEF IInv, EntriesLive, CloseClient, main, list
<1>3. WellLinked'
  BY <1>0 DEF IInv, WellLinked, Ranks, CloseClient, main, list
<1>4. MutexInv'
  BY DEF IInv, MutexInv, CloseClient, main, list
<1>5. MainInv'
  BY <1>0 DEF IInv, MainInv, CloseClient, main, list
<1>6. ThreadInv'
  BY <1>0 DEF IInv, ThreadInv, Joined, CloseClient, main, list
<1>7. JoinWaitsForNoClient'
  BY DEF IInv, JoinWaitsForNoClient, CloseClient, main, list
<1>8. DescriptorsOwned'
  BY DEF IInv, TypeOK, DescriptorsOwned, MainInv, CloseClient, main, list
<1>. QED  BY <1>1, <1>2, <1>3, <1>4, <1>5, <1>6, <1>7, <1>8 DEF IInv

LEMMA IInvStep == IInv /\ [Next]_vars => IInv'
<1> SUFFICES ASSUME IInv, [Next]_vars
             PROVE  IInv'
  OBVIOUS
<1>1. CASE AcceptFails
  BY <1>1, IInvStutters DEF AcceptFails
<1>2. CASE MainRuns
  BY <1>2, CreateStep, ScanStep, JoinStep, FollowStep DEF MainRuns
<1>3. CASE MainLocks
  BY <1>3, AddStep, PrintStep, RemoveStep DEF MainLocks
<1>4. ASSUME NEW c \in Conn,
             Accept(c) \/ Disconnect(c) \/ MarkLock(c) \/ HandlerRuns(c)
      PROVE  IInv'
  BY <1>4, AcceptStep, DisconnectStep, MarkLockStep, MarkStepStep, CloseClientStep
  DEF HandlerRuns
<1>5. CASE UNCHANGED vars
  BY <1>5, IInvStutters
<1>. QED  BY <1>1, <1>2, <1>3, <1>4, <1>5 DEF Next

LEMMA IInvAlways == Spec => []IInv
BY IInvInit, IInvStep, PTL DEF Spec

-----------------------------------------------------------------------------
(* accept_connections, thread_entry_* and client_handler keep their types. *)
THEOREM ThreadTypes == Spec => []TypeOK
<1>1. IInv => TypeOK
  BY DEF IInv
<1>. QED  BY <1>1, IInvAlways, PTL

(* However accepts, disconnects, walks and removals interleave, no thread  *)
(* reaches a freed thread_entry_t through the list or its own pointer.     *)
THEOREM ThreadEntriesLive == Spec => []EntriesLive
<1>1. IInv => EntriesLive
  BY DEF IInv
<1>. QED  BY <1>1, IInvAlways, PTL

(* pthread_join in accept_connections is only ever called for a handler    *)
(* that is done with its client.                                           *)
THEOREM ThreadJoinWaitsForNoClient == Spec => []JoinWaitsForNoClient
<1>1. IInv => JoinWaitsForNoClient
  BY DEF IInv
<1>. QED  BY <1>1, IInvAlways, PTL

(* The descriptors that are never closed are those accept_connections      *)
(* drops when thread_entry_create or pthread_create fails.                 *)
THEOREM ThreadDescriptors == Spec => []DescriptorsOwned
<1>1. IInv => DescriptorsOwned
  BY DEF IInv
<1>. QED  BY <1>1, IInvAlways, PTL

-----------------------------------------------------------------------------
(* The walk of thread_entry_markcomplete.  Entry x leads to entry e when   *)
(* every set that has x and the links of its entries has e: said of sets,  *)
(* it needs no count of the entries in between.                            *)
Closed(S) == \A e \in Listed : e \in S => sle_next[e] \in S

Leads(x, e) == \A S \in SUBSET (Conn \cup {NULL}) : x \in S /\ Closed(S) => e \in S

(* The head leads to every listed entry, and so does, for the entry of a   *)
(* handler that walks, what it looks at.                                   *)
WalkInv ==
  /\ \A e \in Listed : Leads(slh_first, e)
  /\ \A c \in Listed : thread[c] = "marking" => Leads(cursor[c], c)

(* A step that leaves the list alone and starts or moves no walk.          *)
LEMMA WalkKept ==
  ASSUME WalkInv, Listed' = Listed, sle_next' = sle_next, slh_first' = slh_first,
         \A c \in Listed : thread'[c] = "marking" =>
            thread[c] = "marking" /\ cursor'[c] = cursor[c]
  PROVE  WalkInv'
BY DEF WalkInv, Leads, Closed

(* Nobody walks while the mutex is free.                                   *)
LEMMA NobodyWalks ==
  ASSUME IInv, Unlocked PROVE \A c \in Conn : thread[c] # "marking"
BY ConnAssumption DEF IInv, MutexInv, Unlocked

LEMMA WalkAdd ==
  ASSUME IInv, WalkInv, thread_entry_add PROVE WalkInv'
<1> DEFINE n == new_connection
<1>1. /\ n \in Conn /\ n \notin Listed /\ Listed' = Listed \cup {n}
  BY DEF IInv, TypeOK, MainInv, Listed, SetUp, thread_entry_add
<1>2. /\ sle_next' = [sle_next EXCEPT ![n] = slh_first] /\ slh_first' = n
      /\ thread' = thread
  BY DEF thread_entry_add, InsertHead, handler
<1>3. \A c \in Conn : thread'[c] # "marking"
  BY <1>2, NobodyWalks DEF thread_entry_add
<1>4. ASSUME NEW e \in Listed', NEW S \in SUBSET (Conn \cup {NULL}),
             n \in S, Closed(S)'
      PROVE  e \in S
  <2>1. slh_first \in S
    BY <1>1, <1>2, <1>4 DEF Closed, IInv, TypeOK
  <2>2. Closed(S)
    BY <1>1, <1>2, <1>4 DEF Closed, IInv, TypeOK
  <2>. QED  BY <1>1, <1>4, <2>1, <2>2 DEF WalkInv, Leads
<1>. QED
  <2>1. \A e \in Listed' : Leads(slh_first, e)'
    BY <1>2, <1>4 DEF Leads
  <2>2. \A c \in Listed' : c \in Conn
    BY DEF Listed
  <2>. QED  BY <1>3, <2>1, <2>2 DEF WalkInv

(* SLIST_REMOVE: a set closed under the new links, with the removed entry  *)
(* when it has the one before it and without it otherwise, is closed       *)
(* under the old ones.                                                     *)
LEMMA WalkRemove ==
  ASSUME IInv, WalkInv, thread_entry_remove PROVE WalkInv'
<1> DEFINE x == current_entry
<1>1. x \in Listed /\ x \in Conn /\ Listed' = Listed \ {x} /\ x # NULL
  BY ConnAssumption
  DEF IInv, TypeOK, MainInv, Listed, SetUp, thread_entry_remove, thread_entry_free
<1>2. \A c \in Listed' : c \in Conn /\ thread'[c] # "marking"
  BY NobodyWalks DEF thread_entry_remove, handler, Listed
<1>3. ASSUME NEW e \in Listed', NEW S \in SUBSET (Conn \cup {NULL}),
             slh_first' \in S, Closed(S)'
      PROVE  e \in S
  <2>1. e \in Listed /\ e # x
    BY <1>1
  <2>2. ASSUME NEW T \in SUBSET (Conn \cup {NULL}), slh_first \in T, Closed(T)
        PROVE  e \in T
    BY <2>1, <2>2 DEF WalkInv, Leads
  <2>3. CASE slh_first = x
    <3>1. slh_first' = sle_next[x] /\ sle_next' = sle_next
      BY <2>3 DEF thread_entry_remove
    <3>2. Closed(S \cup {x})
      BY <1>1, <1>3, <3>1 DEF Closed
    <3>. QED  BY <1>1, <2>1, <2>2, <2>3, <3>2
  <2>4. CASE slh_first # x
    <3>1. slh_first' = slh_first
      BY <2>4 DEF thread_entry_remove
    <3>2. \A d \in Listed :
            sle_next'[d] = IF sle_next[d] = x THEN sle_next[x] ELSE sle_next[d]
      BY <2>4, ListedLive DEF thread_entry_remove
    <3>3. CASE \E d \in Listed : d \in S /\ d # x /\ sle_next[d] = x
      <4>1. sle_next[x] \in S
        BY <1>1, <1>3, <3>2, <3>3 DEF Closed
      <4>2. Closed(S \cup {x})
        BY <1>1, <1>3, <3>2, <4>1 DEF Closed
      <4>. QED  BY <1>1, <1>3, <2>1, <2>2, <3>1, <4>2
    <3>4. CASE ~ \E d \in Listed : d \in S /\ d # x /\ sle_next[d] = x
      <4>1. Closed(S \ {x})
        BY <1>1, <1>3, <3>2, <3>4 DEF Closed
      <4>. QED  BY <1>1, <1>3, <2>1, <2>2, <2>4, <3>1, <4>1
    <3>. QED  BY <3>3, <3>4
  <2>. QED  BY <2>3, <2>4
<1>. QED
  <2>1. \A e \in Listed' : Leads(slh_first, e)'
    BY <1>3 DEF Leads
  <2>. QED  BY <1>2, <2>1 DEF WalkInv

(* A walk starts at the head, and goes on past entries that are not its    *)
(* own.                                                                    *)
LEMMA WalkMarkLock ==
  ASSUME IInv, WalkInv, NEW c \in Conn, MarkLock(c) PROVE WalkInv'
<1>1. /\ Listed' = Listed /\ sle_next' = sle_next /\ slh_first' = slh_first
  BY DEF MarkLock, main, Listed, SetUp
<1>2. \A d \in Conn : thread[d] # "marking"
  BY NobodyWalks DEF MarkLock
<1>3. \A d \in Conn : thread'[d] = "marking" => d = c /\ cursor'[d] = slh_first
  BY <1>2 DEF MarkLock, IInv, TypeOK
<1>. QED  BY <1>1, <1>3, ListedLive DEF WalkInv, Leads, Closed

LEMMA WalkMarkStep ==
  ASSUME IInv, WalkInv, NEW c \in Conn, MarkStep(c) PROVE WalkInv'
<1>1. /\ Listed' = Listed /\ sle_next' = sle_next /\ slh_first' = slh_first
  BY DEF MarkStep, main, Listed, SetUp
<1>2. CASE MarkUnlock(c)
  <2>1. \A d \in Conn : thread'[d] = "marking" =>
            thread[d] = "marking" /\ cursor'[d] = cursor[d]
    BY <1>2 DEF MarkUnlock, IInv, TypeOK
  <2>. QED  BY <1>1, <2>1, ListedLive, WalkKept
<1>3. CASE ~ MarkUnlock(c)
  <2> DEFINE e == cursor[c]
  <2>1. /\ e \in Conn \ {c} /\ thread' = thread
        /\ cursor' = [cursor EXCEPT ![c] = sle_next[e]]
        /\ thread[c] = "marking"
    BY <1>3 DEF MarkStep
  <2>2. e \in Listed
    BY <2>1, ConnAssumption DEF IInv, EntriesLive
  <2>3. \A d \in Conn : cursor'[d] = IF d = c THEN sle_next[e] ELSE cursor[d]
    BY <2>1 DEF IInv, TypeOK
  <2>4. ASSUME c \in Listed, NEW S \in SUBSET (Conn \cup {NULL}),
               sle_next[e] \in S, Closed(S)
        PROVE  c \in S
    <3>1. Closed(S \cup {e}) /\ S \cup {e} \in SUBSET (Conn \cup {NULL})
      BY <2>1, <2>4 DEF Closed
    <3>2. c \in S \cup {e}
      BY <2>1, <2>4, <3>1 DEF WalkInv, Leads
    <3>. QED  BY <2>1, <3>2
  <2>5. \A d \in Listed : Leads(slh_first, d)'
    BY <1>1 DEF WalkInv, Leads, Closed
  <2>6. ASSUME NEW d \in Listed, thread'[d] = "marking"
        PROVE  Leads(cursor[d], d)'
    <3>1. CASE d = c
      BY <3>1, <2>3, <2>4, <1>1 DEF Leads, Closed
    <3>2. CASE d # c
      <4>1. cursor'[d] = cursor[d] /\ thread[d] = "marking"
        BY <3>2, <2>1, <2>3, <2>6, ListedLive
      <4>. QED  BY <4>1, <1>1 DEF WalkInv, Leads, Closed
    <3>. QED  BY <3>1, <3>2
  <2>. QED  BY <1>1, <2>5, <2>6 DEF WalkInv
<1>. QED  BY <1>2, <1>3

LEMMA WalkInvStep == IInv /\ WalkInv /\ [Next]_vars => WalkInv'
<1> SUFFICES ASSUME IInv, WalkInv, [Next]_vars PROVE WalkInv'
  OBVIOUS
<1>1. CASE UNCHANGED vars
  BY <1>1, WalkKept DEF vars, main, list, handler, Listed, SetUp
<1>2. CASE Create
  <2>1. Listed' = Listed
    BY <1>2 DEF IInv, TypeOK, Listed, SetUp, Create, thread_entry_free
  <2>. QED  BY <1>2, <2>1, WalkKept, ListedLive DEF IInv, TypeOK, MainInv, Create
<1>3. CASE Scan \/ FollowLink \/ thread_entry_printall
  BY <1>3, WalkKept
  DEF IInv, MainInv, Scan, FollowLink, thread_entry_printall, list, handler, Listed, SetUp
<1>4. CASE Join
  BY <1>4, WalkKept, ListedLive
  DEF IInv, TypeOK, Join, list, Listed, SetUp
<1>5. CASE thread_entry_add
  BY <1>5, WalkAdd
<1>6. CASE thread_entry_remove
  BY <1>6, WalkRemove
<1>7. ASSUME NEW c \in Conn, Accept(c) PROVE WalkInv'
  <2>1. Listed' = Listed
    BY <1>7 DEF IInv, TypeOK, Listed, SetUp, Accept, thread_entry_create
  <2>. QED  BY <1>7, <2>1, WalkKept DEF Accept, handler
<1>8. ASSUME NEW c \in Conn, Disconnect(c) \/ CloseClient(c) PROVE WalkInv'
  BY <1>8, WalkKept, ListedLive
  DEF IInv, TypeOK, Disconnect, CloseClient, main, list, Listed, SetUp
<1>9. ASSUME NEW c \in Conn, MarkLock(c) \/ MarkStep(c) PROVE WalkInv'
  BY <1>9, WalkMarkLock, WalkMarkStep
<1>. QED
  BY <1>1, <1>2, <1>3, <1>4, <1>5, <1>6, <1>7, <1>8, <1>9
  DEF Next, MainRuns, MainLocks, HandlerRuns, AcceptFails

(* What a walk ends with.                                                  *)
LEMMA WalkEnds ==
  ASSUME IInv, WalkInv, [Next]_vars, NEW c \in Conn,
         thread[c] = "marking", thread'[c] = "marked"
  PROVE  is_complete'[c] <=> c \in Listed
<1>1. MarkStep(c)
  <2>1. CASE UNCHANGED vars
    BY <2>1 DEF vars, handler
  <2>2. CASE AcceptFails \/ MainRuns \/ MainLocks
    BY <2>2
    DEF AcceptFails, MainRuns, MainLocks, Create, Scan, Join, FollowLink, handler,
        vars, thread_entry_add, thread_entry_printall, thread_entry_remove,
        IInv, TypeOK
  <2>3. ASSUME NEW d \in Conn,
               Accept(d) \/ Disconnect(d) \/ MarkLock(d) \/ HandlerRuns(d)
        PROVE  MarkStep(c)
    BY <2>3
    DEF Accept, Disconnect, MarkLock, HandlerRuns, MarkStep, MarkUnlock, CloseClient,
        handler, IInv, TypeOK
  <2>. QED  BY <2>1, <2>2, <2>3 DEF Next
<1>2. CASE cursor[c] = NULL /\ UNCHANGED is_complete
  <2>1. c \notin Listed
    <3> SUFFICES ASSUME c \in Listed PROVE FALSE
      OBVIOUS
    <3>1. NULL \notin Conn /\ Closed({NULL})
      BY ConnAssumption, ListedLive DEF Closed
    <3>2. c \in {NULL}
      BY <1>2, <3>1 DEF WalkInv, Leads
    <3>. QED  BY <3>1, <3>2
  <2>2. ~ is_complete[c]
    BY DEF IInv, TypeOK, EntriesLive, ThreadInv, MainInv, Joined
  <2>. QED  BY <1>2, <2>1, <2>2
<1>3. CASE cursor[c] = c /\ is_complete' = [is_complete EXCEPT ![c] = TRUE]
  BY <1>3, ConnAssumption DEF IInv, TypeOK, EntriesLive
<1>. QED  BY <1>1, <1>2, <1>3 DEF MarkStep

(* thread_entry_markcomplete marks its thread exactly if the main thread   *)
(* has added the entry by then, whatever was added and removed before.     *)
THEOREM ThreadMarks == Spec => MarksIfListed
<1>1. Init => WalkInv
  BY DEF Init, WalkInv, Listed
<1>2. Spec => [](IInv /\ WalkInv)
  BY <1>1, IInvAlways, WalkInvStep, PTL DEF Spec
<1>3. IInv /\ WalkInv /\ [Next]_vars =>
        [\A c \in Conn : thread[c] = "marking" /\ thread'[c] = "marked"
           => (is_complete'[c] <=> c \in Listed)]_vars
  BY WalkEnds
<1>. QED  BY <1>2, <1>3, PTL DEF Spec, MarksIfListed
=============================================================================
