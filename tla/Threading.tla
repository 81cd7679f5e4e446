----------------------------- MODULE Threading -----------------------------
(***************************************************************************)
(* examples/threading: start_thread_obtaining_mutex makes a thread_data    *)
(* and a thread that sleeps, locks the mutex, sleeps, unlocks it, and      *)
(* returns its thread_data to whoever joins it.                            *)
(*                                                                         *)
(* One program starts the threads, all with the same mutex, and joins      *)
(* them, in any order.  Time passes in ticks, PerMs of them in a           *)
(* millisecond (1000 microseconds in the code); the product of             *)
(* wait_..._ms and 1000 is an int that usleep takes as an unsigned one, so *)
(* it is kept modulo MaxSleep (2^32).                                      *)
(***************************************************************************)
EXTENDS Naturals

CONSTANTS
  Thread,    \* the threads that may be started
  NoThread,  \* none
  Faults,    \* which calls may fail: "malloc", "create", "lock", "unlock"
  Waits,     \* the waits the program asks for, in milliseconds
  PerMs,     \* ticks in a millisecond
  MaxSleep   \* one more than the longest sleep, in ticks

ASSUME ThreadAssumption == NoThread \notin Thread
ASSUME TimeAssumption ==
  Waits \subseteq Nat /\ PerMs \in Nat \ {0} /\ MaxSleep \in Nat \ {0}

VARIABLES
  caller,    \* where the program is: in a call for a thread, or outside
  target,    \* the thread it starts or joins
  data,      \* what became of each thread_data: "none", "live", "freed"
  wait,      \* its wait_to_obtain_ms and wait_to_release_ms
  success,   \* its thread_complete_success
  thread,    \* where each thread is in threadfunc
  sleep,     \* ticks left of its usleep
  mutex,     \* the thread that holds the mutex
  slept      \* history: the ticks since its usleep began

program == <<caller, target>>
struct  == <<data, wait, success>>
threads == <<thread, sleep, slept>>
vars    == <<program, struct, threads, mutex>>

NoWait == [obtain |-> 0, release |-> 0]

Init ==
  /\ caller = "main"
  /\ target = NoThread
  /\ data = [t \in Thread |-> "none"]
  /\ wait = [t \in Thread |-> NoWait]
  /\ success = [t \in Thread |-> FALSE]
  /\ thread = [t \in Thread |-> "none"]
  /\ sleep = [t \in Thread |-> 0]
  /\ slept = [t \in Thread |-> 0]
  /\ mutex = NoThread

-----------------------------------------------------------------------------
(* start_thread_obtaining_mutex, with its guard clause, which the program  *)
(* meets when it passes NULL, as the first way out.                        *)

Guard == caller = "main" /\ UNCHANGED vars

malloc(t, obtain, release) ==
  /\ caller = "main"
  /\ thread[t] = "none" /\ data[t] # "live"
  /\ \/ /\ caller' = "create"
        /\ target' = t
        /\ data' = [data EXCEPT ![t] = "live"]
        /\ wait' = [wait EXCEPT ![t] = [obtain |-> obtain, release |-> release]]
        /\ success' = [success EXCEPT ![t] = FALSE]
     \/ "malloc" \in Faults /\ UNCHANGED <<program, struct>>
  /\ UNCHANGED <<threads, mutex>>

usleepMs(ms) == ms % MaxSleep             \* variant: milliseconds not converted
usleep(ms) == (ms * PerMs) % MaxSleep

Sleep(t, ms, label) ==
  /\ thread' = [thread EXCEPT ![t] = label]
  /\ sleep' = [sleep EXCEPT ![t] = usleep(ms)]
  /\ slept' = [slept EXCEPT ![t] = 0]

KeepData(t) == UNCHANGED data             \* variant: it is not freed
FreeData(t) == data' = [data EXCEPT ![t] = "freed"]

ObtainWait(t)  == wait[t].obtain
ReleaseWait(t) == wait[t].release

create ==
  /\ caller = "create"
  /\ caller' = "main"
  /\ \/ Sleep(target, ObtainWait(target), "obtain") /\ UNCHANGED data
     \/ "create" \in Faults /\ FreeData(target) /\ UNCHANGED threads
  /\ target' = NoThread
  /\ UNCHANGED <<wait, success, mutex>>

-----------------------------------------------------------------------------
(* The joiner: it waits for a thread and frees the thread_data the thread  *)
(* returned.                                                               *)

BeginJoin(t) ==
  /\ caller = "main"
  /\ thread[t] # "none"
  /\ caller' = "join"
  /\ target' = t
  /\ UNCHANGED <<struct, threads, mutex>>

Join ==
  /\ caller = "join"
  /\ thread[target] = "returned"
  /\ caller' = "main"
  /\ target' = NoThread
  /\ thread' = [thread EXCEPT ![target] = "none"]
  /\ data' = [data EXCEPT ![target] = "freed"]
  /\ wait' = [wait EXCEPT ![target] = NoWait]
  /\ success' = [success EXCEPT ![target] = FALSE]
  /\ UNCHANGED <<sleep, slept, mutex>>

-----------------------------------------------------------------------------
(* threadfunc.                                                             *)

Finish(t, result) ==
  /\ success' = [success EXCEPT ![t] = result]
  /\ thread' = [thread EXCEPT ![t] = "returned"]
  /\ sleep' = [sleep EXCEPT ![t] = 0]
  /\ slept' = [slept EXCEPT ![t] = 0]

AlwaysUnlocked == TRUE                    \* variant: the mutex is not waited for
Unlocked == mutex = NoThread

Obtain(t) ==
  /\ thread[t] = "obtain"
  /\ sleep[t] = 0
  /\ Unlocked
  /\ mutex' = t
  /\ Sleep(t, ReleaseWait(t), "release")
  /\ UNCHANGED <<program, struct>>

ObtainFails(t) ==
  /\ thread[t] = "obtain"
  /\ sleep[t] = 0
  /\ "lock" \in Faults
  /\ Finish(t, FALSE)
  /\ UNCHANGED <<program, data, wait, mutex>>

StillLocked == UNCHANGED mutex            \* variant: the unlock is missing
Release == mutex' = NoThread

ReleaseMutex(t) ==
  /\ thread[t] = "release"
  /\ sleep[t] = 0
  /\ Release
  /\ Finish(t, TRUE)
  /\ UNCHANGED <<program, data, wait>>

(* The thread returns with the mutex locked.                               *)
ReleaseFails(t) ==
  /\ thread[t] = "release"
  /\ sleep[t] = 0
  /\ "unlock" \in Faults
  /\ Finish(t, FALSE)
  /\ UNCHANGED <<program, data, wait, mutex>>

(* Time passes for all that sleep; slept is counted while it matters.      *)
Tick ==
  /\ \E t \in Thread : sleep[t] > 0
  /\ sleep' = [t \in Thread |-> IF sleep[t] > 0 THEN sleep[t] - 1 ELSE 0]
  /\ slept' = [t \in Thread |-> IF sleep[t] > 0 THEN slept[t] + 1 ELSE slept[t]]
  /\ UNCHANGED <<program, struct, thread, mutex>>

-----------------------------------------------------------------------------
Next ==
  \/ Guard \/ create \/ Join \/ Tick
  \/ \E t \in Thread :
       \/ \E obtain, release \in Waits : malloc(t, obtain, release)
       \/ BeginJoin(t) \/ Obtain(t) \/ ObtainFails(t)
       \/ ReleaseMutex(t) \/ ReleaseFails(t)

Spec == Init /\ [][Next]_vars

(* Time passes, the program goes on inside its calls, a thread that can    *)
(* run does, and one that waits for the mutex gets it in turn.             *)
Fairness ==
  /\ WF_vars(Tick) /\ WF_vars(create) /\ WF_vars(Join)
  /\ \A t \in Thread : SF_vars(Obtain(t)) /\ WF_vars(ReleaseMutex(t))

FairSpec == Spec /\ Fairness

-----------------------------------------------------------------------------
TypeOK ==
  /\ caller \in {"main", "create", "join"}
  /\ target \in Thread \cup {NoThread}
  /\ data \in [Thread -> {"none", "live", "freed"}]
  /\ wait \in [Thread -> [obtain : Nat, release : Nat]]
  /\ success \in [Thread -> BOOLEAN]
  /\ thread \in [Thread -> {"none", "obtain", "release", "returned"}]
  /\ sleep \in [Thread -> Nat]
  /\ slept \in [Thread -> Nat]
  /\ mutex \in Thread \cup {NoThread}

(* thread_data is allocated for exactly as long as somebody has to give it *)
(* back: the call that makes the thread, the thread, and after it whoever  *)
(* joins it; nobody reaches it before or after.                            *)
DataOwned ==
  /\ \A t \in Thread :
       data[t] = "live" <=> \/ thread[t] # "none"
                            \/ caller = "create" /\ target = t
  /\ caller \in {"create", "join"} => data[target] = "live"

(* No two threads are between their lock and their unlock, and a thread    *)
(* reports success exactly when it has had the mutex and given it back: a  *)
(* mutex that stays locked belongs to a thread whose report is a failure.  *)
HeldByOne ==
  /\ \A t \in Thread : thread[t] = "release" => mutex = t
  /\ \A t \in Thread : mutex = t /\ thread[t] = "returned" => ~ success[t]

(* A thread sleeps at least as long as it was asked to, before it locks    *)
(* the mutex and before it unlocks it, as long as the microseconds fit     *)
(* the int they are computed in.                                           *)
Kept(t, ms) == ms * PerMs < MaxSleep => slept[t] >= ms * PerMs

SleepsEnough ==
  [][\A t \in Thread :
       /\ thread[t] = "obtain" /\ thread'[t] = "release" => Kept(t, wait[t].obtain)
       /\ thread[t] = "release" /\ thread'[t] = "returned"
            => Kept(t, wait[t].release)]_vars

(* "should only start the thread and should not block for the thread to    *)
(* complete" (threading.h:40): a start ends whoever has the mutex, and a   *)
(* join ends unless some thread has failed to unlock it.                   *)
Jammed == mutex # NoThread /\ thread[mutex] # "release" /\ ~ success[mutex]

CallsEnd ==
  /\ caller = "create" ~> caller = "main"
  /\ caller = "join" ~> caller = "main" \/ Jammed
=============================================================================
