-------------------------- MODULE ThreadingProofs --------------------------
(***************************************************************************)
(* For any number of threads, any waits and any failing calls: the types   *)
(* of Threading, that each thread_data has one owner at a time, that the   *)
(* mutex is held by one thread whose report is true, and that no thread    *)
(* sleeps for less than it was asked to.                                   *)
(***************************************************************************)
EXTENDS Threading, TLAPS

(* Where the program is in a call it is in one about a thread, which it    *)
(* starts only when there is none and joins only when there is one.        *)
CallerInv ==
  /\ caller = "create" => target \in Thread /\ thread[target] = "none"
  /\ caller = "join" => target \in Thread /\ thread[target] # "none"

IInv == TypeOK /\ CallerInv /\ DataOwned /\ HeldByOne

(* What usleep is given is a number of ticks.                              *)
LEMMA UsleepType == ASSUME NEW ms \in Nat PROVE usleep(ms) \in Nat
<1>1. ms * PerMs \in Nat
  BY TimeAssumption
<1>2. \A n \in Nat : n % MaxSleep \in Nat
  BY TimeAssumption
<1>. QED  BY <1>1, <1>2 DEF usleep

(* A sleep of a number of milliseconds keeps the types of the threads.     *)
LEMMA SleepTypes ==
  ASSUME TypeOK, NEW t \in Thread, NEW ms \in Nat,
         NEW label \in {"obtain", "release"}, Sleep(t, ms, label)
  PROVE  /\ thread' \in [Thread -> {"none", "obtain", "release", "returned"}]
         /\ sleep' \in [Thread -> Nat]
         /\ slept' \in [Thread -> Nat]
<1>1. usleep(ms) \in Nat
  BY UsleepType
<1>. QED  BY <1>1 DEF TypeOK, Sleep

(* The program starts with nothing allocated and the mutex free.           *)
LEMMA InitIInv == Init => IInv
BY ThreadAssumption
DEF Init, NoWait, IInv, TypeOK, CallerInv, DataOwned, HeldByOne

LEMMA MallocStep ==
  ASSUME IInv, NEW t \in Thread, NEW obtain \in Waits, NEW release \in Waits,
         malloc(t, obtain, release)
  PROVE  IInv'
<1>0. [obtain |-> obtain, release |-> release] \in [obtain : Nat, release : Nat]
  BY TimeAssumption
<1>6. wait' \in [Thread -> [obtain : Nat, release : Nat]]
  BY <1>0 DEF IInv, TypeOK, malloc, struct
<1>1. TypeOK'
  BY <1>6 DEF IInv, TypeOK, malloc, program, struct, threads
<1>2. CallerInv'
  BY DEF IInv, TypeOK, CallerInv, malloc, program, struct, threads
<1>3. DataOwned'
  BY DEF IInv, TypeOK, DataOwned, malloc, program, struct, threads
<1>4. HeldByOne'
  BY DEF IInv, TypeOK, HeldByOne, malloc, program, struct, threads
<1>. QED  BY <1>1, <1>2, <1>3, <1>4 DEF IInv

LEMMA CreateStep ==
  ASSUME IInv, create PROVE IInv'
<1>1. target \in Thread /\ thread[target] = "none" /\ wait[target].obtain \in Nat
  BY DEF IInv, TypeOK, CallerInv, create
<1>2. TypeOK'
  <2>1. CASE Sleep(target, ObtainWait(target), "obtain") /\ UNCHANGED data
    <3>1. /\ thread' \in [Thread -> {"none", "obtain", "release", "returned"}]
          /\ sleep' \in [Thread -> Nat]
          /\ slept' \in [Thread -> Nat]
      BY <1>1, <2>1, SleepTypes DEF IInv, ObtainWait
    <3>. QED  BY <2>1, <3>1 DEF IInv, TypeOK, create
  <2>2. CASE FreeData(target) /\ UNCHANGED threads
    BY <2>2 DEF IInv, TypeOK, create, FreeData, threads
  <2>. QED  BY <2>1, <2>2 DEF create
<1>3. CallerInv'
  BY DEF CallerInv, create
<1>4. DataOwned'
  BY <1>1 DEF IInv, TypeOK, DataOwned, create, Sleep, FreeData, threads
<1>5. HeldByOne'
  BY <1>1 DEF IInv, TypeOK, HeldByOne, create, Sleep, threads
<1>. QED  BY <1>2, <1>3, <1>4, <1>5 DEF IInv

LEMMA JoinStep ==
  ASSUME IInv, Join PROVE IInv'
<1>1. target \in Thread
  BY DEF IInv, CallerInv, Join
<1>0. NoWait \in [obtain : Nat, release : Nat]
  BY DEF NoWait
<1>6. wait' \in [Thread -> [obtain : Nat, release : Nat]]
  BY <1>0 DEF IInv, TypeOK, Join
<1>2. TypeOK'
  BY <1>1, <1>6 DEF IInv, TypeOK, Join
<1>3. CallerInv'
  BY DEF CallerInv, Join
<1>4. DataOwned'
  BY <1>1 DEF IInv, TypeOK, DataOwned, Join
<1>5. HeldByOne'
  BY <1>1 DEF IInv, TypeOK, HeldByOne, Join
<1>. QED  BY <1>2, <1>3, <1>4, <1>5 DEF IInv

LEMMA BeginJoinStep ==
  ASSUME IInv, NEW t \in Thread, BeginJoin(t) PROVE IInv'
BY DEF IInv, TypeOK, CallerInv, DataOwned, HeldByOne, BeginJoin, struct, threads

LEMMA TickStep ==
  ASSUME IInv, Tick PROVE IInv'
<1>1. TypeOK'
  BY DEF IInv, TypeOK, Tick, program, struct
<1>2. CallerInv' /\ DataOwned' /\ HeldByOne'
  BY DEF IInv, CallerInv, DataOwned, HeldByOne, Tick, program, struct
<1>. QED  BY <1>1, <1>2 DEF IInv

-----------------------------------------------------------------------------
(* The steps of a thread: it keeps its thread_data.                        *)

LEMMA ObtainStep ==
  ASSUME IInv, NEW t \in Thread, Obtain(t) PROVE IInv'
<1>1. wait[t].release \in Nat
  BY DEF IInv, TypeOK
<1>2. TypeOK'
  <2>1. /\ thread' \in [Thread -> {"none", "obtain", "release", "returned"}]
        /\ sleep' \in [Thread -> Nat]
        /\ slept' \in [Thread -> Nat]
    BY <1>1, SleepTypes DEF IInv, Obtain, ReleaseWait
  <2>. QED  BY <2>1 DEF IInv, TypeOK, Obtain, program, struct
<1>3. CallerInv' /\ DataOwned'
  BY DEF IInv, TypeOK, CallerInv, DataOwned, Obtain, Sleep, program, struct
<1>4. HeldByOne'
  BY ThreadAssumption
  DEF IInv, TypeOK, HeldByOne, Obtain, Unlocked, Sleep, program, struct
<1>. QED  BY <1>2, <1>3, <1>4 DEF IInv

LEMMA ObtainFailsStep ==
  ASSUME IInv, NEW t \in Thread, ObtainFails(t) PROVE IInv'
<1>1. TypeOK'
  BY DEF IInv, TypeOK, ObtainFails, Finish, program
<1>2. CallerInv' /\ DataOwned'
  BY DEF IInv, TypeOK, CallerInv, DataOwned, ObtainFails, Finish, program
<1>3. HeldByOne'
  BY DEF IInv, TypeOK, HeldByOne, ObtainFails, Finish
<1>. QED  BY <1>1, <1>2, <1>3 DEF IInv

LEMMA ReleaseMutexStep ==
  ASSUME IInv, NEW t \in Thread, ReleaseMutex(t) PROVE IInv'
<1>1. TypeOK'
  BY DEF IInv, TypeOK, ReleaseMutex, Release, Finish, program
<1>2. CallerInv' /\ DataOwned'
  BY DEF IInv, TypeOK, CallerInv, DataOwned, ReleaseMutex, Finish, program
<1>3. HeldByOne'
  BY ThreadAssumption DEF IInv, TypeOK, HeldByOne, ReleaseMutex, Release, Finish
<1>. QED  BY <1>1, <1>2, <1>3 DEF IInv

LEMMA ReleaseFailsStep ==
  ASSUME IInv, NEW t \in Thread, ReleaseFails(t) PROVE IInv'
<1>1. TypeOK'
  BY DEF IInv, TypeOK, ReleaseFails, Finish, program
<1>2. CallerInv' /\ DataOwned'
  BY DEF IInv, TypeOK, CallerInv, DataOwned, ReleaseFails, Finish, program
<1>3. HeldByOne'
  BY DEF IInv, TypeOK, HeldByOne, ReleaseFails, Finish
<1>. QED  BY <1>1, <1>2, <1>3 DEF IInv

-----------------------------------------------------------------------------
LEMMA NextIInv == IInv /\ [Next]_vars => IInv'
<1>. SUFFICES ASSUME IInv, [Next]_vars PROVE IInv'
  OBVIOUS
<1>1. CASE UNCHANGED vars
  BY <1>1 DEF IInv, TypeOK, CallerInv, DataOwned, HeldByOne, vars, program,
              struct, threads
<1>2. CASE Guard
  BY <1>1, <1>2 DEF Guard
<1>3. CASE Next /\ ~ Guard
  BY <1>3, MallocStep, CreateStep, JoinStep, TickStep, BeginJoinStep, ObtainStep,
     ObtainFailsStep, ReleaseMutexStep, ReleaseFailsStep DEF Next
<1>. QED  BY <1>1, <1>2, <1>3

LEMMA Invariance == Spec => []IInv
BY InitIInv, NextIInv, PTL DEF Spec

(* Whatever the program asks for and whichever calls fail, the state has   *)
(* its types, the ticks usleep was given included.                         *)
THEOREM ThreadingTypes == Spec => []TypeOK
BY Invariance, PTL DEF IInv

(* thread_data is handed from start_thread_obtaining_mutex to the thread   *)
(* to whoever joins it, and is freed once, failing pthread_create included.*)
THEOREM ThreadingDataOwned == Spec => []DataOwned
BY Invariance, PTL DEF IInv

(* No two threads hold the mutex, and a thread that reports success has    *)
(* given it back.                                                          *)
THEOREM ThreadingHeldByOne == Spec => []HeldByOne
BY Invariance, PTL DEF IInv
-----------------------------------------------------------------------------
(* What a thread has slept and what it has left to sleep make up what its  *)
(* usleep was given.                                                       *)
SleepInv ==
  \A t \in Thread :
    /\ thread[t] = "obtain" => slept[t] + sleep[t] = usleep(wait[t].obtain)
    /\ thread[t] = "release" => slept[t] + sleep[t] = usleep(wait[t].release)

(* The conversion to microseconds is exact where it does not wrap.         *)
LEMMA UsleepExact ==
  ASSUME NEW ms \in Nat, ms * PerMs < MaxSleep
  PROVE  usleep(ms) = ms * PerMs
<1>1. ms * PerMs \in Nat
  BY TimeAssumption
<1>2. \A n \in Nat : n < MaxSleep => n % MaxSleep = n
  BY TimeAssumption
<1>. QED  BY <1>1, <1>2 DEF usleep

LEMMA SleepSum ==
  ASSUME NEW ms \in Nat PROVE 0 + usleep(ms) = usleep(ms)
BY UsleepType

LEMMA InitSleepInv == Init => SleepInv
BY DEF Init, SleepInv

LEMMA TickSleepInv ==
  ASSUME IInv, SleepInv, Tick PROVE SleepInv'
<1> SUFFICES ASSUME NEW t \in Thread
             PROVE  /\ thread'[t] = thread[t] /\ wait'[t] = wait[t]
                    /\ slept'[t] + sleep'[t] = slept[t] + sleep[t]
  BY DEF SleepInv
<1>1. sleep[t] \in Nat /\ slept[t] \in Nat
  BY DEF IInv, TypeOK
<1>2. /\ sleep'[t] = IF sleep[t] > 0 THEN sleep[t] - 1 ELSE 0
      /\ slept'[t] = IF sleep[t] > 0 THEN slept[t] + 1 ELSE slept[t]
  BY DEF Tick
<1>. QED  BY <1>1, <1>2 DEF Tick, struct

(* A thread that begins to sleep; the others are left alone.               *)
LEMMA SleepSleepInv ==
  ASSUME IInv, SleepInv, NEW t \in Thread, wait' = wait,
         \/ Sleep(t, wait[t].obtain, "obtain")
         \/ Sleep(t, wait[t].release, "release")
  PROVE  SleepInv'
<1>1. wait[t].obtain \in Nat /\ wait[t].release \in Nat
  BY DEF IInv, TypeOK
<1>2. \A u \in Thread \ {t} :
        /\ thread'[u] = thread[u] /\ sleep'[u] = sleep[u]
        /\ slept'[u] = slept[u]
  BY DEF IInv, TypeOK, Sleep
<1>3. CASE Sleep(t, wait[t].obtain, "obtain")
  <2>1. /\ thread'[t] = "obtain" /\ slept'[t] = 0
        /\ sleep'[t] = usleep(wait[t].obtain)
    BY <1>3 DEF IInv, TypeOK, Sleep
  <2>. QED  BY <1>1, <1>2, <2>1, SleepSum DEF SleepInv
<1>4. CASE Sleep(t, wait[t].release, "release")
  <2>1. /\ thread'[t] = "release" /\ slept'[t] = 0
        /\ sleep'[t] = usleep(wait[t].release)
    BY <1>4 DEF IInv, TypeOK, Sleep
  <2>. QED  BY <1>1, <1>2, <2>1, SleepSum DEF SleepInv
<1>. QED  BY <1>3, <1>4

LEMMA NextSleepInv == IInv /\ SleepInv /\ [Next]_vars => SleepInv'
<1>. SUFFICES ASSUME IInv, SleepInv, [Next]_vars PROVE SleepInv'
  OBVIOUS
<1>1. CASE UNCHANGED <<wait, thread, sleep, slept>>
  BY <1>1 DEF SleepInv
<1>2. ASSUME NEW t \in Thread, NEW obtain \in Waits, NEW release \in Waits,
             malloc(t, obtain, release)
      PROVE  SleepInv'
  (* Only the waits of a thread that there is not yet are changed.         *)
  <2>1. thread[t] = "none" /\ \A u \in Thread \ {t} : wait'[u] = wait[u]
    BY <1>2 DEF IInv, TypeOK, malloc, struct
  <2>. QED  BY <1>2, <2>1 DEF SleepInv, malloc, threads
<1>3. CASE create
  <2>1. target \in Thread
    BY <1>3 DEF IInv, CallerInv, create
  <2>. QED  BY <1>1, <1>3, <2>1, SleepSleepInv DEF create, ObtainWait, threads
<1>4. CASE Join
  <2>1. /\ target \in Thread
        /\ \A u \in Thread \ {target} :
             wait'[u] = wait[u] /\ thread'[u] = thread[u]
        /\ thread'[target] = "none"
    BY <1>4 DEF IInv, TypeOK, CallerInv, Join
  <2>. QED  BY <1>4, <2>1 DEF SleepInv, Join
<1>5. ASSUME NEW t \in Thread, Obtain(t) PROVE SleepInv'
  BY <1>5, SleepSleepInv DEF Obtain, ReleaseWait, struct
<1>6. ASSUME NEW t \in Thread, NEW result, Finish(t, result), wait' = wait
      PROVE  SleepInv'
  <2>1. /\ thread'[t] = "returned"
        /\ \A u \in Thread \ {t} :
             /\ thread'[u] = thread[u] /\ sleep'[u] = sleep[u]
             /\ slept'[u] = slept[u]
    BY <1>6 DEF IInv, TypeOK, Finish
  <2>. QED  BY <1>6, <2>1 DEF SleepInv
<1>7. ASSUME NEW t \in Thread, ObtainFails(t) \/ ReleaseMutex(t) \/ ReleaseFails(t)
      PROVE  SleepInv'
  BY <1>6, <1>7 DEF ObtainFails, ReleaseMutex, ReleaseFails
<1>8. CASE UNCHANGED vars
  BY <1>1, <1>8 DEF vars, struct, threads
<1>9. CASE Guard
  BY <1>8, <1>9 DEF Guard
<1>10. CASE Tick
  BY <1>10, TickSleepInv
<1>11. ASSUME NEW t \in Thread, BeginJoin(t) PROVE SleepInv'
  BY <1>1, <1>11 DEF BeginJoin, struct, threads
<1>. QED  BY <1>2, <1>3, <1>4, <1>5, <1>7, <1>8, <1>9, <1>10, <1>11 DEF Next

LEMMA SleepInvariance == Spec => [](IInv /\ SleepInv)
<1>1. Init => IInv /\ SleepInv
  BY InitIInv, InitSleepInv
<1>2. IInv /\ SleepInv /\ [Next]_vars => (IInv /\ SleepInv)'
  BY NextIInv, NextSleepInv
<1>. QED  BY <1>1, <1>2, PTL DEF Spec

(* A thread whose sleep is over has slept as long as it was asked to.      *)
LEMMA SleptEnough ==
  ASSUME IInv, SleepInv, NEW t \in Thread, sleep[t] = 0
  PROVE  /\ thread[t] = "obtain" => Kept(t, wait[t].obtain)
         /\ thread[t] = "release" => Kept(t, wait[t].release)
<1>1. /\ slept[t] \in Nat
      /\ wait[t].obtain \in Nat /\ wait[t].release \in Nat
  BY DEF IInv, TypeOK
<1>2. /\ thread[t] = "obtain" => slept[t] = usleep(wait[t].obtain)
      /\ thread[t] = "release" => slept[t] = usleep(wait[t].release)
  BY <1>1 DEF SleepInv
<1>3. \A ms \in Nat : ms * PerMs \in Nat
  BY TimeAssumption
<1>4. \A ms \in Nat : ms * PerMs < MaxSleep => usleep(ms) = ms * PerMs
  BY UsleepExact
<1>5. \A n \in Nat : n >= n
  OBVIOUS
<1>6. ASSUME NEW ms \in Nat, slept[t] = usleep(ms) PROVE Kept(t, ms)
  BY <1>3, <1>4, <1>5, <1>6 DEF Kept
<1>. QED  BY <1>1, <1>2, <1>6

LEMMA SleepsEnoughStep ==
  ASSUME IInv, SleepInv, [Next]_vars, NEW t \in Thread
  PROVE  /\ thread[t] = "obtain" /\ thread'[t] = "release"
               => Kept(t, wait[t].obtain)
         /\ thread[t] = "release" /\ thread'[t] = "returned"
               => Kept(t, wait[t].release)
<1> DEFINE Awake == \/ thread'[t] = thread[t]
                    \/ thread[t] \notin {"obtain", "release"}
                    \/ thread'[t] = "none"
                    \/ sleep[t] = 0
<1>1. Awake
  <2>1. CASE UNCHANGED thread
    BY <2>1
  <2>2. CASE create
    BY <2>2 DEF IInv, TypeOK, CallerInv, create, Sleep, threads
  <2>3. CASE Join
    BY <2>3 DEF IInv, TypeOK, CallerInv, Join
  <2>4. ASSUME NEW u \in Thread, Obtain(u) PROVE Awake
    BY <2>4 DEF IInv, TypeOK, Obtain, Sleep
  <2>5. ASSUME NEW u \in Thread, ObtainFails(u) \/ ReleaseMutex(u) \/ ReleaseFails(u)
        PROVE  Awake
    BY <2>5 DEF IInv, TypeOK, ObtainFails, ReleaseMutex, ReleaseFails, Finish
  <2>. QED
    BY <2>1, <2>2, <2>3, <2>4, <2>5
    DEF Next, Guard, Tick, malloc, BeginJoin, vars, threads
<1>. QED  BY <1>1, SleptEnough

(* However long the waits and whoever has the mutex: a thread neither      *)
(* locks the mutex nor unlocks it before it has slept as it was asked to,  *)
(* where the microseconds fit (threading.c:19, 32).                        *)
THEOREM ThreadingSleepsEnough == Spec => SleepsEnough
<1> DEFINE A == \A t \in Thread :
                  /\ thread[t] = "obtain" /\ thread'[t] = "release"
                       => Kept(t, wait[t].obtain)
                  /\ thread[t] = "release" /\ thread'[t] = "returned"
                       => Kept(t, wait[t].release)
<1>1. IInv /\ SleepInv /\ [Next]_vars => A
  BY SleepsEnoughStep
<1>. QED  BY <1>1, SleepInvariance, PTL DEF Spec, SleepsEnough
=============================================================================
