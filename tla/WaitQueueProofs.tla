-------------------------- MODULE WaitQueueProofs --------------------------
(***************************************************************************)
(* Proofs about WaitQueue for a timeout of any length: the entry on init's *)
(* stack and its task are found gone only after the whole of it; and the   *)
(* variables keep their types.                                             *)
(***************************************************************************)
EXTENDS WaitQueue, TLAPS

Places == {"none", "failed", "created", "read", "wake", "reread",
           "loop", "nap", "leave", "ended", "oops"}

Types ==
    /\ exercise \in Sleeping \cup {"add_wait_queue", "kernel_thread", "kthread_run"}
    /\ insmod \in {"create", "oops", "queue", "wake", "sleep", "asleep", "return", "returned", "gone"}
    /\ state \in {"running", "uninterruptible"}
    /\ queue \in {<<>>, <<0>>, <<2, 1>>}
    /\ left \in 0..Timeout /\ time_out \in 0..Timeout
    /\ thread \in [Threads -> Places]
    /\ stale \subseteq {"task", "entry", "task again"}

(* Only the exercises that sleep are woken by their thread, and they have  *)
(* one.                                                                    *)
ThreadInv ==
    /\ \A t \in Threads : thread[t] \in {"read", "wake", "reread"} => exercise \in Sleeping
    /\ exercise \in Sleeping => thread[2] = "none"
    /\ woken => \A t \in Threads : thread[t] \notin {"created", "read", "wake"}

(* init leaves its sleep by the thread's wake-up or else when no tick is   *)
(* left; a wake-up that finds it awake does nothing.                       *)
SleepInv ==
    /\ state = "uninterruptible" => insmod = "asleep"
    /\ woken => insmod \in {"asleep", "return", "returned", "gone"}
    /\ insmod = "asleep" /\ state = "running" /\ ~woken => left = 0
    /\ exercise \in Sleeping /\ insmod \in {"return", "returned", "gone"} /\ ~woken => time_out = 0

(* What is found gone is found so by a thread that has yet to wake init.   *)
GoneInv ==
    "task" \in stale \/ "entry" \in stale =>
        insmod \in {"returned", "gone"} /\ exercise \in Sleeping /\ ~woken

IInv == Types /\ ThreadInv /\ SleepInv /\ GoneInv

LEMMA OneTwo == 1 \in Threads /\ 2 \in Threads /\ \A t \in Threads : t = 1 \/ t = 2
BY DEF Threads

(* Where a thread goes when it starts.                                     *)
LEMMA StartKinds == Start \in {"read", "loop", "leave"} /\ (Start = "read" => exercise \in Sleeping)
BY DEF Start

(* A thread that goes somewhere, and the others, which stay.               *)
LEMMA GoEffect ==
    ASSUME thread \in [Threads -> Places], NEW t \in Threads, NEW to \in Places,
           thread' = [thread EXCEPT ![t] = to]
    PROVE  /\ thread' \in [Threads -> Places]
           /\ thread'[t] = to /\ \A u \in Threads : u # t => thread'[u] = thread[u]
OBVIOUS

LEMMA InitIInv == Init => IInv
BY WaitQueueAssumption
   DEF Init, IInv, Types, Places, ThreadInv, SleepInv, GoneInv, Threads
---------------------------------------------------------------------------
(* The steps of init.                                                      *)
LEMMA CreateStep == IInv /\ (CreateThread \/ CreateBoth \/ KernelThread) => IInv'
<1> SUFFICES ASSUME IInv, CreateThread \/ CreateBoth \/ KernelThread PROVE IInv'
  OBVIOUS
<1>1. /\ insmod = "create" /\ insmod' \in {"queue", "wake", "oops", "return"}
      /\ exercise \in Sleeping => insmod' # "return"
      /\ queue' \in {queue, <<2, 1>>}
      /\ UNCHANGED <<exercise, state, left, time_out, woken, stale>>
  BY DEF CreateThread, CreateBoth, KernelThread, GoInit, sleep, Sleeping
<1>2. /\ thread' \in [Threads -> Places]
      /\ \A t \in Threads : thread'[t] \in {thread[t], "created", "failed", "loop", "leave"}
      /\ exercise \in Sleeping => thread'[2] = thread[2]
  <2>1. CASE CreateThread
    <3>1. \E to \in {"created", "failed"} : thread' = [thread EXCEPT ![1] = to]
      BY <2>1 DEF CreateThread, GoThread
    <3>2. PICK to \in {"created", "failed"} : thread' = [thread EXCEPT ![1] = to]
      BY <3>1
    <3>3. to \in Places
      BY DEF Places
    <3>4. /\ thread' \in [Threads -> Places]
          /\ thread'[1] = to /\ \A u \in Threads : u # 1 => thread'[u] = thread[u]
      BY <3>2, <3>3, GoEffect, OneTwo DEF IInv, Types
    <3> QED
      BY <3>2, <3>4, OneTwo
  <2>2. CASE CreateBoth
    BY <2>2 DEF CreateBoth, Sleeping, Places
  <2>3. CASE KernelThread
    <3>1. exercise \notin Sleeping
      BY <2>3 DEF KernelThread, Sleeping
    <3>2. PICK to \in {Start, "failed"} : thread' = [thread EXCEPT ![1] = to]
      BY <2>3 DEF KernelThread, GoThread
    <3>3. to \in {"loop", "leave", "failed"} /\ to \in Places
      BY <3>1, StartKinds DEF Places
    <3>4. /\ thread' \in [Threads -> Places]
          /\ thread'[1] = to /\ \A u \in Threads : u # 1 => thread'[u] = thread[u]
      BY <3>2, <3>3, GoEffect, OneTwo DEF IInv, Types
    <3> QED
      BY <3>1, <3>3, <3>4, OneTwo
  <2> QED
    BY <2>1, <2>2, <2>3
<1>3. ~woken
  BY <1>1 DEF IInv, SleepInv
<1>4. Types' /\ SleepInv' /\ GoneInv'
  BY <1>1, <1>2, <1>3 DEF IInv, Types, SleepInv, GoneInv
<1>5. ThreadInv'
  BY <1>1, <1>2, <1>3 DEF IInv, ThreadInv
<1> QED
  BY <1>4, <1>5 DEF IInv

LEMMA WakeStep == IInv /\ (AddWaitQueue \/ WakeUpProcess \/ WakeUpAll) => IInv'
<1> SUFFICES ASSUME IInv, AddWaitQueue \/ WakeUpProcess \/ WakeUpAll PROVE IInv'
  OBVIOUS
<1>1. /\ insmod \in {"queue", "wake"} /\ insmod' \in {"wake", "sleep", "return", "oops"}
      /\ exercise \in Sleeping => insmod' # "return"
      /\ queue' \in {queue, <<0>>}
      /\ UNCHANGED <<exercise, state, left, time_out, woken, stale>>
  BY DEF AddWaitQueue, WakeUpProcess, WakeUpAll, AfterWakeUp, GoInit, sleep, Sleeping
<1>2. Start \in {"read", "loop", "leave"} /\ (Start = "read" => exercise \in Sleeping)
  BY StartKinds
<1> HIDE DEF Start
<1>3. /\ thread' \in [Threads -> Places]
      /\ \A t \in Threads : thread'[t] \in {thread[t], Start}
      /\ exercise \in Sleeping => thread'[2] = thread[2]
  <2>1. CASE AddWaitQueue
    BY <2>1 DEF AddWaitQueue, IInv, Types
  <2>2. CASE WakeUpProcess
    <3>1. thread' = [thread EXCEPT ![1] = Start] /\ Start \in Places
      BY <1>2, <2>2 DEF WakeUpProcess, GoThread, Places
    <3>2. /\ thread' \in [Threads -> Places]
          /\ thread'[1] = Start /\ \A u \in Threads : u # 1 => thread'[u] = thread[u]
      BY <3>1, GoEffect, OneTwo DEF IInv, Types
    <3> QED
      BY <3>2, OneTwo
  <2>3. CASE WakeUpAll
    <3>1. /\ exercise \notin Sleeping
          /\ thread' = [t \in Threads |-> thread'[t]]
          /\ \A t \in Threads : thread'[t] \in {thread[t], Start}
      BY <2>3 DEF WakeUpAll, Sleeping
    <3>2. \A t \in Threads :
             thread'[t] \in Places
      BY <1>2, <3>1 DEF IInv, Types, Places
    <3>3. thread' \in [Threads -> Places]
      BY <3>1, <3>2
    <3> QED
      BY <3>1, <3>3
  <2> QED
    BY <2>1, <2>2, <2>3
<1>4. ~woken
  BY <1>1 DEF IInv, SleepInv
<1>5. Types' /\ SleepInv' /\ GoneInv'
  BY <1>1, <1>3, <1>4 DEF IInv, Types, SleepInv, GoneInv
<1>6. ThreadInv'
  BY <1>1, <1>2, <1>3, <1>4 DEF IInv, ThreadInv
<1> QED
  BY <1>5, <1>6 DEF IInv

LEMMA SleepStep == IInv /\ (ScheduleTimeout \/ Resume \/ Tick \/ Expire) => IInv'
<1> SUFFICES ASSUME IInv, ScheduleTimeout \/ Resume \/ Tick \/ Expire PROVE IInv'
  OBVIOUS
<1>1. UNCHANGED <<exercise, queue, thread, woken, stale>>
  BY DEF ScheduleTimeout, Resume, Tick, Expire
<1>2. \/ /\ insmod = "sleep" /\ insmod' = "asleep" /\ state' = "uninterruptible"
         /\ left' = Timeout /\ time_out' = time_out
      \/ /\ insmod = "asleep" /\ insmod' = "return" /\ state = "running" /\ state' = state
         /\ left' = left /\ time_out' = left
      \/ /\ left > 0 /\ left' = left - 1 /\ UNCHANGED <<insmod, state, time_out>>
      \/ /\ left = 0 /\ state' = "running" /\ UNCHANGED <<insmod, left, time_out>>
  BY DEF ScheduleTimeout, Resume, Tick, Expire, GoInit
<1>3. insmod' \in {"asleep", "return", insmod} /\ state' \in {"running", "uninterruptible"}
  BY <1>2 DEF IInv, Types
<1> left \in 0..Timeout /\ time_out \in 0..Timeout
  BY DEF IInv, Types
<1> left \in Nat /\ Timeout \in Nat
  BY WaitQueueAssumption
<1>4. left' \in 0..Timeout /\ time_out' \in 0..Timeout
  BY <1>2
<1>5. Types'
  BY <1>1, <1>3, <1>4 DEF IInv, Types
<1>6. ThreadInv'
  BY <1>1 DEF IInv, ThreadInv
<1>7. SleepInv'
  BY <1>1, <1>2 DEF IInv, SleepInv
<1>8. GoneInv'
  BY <1>1, <1>2 DEF IInv, GoneInv
<1> QED
  BY <1>5, <1>6, <1>7, <1>8 DEF IInv

LEMMA LeaveStep == IInv /\ (ReturnInit \/ ExitInsmod \/ Rmmod) => IInv'
<1> SUFFICES ASSUME IInv, ReturnInit \/ ExitInsmod \/ Rmmod PROVE IInv'
  OBVIOUS
<1>1. /\ UNCHANGED <<exercise, state, left, time_out, thread, woken, stale>>
      /\ queue' \in {queue, <<>>}
      /\ insmod' = insmod \/ (insmod \in {"return", "returned"} /\ insmod' \in {"returned", "gone"})
  BY DEF ReturnInit, ExitInsmod, Rmmod, GoInit, sleep
<1>2. Types'
  BY <1>1 DEF IInv, Types
<1>3. ThreadInv' /\ SleepInv' /\ GoneInv'
  BY <1>1 DEF IInv, ThreadInv, SleepInv, GoneInv
<1> QED
  BY <1>2, <1>3 DEF IInv
---------------------------------------------------------------------------
(* The steps of a thread.                                                  *)
LEMMA ReadStep ==
    ASSUME IInv, NEW t \in Threads, ReadState(t)
    PROVE  IInv'
<1>1. /\ thread[t] = "read" /\ UNCHANGED <<exercise, insmod, state, left, queue, time_out, woken>>
      /\ \E to \in {"wake", "oops"} : thread' = [thread EXCEPT ![t] = to]
      /\ stale' = stale \/ (insmod = "gone" /\ stale' = stale \cup {"task"})
  BY DEF ReadState, Touch, sleep
<1>2. exercise \in Sleeping /\ ~woken
  BY <1>1 DEF IInv, ThreadInv
<1>3. Types'
  BY <1>1 DEF IInv, Types, Places
<1>4. ThreadInv'
  BY <1>1, <1>2 DEF IInv, Types, ThreadInv, Threads
<1>5. SleepInv' /\ GoneInv'
  BY <1>1, <1>2 DEF IInv, SleepInv, GoneInv
<1> QED
  BY <1>3, <1>4, <1>5 DEF IInv

LEMMA WakeUpStep ==
    ASSUME IInv, NEW t \in Threads, WakeUp(t)
    PROVE  IInv'
<1>1. /\ thread[t] = "wake" /\ UNCHANGED <<exercise, insmod, left, queue, time_out>>
      /\ \E to \in {"reread", "leave", "oops"} : thread' = [thread EXCEPT ![t] = to]
      /\ stale' = stale \/ (insmod \in {"returned", "gone"} /\ stale' = stale \cup {"entry"})
      /\ \/ state = "uninterruptible" /\ state' = "running" /\ woken'
         \/ UNCHANGED <<state, woken>>
  BY DEF WakeUp, Touch
<1>2. exercise \in Sleeping /\ ~woken /\ t = 1 /\ thread[2] = "none"
  BY <1>1 DEF IInv, ThreadInv, Threads
<1>3. Types'
  BY <1>1 DEF IInv, Types, Places
<1>4. \A u \in Threads : thread'[u] \notin {"created", "read", "wake"}
  BY <1>1, <1>2 DEF IInv, Types, Threads
<1>5. ThreadInv'
  BY <1>1, <1>2, <1>4 DEF IInv, Types, ThreadInv, Threads
<1>6. SleepInv' /\ GoneInv'
  BY <1>1, <1>2 DEF IInv, SleepInv, GoneInv
<1> QED
  BY <1>3, <1>5, <1>6 DEF IInv

LEMMA OtherThreadStep ==
    ASSUME IInv, NEW t \in Threads, ReadStateAgain(t) \/ Loop(t) \/ ThreadEnds(t) \/ ThreadLost(t)
    PROVE  IInv'
<1>1. /\ UNCHANGED <<exercise, insmod, state, left, queue, time_out, woken>>
      /\ thread[t] # "none"
      /\ \E to \in {"loop", "nap", "leave", "ended", "oops"} : thread' = [thread EXCEPT ![t] = to]
      /\ stale' = stale \/ stale' = stale \cup {"task again"}
  BY DEF ReadStateAgain, Loop, ThreadEnds, ThreadLost, GoThread, Touch, sleep
<1>2. Types'
  BY <1>1 DEF IInv, Types, Places
<1>3. ThreadInv'
  BY <1>1 DEF IInv, Types, ThreadInv, Threads
<1>4. SleepInv' /\ GoneInv'
  BY <1>1 DEF IInv, SleepInv, GoneInv
<1> QED
  BY <1>2, <1>3, <1>4 DEF IInv
---------------------------------------------------------------------------
LEMMA NextIInv == IInv /\ [Next]_vars => IInv'
<1> SUFFICES ASSUME IInv, [Next]_vars PROVE IInv'
  OBVIOUS
<1>1. CASE UNCHANGED vars
  BY <1>1 DEF vars, sleep, IInv, Types, ThreadInv, SleepInv, GoneInv
<1>2. CASE InitFunction
  BY <1>2, CreateStep, WakeStep, SleepStep, LeaveStep DEF InitFunction
<1>3. ASSUME NEW t \in Threads, ThreadFunction(t) PROVE IInv'
  BY <1>3, ReadStep, WakeUpStep, OtherThreadStep DEF ThreadFunction
<1>4. CASE ExitInsmod \/ Tick \/ Expire \/ Rmmod
  BY <1>4, SleepStep, LeaveStep
<1> QED
  BY <1>1, <1>2, <1>3, <1>4 DEF Next

(* __wake_up.c:14-63: the invariant the other theorem rests on.            *)
THEOREM Invariance == Spec => []IInv
BY InitIInv, NextIInv, PTL DEF Spec

(* __wake_up.c:27-28,45-54: with a timeout of any length, the thread finds *)
(* init's entry or task gone only when init slept all of it.               *)
THEOREM StaleCorrect == Spec => []StaleOnlyAfterTimeout
<1>1. IInv => StaleOnlyAfterTimeout
  BY DEF IInv, SleepInv, GoneInv, StaleOnlyAfterTimeout
<1> QED
  BY <1>1, Invariance, PTL

(* The flags are flags.                                                    *)
FlagsInv == armed \in BOOLEAN /\ woken \in BOOLEAN /\ loaded \in BOOLEAN

LEMMA FlagsStep == FlagsInv /\ [Next]_vars => FlagsInv'
<1> SUFFICES ASSUME FlagsInv, [Next]_vars PROVE FlagsInv'
  OBVIOUS
<1>1. armed' = armed \/ armed' = TRUE \/ armed' = FALSE
  <2>1. CASE InitFunction
    BY <2>1, Zenon DEF InitFunction, CreateThread, CreateBoth, KernelThread, AddWaitQueue, WakeUpProcess,
                       WakeUpAll, ScheduleTimeout, Resume, ReturnInit, sleep
  <2>2. ASSUME NEW t \in Threads, ThreadFunction(t) PROVE armed' = armed
    BY <2>2, Zenon DEF ThreadFunction, ReadState, WakeUp, ReadStateAgain, Loop, ThreadEnds, ThreadLost, sleep
  <2> QED
    BY <2>1, <2>2, Zenon DEF Next, vars, sleep, ExitInsmod, Tick, Expire, Rmmod
<1>2. woken' = woken \/ woken' = TRUE
  <2>1. CASE InitFunction
    BY <2>1, Zenon DEF InitFunction, CreateThread, CreateBoth, KernelThread, AddWaitQueue, WakeUpProcess,
                       WakeUpAll, ScheduleTimeout, Resume, ReturnInit
  <2>2. ASSUME NEW t \in Threads, ThreadFunction(t) PROVE woken' = woken \/ woken' = TRUE
    BY <2>2, Zenon DEF ThreadFunction, ReadState, WakeUp, ReadStateAgain, Loop, ThreadEnds, ThreadLost
  <2> QED
    BY <2>1, <2>2, Zenon DEF Next, vars, ExitInsmod, Tick, Expire, Rmmod
<1>3. loaded' = loaded \/ loaded' = FALSE
  <2>1. CASE InitFunction
    BY <2>1, Zenon DEF InitFunction, CreateThread, CreateBoth, KernelThread, AddWaitQueue, WakeUpProcess,
                       WakeUpAll, ScheduleTimeout, Resume, ReturnInit
  <2>2. ASSUME NEW t \in Threads, ThreadFunction(t) PROVE loaded' = loaded
    BY <2>2, Zenon DEF ThreadFunction, ReadState, WakeUp, ReadStateAgain, Loop, ThreadEnds, ThreadLost
  <2> QED
    BY <2>1, <2>2, Zenon DEF Next, vars, ExitInsmod, Tick, Expire, Rmmod
<1> QED
  BY <1>1, <1>2, <1>3 DEF FlagsInv

(* __wake_up.c: the variables keep their types; what the sleep returns is  *)
(* never more than it was asked to sleep.                                  *)
THEOREM TypeCorrect == Spec => []TypeOK
<1>1. Init => FlagsInv
  BY DEF Init, FlagsInv
<1>2. IInv /\ FlagsInv => TypeOK
  BY DEF IInv, Types, Places, FlagsInv, TypeOK
<1> QED
  BY <1>1, <1>2, InitIInv, NextIInv, FlagsStep, PTL DEF Spec
=============================================================================
