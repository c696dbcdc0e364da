----------------------------- MODULE WaitQueue -----------------------------
(***************************************************************************)
(* The exercises that start kernel threads.                                *)
(*                                                                         *)
(* __wake_up/, __wake_up_sync/ and __wake_up_sync_key/: init creates a     *)
(* kernel thread, puts itself on a static wait queue by an entry on its    *)
(* own stack, starts the thread and sleeps; the thread wakes the queue.    *)
(* Nothing orders the thread's wake-up after init's going to sleep, init   *)
(* never takes its entry off the queue, and nothing keeps the module in    *)
(* place for the thread.  Only the timeout of the sleep stands behind it.  *)
(*                                                                         *)
(* add_wait_queue/ creates two threads, queues both and starts them by a   *)
(* wake-up of the queue; kernel_thread/ starts one that never ends, and    *)
(* kthread_run/ one that only prints.                                      *)
(*                                                                         *)
(* Wait queues, timers, kthreads and insmod are the kernel's, modelled as  *)
(* used here.                                                              *)
(***************************************************************************)
EXTENDS Naturals, Sequences

CONSTANTS Timeout   (* __wake_up.c:54, 1000 * 10 ticks                      *)

ASSUME WaitQueueAssumption == Timeout \in Nat \ {0}

Threads == {1, 2}

VARIABLES
    exercise,  (* the module that is loaded                                 *)
    insmod,    (* where its init is; then what becomes of the task          *)
    state,     (* old_thread->state                                         *)
    queue,     (* who is on the queue, first one first; 0 is init's task    *)
    armed,     (* the timer of the sleep is pending                         *)
    left,      (* ticks left to it                                          *)
    time_out,  (* what the sleep returned                                   *)
    thread,    (* where each thread is                                      *)
    woken,     (* history: a thread's wake-up found init asleep             *)
    stale,     (* history: what a thread touched after that was gone        *)
    loaded     (* the module is in place                                    *)

sleep == <<state, armed, left>>
vars  == <<exercise, insmod, sleep, queue, time_out, thread, woken, stale, loaded>>

Sleeping == {"__wake_up", "__wake_up_sync", "__wake_up_sync_key"}
Rereads  == {"__wake_up_sync", "__wake_up_sync_key"}

Init ==
    /\ exercise \in Sleeping \cup {"add_wait_queue", "kernel_thread", "kthread_run"}
    /\ insmod = "create" /\ state = "running"
    /\ queue = <<>> /\ armed = FALSE /\ left = 0 /\ time_out = Timeout
    /\ thread = [t \in Threads |-> "none"]
    /\ woken = FALSE /\ stale = {} /\ loaded = TRUE

GoInit(from, to) == insmod = from /\ insmod' = to
GoThread(t, from, to) == thread[t] = from /\ thread' = [thread EXCEPT ![t] = to]

(* What a thread does first: kernel_thread's loops, some only print, and   *)
(* the others read the state of init.                                      *)
Start == CASE exercise = "kernel_thread" -> "loop"
           [] exercise \in Sleeping      -> "read"
           [] OTHER                      -> "leave"
---------------------------------------------------------------------------
(* The init functions.                                                     *)

(* kthread_create_on_node may fail.  kthread_run checks that; three of the *)
(* others use the error as a pointer at once.                              *)
CreateThread ==
    /\ exercise \in Sleeping \cup {"kthread_run"}
    /\ \/ GoThread(1, "none", "created")
          /\ GoInit("create", IF exercise \in Sleeping THEN "queue" ELSE "wake")
       \/ GoThread(1, "none", "failed")
          /\ GoInit("create", IF exercise \in Sleeping THEN "oops" ELSE "return")
    /\ UNCHANGED <<exercise, sleep, queue, time_out, woken, stale, loaded>>

(* add_wait_queue_init queues whatever the two calls returned, each entry  *)
(* before the one already there.                                           *)
CreateBoth ==
    /\ exercise = "add_wait_queue"
    /\ GoInit("create", "wake")
    /\ thread' \in [Threads -> {"created", "failed"}]
    /\ queue' = <<2, 1>>
    /\ UNCHANGED <<exercise, sleep, time_out, woken, stale, loaded>>

(* kernel_thread starts the thread; that it could not is ignored.          *)
KernelThread ==
    /\ exercise = "kernel_thread"
    /\ GoInit("create", "return")
    /\ GoThread(1, "none", Start) \/ GoThread(1, "none", "failed")
    /\ UNCHANGED <<exercise, sleep, queue, time_out, woken, stale, loaded>>

AddWaitQueue ==
    /\ GoInit("queue", "wake")
    /\ queue' = <<0>>
    /\ UNCHANGED <<exercise, sleep, time_out, thread, woken, stale, loaded>>

WakeUpProcess ==
    /\ exercise # "add_wait_queue"
    /\ GoInit("wake", IF exercise \in Sleeping THEN "sleep" ELSE "return")
    /\ GoThread(1, "created", Start)
    /\ UNCHANGED <<exercise, sleep, queue, time_out, woken, stale, loaded>>

AfterWakeUp == IF \E t \in Threads : thread[t] = "failed" THEN "oops" ELSE "return"
Place(t) == CHOOSE i \in DOMAIN queue : queue[i] = t

(* Faulty variant: the wake-up ends with the first entry.                  *)
WakeUpOne ==
    /\ exercise = "add_wait_queue" /\ GoInit("wake", AfterWakeUp)
    /\ thread' = [t \in Threads |->
          IF thread[t] = "created" /\ Place(t) = 1 THEN Start ELSE thread[t]]
    /\ UNCHANGED <<exercise, sleep, queue, time_out, woken, stale, loaded>>

(* __wake_up of add_wait_queue: the entries are not exclusive, so all are  *)
(* woken, up to one that holds an error in place of a task.                *)
WakeUpAll ==
    /\ exercise = "add_wait_queue" /\ GoInit("wake", AfterWakeUp)
    /\ LET Reached(t) == \A u \in Threads : thread[u] = "failed" => Place(t) < Place(u) IN
       thread' = [t \in Threads |->
          IF thread[t] = "created" /\ Reached(t) THEN Start ELSE thread[t]]
    /\ UNCHANGED <<exercise, sleep, queue, time_out, woken, stale, loaded>>

(* Faulty variants: schedule_timeout in the running state, schedule        *)
(* without a timeout, and a timeout of one tick more.                      *)
ScheduleTimeoutRunning ==
    /\ GoInit("sleep", "asleep")
    /\ armed' = TRUE /\ left' = Timeout
    /\ UNCHANGED <<exercise, state, queue, time_out, thread, woken, stale, loaded>>
ScheduleNoTimeout ==
    /\ GoInit("sleep", "asleep")
    /\ state' = "uninterruptible" /\ left' = Timeout
    /\ UNCHANGED <<exercise, armed, queue, time_out, thread, woken, stale, loaded>>
ScheduleLonger ==
    /\ GoInit("sleep", "asleep")
    /\ state' = "uninterruptible" /\ armed' = TRUE /\ left' = Timeout + 1
    /\ UNCHANGED <<exercise, queue, time_out, thread, woken, stale, loaded>>

(* schedule_timeout_uninterruptible sets the state, arms the timer and     *)
(* waits to be made running again, by the thread or by the timer.          *)
ScheduleTimeout ==
    /\ GoInit("sleep", "asleep")
    /\ state' = "uninterruptible" /\ armed' = TRUE /\ left' = Timeout
    /\ UNCHANGED <<exercise, queue, time_out, thread, woken, stale, loaded>>

Resume ==
    /\ state = "running"
    /\ GoInit("asleep", "return")
    /\ armed' = FALSE /\ time_out' = left
    /\ UNCHANGED <<exercise, state, left, queue, thread, woken, stale, loaded>>

(* init returns and its stack is gone: add_wait_queue_init's queue with    *)
(* it, but the entries on a static queue are still there.                  *)
ReturnInit ==
    /\ GoInit("return", "returned")
    /\ queue' = IF exercise = "add_wait_queue" THEN <<>> ELSE queue
    /\ UNCHANGED <<exercise, sleep, time_out, thread, woken, stale, loaded>>

ExitInsmod ==
    /\ GoInit("returned", "gone")
    /\ UNCHANGED <<exercise, sleep, queue, time_out, thread, woken, stale, loaded>>
---------------------------------------------------------------------------
(* The threads' functions.                                                 *)

(* What touches freed memory may go on or crash.                           *)
Touch(t, what, isgone, from, to) ==
    /\ thread[t] = from /\ loaded
    /\ \E next \in IF isgone THEN {to, "oops"} ELSE {to} : thread' = [thread EXCEPT ![t] = next]
    /\ stale' = IF isgone THEN stale \cup {what} ELSE stale

ReadState(t) ==
    /\ Touch(t, "task", insmod = "gone", "read", "wake")
    /\ UNCHANGED <<exercise, insmod, sleep, queue, time_out, woken, loaded>>

(* __wake_up: init's task, if it is on the queue and asleep, runs again.   *)
(* Its entry stays on the queue.                                           *)
WakeUp(t) ==
    /\ Touch(t, "entry", queue # <<>> /\ insmod \in {"returned", "gone"},
             "wake", IF exercise \in Rereads THEN "reread" ELSE "leave")
    /\ IF queue # <<>> /\ state = "uninterruptible"
       THEN state' = "running" /\ woken' = TRUE
       ELSE UNCHANGED <<state, woken>>
    /\ UNCHANGED <<exercise, insmod, armed, left, queue, time_out, loaded>>

ReadStateAgain(t) ==
    /\ Touch(t, "task again", insmod = "gone", "reread", "leave")
    /\ UNCHANGED <<exercise, insmod, sleep, queue, time_out, woken, loaded>>

(* my_kernel_thread prints and sleeps, for ever.                           *)
Loop(t) ==
    /\ loaded
    /\ GoThread(t, "loop", "nap") \/ GoThread(t, "nap", "loop")
    /\ UNCHANGED <<exercise, insmod, sleep, queue, time_out, woken, stale, loaded>>

ThreadEnds(t) ==
    /\ loaded
    /\ GoThread(t, "leave", "ended")
    /\ UNCHANGED <<exercise, insmod, sleep, queue, time_out, woken, stale, loaded>>

(* The module was removed under it.                                        *)
ThreadLost(t) ==
    /\ ~loaded
    /\ \E at \in {"read", "wake", "reread", "loop", "nap", "leave"} : GoThread(t, at, "oops")
    /\ UNCHANGED <<exercise, insmod, sleep, queue, time_out, woken, stale, loaded>>
---------------------------------------------------------------------------
(* The timer and rmmod.  Nothing holds a reference to the module.          *)
Tick ==
    /\ armed /\ left > 0
    /\ left' = left - 1
    /\ UNCHANGED <<exercise, insmod, state, armed, queue, time_out, thread, woken, stale, loaded>>

Expire ==
    /\ armed /\ left = 0
    /\ armed' = FALSE /\ state' = "running"
    /\ UNCHANGED <<exercise, insmod, left, queue, time_out, thread, woken, stale, loaded>>

Rmmod ==
    /\ loaded /\ insmod \in {"returned", "gone"}
    /\ loaded' = FALSE
    /\ UNCHANGED <<exercise, insmod, sleep, queue, time_out, thread, woken, stale>>
---------------------------------------------------------------------------
InitFunction ==
    \/ CreateThread
    \/ CreateBoth
    \/ KernelThread
    \/ AddWaitQueue
    \/ WakeUpProcess
    \/ WakeUpAll
    \/ ScheduleTimeout
    \/ Resume
    \/ ReturnInit

ThreadFunction(t) ==
    \/ ReadState(t)
    \/ WakeUp(t)
    \/ ReadStateAgain(t)
    \/ Loop(t)
    \/ ThreadEnds(t)
    \/ ThreadLost(t)

Next ==
    \/ InitFunction
    \/ ExitInsmod
    \/ \E t \in Threads : ThreadFunction(t)
    \/ Tick
    \/ Expire
    \/ Rmmod

Spec == Init /\ [][Next]_vars

(* All tasks are scheduled, and time passes.  The module may stay.         *)
FairSpec ==
    /\ Spec
    /\ WF_vars(InitFunction) /\ WF_vars(ExitInsmod)
    /\ \A t \in Threads : WF_vars(ThreadFunction(t))
    /\ WF_vars(Tick) /\ WF_vars(Expire)
---------------------------------------------------------------------------
(* __wake_up.c: the variables keep their types.                            *)
TypeOK ==
    /\ exercise \in Sleeping \cup {"add_wait_queue", "kernel_thread", "kthread_run"}
    /\ armed \in BOOLEAN /\ woken \in BOOLEAN /\ loaded \in BOOLEAN
    /\ insmod \in {"create", "oops", "queue", "wake", "sleep", "asleep", "return", "returned", "gone"}
    /\ state \in {"running", "uninterruptible"}
    /\ queue \in {<<>>, <<0>>, <<2, 1>>}
    /\ left \in 0..Timeout /\ time_out \in 0..Timeout
    /\ thread \in [Threads -> {"none", "failed", "created", "read", "wake", "reread",
                               "loop", "nap", "leave", "ended", "oops"}]
    /\ stale \subseteq {"task", "entry", "task again"}

(* __wake_up.c:27-28,45-54: init leaves its entry on the queue and its     *)
(* task in old_thread.  That harms only after the whole timeout: as long   *)
(* as the thread runs within it, it finds both.  (The _sync modules read   *)
(* old_thread once more after the wake-up, and that nothing protects.)     *)
StaleOnlyAfterTimeout == stale \cap {"task", "entry"} # {} => time_out = 0 /\ ~woken

(* __wake_up.c:53-54: the thread may send its wake-up before init is       *)
(* asleep.  It is lost then, but insmod still comes back.  So it does in   *)
(* the other exercises, with or without a thread where a failure to create *)
(* it does no harm.                                                        *)
HarmlessFailure == {"kernel_thread", "kthread_run"}
InitReturns ==
    insmod = "create" ~>
        \/ insmod = "gone"
        \/ exercise \notin HarmlessFailure /\ \E t \in Threads : thread[t] = "failed"

(* add_wait_queue.c:42-52, __wake_up.c:53, kthread_run.c:14-21: a created  *)
(* thread sleeps until it is woken, and every one is: by the one wake-up   *)
(* of the queue when that is how it was started.  (An init that ran into   *)
(* an error pointer wakes no more.)                                        *)
CreatedThreadsRun ==
    \A t \in Threads : thread[t] = "created" ~> thread[t] # "created" \/ insmod = "oops"
=============================================================================
