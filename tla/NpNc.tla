------------------------------- MODULE NpNc -------------------------------
(***************************************************************************)
(* np-nc/np-nc.c: N producer and N consumer kernel threads share a ring    *)
(* buffer of BUF_NUM slots, guarded by the semaphores s1 (free slots), s2  *)
(* (filled slots) and mutex.  The consumers decide when to stop from the   *)
(* plain counter cflag, which they read and increment with no lock held.   *)
(*                                                                         *)
(* A step of the model runs a thread up to its next access to shared data. *)
(***************************************************************************)
EXTENDS Integers, Sequences, FiniteSets

CONSTANTS N,             (* np-nc.c:73, threads of each kind              *)
          PNUM,          (* np-nc.c:8                                     *)
          CNUM,          (* np-nc.c:9                                     *)
          BUF_NUM,       (* np-nc.c:10                                    *)
          SpawnMayFail   (* whether kernel_thread may fail in np_nc_init  *)

ASSUME NpNcAssumption ==
    /\ N \in Nat \ {0}
    /\ PNUM \in Nat \ {0}
    /\ CNUM \in Nat
    /\ BUF_NUM \in Nat \ {0}
    /\ SpawnMayFail \in BOOLEAN

Producers == {"p"} \X (1..N)
Consumers == {"c"} \X (1..N)
Threads   == Producers \cup Consumers
Slots     == 0..(BUF_NUM - 1)

(* The value stored by producer i in a round; see np-nc.c:28.              *)
Good(i, k) == i * 100 + k
Goods == {Good(i, k) : i \in 1..N, k \in 1..PNUM}
NoGood == 0

VARIABLES
    s1, s2, mutex,   (* counts of the three semaphores                      *)
    buf, in, out,    (* the ring                                            *)
    cflag,           (* goods the consumers believe they have consumed      *)
    pc,              (* where each thread is                                *)
    p_num,           (* productor_thread's local: goods it still has to make *)
    seen,            (* the value of cflag a consumer is about to increment *)
    made, taken      (* history: goods in the order stored and in the order read *)

sems == <<s1, s2, mutex>>
ring == <<buf, in, out>>
hist == <<made, taken>>
vars == <<sems, ring, cflag, pc, p_num, seen, hist>>

Move(t, from, to) == pc[t] = from /\ pc' = [pc EXCEPT ![t] = to]

(* np_nc_init.  It spawns the threads one by one; a thread that does not   *)
(* exist yet is like one that has not run yet, so they all exist at once,  *)
(* except those kernel_thread failed to create: its result is ignored.     *)
Init ==
    /\ s1 = BUF_NUM /\ s2 = 0 /\ mutex = 1
    /\ buf = [s \in Slots |-> NoGood] /\ in = 0 /\ out = 0
    /\ cflag = 0
    /\ \E failed \in SUBSET Threads :
          /\ SpawnMayFail \/ failed = {}
          /\ pc = [t \in Threads |-> IF t \in failed THEN "failed" ELSE "idle"]
    /\ p_num = [p \in Producers |-> PNUM]
    /\ seen = [c \in Consumers |-> 0]
    /\ made = <<>> /\ taken = <<>>
---------------------------------------------------------------------------
(* productor_thread, one round of its loop.                                *)

PDownS1(p) ==
    /\ p_num[p] > 0
    /\ s1 > 0
    /\ s1' = s1 - 1
    /\ Move(p, "idle", "lock")
    /\ UNCHANGED <<s2, mutex, ring, cflag, p_num, seen, hist>>

PFinish(p) ==
    /\ p_num[p] = 0
    /\ Move(p, "idle", "done")
    /\ UNCHANGED <<sems, ring, cflag, p_num, seen, hist>>

(* Faulty variant: down_interruptible, its result ignored.                 *)
DownMutexInterrupted(t) ==
    /\ mutex' = IF mutex > 0 THEN mutex - 1 ELSE mutex
    /\ Move(t, "lock", "access")
    /\ UNCHANGED <<s1, s2, ring, cflag, p_num, seen, hist>>

DownMutex(t) ==
    /\ mutex > 0
    /\ mutex' = mutex - 1
    /\ Move(t, "lock", "access")
    /\ UNCHANGED <<s1, s2, ring, cflag, p_num, seen, hist>>

(* Faulty variant: the producer uses the consumers' index.                 *)
PStoreAtOut(p) ==
    LET good == Good(p[2], PNUM - p_num[p] + 1) IN
    /\ buf' = [buf EXCEPT ![out] = good]
    /\ made' = Append(made, good)
    /\ Move(p, "access", "advance")
    /\ UNCHANGED <<sems, in, out, cflag, p_num, seen, taken>>

PStore(p) ==
    LET good == Good(p[2], PNUM - p_num[p] + 1) IN
    /\ buf' = [buf EXCEPT ![in] = good]
    /\ made' = Append(made, good)
    /\ Move(p, "access", "advance")
    /\ UNCHANGED <<sems, in, out, cflag, p_num, seen, taken>>

(* Faulty variant of Advanced, off by one at the end of the ring.          *)
AdvancedShort(i) == (i + 1) % (BUF_NUM + 1)

(* The index is advanced modulo BUF_NUM: np-nc.c:30 and np-nc.c:53.        *)
Advanced(i) == (i + 1) % BUF_NUM

PAdvance(p) ==
    /\ in' = Advanced(in)
    /\ Move(p, "advance", "unlock")
    /\ UNCHANGED <<sems, buf, out, cflag, p_num, seen, hist>>

UpMutex(t) ==
    /\ mutex' = mutex + 1
    /\ Move(t, "unlock", "signal")
    /\ UNCHANGED <<s1, s2, ring, cflag, p_num, seen, hist>>

PUpS2(p) ==
    /\ s2' = s2 + 1
    /\ p_num' = [p_num EXCEPT ![p] = @ - 1]
    /\ Move(p, "signal", "idle")
    /\ UNCHANGED <<s1, mutex, ring, cflag, seen, hist>>
---------------------------------------------------------------------------
(* consumer_thread, one round of its loop.                                 *)

(* Faulty variant: the last good is left for nobody.                       *)
CTestOneShort(c) ==
    /\ Move(c, "idle", IF cflag + 1 < CNUM THEN "wait" ELSE "done")
    /\ UNCHANGED <<sems, ring, cflag, p_num, seen, hist>>

(* Faulty variant: while (cflag++ != CNUM), which counts what is yet to come. *)
CTestCounting(c) ==
    /\ Move(c, "idle", IF cflag # CNUM THEN "wait" ELSE "done")
    /\ cflag' = cflag + 1
    /\ UNCHANGED <<sems, ring, p_num, seen, hist>>

CTest(c) ==
    /\ Move(c, "idle", IF cflag # CNUM THEN "wait" ELSE "done")
    /\ UNCHANGED <<sems, ring, cflag, p_num, seen, hist>>

CDownS2(c) ==
    /\ s2 > 0
    /\ s2' = s2 - 1
    /\ Move(c, "wait", "lock")
    /\ UNCHANGED <<s1, mutex, ring, cflag, p_num, seen, hist>>

CRead(c) ==
    /\ taken' = Append(taken, buf[out])
    /\ Move(c, "access", "advance")
    /\ UNCHANGED <<sems, ring, cflag, p_num, seen, made>>

CAdvance(c) ==
    /\ out' = Advanced(out)
    /\ Move(c, "advance", "unlock")
    /\ UNCHANGED <<sems, buf, in, cflag, p_num, seen, hist>>

(* Faulty variant: nothing is given back once the work is done.            *)
CUpS1IfMore(c) ==
    /\ s1' = IF cflag # CNUM THEN s1 + 1 ELSE s1
    /\ Move(c, "signal", "count")
    /\ UNCHANGED <<s2, mutex, ring, cflag, p_num, seen, hist>>

CUpS1(c) ==
    /\ s1' = s1 + 1
    /\ Move(c, "signal", "count")
    /\ UNCHANGED <<s2, mutex, ring, cflag, p_num, seen, hist>>

(* cflag++ has no lock and no atomic: its load and its store are two steps. *)
CLoad(c) ==
    /\ seen' = [seen EXCEPT ![c] = cflag]
    /\ Move(c, "count", "store")
    /\ UNCHANGED <<sems, ring, cflag, p_num, hist>>

CStore(c) ==
    /\ cflag' = seen[c] + 1
    /\ Move(c, "store", "idle")
    /\ UNCHANGED <<sems, ring, p_num, seen, hist>>
---------------------------------------------------------------------------
ProducerStep(p) ==
    \/ PDownS1(p)
    \/ PFinish(p)
    \/ DownMutex(p)
    \/ PStore(p)
    \/ PAdvance(p)
    \/ UpMutex(p)
    \/ PUpS2(p)

ConsumerStep(c) ==
    \/ CTest(c)
    \/ CDownS2(c)
    \/ DownMutex(c)
    \/ CRead(c)
    \/ CAdvance(c)
    \/ UpMutex(c)
    \/ CUpS1(c)
    \/ CLoad(c)
    \/ CStore(c)

Next == (\E p \in Producers : ProducerStep(p)) \/ (\E c \in Consumers : ConsumerStep(c))

Spec == Init /\ [][Next]_vars

(* The scheduler runs every runnable thread, and up() hands a semaphore to *)
(* its waiters in turn, so no thread waits forever while others pass it.   *)
Fairness ==
    /\ \A p \in Producers :
          /\ WF_vars(ProducerStep(p))
          /\ SF_vars(PDownS1(p))
          /\ SF_vars(DownMutex(p))
    /\ \A c \in Consumers :
          /\ WF_vars(ConsumerStep(c))
          /\ SF_vars(CDownS2(c))
          /\ SF_vars(DownMutex(c))

FairSpec == Spec /\ Fairness
---------------------------------------------------------------------------
Inside(t) == pc[t] \in {"access", "advance", "unlock"}

(* Threads that hold a permit taken from s1 or s2 and not yet given back:  *)
(* the goods or free slots that neither semaphore counts at the moment.    *)
Holders == {t \in Threads : pc[t] \in {"lock", "access", "advance", "unlock", "signal"}}

(* np-nc.c:8-59: the variables keep their types.                           *)
TypeOK ==
    /\ s1 \in 0..BUF_NUM /\ s2 \in 0..BUF_NUM /\ mutex \in 0..1
    /\ buf \in [Slots -> Goods \cup {NoGood}] /\ in \in Slots /\ out \in Slots
    /\ cflag \in Nat
    /\ pc \in [Threads -> {"failed", "idle", "wait", "lock", "access", "advance",
                           "unlock", "signal", "count", "store", "done"}]
    /\ p_num \in [Producers -> 0..PNUM]
    /\ seen \in [Consumers -> Nat]
    /\ made \in Seq(Goods) /\ taken \in Seq(Goods \cup {NoGood})

(* np-nc.c:27-31,50-54: at most one thread is between down(&mutex) and     *)
(* up(&mutex), so in, out and the slots are touched by one thread a time.  *)
MutualExclusion == \A t, u \in Threads : Inside(t) /\ Inside(u) => t = u

(* np-nc.c:26,32,49,55: permits are never created or lost.  The two counts *)
(* and the permits in the threads' hands always add up to the ring.        *)
PermitsConserved == s1 + s2 + Cardinality(Holders) = BUF_NUM

(* np-nc.c:43,56: the unlocked counter only errs one way.  Updates may be  *)
(* lost, but a consumer never leaves before CNUM goods were really taken.  *)
QuitsOnlyAfterCNUM ==
    (\E c \in Consumers : pc[c] = "done") => Len(taken) >= CNUM

(* np-nc.c:26,43: a consumer that leaves may leave goods behind, but when  *)
(* those fit in the ring every producer still finishes, whatever the       *)
(* unlocked counter did (provided every thread could be created).          *)
ProducersFinish ==
    N * PNUM <= BUF_NUM + CNUM /\ [](\A t \in Threads : pc[t] # "failed") => <>(\A p \in Producers : pc[p] = "done")

(* np-nc.c:28-30,51-53: the ring behaves as a bounded first-in first-out   *)
(* queue of goods, none of them lost, duplicated, invented or overwritten. *)
Fifo == INSTANCE GoodsFifo
FifoSpec == Fifo!Spec

(* np-nc.c:56: cflag++ with no lock is a lossy counter of the goods that   *)
(* were taken and counted: it is never ahead of them, and not zero once    *)
(* one was counted.                                                        *)
Uncounted == {c \in Consumers : pc[c] \in {"advance", "unlock", "signal", "count", "store"}}
Lossy == INSTANCE LossyCounters WITH
             Counters <- {"cflag"},
             value    <- [c \in {"cflag"} |-> cflag],
             incs     <- [c \in {"cflag"} |-> Len(taken) - Cardinality(Uncounted)]
CflagSpec == Lossy!Spec
=============================================================================
