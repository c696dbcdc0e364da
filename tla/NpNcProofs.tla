----------------------------- MODULE NpNcProofs -----------------------------
(***************************************************************************)
(* Proofs about NpNc for every number of threads, goods and slots: the     *)
(* types, mutual exclusion, the conservation of semaphore permits, the     *)
(* guarantee the unlocked counter still gives, and that the ring buffer    *)
(* implements a bounded first-in first-out queue.                          *)
(***************************************************************************)
EXTENDS NpNc, FiniteSetTheorems, TLAPS

(* A quotient and a remainder in range are the only ones.                  *)
LEMMA ModUnique ==
    ASSUME NEW M \in Nat, M > 0, NEW q \in Int, NEW r \in 0..(M - 1), NEW a, a = M * q + r
    PROVE  a % M = r
<1> DEFINE p == a \div M
           s == a % M
<1>1. a \in Int
  OBVIOUS
<1>2. p \in Int /\ s \in 0..(M - 1) /\ a = M * p + s
  BY <1>1
<1> HIDE DEF p, s
<1>3. M * (p - q) = r - s
  BY <1>2
<1>4. p - q \in Int /\ r - s < M /\ r - s > 0 - M
  BY <1>2
<1>5. p - q >= 1 => M * (p - q) >= M
  BY <1>4
<1>6. p - q <= 0 - 1 => M * (p - q) <= 0 - M
  BY <1>4
<1>7. r - s = 0
  BY <1>2, <1>3, <1>4, <1>5, <1>6
<1> QED
  BY <1>2, <1>7 DEF s

(* Counting up commutes with the wrap.                                     *)
LEMMA ModSucc ==
    ASSUME NEW M \in Nat, M > 0, NEW a \in Int
    PROVE  (a + 1) % M = ((a % M) + 1) % M
<1> DEFINE q == a \div M
           r == a % M
<1>1. q \in Int /\ r \in 0..(M - 1) /\ a = M * q + r
  OBVIOUS
<1> HIDE DEF q, r
<1>2. CASE r + 1 < M
  <2>1. a + 1 = M * q + (r + 1) /\ r + 1 \in 0..(M - 1)
    BY <1>1, <1>2
  <2>2. (a + 1) % M = r + 1
    BY <1>1, <2>1, ModUnique
  <2>3. (r + 1) % M = r + 1
    BY <2>1
  <2> QED
    BY <2>2, <2>3 DEF r
<1>3. CASE r + 1 = M
  <2>1. a + 1 = M * (q + 1) + 0 /\ q + 1 \in Int /\ 0 \in 0..(M - 1)
    BY <1>1, <1>3
  <2>2. (a + 1) % M = 0
    BY <2>1, ModUnique
  <2>3. (r + 1) % M = 0
    <3>1. M = M * 1 + 0 /\ 1 \in Int
      OBVIOUS
    <3> QED
      BY <1>3, <2>1, <3>1, ModUnique
  <2> QED
    BY <2>2, <2>3 DEF r
<1> QED
  BY <1>1, <1>2, <1>3

(* Numbers less than a round apart do not meet.                            *)
LEMMA ModDistinct ==
    ASSUME NEW M \in Nat, M > 0, NEW a \in Int, NEW b \in Int, a < b, b < a + M
    PROVE  a % M # b % M
<1> SUFFICES ASSUME a % M = b % M PROVE FALSE
  OBVIOUS
<1> DEFINE p == a \div M
           q == b \div M
           r == a % M
<1>1. p \in Int /\ q \in Int /\ r \in Int /\ a = M * p + r /\ b = M * q + r
  OBVIOUS
<1> HIDE DEF p, q, r
<1>2. M * (q - p) = b - a
  BY <1>1
<1>3. q - p >= 1 => M * (q - p) >= M
  BY <1>1
<1>4. q - p <= 0 => M * (q - p) <= 0
  BY <1>1
<1> QED
  BY <1>1, <1>2, <1>3, <1>4
---------------------------------------------------------------------------
(* A thread inside the critical section is what keeps mutex at zero.       *)
MutexInv ==
    /\ mutex = 1 => \A t \in Threads : ~Inside(t)
    /\ MutualExclusion

(* A producer that is past its loop test has a good left to make.          *)
RoundInv == \A p \in Producers :
    pc[p] \in {"lock", "access", "advance", "unlock", "signal"} => p_num[p] > 0

(* cflag, and what a consumer is about to store in it, leave room for the  *)
(* goods not yet counted: a lost update only makes the counter smaller.    *)
CountInv ==
    /\ cflag + Cardinality(Uncounted) <= Len(taken)
    /\ \A c \in Consumers : pc[c] = "store" => seen[c] + Cardinality(Uncounted) <= Len(taken)
    /\ QuitsOnlyAfterCNUM

IInv == TypeOK /\ MutexInv /\ PermitsConserved /\ RoundInv /\ CountInv
---------------------------------------------------------------------------
(* Threads are pairs of a kind and a number: np-nc.c:73-78.                *)
LEMMA ThreadKinds ==
    /\ \A p \in Producers : p \in Threads /\ p \notin Consumers /\ p[2] \in 1..N
    /\ \A c \in Consumers : c \in Threads /\ c \notin Producers
    /\ \A t \in Threads : t \in Producers \/ t \in Consumers
BY DEF Producers, Consumers, Threads

(* Every set of threads is finite.                                         *)
LEMMA FiniteThreads ==
    \A S \in SUBSET Threads : IsFiniteSet(S) /\ Cardinality(S) \in Nat
<1>1. IsFiniteSet(1..N)
  BY FS_Interval, NpNcAssumption
<1>2. IsFiniteSet({"p"}) /\ IsFiniteSet({"c"})
  BY FS_Singleton
<1>3. IsFiniteSet(Producers) /\ IsFiniteSet(Consumers)
  BY <1>1, <1>2, FS_Product DEF Producers, Consumers
<1>4. IsFiniteSet(Threads)
  BY <1>3, FS_Union DEF Threads
<1> QED
  BY <1>4, FS_Subset, FS_CardinalityType

(* What one thread's entering, leaving or staying in a set of threads does *)
(* to the size of the set.                                                 *)
LEMMA SizeChange ==
    ASSUME NEW S \in SUBSET Threads, NEW t \in Threads
    PROVE  /\ t \notin S => Cardinality(S \cup {t}) = Cardinality(S) + 1
           /\ t \in S => Cardinality(S \ {t}) = Cardinality(S) - 1 /\ Cardinality(S) > 0
<1>1. IsFiniteSet(S) /\ Cardinality(S) \in Nat
  BY FiniteThreads
<1>2. t \in S => Cardinality(S) # 0
  BY <1>1, FS_EmptySet
<1>3. t \notin S => Cardinality(S \cup {t}) = Cardinality(S) + 1
  BY <1>1, FS_AddElement
<1>4. t \in S => Cardinality(S \ {t}) = Cardinality(S) - 1
  BY <1>1, FS_RemoveElement
<1>5. t \in S => Cardinality(S) > 0
  BY <1>1, <1>2
<1> QED
  BY <1>3, <1>4, <1>5
---------------------------------------------------------------------------
HolderPcs  == {"lock", "access", "advance", "unlock", "signal"}
PendingPcs == {"advance", "unlock", "signal", "count", "store"}

(* One thread's move, and what it does to the two sets counted above.      *)
LEMMA MoveEffect ==
    ASSUME TypeOK, NEW t \in Threads, NEW from, NEW to, Move(t, from, to)
    PROVE  /\ pc[t] = from /\ pc'[t] = to
           /\ \A u \in Threads : u # t => pc'[u] = pc[u]
           /\ Holders' = IF to \in HolderPcs THEN Holders \cup {t} ELSE Holders \ {t}
           /\ Uncounted' = IF to \in PendingPcs /\ t \in Consumers
                         THEN Uncounted \cup {t} ELSE Uncounted \ {t}
<1>1. pc[t] = from /\ pc'[t] = to /\ \A u \in Threads : u # t => pc'[u] = pc[u]
  BY DEF Move, TypeOK
<1>2. Holders' = IF to \in HolderPcs THEN Holders \cup {t} ELSE Holders \ {t}
  BY <1>1 DEF Holders, HolderPcs
<1>3. Uncounted' = IF to \in PendingPcs /\ t \in Consumers THEN Uncounted \cup {t} ELSE Uncounted \ {t}
  BY <1>1, ThreadKinds DEF Uncounted, PendingPcs
<1> QED
  BY <1>1, <1>2, <1>3

LEMMA InitIInv == Init => IInv
<1> SUFFICES ASSUME Init PROVE IInv
  OBVIOUS
<1> USE NpNcAssumption
<1>1. \A t \in Threads : pc[t] \in {"failed", "idle"}
  BY DEF Init
<1>2. TypeOK
  BY DEF Init, TypeOK, Slots, NoGood
<1>3. Holders = {} /\ Uncounted = {}
  BY <1>1, ThreadKinds DEF Holders, Uncounted
<1>4. PermitsConserved
  BY <1>3, FS_EmptySet DEF PermitsConserved, Init
<1>5. MutexInv /\ RoundInv
  BY <1>1, ThreadKinds DEF MutexInv, MutualExclusion, Inside, RoundInv
<1>6. CountInv
  <2>1. cflag + Cardinality(Uncounted) <= Len(taken)
    BY <1>3, FS_EmptySet DEF Init
  <2>2. \A c \in Consumers : pc[c] # "store" /\ pc[c] # "done"
    BY <1>1, ThreadKinds
  <2> QED
    BY <2>1, <2>2 DEF CountInv, QuitsOnlyAfterCNUM
<1> QED
  BY <1>2, <1>4, <1>5, <1>6 DEF IInv
---------------------------------------------------------------------------
(* What each conjunct of the invariant needs of a step: the permits.       *)
LEMMA PermitsStep ==
    ASSUME IInv, [Next]_vars
    PROVE  PermitsConserved'
<1> DEFINE Card == Cardinality(Holders)
<1>1. TypeOK /\ s1 + s2 + Card = BUF_NUM
  BY DEF IInv, PermitsConserved
<1>2. s1 \in Nat /\ s2 \in Nat /\ Holders \in SUBSET Threads /\ Card \in Nat
  BY <1>1, FiniteThreads, NpNcAssumption DEF TypeOK, Holders
<1>3. SUFFICES s1' + s2' + Cardinality(Holders') = BUF_NUM
  BY DEF PermitsConserved, Holders
<1> HIDE DEF Card
<1>4. ASSUME NEW t \in Threads, NEW from, NEW to, Move(t, from, to),
             from \in HolderPcs <=> to \in HolderPcs, s1' = s1, s2' = s2
      PROVE  s1' + s2' + Cardinality(Holders') = BUF_NUM
  <2>1. t \in Holders <=> to \in HolderPcs
    BY <1>1, <1>4, MoveEffect DEF Holders, HolderPcs
  <2>2. Holders' = Holders
    BY <1>1, <1>4, <2>1, MoveEffect
  <2> QED
    BY <1>1, <1>4, <2>2 DEF Card
<1>5. ASSUME NEW t \in Threads, NEW from, NEW to, Move(t, from, to),
             from \notin HolderPcs, to \in HolderPcs
      PROVE  Cardinality(Holders') = Card + 1
  <2>1. t \notin Holders
    BY <1>1, <1>5, MoveEffect DEF Holders, HolderPcs
  <2>2. Holders' = Holders \cup {t}
    BY <1>1, <1>5, MoveEffect
  <2> QED
    BY <1>2, <2>1, <2>2, SizeChange DEF Card
<1>6. ASSUME NEW t \in Threads, NEW from, NEW to, Move(t, from, to),
             from \in HolderPcs, to \notin HolderPcs
      PROVE  Cardinality(Holders') = Card - 1
  <2>1. t \in Holders
    BY <1>1, <1>6, MoveEffect DEF Holders, HolderPcs
  <2>2. Holders' = Holders \ {t}
    BY <1>1, <1>6, MoveEffect
  <2> QED
    BY <1>2, <2>1, <2>2, SizeChange DEF Card
<1>7. ASSUME NEW p \in Producers, ProducerStep(p)
      PROVE  s1' + s2' + Cardinality(Holders') = BUF_NUM
  <2>1. p \in Threads
    BY ThreadKinds
  <2>2. CASE PDownS1(p)
    <3>1. Cardinality(Holders') = Card + 1
      BY <2>1, <2>2, <1>5 DEF PDownS1, HolderPcs
    <3> QED
      BY <1>1, <1>2, <2>2, <3>1 DEF PDownS1
  <2>3. CASE PFinish(p)
    BY <2>1, <2>3, <1>4 DEF PFinish, HolderPcs, sems
  <2>4. CASE DownMutex(p)
    BY <2>1, <2>4, <1>4 DEF DownMutex, HolderPcs
  <2>5. CASE PStore(p)
    BY <2>1, <2>5, <1>4 DEF PStore, HolderPcs, sems
  <2>6. CASE PAdvance(p)
    BY <2>1, <2>6, <1>4 DEF PAdvance, HolderPcs, sems
  <2>7. CASE UpMutex(p)
    BY <2>1, <2>7, <1>4 DEF UpMutex, HolderPcs
  <2>8. CASE PUpS2(p)
    <3>1. Cardinality(Holders') = Card - 1
      BY <2>1, <2>8, <1>6 DEF PUpS2, HolderPcs
    <3> QED
      BY <1>1, <1>2, <2>8, <3>1 DEF PUpS2
  <2> QED
    BY <1>7, <2>2, <2>3, <2>4, <2>5, <2>6, <2>7, <2>8 DEF ProducerStep
<1>8. ASSUME NEW c \in Consumers, ConsumerStep(c)
      PROVE  s1' + s2' + Cardinality(Holders') = BUF_NUM
  <2>1. c \in Threads
    BY ThreadKinds
  <2>2. CASE CTest(c)
    BY <2>1, <2>2, <1>4 DEF CTest, HolderPcs, sems
  <2>3. CASE CDownS2(c)
    <3>1. Cardinality(Holders') = Card + 1
      BY <2>1, <2>3, <1>5 DEF CDownS2, HolderPcs
    <3> QED
      BY <1>1, <1>2, <2>3, <3>1 DEF CDownS2
  <2>4. CASE DownMutex(c)
    BY <2>1, <2>4, <1>4 DEF DownMutex, HolderPcs
  <2>5. CASE CRead(c)
    BY <2>1, <2>5, <1>4 DEF CRead, HolderPcs, sems
  <2>6. CASE CAdvance(c)
    BY <2>1, <2>6, <1>4 DEF CAdvance, HolderPcs, sems
  <2>7. CASE UpMutex(c)
    BY <2>1, <2>7, <1>4 DEF UpMutex, HolderPcs
  <2>8. CASE CUpS1(c)
    <3>1. Cardinality(Holders') = Card - 1
      BY <2>1, <2>8, <1>6 DEF CUpS1, HolderPcs
    <3> QED
      BY <1>1, <1>2, <2>8, <3>1 DEF CUpS1
  <2>9. CASE CLoad(c)
    BY <2>1, <2>9, <1>4 DEF CLoad, HolderPcs, sems
  <2>10. CASE CStore(c)
    BY <2>1, <2>10, <1>4 DEF CStore, HolderPcs, sems
  <2> QED
    BY <1>8, <2>2, <2>3, <2>4, <2>5, <2>6, <2>7, <2>8, <2>9, <2>10 DEF ConsumerStep
<1>9. CASE UNCHANGED vars
  <2>1. Holders' = Holders /\ s1' = s1 /\ s2' = s2
    BY <1>9 DEF vars, sems, Holders
  <2> QED
    BY <1>1, <2>1 DEF Card
<1> QED
  BY <1>7, <1>8, <1>9 DEF Next

(* The types.                                                              *)
LEMMA TypeStep ==
    ASSUME IInv, [Next]_vars
    PROVE  TypeOK'
<1> USE NpNcAssumption
<1>1. TypeOK /\ RoundInv /\ MutexInv
  BY DEF IInv
<1>2. PermitsConserved' /\ Cardinality(Holders') \in Nat
  BY PermitsStep, FiniteThreads DEF Holders
<1> DEFINE Pcs == {"failed", "idle", "wait", "lock", "access", "advance",
                   "unlock", "signal", "count", "store", "done"}
           Bounded == s1' \in 0..BUF_NUM /\ s2' \in 0..BUF_NUM
<1>3. ASSUME s1' \in Nat, s2' \in Nat PROVE Bounded
  BY <1>2, <1>3 DEF PermitsConserved
<1>4. \A i \in Slots : Advanced(i) \in Slots
  BY DEF Advanced, Slots
<1>5. s1 \in Nat /\ s2 \in Nat /\ mutex \in 0..1
  BY <1>1 DEF TypeOK
<1>6. ASSUME NEW p \in Producers, ProducerStep(p)
      PROVE  TypeOK'
  <2>1. p \in Threads /\ p[2] \in 1..N /\ p_num[p] \in 0..PNUM
    BY <1>1, ThreadKinds DEF TypeOK
  <2>2. CASE PDownS1(p)
    <3>1. Bounded
      BY <1>3, <1>5, <2>2 DEF PDownS1
    <3> QED
      BY <1>1, <2>1, <2>2, <3>1 DEF PDownS1, Move, TypeOK, ring, hist
  <2>3. CASE PFinish(p)
    BY <1>1, <2>1, <2>3 DEF PFinish, Move, TypeOK, sems, ring, hist
  <2>4. CASE DownMutex(p)
    BY <1>1, <2>1, <2>4 DEF DownMutex, Move, TypeOK, ring, hist
  <2>5. CASE PStore(p)
    <3>1. PNUM - p_num[p] + 1 \in 1..PNUM
      BY <1>1, <2>1, <2>5 DEF PStore, Move, RoundInv
    <3>2. Good(p[2], PNUM - p_num[p] + 1) \in Goods
      BY <2>1, <3>1 DEF Goods
    <3> QED
      BY <1>1, <2>1, <2>5, <3>2 DEF PStore, Move, TypeOK, sems
  <2>6. CASE PAdvance(p)
    BY <1>1, <1>4, <2>1, <2>6 DEF PAdvance, Move, TypeOK, sems, hist
  <2>7. CASE UpMutex(p)
    <3>1. mutex = 0
      BY <1>1, <1>5, <2>1, <2>7 DEF UpMutex, Move, MutexInv, Inside
    <3> QED
      BY <1>1, <2>1, <2>7, <3>1 DEF UpMutex, Move, TypeOK, ring, hist
  <2>8. CASE PUpS2(p)
    <3>1. Bounded
      BY <1>3, <1>5, <2>8 DEF PUpS2
    <3>2. p_num[p] - 1 \in 0..PNUM
      BY <1>1, <2>1, <2>8 DEF PUpS2, Move, RoundInv
    <3> QED
      BY <1>1, <2>1, <2>8, <3>1, <3>2 DEF PUpS2, Move, TypeOK, ring, hist
  <2> QED
    BY <1>6, <2>2, <2>3, <2>4, <2>5, <2>6, <2>7, <2>8 DEF ProducerStep
<1>7. ASSUME NEW c \in Consumers, ConsumerStep(c)
      PROVE  TypeOK'
  <2>1. c \in Threads
    BY ThreadKinds
  <2>2. CASE CTest(c)
    BY <1>1, <2>1, <2>2 DEF CTest, Move, TypeOK, sems, ring, hist
  <2>3. CASE CDownS2(c)
    <3>1. Bounded
      BY <1>3, <1>5, <2>3 DEF CDownS2
    <3> QED
      BY <1>1, <2>1, <2>3, <3>1 DEF CDownS2, Move, TypeOK, ring, hist
  <2>4. CASE DownMutex(c)
    BY <1>1, <2>1, <2>4 DEF DownMutex, Move, TypeOK, ring, hist
  <2>5. CASE CRead(c)
    <3>1. buf[out] \in Goods \cup {NoGood}
      BY <1>1 DEF TypeOK
    <3> QED
      BY <1>1, <2>1, <2>5, <3>1 DEF CRead, Move, TypeOK, sems, ring
  <2>6. CASE CAdvance(c)
    BY <1>1, <1>4, <2>1, <2>6 DEF CAdvance, Move, TypeOK, sems, hist
  <2>7. CASE UpMutex(c)
    <3>1. mutex = 0
      BY <1>1, <1>5, <2>1, <2>7 DEF UpMutex, Move, MutexInv, Inside
    <3> QED
      BY <1>1, <2>1, <2>7, <3>1 DEF UpMutex, Move, TypeOK, ring, hist
  <2>8. CASE CUpS1(c)
    <3>1. Bounded
      BY <1>3, <1>5, <2>8 DEF CUpS1
    <3> QED
      BY <1>1, <2>1, <2>8, <3>1 DEF CUpS1, Move, TypeOK, ring, hist
  <2>9. CASE CLoad(c)
    BY <1>1, <2>1, <2>9 DEF CLoad, Move, TypeOK, sems, ring, hist
  <2>10. CASE CStore(c)
    BY <1>1, <2>1, <2>10 DEF CStore, Move, TypeOK, sems, ring, hist
  <2> QED
    BY <1>7, <2>2, <2>3, <2>4, <2>5, <2>6, <2>7, <2>8, <2>9, <2>10 DEF ConsumerStep
<1>8. CASE UNCHANGED vars
  BY <1>1, <1>8 DEF vars, sems, ring, hist, TypeOK
<1> QED
  BY <1>6, <1>7, <1>8 DEF Next
---------------------------------------------------------------------------
(* The mutex: only DownMutex enters the critical section, only UpMutex     *)
(* leaves it.                                                              *)
LEMMA MutexStep ==
    ASSUME IInv, [Next]_vars
    PROVE  MutexInv'
<1>1. TypeOK /\ MutexInv /\ mutex \in 0..1
  BY DEF IInv, TypeOK
<1>2. ASSUME NEW t \in Threads, NEW from, NEW to, Move(t, from, to), mutex' = mutex,
             from \in {"access", "advance", "unlock"} <=> to \in {"access", "advance", "unlock"}
      PROVE  MutexInv'
  <2>1. \A u \in Threads : Inside(u)' <=> Inside(u)
    BY <1>1, <1>2, MoveEffect DEF Inside
  <2> QED
    BY <1>1, <1>2, <2>1 DEF MutexInv, MutualExclusion
<1>3. ASSUME NEW t \in Threads, DownMutex(t)
      PROVE  MutexInv'
  <2>1. mutex = 1 /\ mutex' = 0
    BY <1>1, <1>3 DEF DownMutex
  <2>2. \A u \in Threads : Inside(u)' => u = t
    BY <1>1, <1>3, <2>1, MoveEffect DEF DownMutex, MutexInv, Inside
  <2> QED
    BY <2>1, <2>2 DEF MutexInv, MutualExclusion
<1>4. ASSUME NEW t \in Threads, UpMutex(t)
      PROVE  MutexInv'
  <2>1. Inside(t) /\ ~Inside(t)' /\ \A u \in Threads : u # t => (Inside(u)' <=> Inside(u))
    BY <1>1, <1>4, MoveEffect DEF UpMutex, Inside
  <2>2. \A u \in Threads : ~Inside(u)'
    BY <1>1, <2>1 DEF MutexInv, MutualExclusion
  <2> QED
    BY <2>2 DEF MutexInv, MutualExclusion
<1>5. ASSUME NEW p \in Producers, ProducerStep(p)
      PROVE  MutexInv'
  <2>1. p \in Threads
    BY ThreadKinds
  <2>2. CASE PDownS1(p)
    BY <1>2, <2>1, <2>2 DEF PDownS1
  <2>3. CASE PFinish(p)
    BY <1>2, <2>1, <2>3 DEF PFinish, sems
  <2>4. CASE PStore(p)
    BY <1>2, <2>1, <2>4 DEF PStore, sems
  <2>5. CASE PAdvance(p)
    BY <1>2, <2>1, <2>5 DEF PAdvance, sems
  <2>6. CASE PUpS2(p)
    BY <1>2, <2>1, <2>6 DEF PUpS2
  <2> QED
    BY <1>3, <1>4, <1>5, <2>1, <2>2, <2>3, <2>4, <2>5, <2>6 DEF ProducerStep
<1>6. ASSUME NEW c \in Consumers, ConsumerStep(c)
      PROVE  MutexInv'
  <2>1. c \in Threads
    BY ThreadKinds
  <2>2. CASE CTest(c)
    BY <1>2, <2>1, <2>2 DEF CTest, sems
  <2>3. CASE CDownS2(c)
    BY <1>2, <2>1, <2>3 DEF CDownS2
  <2>4. CASE CRead(c)
    BY <1>2, <2>1, <2>4 DEF CRead, sems
  <2>5. CASE CAdvance(c)
    BY <1>2, <2>1, <2>5 DEF CAdvance, sems
  <2>6. CASE CUpS1(c)
    BY <1>2, <2>1, <2>6 DEF CUpS1
  <2>7. CASE CLoad(c)
    BY <1>2, <2>1, <2>7 DEF CLoad, sems
  <2>8. CASE CStore(c)
    BY <1>2, <2>1, <2>8 DEF CStore, sems
  <2> QED
    BY <1>3, <1>4, <1>6, <2>1, <2>2, <2>3, <2>4, <2>5, <2>6, <2>7, <2>8 DEF ConsumerStep
<1>7. CASE UNCHANGED vars
  BY <1>1, <1>7 DEF vars, sems, MutexInv, MutualExclusion, Inside
<1> QED
  BY <1>5, <1>6, <1>7 DEF Next

(* A producer's round: p_num is tested before the first down() and changed *)
(* only after the last up().                                               *)
LEMMA RoundStep ==
    ASSUME IInv, [Next]_vars
    PROVE  RoundInv'
<1>1. TypeOK /\ RoundInv
  BY DEF IInv
<1>2. ASSUME NEW p \in Producers, ProducerStep(p)
      PROVE  RoundInv'
  <2>1. p \in Threads
    BY ThreadKinds
  <2>2. \A q \in Producers : q # p => pc'[q] = pc[q] /\ p_num'[q] = p_num[q]
    BY <1>1, <1>2, <2>1, ThreadKinds DEF ProducerStep, PDownS1, PFinish, DownMutex, PStore,
       PAdvance, UpMutex, PUpS2, Move, TypeOK
  <2>3. pc'[p] \in {"lock", "access", "advance", "unlock", "signal"} => p_num'[p] > 0
    BY <1>1, <1>2, <2>1 DEF ProducerStep, PDownS1, PFinish, DownMutex, PStore,
       PAdvance, UpMutex, PUpS2, Move, TypeOK, RoundInv
  <2> QED
    BY <1>1, <2>2, <2>3 DEF RoundInv
<1>3. ASSUME NEW c \in Consumers, ConsumerStep(c)
      PROVE  RoundInv'
  <2>1. c \in Threads /\ c \notin Producers
    BY ThreadKinds
  <2>2. p_num' = p_num /\ \A q \in Producers : pc'[q] = pc[q]
    BY <1>1, <1>3, <2>1, ThreadKinds DEF ConsumerStep, CTest, CDownS2, DownMutex, CRead,
       CAdvance, UpMutex, CUpS1, CLoad, CStore, Move, TypeOK
  <2> QED
    BY <1>1, <2>2 DEF RoundInv
<1>4. CASE UNCHANGED vars
  BY <1>1, <1>4 DEF vars, RoundInv
<1> QED
  BY <1>2, <1>3, <1>4 DEF Next
---------------------------------------------------------------------------
(* The counter.  A good is pending from CRead, where taken grows, to       *)
(* CStore, where cflag is written: in between the sum does not change.     *)
Counted == Len(taken) - Cardinality(Uncounted)

(* What a step does to the counter: CStore alone counts one good more, and *)
(* what it stores is at most one more than was counted.                    *)
CounterStep ==
    \/ cflag' = cflag /\ Counted' = Counted
    \/ \E c \in Consumers :
          /\ cflag' = seen[c] + 1 /\ seen[c] <= Counted
          /\ Counted' = Counted + 1

LEMMA CountStep ==
    ASSUME IInv, [Next]_vars
    PROVE  CountInv' /\ CounterStep
<1> DEFINE Card == Cardinality(Uncounted)
<1> USE NpNcAssumption
<1>1. /\ TypeOK /\ CountInv
      /\ cflag \in Nat /\ Len(taken) \in Nat /\ \A c \in Consumers : seen[c] \in Nat
  BY DEF IInv, TypeOK
<1>2. Uncounted \in SUBSET Threads /\ Card \in Nat
  BY FiniteThreads, ThreadKinds DEF Uncounted
<1> HIDE DEF Card
<1>3. ASSUME NEW t \in Threads, NEW from, NEW to, Move(t, from, to),
             t \in Consumers => (from \in PendingPcs <=> to \in PendingPcs),
             to # "store", to = "done" => t \notin Consumers \/ cflag = CNUM,
             cflag' = cflag, seen' = seen, taken' = taken
      PROVE  CountInv' /\ CounterStep
  <2>1. Uncounted' = Uncounted
    BY <1>1, <1>3, MoveEffect DEF Uncounted, PendingPcs
  <2>2. \A c \in Consumers : pc'[c] = "store" => pc[c] = "store"
    BY <1>1, <1>3, MoveEffect, ThreadKinds
  <2>3. (\E c \in Consumers : pc'[c] = "done")
        => cflag = CNUM \/ \E c \in Consumers : pc[c] = "done"
    BY <1>1, <1>3, MoveEffect, ThreadKinds
  <2>4. cflag <= Len(taken)
    BY <1>1, <1>2 DEF CountInv, Card
  <2> QED
    BY <1>1, <1>3, <2>1, <2>2, <2>3, <2>4 DEF CountInv, QuitsOnlyAfterCNUM, CounterStep, Counted
<1>4. ASSUME NEW p \in Producers, ProducerStep(p)
      PROVE  CountInv' /\ CounterStep
  <2>1. p \in Threads /\ p \notin Consumers
    BY ThreadKinds
  <2>2. CASE PDownS1(p)
    BY <1>3, <2>1, <2>2 DEF PDownS1, hist
  <2>3. CASE PFinish(p)
    BY <1>3, <2>1, <2>3 DEF PFinish, hist
  <2>4. CASE DownMutex(p)
    BY <1>3, <2>1, <2>4 DEF DownMutex, hist
  <2>5. CASE PStore(p)
    BY <1>3, <2>1, <2>5 DEF PStore
  <2>6. CASE PAdvance(p)
    BY <1>3, <2>1, <2>6 DEF PAdvance, hist
  <2>7. CASE UpMutex(p)
    BY <1>3, <2>1, <2>7 DEF UpMutex, hist
  <2>8. CASE PUpS2(p)
    BY <1>3, <2>1, <2>8 DEF PUpS2, hist
  <2> QED
    BY <1>4, <2>2, <2>3, <2>4, <2>5, <2>6, <2>7, <2>8 DEF ProducerStep
<1>5. ASSUME NEW c \in Consumers, ConsumerStep(c)
      PROVE  CountInv' /\ CounterStep
  <2>1. c \in Threads
    BY ThreadKinds
  <2>2. CASE CTest(c)
    BY <1>3, <2>1, <2>2 DEF CTest, hist, PendingPcs
  <2>3. CASE CDownS2(c)
    BY <1>3, <2>1, <2>3 DEF CDownS2, hist, PendingPcs
  <2>4. CASE DownMutex(c)
    BY <1>3, <2>1, <2>4 DEF DownMutex, hist, PendingPcs
  <2>5. CASE CRead(c)
    <3>1. Move(c, "access", "advance") /\ c \notin Uncounted
      BY <2>5 DEF CRead, Move, Uncounted
    <3>2. Cardinality(Uncounted') = Card + 1
      BY <1>1, <1>2, <2>1, <3>1, MoveEffect, SizeChange DEF PendingPcs, Card
    <3>3. Len(taken') = Len(taken) + 1
      BY <1>1, <2>5 DEF CRead, TypeOK
    <3>4. \A d \in Consumers : /\ pc'[d] = "store" => pc[d] = "store"
                               /\ pc'[d] = "done" => pc[d] = "done"
      BY <1>1, <2>1, <3>1, MoveEffect, ThreadKinds
    <3>5. cflag' = cflag /\ seen' = seen
      BY <2>5 DEF CRead
    <3> QED
      <4>1. CountInv'
        BY <1>1, <1>2, <3>2, <3>3, <3>4, <3>5 DEF CountInv, QuitsOnlyAfterCNUM, Card
      <4>2. CounterStep
        BY <1>1, <1>2, <3>2, <3>3, <3>5 DEF CountInv, CounterStep, Counted, Card
      <4> QED
        BY <4>1, <4>2
  <2>6. CASE CAdvance(c)
    BY <1>3, <2>1, <2>6 DEF CAdvance, hist, PendingPcs
  <2>7. CASE UpMutex(c)
    BY <1>3, <2>1, <2>7 DEF UpMutex, hist, PendingPcs
  <2>8. CASE CUpS1(c)
    BY <1>3, <2>1, <2>8 DEF CUpS1, hist, PendingPcs
  <2>9. CASE CLoad(c)
    <3>1. Move(c, "count", "store") /\ c \in Uncounted
      BY <2>9 DEF CLoad, Move, Uncounted
    <3>2. Uncounted' = Uncounted
      <4>1. Uncounted' = Uncounted \cup {c}
        BY <1>1, <2>1, <3>1, MoveEffect DEF PendingPcs
      <4> QED
        BY <3>1, <4>1
    <3>3. \A d \in Consumers : /\ d # c => (pc'[d] = pc[d] /\ seen'[d] = seen[d])
                               /\ d = c => (pc'[d] # "done" /\ seen'[d] = cflag)
      BY <1>1, <2>1, <2>9, <3>1, MoveEffect, ThreadKinds DEF CLoad, TypeOK
    <3>4. cflag' = cflag /\ taken' = taken
      BY <2>9 DEF CLoad, hist
    <3> QED
      BY <1>1, <3>2, <3>3, <3>4 DEF CountInv, QuitsOnlyAfterCNUM, CounterStep, Counted
  <2>10. CASE CStore(c)
    <3>1. Move(c, "store", "idle") /\ c \in Uncounted
      BY <2>10 DEF CStore, Move, Uncounted
    <3>2. Cardinality(Uncounted') = Card - 1 /\ Card > 0
      <4>1. Uncounted' = Uncounted \ {c}
        BY <1>1, <2>1, <3>1, MoveEffect DEF PendingPcs
      <4> QED
        BY <1>2, <2>1, <3>1, <4>1, SizeChange DEF Card
    <3>3. cflag' = seen[c] + 1 /\ seen' = seen /\ taken' = taken
      BY <2>10 DEF CStore, hist
    <3>4. \A d \in Consumers : /\ pc'[d] = "store" => pc[d] = "store"
                               /\ pc'[d] = "done" => pc[d] = "done"
      BY <1>1, <2>1, <3>1, MoveEffect, ThreadKinds
    <3>5. pc[c] = "store"
      BY <3>1 DEF Move
    <3> QED
      <4>1. CountInv'
        BY <1>1, <1>2, <3>2, <3>3, <3>4, <3>5 DEF CountInv, QuitsOnlyAfterCNUM, Card
      <4>2. CounterStep
        BY <1>1, <1>2, <3>2, <3>3, <3>5 DEF CountInv, CounterStep, Counted, Card
      <4> QED
        BY <4>1, <4>2
  <2> QED
    BY <1>5, <2>2, <2>3, <2>4, <2>5, <2>6, <2>7, <2>8, <2>9, <2>10 DEF ConsumerStep
<1>6. CASE UNCHANGED vars
  <2>1. Uncounted' = Uncounted
    BY <1>6 DEF vars, Uncounted
  <2> QED
    BY <1>1, <1>6, <2>1 DEF vars, hist, CountInv, QuitsOnlyAfterCNUM, CounterStep, Counted
<1> QED
  BY <1>4, <1>5, <1>6 DEF Next
---------------------------------------------------------------------------
(* The invariant holds in every state, for every N, PNUM, CNUM, BUF_NUM.   *)
THEOREM Invariance == Spec => []IInv
<1>1. Init => IInv
  BY InitIInv
<1>2. IInv /\ [Next]_vars => IInv'
  BY TypeStep, MutexStep, PermitsStep, RoundStep, CountStep DEF IInv
<1> QED
  BY <1>1, <1>2, PTL DEF Spec

(* np-nc.c: every variable keeps its type; the counts of the semaphores    *)
(* stay between 0 and BUF_NUM, the indices inside the ring.                *)
THEOREM TypeCorrect == Spec => []TypeOK
<1>1. IInv => TypeOK
  BY DEF IInv
<1> QED
  BY <1>1, Invariance, PTL

(* np-nc.c:27-31,50-54: the critical sections exclude each other.          *)
THEOREM MutexCorrect == Spec => []MutualExclusion
<1>1. IInv => MutualExclusion
  BY DEF IInv, MutexInv
<1> QED
  BY <1>1, Invariance, PTL

(* np-nc.c:26,32,49,55: no semaphore permit is created or lost.            *)
THEOREM PermitsCorrect == Spec => []PermitsConserved
<1>1. IInv => PermitsConserved
  BY DEF IInv
<1> QED
  BY <1>1, Invariance, PTL

(* np-nc.c:43,56: however many updates of cflag are lost, no consumer      *)
(* leaves before CNUM goods were taken.                                    *)
THEOREM CounterCorrect == Spec => []QuitsOnlyAfterCNUM
<1>1. IInv => QuitsOnlyAfterCNUM
  BY DEF IInv, CountInv
<1> QED
  BY <1>1, Invariance, PTL

(* np-nc.c:56: cflag is a lossy counter of the goods taken and counted.    *)
THEOREM CflagCorrect == Spec => CflagSpec
<1>1. Init => Lossy!Init
  <2> SUFFICES ASSUME Init PROVE Lossy!Init
    OBVIOUS
  <2>1. Uncounted = {}
    BY ThreadKinds DEF Init, Uncounted
  <2>2. cflag = 0 /\ Len(taken) - Cardinality(Uncounted) = 0
    BY <2>1, FS_EmptySet DEF Init
  <2> QED
    BY <2>2 DEF Lossy!Init, Lossy!Zero
<1>2. IInv /\ [Next]_vars =>
        [Lossy!Next]_<<[c \in {"cflag"} |-> cflag],
                       [c \in {"cflag"} |-> Len(taken) - Cardinality(Uncounted)]>>
  <2> SUFFICES ASSUME IInv, [Next]_vars
               PROVE  \/ Lossy!Next
                      \/ UNCHANGED <<cflag, Counted>>
    BY DEF Counted
  <2>1. CounterStep
    BY CountStep
  <2>2. ASSUME NEW d \in Consumers, cflag' = seen[d] + 1, seen[d] <= Counted,
               Counted' = Counted + 1
        PROVE  Lossy!Next
    <3>1. seen[d] \in Nat /\ Counted \in Int
      <4>1. Uncounted \in SUBSET Threads /\ Len(taken) \in Nat
        BY ThreadKinds DEF Uncounted, IInv, TypeOK
      <4> QED
        BY <4>1, FiniteThreads DEF Counted, IInv, TypeOK
    <3>2. cflag' \in 1..(Counted + 1)
      BY <2>2, <3>1
    <3> QED
      BY <2>2, <3>2 DEF Lossy!Next, Lossy!Increment, Counted
  <2> QED
    BY <2>1, <2>2 DEF CounterStep
<1> QED
  BY <1>1, <1>2, Invariance, PTL DEF Spec, CflagSpec, Lossy!Spec
---------------------------------------------------------------------------
(* The ring as a queue: np-nc.c:26-33,49-55.                               *)

(* Threads between their access to the ring and the up() that tells the    *)
(* other kind, or between the down() and the access: those by which the    *)
(* goods in the ring differ from s2.                                       *)
StoredPcs == {"advance", "unlock", "signal"}
TakingPcs == {"lock", "access"}
InTransit == {t \in Threads : \/ t \in Producers /\ pc[t] \in StoredPcs
                              \/ t \in Consumers /\ pc[t] \in TakingPcs}
BacklogInv == Len(made) - Len(taken) = s2 + Cardinality(InTransit)

(* The indices count the accesses modulo BUF_NUM, one late while a thread  *)
(* has yet to advance its own.                                             *)
IndexInv ==
    /\ (\A p \in Producers : pc[p] # "advance") => in = Len(made) % BUF_NUM
    /\ \A p \in Producers : pc[p] = "advance" => in = (Len(made) - 1) % BUF_NUM
    /\ (\A c \in Consumers : pc[c] # "advance") => out = Len(taken) % BUF_NUM
    /\ \A c \in Consumers : pc[c] = "advance" => out = (Len(taken) - 1) % BUF_NUM

(* Each good that waits is in its slot.                                    *)
SlotInv == \A i \in (Len(taken) + 1)..Len(made) : buf[(i - 1) % BUF_NUM] = made[i]

(* A producer has made the goods its p_num says.                           *)
GoodsOf(i) == {j \in 1..Len(made) : \E k \in 1..PNUM : made[j] = Good(i, k)}
MadeInv ==
    \A p \in Producers :
        Cardinality(GoodsOf(p[2])) = PNUM - p_num[p] + (IF pc[p] \in StoredPcs THEN 1 ELSE 0)

FInv == IInv /\ BacklogInv /\ IndexInv /\ SlotInv /\ MadeInv

LEMMA RingTypes ==
    ASSUME TypeOK
    PROVE  /\ made \in Seq(Goods) /\ taken \in Seq(Goods \cup {NoGood})
           /\ Len(made) \in Nat /\ Len(taken) \in Nat
           /\ BUF_NUM \in Nat /\ BUF_NUM > 0
           /\ buf \in [0..(BUF_NUM - 1) -> Goods \cup {NoGood}]
           /\ s2 \in Nat /\ s1 \in Nat
BY NpNcAssumption DEF TypeOK, Slots

LEMMA TransitEffect ==
    ASSUME TypeOK, NEW t \in Threads, NEW from, NEW to, Move(t, from, to)
    PROVE  /\ InTransit \in SUBSET Threads /\ Cardinality(InTransit) \in Nat
           /\ t \in InTransit <=> \/ t \in Producers /\ from \in StoredPcs
                                  \/ t \in Consumers /\ from \in TakingPcs
           /\ (t \in Producers /\ to \in StoredPcs) \/ (t \in Consumers /\ to \in TakingPcs)
                => InTransit' = InTransit \cup {t}
           /\ ~((t \in Producers /\ to \in StoredPcs) \/ (t \in Consumers /\ to \in TakingPcs))
                => InTransit' = InTransit \ {t}
<1>1. pc[t] = from /\ pc'[t] = to /\ \A u \in Threads : u # t => pc'[u] = pc[u]
  BY MoveEffect
<1>2. InTransit \in SUBSET Threads
  BY DEF InTransit
<1>3. Cardinality(InTransit) \in Nat
  BY <1>2, FiniteThreads
<1> QED
  BY <1>1, <1>2, <1>3 DEF InTransit

(* Goods of two producers differ as long as no round gets past 100.        *)
LEMMA GoodsDistinct ==
    ASSUME PNUM <= 100, NEW i \in 1..N, NEW j \in 1..N, i # j, NEW k \in 1..PNUM, NEW l \in 1..PNUM
    PROVE  Good(i, k) # Good(j, l)
BY NpNcAssumption DEF Good

LEMMA FiniteGoods ==
    ASSUME Len(made) \in Nat, NEW i
    PROVE  IsFiniteSet(GoodsOf(i)) /\ Cardinality(GoodsOf(i)) \in Nat
<1>1. IsFiniteSet(1..Len(made))
  BY FS_Interval
<1>2. GoodsOf(i) \subseteq 1..Len(made)
  BY DEF GoodsOf
<1> QED
  BY <1>1, <1>2, FS_Subset, FS_CardinalityType

LEMMA InitFInv == Init => FInv
<1> SUFFICES ASSUME Init PROVE FInv
  OBVIOUS
<1>1. IInv
  BY InitIInv
<1>2. \A t \in Threads : pc[t] \in {"failed", "idle"}
  BY DEF Init
<1>3. /\ Len(made) = 0 /\ Len(taken) = 0 /\ s2 = 0 /\ in = 0 /\ out = 0
      /\ \A p \in Producers : p_num[p] = PNUM
  BY DEF Init
<1>4. InTransit = {}
  BY <1>2 DEF InTransit, StoredPcs, TakingPcs
<1>5. BacklogInv
  BY <1>3, <1>4, FS_EmptySet DEF BacklogInv
<1>6. IndexInv /\ SlotInv
  BY <1>2, <1>3, ThreadKinds, NpNcAssumption DEF IndexInv, SlotInv
<1>7. \A i : GoodsOf(i) = {}
  BY <1>3 DEF GoodsOf
<1>8. MadeInv
  <2> SUFFICES ASSUME NEW p \in Producers
               PROVE  Cardinality(GoodsOf(p[2]))
                        = PNUM - p_num[p] + (IF pc[p] \in StoredPcs THEN 1 ELSE 0)
    BY DEF MadeInv
  <2>1. pc[p] \notin StoredPcs /\ p_num[p] = PNUM
    BY <1>2, <1>3, ThreadKinds DEF StoredPcs
  <2>2. Cardinality(GoodsOf(p[2])) = 0
    BY <1>7, FS_EmptySet
  <2> QED
    BY <2>1, <2>2, NpNcAssumption
<1> QED
  BY <1>1, <1>5, <1>6, <1>8 DEF FInv
---------------------------------------------------------------------------
(* A step that leaves the ring and its accounts alone.                     *)
LEMMA AsideStep ==
    ASSUME FInv, IInv', NEW t \in Threads, NEW from, NEW to, Move(t, from, to),
           from # "advance", to # "advance",
           t \in Producers => (from \in StoredPcs <=> to \in StoredPcs),
           t \in Consumers => (from \in TakingPcs <=> to \in TakingPcs),
           UNCHANGED <<s2, ring, p_num, hist>>
    PROVE  FInv'
<1>1. TypeOK
  BY DEF FInv, IInv
<1>2. /\ pc[t] = from /\ pc'[t] = to /\ \A u \in Threads : u # t => pc'[u] = pc[u]
      /\ UNCHANGED <<s2, buf, in, out, p_num, made, taken>>
  BY <1>1, MoveEffect DEF ring, hist
<1>3. InTransit' = InTransit
  BY <1>1, TransitEffect
<1>4. BacklogInv'
  BY <1>2, <1>3 DEF FInv, BacklogInv
<1>5. \A u \in Threads : pc'[u] = "advance" <=> pc[u] = "advance"
  BY <1>2
<1>6. IndexInv'
  BY <1>2, <1>5, ThreadKinds DEF FInv, IndexInv
<1>7. SlotInv'
  BY <1>2 DEF FInv, SlotInv
<1>8. \A p \in Producers : GoodsOf(p[2])' = GoodsOf(p[2])
  BY <1>2 DEF GoodsOf
<1>9. \A p \in Producers : pc'[p] \in StoredPcs <=> pc[p] \in StoredPcs
  BY <1>2, ThreadKinds
<1>10. MadeInv'
  BY <1>2, <1>8, <1>9 DEF FInv, MadeInv
<1> QED
  BY <1>4, <1>6, <1>7, <1>10 DEF FInv
---------------------------------------------------------------------------
(* Inside the critical section a thread has the indices to itself.         *)
LEMMA Alone ==
    ASSUME IInv, NEW t \in Threads, pc[t] \in {"access", "advance", "unlock"}
    PROVE  \A u \in Threads : u # t => pc[u] \notin {"access", "advance", "unlock"}
BY DEF IInv, MutexInv, MutualExclusion, Inside

(* The semaphores leave room for the good that is being stored.            *)
LEMMA Room ==
    ASSUME FInv, NEW p \in Producers, pc[p] = "access"
    PROVE  Len(made) - Len(taken) < BUF_NUM
<1>1. TypeOK /\ PermitsConserved /\ p \in Threads /\ p \notin Consumers
  BY ThreadKinds DEF FInv, IInv
<1>2. InTransit \cup {p} \subseteq Holders /\ p \notin InTransit
  BY <1>1 DEF InTransit, Holders, StoredPcs, TakingPcs
<1>3. /\ Holders \in SUBSET Threads /\ InTransit \in SUBSET Threads
      /\ InTransit \cup {p} \in SUBSET Threads
  BY <1>1 DEF Holders, InTransit
<1>4. Cardinality(InTransit \cup {p}) = Cardinality(InTransit) + 1
  BY <1>1, <1>2, <1>3, SizeChange
<1>5. Cardinality(InTransit \cup {p}) <= Cardinality(Holders)
  BY <1>2, <1>3, FiniteThreads, FS_Subset
<1>6. /\ Cardinality(InTransit) \in Nat /\ Cardinality(Holders) \in Nat
      /\ s1 \in Nat /\ s2 \in Nat /\ BUF_NUM \in Nat
  BY <1>1, <1>3, FiniteThreads, RingTypes
<1> QED
  BY <1>1, <1>4, <1>5, <1>6 DEF FInv, BacklogInv, PermitsConserved

LEMMA StoreStep ==
    ASSUME PNUM <= 100, FInv, IInv', NEW p \in Producers, PStore(p)
    PROVE  FInv' /\ Fifo!Put(p[2])
<1> DEFINE good == Good(p[2], PNUM - p_num[p] + 1)
<1>1. /\ IInv /\ TypeOK /\ p \in Threads /\ p \notin Consumers /\ p[2] \in 1..N
      /\ Move(p, "access", "advance")
  BY ThreadKinds DEF FInv, IInv, PStore
<1>2. /\ pc[p] = "access" /\ pc'[p] = "advance" /\ \A u \in Threads : u # p => pc'[u] = pc[u]
  BY <1>1, MoveEffect
<1>3. /\ buf' = [buf EXCEPT ![in] = good] /\ made' = Append(made, good)
      /\ UNCHANGED <<s2, in, out, p_num, taken>>
  BY DEF PStore, sems
<1>4. /\ made \in Seq(Goods) /\ Len(made) \in Nat /\ Len(taken) \in Nat
      /\ BUF_NUM \in Nat /\ BUF_NUM > 0 /\ s2 \in Nat
      /\ buf \in [0..(BUF_NUM - 1) -> Goods \cup {NoGood}]
  BY <1>1, RingTypes
<1>5. p_num[p] \in 1..PNUM /\ PNUM - p_num[p] + 1 \in 1..PNUM
  BY <1>1, <1>2, NpNcAssumption DEF IInv, RoundInv, TypeOK
<1>6. good \in Goods
  BY <1>1, <1>5 DEF Goods
<1> HIDE DEF good
<1>7. /\ Len(made') = Len(made) + 1 /\ made'[Len(made) + 1] = good
      /\ \A i \in 1..Len(made) : made'[i] = made[i]
  BY <1>3, <1>4, <1>6
<1>8. Len(made) - Len(taken) < BUF_NUM
  BY <1>2, Room
<1>9. \A u \in Threads : u # p => pc[u] # "advance" /\ pc'[u] # "advance"
  BY <1>1, <1>2, Alone
<1>10. in = Len(made) % BUF_NUM /\ in \in 0..(BUF_NUM - 1)
  <2>1. \A q \in Producers : pc[q] # "advance"
    BY <1>2, <1>9, ThreadKinds
  <2> QED
    BY <1>1, <2>1 DEF FInv, IndexInv, TypeOK, Slots
<1>11. BacklogInv'
  <2>1. p \notin InTransit /\ InTransit' = InTransit \cup {p}
    BY <1>1, TransitEffect DEF StoredPcs, TakingPcs
  <2>2. InTransit \in SUBSET Threads /\ Cardinality(InTransit) \in Nat
    BY <1>1, TransitEffect
  <2>3. Cardinality(InTransit') = Cardinality(InTransit) + 1
    BY <1>1, <2>1, <2>2, SizeChange
  <2> QED
    BY <1>3, <1>4, <1>7, <2>2, <2>3 DEF FInv, BacklogInv
<1>12. IndexInv'
  <2>1. \A q \in Producers : pc'[q] = "advance" => q = p
    BY <1>9, ThreadKinds
  <2>2. \A c \in Consumers : pc[c] # "advance" /\ pc'[c] # "advance"
    BY <1>1, <1>9, ThreadKinds
  <2>3. Len(made') - 1 = Len(made)
    BY <1>4, <1>7
  <2> QED
    BY <1>2, <1>3, <1>10, <2>1, <2>2, <2>3 DEF FInv, IndexInv
<1>13. SlotInv'
  <2> SUFFICES ASSUME NEW i \in (Len(taken) + 1)..(Len(made) + 1)
               PROVE  buf'[(i - 1) % BUF_NUM] = made'[i]
    BY <1>3, <1>7 DEF SlotInv
  <2>1. CASE i = Len(made) + 1
    BY <1>3, <1>4, <1>7, <1>10, <2>1
  <2>2. CASE i # Len(made) + 1
    <3>1. i \in (Len(taken) + 1)..Len(made) /\ i \in 1..Len(made) /\ i - 1 \in Int
      BY <1>4, <2>2
    <3>2. i - 1 < Len(made) /\ Len(made) < (i - 1) + BUF_NUM
      BY <1>4, <1>8, <3>1
    <3>3. (i - 1) % BUF_NUM # in
      BY <1>4, <1>10, <3>1, <3>2, ModDistinct
    <3>4. buf[(i - 1) % BUF_NUM] = made[i]
      BY <3>1 DEF FInv, SlotInv
    <3>5. (i - 1) % BUF_NUM \in 0..(BUF_NUM - 1)
      BY <1>4, <3>1
    <3>6. buf'[(i - 1) % BUF_NUM] = buf[(i - 1) % BUF_NUM]
      BY <1>3, <1>4, <3>3, <3>5
    <3> QED
      BY <1>7, <3>1, <3>4, <3>6
  <2> QED
    BY <2>1, <2>2
<1>14. GoodsOf(p[2])' = GoodsOf(p[2]) \cup {Len(made) + 1} /\ Len(made) + 1 \notin GoodsOf(p[2])
  <2>1. Len(made) + 1 \in GoodsOf(p[2])'
    BY <1>4, <1>5, <1>7 DEF GoodsOf, good
  <2>2. \A j \in 1..Len(made) : j \in GoodsOf(p[2])' <=> j \in GoodsOf(p[2])
    BY <1>4, <1>7 DEF GoodsOf
  <2>3. \A j \in GoodsOf(p[2])' : j \in 1..Len(made) \/ j = Len(made) + 1
    BY <1>4, <1>7 DEF GoodsOf
  <2>4. GoodsOf(p[2]) \subseteq 1..Len(made)
    BY DEF GoodsOf
  <2> QED
    BY <1>4, <2>1, <2>2, <2>3, <2>4
<1>15. \A q \in Producers : q # p => GoodsOf(q[2])' = GoodsOf(q[2])
  <2> SUFFICES ASSUME NEW q \in Producers, q # p PROVE GoodsOf(q[2])' = GoodsOf(q[2])
    OBVIOUS
  <2>1. q[2] \in 1..N /\ q[2] # p[2]
    BY DEF Producers
  <2>2. Len(made) + 1 \notin GoodsOf(q[2])'
    BY <1>1, <1>5, <1>7, <2>1, GoodsDistinct DEF GoodsOf, good
  <2>3. \A j \in 1..Len(made) : j \in GoodsOf(q[2])' <=> j \in GoodsOf(q[2])
    BY <1>4, <1>7 DEF GoodsOf
  <2>4. \A j \in GoodsOf(q[2])' : j \in 1..Len(made) \/ j = Len(made) + 1
    BY <1>4, <1>7 DEF GoodsOf
  <2>5. GoodsOf(q[2]) \subseteq 1..Len(made)
    BY DEF GoodsOf
  <2> QED
    BY <2>2, <2>3, <2>4, <2>5
<1>16. /\ Cardinality(GoodsOf(p[2])) = PNUM - p_num[p]
       /\ Cardinality(GoodsOf(p[2])') = PNUM - p_num[p] + 1
  <2>1. Cardinality(GoodsOf(p[2])) = PNUM - p_num[p]
    BY <1>2, <1>5, NpNcAssumption DEF FInv, MadeInv, StoredPcs
  <2>2. Cardinality(GoodsOf(p[2])') = Cardinality(GoodsOf(p[2])) + 1
    BY <1>4, <1>14, FiniteGoods, FS_AddElement
  <2> QED
    BY <2>1, <2>2
<1>17. MadeInv'
  <2> SUFFICES ASSUME NEW q \in Producers
               PROVE  Cardinality(GoodsOf(q[2])')
                        = PNUM - p_num'[q] + (IF pc'[q] \in StoredPcs THEN 1 ELSE 0)
    BY DEF MadeInv, GoodsOf
  <2>1. CASE q = p
    BY <1>2, <1>3, <1>16, <2>1 DEF StoredPcs
  <2>2. CASE q # p
    BY <1>2, <1>3, <1>15, <2>2, ThreadKinds DEF FInv, MadeInv
  <2> QED
    BY <2>1, <2>2
<1>18. Fifo!Put(p[2])
  <2>1. Fifo!MadeBy(p[2]) = Cardinality(GoodsOf(p[2]))
    <3>1. DOMAIN made = 1..Len(made)
      BY <1>4
    <3>2. GoodsOf(p[2]) = {j \in DOMAIN made : \E k \in 1..PNUM : made[j] = Fifo!Good(p[2], k)}
      BY <3>1 DEF GoodsOf, Fifo!Good, Good
    <3>3. Fifo!MadeBy(p[2])
            = Cardinality({j \in DOMAIN made : \E k \in 1..PNUM : made[j] = Fifo!Good(p[2], k)})
      BY Zenon DEF Fifo!MadeBy, Fifo!Cardinality, Cardinality
    <3> QED
      BY <3>2, <3>3, Zenon
  <2>2. Fifo!MadeBy(p[2]) < PNUM /\ Good(p[2], Fifo!MadeBy(p[2]) + 1) = good
    BY <1>5, <1>16, <2>1, NpNcAssumption DEF good
  <2> QED
    BY <1>3, <1>8, <2>2 DEF Fifo!Put, Fifo!Good, Good
<1> QED
  BY <1>11, <1>12, <1>13, <1>17, <1>18 DEF FInv

LEMMA ReadStep ==
    ASSUME FInv, IInv', NEW c \in Consumers, CRead(c)
    PROVE  FInv' /\ Fifo!Take
<1>1. /\ IInv /\ TypeOK /\ c \in Threads /\ c \notin Producers
      /\ Move(c, "access", "advance")
  BY ThreadKinds DEF FInv, IInv, CRead
<1>2. /\ pc[c] = "access" /\ pc'[c] = "advance" /\ \A u \in Threads : u # c => pc'[u] = pc[u]
  BY <1>1, MoveEffect
<1>3. taken' = Append(taken, buf[out]) /\ UNCHANGED <<s2, buf, in, out, p_num, made>>
  BY DEF CRead, sems, ring
<1>4. /\ taken \in Seq(Goods \cup {NoGood}) /\ Len(made) \in Nat /\ Len(taken) \in Nat
      /\ BUF_NUM \in Nat /\ s2 \in Nat
  BY <1>1, RingTypes
<1>5. Len(taken') = Len(taken) + 1
  BY <1>3, <1>4
<1>6. c \in InTransit /\ InTransit' = InTransit \ {c}
  BY <1>1, TransitEffect DEF StoredPcs, TakingPcs
<1>7. InTransit \in SUBSET Threads /\ Cardinality(InTransit) \in Nat
  BY <1>1, TransitEffect
<1>8. Cardinality(InTransit') = Cardinality(InTransit) - 1 /\ Cardinality(InTransit) > 0
  BY <1>1, <1>6, <1>7, SizeChange
<1>9. BacklogInv' /\ Len(taken) < Len(made)
  <2>1. Len(made) - Len(taken) = s2 + Cardinality(InTransit)
    BY DEF FInv, BacklogInv
  <2>2. Len(made) - (Len(taken) + 1) = s2 + (Cardinality(InTransit) - 1)
    BY <1>4, <1>7, <2>1
  <2>3. Len(made') = Len(made) /\ s2' = s2
    BY <1>3
  <2>4. BacklogInv'
    BY <1>5, <1>8, <2>2, <2>3 DEF BacklogInv
  <2>5. Len(taken) < Len(made)
    BY <1>4, <1>7, <1>8, <2>1
  <2> QED
    BY <2>4, <2>5
<1>10. \A u \in Threads : u # c => pc[u] # "advance" /\ pc'[u] # "advance"
  BY <1>1, <1>2, Alone
<1>11. out = Len(taken) % BUF_NUM
  <2>1. \A d \in Consumers : pc[d] # "advance"
    BY <1>2, <1>10, ThreadKinds
  <2> QED
    BY <2>1 DEF FInv, IndexInv
<1>12. IndexInv'
  <2>1. \A d \in Consumers : pc'[d] = "advance" => d = c
    BY <1>10, ThreadKinds
  <2>2. \A p \in Producers : pc[p] # "advance" /\ pc'[p] # "advance"
    BY <1>1, <1>10, ThreadKinds
  <2>3. Len(taken') - 1 = Len(taken)
    BY <1>4, <1>5
  <2> QED
    BY <1>2, <1>3, <1>11, <2>1, <2>2, <2>3 DEF FInv, IndexInv
<1>13. SlotInv'
  BY <1>3, <1>4, <1>5 DEF FInv, SlotInv
<1>14. MadeInv'
  <2>1. \A p \in Producers : GoodsOf(p[2])' = GoodsOf(p[2]) /\ pc'[p] = pc[p]
    BY <1>1, <1>2, <1>3, ThreadKinds DEF GoodsOf
  <2> QED
    BY <1>3, <2>1 DEF FInv, MadeInv
<1>15. buf[out] = made[Len(taken) + 1]
  <2>1. Len(taken) + 1 \in (Len(taken) + 1)..Len(made) /\ (Len(taken) + 1) - 1 = Len(taken)
    BY <1>4, <1>9
  <2> QED
    BY <1>11, <2>1 DEF FInv, SlotInv
<1>16. Fifo!Take
  BY <1>3, <1>9, <1>15 DEF Fifo!Take
<1> QED
  BY <1>9, <1>12, <1>13, <1>14, <1>16 DEF FInv

(* The steps that advance an index or use s2.                              *)
LEMMA AdvanceStep ==
    ASSUME FInv, IInv', NEW t \in Threads, Move(t, "advance", "unlock"),
           \/ t \in Producers /\ in' = Advanced(in) /\ out' = out
           \/ t \in Consumers /\ out' = Advanced(out) /\ in' = in,
           UNCHANGED <<s2, buf, p_num, made, taken>>
    PROVE  FInv'
<1>1. /\ IInv /\ TypeOK /\ BUF_NUM \in Nat /\ BUF_NUM > 0
      /\ Len(made) \in Nat /\ Len(taken) \in Nat
  BY RingTypes DEF FInv, IInv
<1>2. pc[t] = "advance" /\ pc'[t] = "unlock" /\ \A u \in Threads : u # t => pc'[u] = pc[u]
  BY <1>1, MoveEffect
<1>3. InTransit' = InTransit
  <2>1. CASE t \in Producers
    <3>1. t \in InTransit /\ InTransit' = InTransit \cup {t}
      BY <1>1, <2>1, TransitEffect DEF StoredPcs
    <3> QED
      BY <3>1
  <2>2. CASE t \notin Producers
    <3>1. t \notin InTransit /\ InTransit' = InTransit \ {t}
      BY <1>1, <2>2, TransitEffect DEF TakingPcs
    <3> QED
      BY <3>1
  <2> QED
    BY <2>1, <2>2
<1>4. BacklogInv' /\ SlotInv'
  BY <1>3 DEF FInv, BacklogInv, SlotInv
<1>5. \A u \in Threads : pc'[u] # "advance" /\ (u # t => pc[u] # "advance")
  BY <1>1, <1>2, Alone
<1>6. ASSUME NEW n \in Nat PROVE Advanced((n - 1) % BUF_NUM) = n % BUF_NUM
  <2>1. n - 1 \in Int /\ (n - 1) + 1 = n
    OBVIOUS
  <2> QED
    BY <1>1, <2>1, ModSucc DEF Advanced
<1>7. IndexInv'
  <2>1. CASE t \in Producers
    <3>1. in' = Len(made) % BUF_NUM /\ out' = out
      BY <1>1, <1>2, <1>6, <2>1, ThreadKinds DEF FInv, IndexInv
    <3>2. \A c \in Consumers : pc[c] # "advance"
      BY <1>5, <2>1, ThreadKinds
    <3> QED
      BY <1>5, <3>1, <3>2, ThreadKinds DEF FInv, IndexInv
  <2>2. CASE t \in Consumers
    <3>1. out' = Len(taken) % BUF_NUM /\ in' = in
      BY <1>1, <1>2, <1>6, <2>2, ThreadKinds DEF FInv, IndexInv
    <3>2. \A p \in Producers : pc[p] # "advance"
      BY <1>5, <2>2, ThreadKinds
    <3> QED
      BY <1>5, <3>1, <3>2, ThreadKinds DEF FInv, IndexInv
  <2> QED
    BY <2>1, <2>2
<1>8. MadeInv'
  <2>1. \A p \in Producers : /\ GoodsOf(p[2])' = GoodsOf(p[2])
                             /\ pc'[p] \in StoredPcs <=> pc[p] \in StoredPcs
    BY <1>2, ThreadKinds DEF GoodsOf, StoredPcs
  <2> QED
    BY <2>1 DEF FInv, MadeInv
<1> QED
  BY <1>4, <1>7, <1>8 DEF FInv

LEMMA UpS2Step ==
    ASSUME FInv, IInv', NEW p \in Producers, PUpS2(p)
    PROVE  FInv'
<1>1. /\ TypeOK /\ p \in Threads /\ p \notin Consumers /\ Move(p, "signal", "idle")
      /\ s2 \in Nat /\ s2' = s2 + 1 /\ p_num' = [p_num EXCEPT ![p] = @ - 1]
      /\ UNCHANGED <<buf, in, out, made, taken>>
  BY ThreadKinds, RingTypes DEF FInv, IInv, PUpS2, ring, hist
<1>2. pc[p] = "signal" /\ pc'[p] = "idle" /\ \A u \in Threads : u # p => pc'[u] = pc[u]
  BY <1>1, MoveEffect
<1>3. p \in InTransit /\ InTransit' = InTransit \ {p}
  BY <1>1, TransitEffect DEF StoredPcs
<1>4. InTransit \in SUBSET Threads /\ Cardinality(InTransit) \in Nat
  BY <1>1, TransitEffect
<1>5. Cardinality(InTransit') = Cardinality(InTransit) - 1
  BY <1>1, <1>3, <1>4, SizeChange
<1>6. BacklogInv'
  BY <1>1, <1>4, <1>5 DEF FInv, BacklogInv
<1>7. IndexInv' /\ SlotInv'
  BY <1>1, <1>2, ThreadKinds DEF FInv, IndexInv, SlotInv
<1>8. MadeInv'
  <2> SUFFICES ASSUME NEW q \in Producers
               PROVE  Cardinality(GoodsOf(q[2]))
                        = PNUM - p_num'[q] + (IF pc'[q] \in StoredPcs THEN 1 ELSE 0)
    BY <1>1 DEF MadeInv, GoodsOf
  <2>1. CASE q = p
    <3>1. Cardinality(GoodsOf(p[2])) = PNUM - p_num[p] + 1
      BY <1>2 DEF FInv, MadeInv, StoredPcs
    <3>2. p_num'[p] = p_num[p] - 1 /\ p_num[p] \in Int
      BY <1>1, NpNcAssumption DEF TypeOK
    <3> QED
      BY <1>2, <2>1, <3>1, <3>2, NpNcAssumption DEF StoredPcs
  <2>2. CASE q # p
    BY <1>1, <1>2, <2>2, ThreadKinds DEF FInv, MadeInv, TypeOK
  <2> QED
    BY <2>1, <2>2
<1> QED
  BY <1>6, <1>7, <1>8 DEF FInv

LEMMA DownS2Step ==
    ASSUME FInv, IInv', NEW c \in Consumers, CDownS2(c)
    PROVE  FInv'
<1>1. /\ TypeOK /\ c \in Threads /\ c \notin Producers /\ Move(c, "wait", "lock")
      /\ s2 \in Nat /\ s2' = s2 - 1
      /\ UNCHANGED <<buf, in, out, p_num, made, taken>>
  BY ThreadKinds, RingTypes DEF FInv, IInv, CDownS2, ring, hist
<1>2. pc[c] = "wait" /\ pc'[c] = "lock" /\ \A u \in Threads : u # c => pc'[u] = pc[u]
  BY <1>1, MoveEffect
<1>3. c \notin InTransit /\ InTransit' = InTransit \cup {c}
  BY <1>1, TransitEffect DEF TakingPcs
<1>4. InTransit \in SUBSET Threads /\ Cardinality(InTransit) \in Nat
  BY <1>1, TransitEffect
<1>5. Cardinality(InTransit') = Cardinality(InTransit) + 1
  BY <1>1, <1>3, <1>4, SizeChange
<1>6. BacklogInv'
  BY <1>1, <1>4, <1>5 DEF FInv, BacklogInv
<1>7. IndexInv' /\ SlotInv'
  BY <1>1, <1>2, ThreadKinds DEF FInv, IndexInv, SlotInv
<1>8. MadeInv'
  <2>1. \A p \in Producers : GoodsOf(p[2])' = GoodsOf(p[2]) /\ pc'[p] = pc[p]
    BY <1>1, <1>2, ThreadKinds DEF GoodsOf
  <2> QED
    BY <1>1, <2>1 DEF FInv, MadeInv
<1> QED
  BY <1>6, <1>7, <1>8 DEF FInv
---------------------------------------------------------------------------
(* Every step keeps the account of the ring and is a step of the queue.    *)
LEMMA NextFInv ==
    ASSUME PNUM <= 100, FInv, [Next]_vars
    PROVE  FInv' /\ [Fifo!Next]_<<made, taken>>
<1>1. IInv /\ IInv'
  BY TypeStep, MutexStep, PermitsStep, RoundStep, CountStep DEF FInv, IInv
<1> USE DEF StoredPcs, TakingPcs
<1>2. ASSUME NEW p \in Producers, ProducerStep(p)
      PROVE  FInv' /\ [Fifo!Next]_<<made, taken>>
  <2>1. p \in Threads /\ p \notin Consumers /\ p[2] \in 1..N
    BY ThreadKinds
  <2>2. CASE PDownS1(p)
    BY <1>1, <2>1, <2>2, AsideStep DEF PDownS1, hist
  <2>3. CASE PFinish(p)
    BY <1>1, <2>1, <2>3, AsideStep DEF PFinish, sems, hist
  <2>4. CASE DownMutex(p)
    BY <1>1, <2>1, <2>4, AsideStep DEF DownMutex, hist
  <2>5. CASE PStore(p)
    BY <1>1, <2>1, <2>5, StoreStep DEF Fifo!Next
  <2>6. CASE PAdvance(p)
    BY <1>1, <2>1, <2>6, AdvanceStep DEF PAdvance, sems, hist
  <2>7. CASE UpMutex(p)
    BY <1>1, <2>1, <2>7, AsideStep DEF UpMutex, hist
  <2>8. CASE PUpS2(p)
    BY <1>1, <2>8, UpS2Step DEF PUpS2, hist
  <2> QED
    BY <1>2, <2>2, <2>3, <2>4, <2>5, <2>6, <2>7, <2>8 DEF ProducerStep
<1>3. ASSUME NEW c \in Consumers, ConsumerStep(c)
      PROVE  FInv' /\ [Fifo!Next]_<<made, taken>>
  <2>1. c \in Threads /\ c \notin Producers
    BY ThreadKinds
  <2>2. CASE CTest(c)
    BY <1>1, <2>1, <2>2, AsideStep DEF CTest, sems, hist
  <2>3. CASE CDownS2(c)
    BY <1>1, <2>3, DownS2Step DEF CDownS2, hist
  <2>4. CASE DownMutex(c)
    BY <1>1, <2>1, <2>4, AsideStep DEF DownMutex, hist
  <2>5. CASE CRead(c)
    BY <1>1, <2>5, ReadStep DEF Fifo!Next
  <2>6. CASE CAdvance(c)
    BY <1>1, <2>1, <2>6, AdvanceStep DEF CAdvance, sems, hist
  <2>7. CASE UpMutex(c)
    BY <1>1, <2>1, <2>7, AsideStep DEF UpMutex, hist
  <2>8. CASE CUpS1(c)
    BY <1>1, <2>1, <2>8, AsideStep DEF CUpS1, hist
  <2>9. CASE CLoad(c)
    BY <1>1, <2>1, <2>9, AsideStep DEF CLoad, sems, hist
  <2>10. CASE CStore(c)
    BY <1>1, <2>1, <2>10, AsideStep DEF CStore, sems, hist
  <2> QED
    BY <1>3, <2>2, <2>3, <2>4, <2>5, <2>6, <2>7, <2>8, <2>9, <2>10 DEF ConsumerStep
<1>4. CASE UNCHANGED vars
  <2>1. InTransit' = InTransit /\ \A i : GoodsOf(i)' = GoodsOf(i)
    BY <1>4 DEF vars, hist, InTransit, GoodsOf
  <2> QED
    BY <1>1, <1>4, <2>1 DEF vars, sems, ring, hist, FInv, BacklogInv, IndexInv, SlotInv, MadeInv
<1> QED
  BY <1>2, <1>3, <1>4 DEF Next

(* np-nc.c:26-33,49-55: the ring is a bounded first-in first-out queue of  *)
(* goods; PNUM <= 100 keeps the goods of two producers apart (i*100 + k).  *)
THEOREM FifoCorrect == PNUM <= 100 => (Spec => FifoSpec)
<1> SUFFICES ASSUME PNUM <= 100 PROVE Spec => FifoSpec
  OBVIOUS
<1>1. Init => FInv /\ Fifo!Init
  BY InitFInv DEF Init, Fifo!Init
<1>2. FInv /\ [Next]_vars => FInv' /\ [Fifo!Next]_<<made, taken>>
  BY NextFInv
<1> QED
  BY <1>1, <1>2, PTL DEF Spec, FifoSpec, Fifo!Spec
=============================================================================
