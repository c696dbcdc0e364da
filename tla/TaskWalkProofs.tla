--------------------------- MODULE TaskWalkProofs ---------------------------
(***************************************************************************)
(* Proofs about TaskWalk for any number of tasks: the list stays a list    *)
(* while tasks come and go, and on a kernel that is not preemptible an     *)
(* unlocked walk comes to every task that stays, to none twice, reads none *)
(* that has been freed, and faults over none that had exited before it.    *)
(***************************************************************************)
EXTENDS TaskWalk, Naturals, TLAPS

Steps == {"idle", "move", "find", "threads", "load", "files", "pid", "nice", "end", "oops", "astray"}

Types ==
    /\ state \in [Tasks -> {"unused", "alive", "exiting", "gone"}]
    /\ next \in [Tasks -> Tasks]
    /\ at \in Steps /\ pos \in Tasks /\ walk \in Walks
    /\ exited \subseteq Tasks /\ during \subseteq Tasks

(* Links are a permutation of the linked tasks.                            *)
ListInv ==
    /\ state[init_task] = "alive" /\ state[current] = "alive"
    /\ \A t \in Linked : next[t] \in Linked
    /\ \A t, u \in Linked : next[t] = next[u] => t = u
    /\ \A t \in Linked : \E u \in Linked : next[u] = t

(* The tasks that exist as long as the walk goes on.                       *)
Safe == Linked \cup during

(* A link of such a task leads to another one: a task unlinked during the  *)
(* walk keeps its link, and what it links to was linked when it left.      *)
WalkInv ==
    /\ \A t \in during : state[t] = "gone"
    /\ at = "idle" => during = {}
    /\ ~preempt =>
        /\ \A t \in Safe : next[t] \in Safe
        /\ at \in {"move", "find", "threads", "load", "files", "pid", "nice"} => pos \in Safe
        /\ NotAstray

(* Where the walk may fault.                                               *)
FaultInv ==
    /\ at = "find" => pos # init_task
    /\ at = "files" /\ stale => pos \in exited
    /\ FaultsOnlyAfterExit

IInv == Types /\ ListInv /\ WalkInv /\ FaultInv

LEMMA LinkedDef ==
    /\ Linked \subseteq Tasks
    /\ \A t \in Tasks : t \in Linked <=> state[t] \in {"alive", "exiting"}
BY DEF Linked

LEMMA InitIInv == Init => IInv
<1> SUFFICES ASSUME Init PROVE IInv
  OBVIOUS
<1>1. Types
  BY TaskWalkAssumption DEF Init, Types, Steps, Walks
<1>2. Linked = {init_task, current} /\ next[init_task] = current /\ next[current] = init_task
  BY TaskWalkAssumption DEF Init, Linked
<1>3. ListInv
  BY <1>2, TaskWalkAssumption DEF Init, ListInv
<1>4. WalkInv /\ FaultInv
  BY <1>2, <1>3 DEF Init, WalkInv, FaultInv, ListInv, Safe, NotAstray, FaultsOnlyAfterExit
<1> QED
  BY <1>1, <1>3, <1>4 DEF IInv
---------------------------------------------------------------------------
(* Steps of the walk, which leave the list alone.                          *)
LEMMA BeginStep ==
    ASSUME IInv, NEW w \in Walks, Begin(w)
    PROVE  IInv'
<1>1. UNCHANGED <<preempt, state, next, stale, exited, during>>
  BY DEF Begin, list, exits
<1>2. Linked' = Linked /\ Linked \subseteq Tasks
  BY <1>1 DEF Linked
<1>3. pos' \in Linked /\ at' \in {"pid", "move"} /\ walk' \in Walks
  BY TaskWalkAssumption DEF Begin, From, IInv, ListInv, Linked
<1>4. Types' /\ ListInv'
  BY <1>1, <1>2, <1>3 DEF IInv, Types, ListInv, Steps
<1>5. WalkInv'
  BY <1>1, <1>2, <1>3 DEF IInv, WalkInv, Safe, NotAstray
<1>6. FaultInv'
  BY <1>3 DEF FaultInv, FaultsOnlyAfterExit
<1> QED
  BY <1>4, <1>5, <1>6 DEF IInv

LEMMA MoveStep == IInv /\ Move => IInv'
<1> SUFFICES ASSUME IInv, Move PROVE IInv'
  OBVIOUS
<1>1. UNCHANGED <<preempt, state, next, stale, exited, during, walk>> /\ at = "move"
  BY DEF Move, list, exits
<1>2. Linked' = Linked
  BY <1>1 DEF Linked
<1>3. \/ at' = "end" /\ pos' = pos
      \/ /\ next[pos] # From(walk) /\ pos' = next[pos] /\ at' \in {"find", "threads", "load", "move"}
         /\ at' = "find" => walk = "print_pid"
  BY DEF Move, Visit
<1>4. Types' /\ ListInv'
  BY <1>1, <1>2, <1>3 DEF IInv, Types, ListInv, Steps
<1>5. WalkInv'
  BY <1>1, <1>2, <1>3 DEF IInv, WalkInv, Safe, NotAstray
<1>6. FaultInv'
  BY <1>1, <1>3 DEF FaultInv, FaultsOnlyAfterExit, From
<1> QED
  BY <1>4, <1>5, <1>6 DEF IInv

(* The steps that stay where they are.                                     *)
LEMMA StayStep ==
    ASSUME IInv, FindGetPid \/ ReadThreads \/ LoadFiles \/ ReadFiles \/ PidTask \/ SetUserNice \/ Astray
    PROVE  IInv'
<1>1. UNCHANGED <<preempt, state, next, exited, during, walk, pos>> /\ at # "idle"
  BY DEF FindGetPid, ReadThreads, LoadFiles, ReadFiles, PidTask, SetUserNice, Astray, Goto, list
<1>2. Linked' = Linked
  BY <1>1 DEF Linked
<1>3. /\ at' \in {"move", "oops", "files", "end", "nice", "astray"}
      /\ at' \in {"move", "files", "nice"} => at \in {"find", "threads", "load", "files", "pid"}
      /\ at' = "files" => ~stale'
      /\ at' = "astray" => preempt \/ (state[pos] = "unused" /\ at \in {"move", "find", "threads", "load", "nice"})
      /\ at' = "oops" => \/ at = "find" /\ pos \notin Linked \ {init_task}
                         \/ at = "files" /\ stale
  BY DEF FindGetPid, ReadThreads, LoadFiles, ReadFiles, PidTask, SetUserNice, Astray, Goto
<1>4. Types' /\ ListInv'
  BY <1>1, <1>2, <1>3 DEF IInv, Types, ListInv, Steps
<1>5. ~preempt => at' # "astray"
  BY <1>3, LinkedDef DEF IInv, Types, WalkInv, Safe
<1>6. WalkInv'
  BY <1>1, <1>2, <1>3, <1>5 DEF IInv, WalkInv, Safe, NotAstray
<1>7. FaultInv'
  BY <1>1, <1>3 DEF IInv, WalkInv, Safe, FaultInv, FaultsOnlyAfterExit
<1> QED
  BY <1>4, <1>6, <1>7 DEF IInv

LEMMA EndStep == IInv /\ End => IInv'
<1> SUFFICES ASSUME IInv, End PROVE IInv'
  OBVIOUS
<1>1. /\ UNCHANGED <<preempt, state, next, walk, pos>>
      /\ at' = "idle" /\ exited' = {} /\ during' = {}
  BY DEF End, list
<1>2. Linked' = Linked
  BY <1>1 DEF Linked
<1>3. Types' /\ ListInv'
  BY <1>1, <1>2 DEF IInv, Types, ListInv, Steps
<1>4. WalkInv' /\ FaultInv'
  BY <1>1, <1>2 DEF IInv, ListInv, WalkInv, Safe, NotAstray, FaultInv, FaultsOnlyAfterExit
<1> QED
  BY <1>3, <1>4 DEF IInv
---------------------------------------------------------------------------
(* Steps of the other tasks, which leave the walk where it is.             *)
LEMMA ForkStep ==
    ASSUME IInv, NEW t \in Tasks, Fork(t)
    PROVE  IInv'
<1>1. /\ state[t] = "unused" /\ state' = [state EXCEPT ![t] = "alive"]
      /\ next' = [next EXCEPT ![Last] = t, ![t] = init_task]
      /\ UNCHANGED <<preempt, walk, at, pos, stale, exited, during>>
  BY DEF Fork, walker, exits
<1>2. init_task \in Linked /\ t \notin Linked
  BY <1>1, TaskWalkAssumption, LinkedDef DEF IInv, ListInv, Types
<1>3. Last \in Linked /\ next[Last] = init_task
  BY <1>2 DEF IInv, ListInv, Last
<1> HIDE DEF Last
<1>4. Linked' = Linked \cup {t}
  BY <1>1 DEF IInv, Types, Linked
<1>5. /\ next'[t] = init_task /\ next'[Last] = t
      /\ \A u \in Tasks : u # t /\ u # Last => next'[u] = next[u]
  BY <1>1, <1>2, <1>3, LinkedDef DEF IInv, Types
<1>6. Types'
  BY <1>1, TaskWalkAssumption DEF IInv, Types
<1>7. ListInv'
  <2>1. state'[init_task] = "alive" /\ state'[current] = "alive"
    BY <1>1, TaskWalkAssumption DEF IInv, ListInv, Types
  <2>2. \A u \in Linked' : next'[u] \in Linked'
    BY <1>2, <1>3, <1>4, <1>5, LinkedDef DEF IInv, ListInv
  <2>3. \A u, v \in Linked' : next'[u] = next'[v] => u = v
    BY <1>2, <1>3, <1>4, <1>5, LinkedDef DEF IInv, ListInv
  <2>4. ASSUME NEW u \in Linked' PROVE \E v \in Linked' : next'[v] = u
    <3>1. CASE u = t \/ u = init_task
      BY <1>3, <1>4, <1>5, <3>1
    <3>2. CASE u # t /\ u # init_task
      <4>1. PICK v \in Linked : next[v] = u
        BY <1>4, <3>2 DEF IInv, ListInv
      <4>2. v # Last /\ v # t /\ v \in Tasks
        BY <1>2, <1>3, <3>2, <4>1, LinkedDef
      <4> QED
        BY <1>4, <1>5, <4>1, <4>2
    <3> QED
      BY <3>1, <3>2
  <2> QED
    BY <2>1, <2>2, <2>3, <2>4 DEF ListInv
<1>8. Safe' = Safe \cup {t}
  BY <1>1, <1>4 DEF Safe
<1>9. WalkInv'
  <2>1. \A u \in during' : state'[u] = "gone"
    BY <1>1 DEF IInv, WalkInv, Types
  <2>2. ASSUME ~preempt PROVE \A u \in Safe' : next'[u] \in Safe'
    <3>1. init_task \in Safe /\ Safe \subseteq Tasks
      BY <1>2, LinkedDef DEF Safe, IInv, Types
    <3> QED
      BY <1>5, <1>8, <2>2, <3>1 DEF IInv, WalkInv
  <2> QED
    BY <1>1, <1>8, <2>1, <2>2 DEF IInv, WalkInv, NotAstray
<1>10. FaultInv'
  BY <1>1 DEF IInv, FaultInv, FaultsOnlyAfterExit
<1> QED
  BY <1>6, <1>7, <1>9, <1>10 DEF IInv

LEMMA ExitFilesStep ==
    ASSUME IInv, NEW t \in Tasks, ExitFiles(t)
    PROVE  IInv'
<1>1. /\ state[t] = "alive" /\ t # init_task /\ t # current
      /\ state' = [state EXCEPT ![t] = "exiting"]
      /\ exited' = IF at # "idle" THEN exited \cup {t} ELSE exited
      /\ stale' = (stale \/ (at = "files" /\ pos = t))
      /\ UNCHANGED <<preempt, next, walk, at, pos, during>>
  BY DEF ExitFiles, walker, Walking
<1>2. Linked' = Linked
  BY <1>1 DEF IInv, Types, Linked
<1>3. Types'
  BY <1>1 DEF IInv, Types
<1>4. ListInv'
  BY <1>1, <1>2, TaskWalkAssumption DEF IInv, Types, ListInv
<1>5. \A u \in during' : state'[u] = "gone"
  BY <1>1 DEF IInv, WalkInv, Types
<1>6. WalkInv'
  BY <1>1, <1>2, <1>5 DEF IInv, WalkInv, Safe, NotAstray
<1>7. FaultInv'
  BY <1>1 DEF IInv, FaultInv, FaultsOnlyAfterExit
<1> QED
  BY <1>3, <1>4, <1>6, <1>7 DEF IInv

LEMMA ExitStep ==
    ASSUME IInv, NEW t \in Tasks, Exit(t)
    PROVE  IInv'
<1>1. /\ state[t] = "exiting" /\ state' = [state EXCEPT ![t] = "gone"]
      /\ during' = IF at # "idle" THEN during \cup {t} ELSE during
      /\ stale' = (stale \/ (at = "pid" /\ pos = t))
      /\ UNCHANGED <<preempt, walk, at, pos, exited>>
      /\ next' = Unlinked(t)
  BY DEF Exit, Detach, walker, Walking
<1>2. Linked' = Linked \ {t} /\ t \in Linked
  BY <1>1 DEF IInv, Types, Linked
<1>3. \A u \in Tasks : next'[u] = IF u \in Linked /\ next[u] = t THEN next[t] ELSE next[u]
  BY <1>1 DEF Unlinked
<1>4. Types'
  BY <1>1 DEF IInv, Types, Unlinked
<1>5. t # init_task /\ t # current
  BY <1>1 DEF IInv, ListInv
<1>6. ListInv'
  <2>1. state'[init_task] = "alive" /\ state'[current] = "alive"
    BY <1>1, <1>5, TaskWalkAssumption DEF IInv, ListInv, Types
  <2>2. \A u \in Linked' : next'[u] \in Linked'
    BY <1>2, <1>3, LinkedDef DEF IInv, ListInv
  <2>3. \A u, v \in Linked' : next'[u] = next'[v] => u = v
    BY <1>2, <1>3, LinkedDef DEF IInv, ListInv
  <2>4. ASSUME NEW u \in Linked' PROVE \E v \in Linked' : next'[v] = u
    <3>1. PICK v \in Linked : next[v] = u
      BY <1>2 DEF IInv, ListInv
    <3>2. CASE v # t
      BY <1>2, <1>3, <3>1, <3>2, LinkedDef
    <3>3. CASE v = t
      <4>1. PICK x \in Linked : next[x] = t
        BY <1>2 DEF IInv, ListInv
      <4> QED
        BY <1>2, <1>3, <3>1, <3>3, <4>1, LinkedDef
    <3> QED
      BY <3>2, <3>3
  <2> QED
    BY <2>1, <2>2, <2>3, <2>4 DEF ListInv
<1>7. WalkInv'
  <2>1. \A u \in during' : state'[u] = "gone"
    BY <1>1 DEF IInv, WalkInv, Types
  <2>2. at' = "idle" => during' = {}
    BY <1>1 DEF IInv, WalkInv
  <2>3. CASE at = "idle"
    <3>1. Safe' = Linked'
      BY <1>1, <2>2, <2>3 DEF Safe
    <3> QED
      BY <1>1, <1>6, <2>1, <2>2, <2>3, <3>1 DEF ListInv, WalkInv, NotAstray
  <2>4. CASE at # "idle"
    <3>1. Safe' = Safe /\ t \in Safe /\ Safe \subseteq Tasks
      BY <1>1, <1>2, <2>4, LinkedDef DEF Safe, IInv, Types
    <3> QED
      BY <1>1, <1>3, <2>1, <2>2, <3>1 DEF IInv, WalkInv, NotAstray
  <2> QED
    BY <2>3, <2>4
<1>8. FaultInv'
  BY <1>1 DEF IInv, FaultInv, FaultsOnlyAfterExit
<1> QED
  BY <1>4, <1>6, <1>7, <1>8 DEF IInv

LEMMA FreeStep ==
    ASSUME IInv, NEW t \in Tasks, Free(t)
    PROVE  IInv'
<1>1. /\ state[t] = "gone" /\ state' = [state EXCEPT ![t] = "unused"]
      /\ t \in during => preempt
      /\ during' = during \ {t}
      /\ UNCHANGED <<preempt, next, walk, at, pos, stale, exited>>
  BY DEF Free, walker
<1>2. Linked' = Linked
  BY <1>1 DEF IInv, Types, Linked
<1>3. Types'
  BY <1>1 DEF IInv, Types
<1>4. ListInv'
  BY <1>1, <1>2, TaskWalkAssumption DEF IInv, Types, ListInv
<1>5. \A u \in during' : state'[u] = "gone"
  BY <1>1 DEF IInv, WalkInv, Types
<1>6. ~preempt => Safe' = Safe
  BY <1>1, <1>2 DEF Safe
<1>7. WalkInv'
  BY <1>1, <1>5, <1>6 DEF IInv, WalkInv, NotAstray
<1>8. FaultInv'
  BY <1>1 DEF IInv, FaultInv, FaultsOnlyAfterExit
<1> QED
  BY <1>3, <1>4, <1>7, <1>8 DEF IInv
---------------------------------------------------------------------------
(* The parts of the type invariant that IInv leaves out.                   *)
Flags ==
    /\ preempt \in BOOLEAN /\ again \in BOOLEAN /\ stale \in BOOLEAN
    /\ visited \subseteq Tasks /\ before \subseteq Tasks

LEMMA FlagsStep == IInv /\ Flags /\ [Next]_vars => Flags'
<1> SUFFICES ASSUME IInv, Flags, [Next]_vars PROVE Flags'
  OBVIOUS
<1>1. visited' \subseteq Tasks /\ before' \subseteq Tasks
  BY LinkedDef DEF IInv, Types, Flags, Next, vars, Walk, Begin, Move, Visit, FindGetPid, ReadThreads, LoadFiles,
     ReadFiles, PidTask, SetUserNice, Astray, End, Goto, Fork, ExitFiles, Exit, Detach, Free, walker
<1>2. preempt' = preempt
  BY DEF Next, vars, Walk, Begin, Move, FindGetPid, ReadThreads, LoadFiles,
     ReadFiles, PidTask, SetUserNice, Astray, End, Goto, Fork, ExitFiles, Exit, Detach, Free
<1>3. again' \in BOOLEAN
  BY Zenon DEF Flags, Next, vars, Walk, Begin, Move, Visit, FindGetPid, ReadThreads, LoadFiles,
     ReadFiles, PidTask, SetUserNice, Astray, End, Goto, Fork, ExitFiles, Exit, Detach, Free, walker
<1>4. stale' \in BOOLEAN
  BY Zenon DEF Flags, Next, vars, Walk, Begin, Move, Visit, FindGetPid, ReadThreads, LoadFiles,
     ReadFiles, PidTask, SetUserNice, Astray, End, Goto, Fork, ExitFiles, Exit, Detach, Free, exits
<1> QED
  BY <1>1, <1>2, <1>3, <1>4, Zenon DEF Flags

LEMMA NextIInv == IInv /\ [Next]_vars => IInv'
<1> SUFFICES ASSUME IInv, [Next]_vars PROVE IInv'
  OBVIOUS
<1>1. CASE UNCHANGED vars
  <2>1. /\ UNCHANGED <<preempt, state, next, walk, at, pos, stale, exited, during>>
        /\ Linked' = Linked
    BY <1>1 DEF vars, list, walker, exits, Linked
  <2> QED
    BY <2>1 DEF IInv, Types, ListInv, WalkInv, Safe, NotAstray, FaultInv, FaultsOnlyAfterExit
<1>2. CASE Walk
  BY <1>2, MoveStep, StayStep, EndStep DEF Walk
<1> QED
  BY <1>1, <1>2, BeginStep, ForkStep, ExitFilesStep, ExitStep, FreeStep DEF Next

(* showtask.c:41-54, process.c:57-83, print_pid.c:37-56: the invariant the *)
(* other theorems rest on.                                                 *)
THEOREM Invariance == Spec => []IInv
BY InitIInv, NextIInv, PTL DEF Spec

(* print_pid.c:41, showtask.c:47: the list stays a list, and the variables *)
(* keep their types.                                                       *)
THEOREM TypeCorrect == Spec => []TypeOK
<1>1. Init => Flags
  BY Zenon DEF Init, Flags
<1>2. IInv /\ Flags => TypeOK
  BY Zenon DEF IInv, Types, ListInv, Flags, TypeOK, Steps
<1> QED
  BY <1>1, <1>2, FlagsStep, Invariance, PTL DEF Spec

(* showtask.c:47-51,239: no walk reads a freed task on a kernel that is    *)
(* not preemptible, however many tasks come and go.                        *)
THEOREM WalkCorrect == Spec => []NotAstray
<1>1. IInv => NotAstray
  BY DEF IInv, WalkInv, NotAstray
<1> QED
  BY <1>1, Invariance, PTL

(* print_pid.c:47-52, process.c:68-71: it faults at most over a task that  *)
(* exited while it went on.                                                *)
THEOREM FaultCorrect == Spec => []FaultsOnlyAfterExit
<1>1. IInv => FaultsOnlyAfterExit
  BY DEF IInv, FaultInv
<1> QED
  BY <1>1, Invariance, PTL
---------------------------------------------------------------------------
(* The order of a walk.  Ranks number the tasks in the order a walk that   *)
(* begins at F comes to them, the tasks it still holds included: a link    *)
(* goes to a higher rank or back to F, a link of a linked task skips no    *)
(* linked one, and a link of a task unlinked meanwhile skips at most such  *)
(* as have come since the walk began, for A is awaited.                    *)
Skips(r, F, nx, t, u) == r[t] < r[u] /\ (nx[t] = F \/ r[u] < r[nx[t]])

Ranked(r, N, F, nx, S, L, A) ==
    /\ \A t \in Tasks : r[t] \in Nat /\ r[t] < N
    /\ r[F] = 0
    /\ \A t, u \in S : r[t] = r[u] => t = u
    /\ \A t \in S : nx[t] # F => r[t] < r[nx[t]]
    /\ \A t \in L : \A u \in L : ~Skips(r, F, nx, t, u)
    /\ \A t \in S : \A u \in A : ~Skips(r, F, nx, t, u)

Awaited == IF at = "idle" THEN {} ELSE before \cap Linked

(* What the walk came to is behind it, what it is yet to come to ahead.    *)
Progress(r) ==
    at \in {"move", "find", "threads", "load", "files"} =>
        /\ \A t \in visited : r[t] <= r[pos]
        /\ \A t \in Awaited : t = From(walk) \/ t \in visited \/ r[pos] < r[t]

OrderInv ==
    ~preempt =>
        /\ VisitsEachOnce
        /\ at # "idle" => before \subseteq Safe /\ visited \subseteq Safe
        /\ at \in {"pid", "nice"} => walk = "set_thread_priority"
        /\ \E r \in [Tasks -> Nat] : \E N \in Nat :
               Ranked(r, N, From(walk), next, Safe, Linked, Awaited) /\ Progress(r)

(* The same list in the order of a walk that begins elsewhere.             *)
LEMMA RankedFrom ==
    ASSUME NEW r \in [Tasks -> Nat], NEW N \in Nat, NEW F, NEW G, NEW nx, NEW L \in SUBSET Tasks, NEW A,
           F \in L, G \in L, \A t \in L : nx[t] \in L, A \subseteq L, Ranked(r, N, F, nx, L, L, {})
    PROVE  \E q \in [Tasks -> Nat] : Ranked(q, N, G, nx, L, L, A)
<1> DEFINE q == [t \in Tasks |-> IF r[t] < r[G] THEN (r[t] + N) - r[G] ELSE r[t] - r[G]]
<1>0. /\ G \in Tasks /\ F \in Tasks /\ L \subseteq Tasks
      /\ \A t \in Tasks : r[t] \in Nat /\ r[t] < N
  BY DEF Ranked
<1>1. ASSUME NEW t \in Tasks
      PROVE  /\ q[t] = IF r[t] < r[G] THEN (r[t] + N) - r[G] ELSE r[t] - r[G]
             /\ q[t] \in Nat /\ q[t] < N
             /\ r[t] < r[G] => r[t] + N = q[t] + r[G]
             /\ ~(r[t] < r[G]) => r[t] = q[t] + r[G]
  <2>1. q[t] = IF r[t] < r[G] THEN (r[t] + N) - r[G] ELSE r[t] - r[G]
    OBVIOUS
  <2>2. r[t] \in Nat /\ r[G] \in Nat /\ r[t] < N /\ r[G] < N
    BY <1>0
  <2> HIDE DEF q
  <2> QED
    BY <2>1, <2>2
<1>2. q \in [Tasks -> Nat]
  BY <1>1
<1> HIDE DEF q
<1>3. q[G] = 0
  BY <1>0, <1>1
<1>4. ASSUME NEW t \in L, NEW u \in L, q[t] = q[u] PROVE t = u
  <2>1. t \in Tasks /\ u \in Tasks
    BY <1>0
  <2>2. /\ r[t] \in Nat /\ r[u] \in Nat /\ r[G] \in Nat /\ r[t] < N /\ r[u] < N
        /\ q[t] \in Nat /\ q[u] \in Nat
        /\ r[t] + N = q[t] + r[G] \/ r[t] = q[t] + r[G]
        /\ r[u] + N = q[u] + r[G] \/ r[u] = q[u] + r[G]
    BY <1>0, <1>1, <2>1
  <2>3. r[t] = r[u]
    BY <1>4, <2>2
  <2> QED
    BY <2>3 DEF Ranked
<1>5. ASSUME NEW t \in L
      PROVE  /\ nx[t] # G => q[t] < q[nx[t]]
             /\ \A u \in L : ~Skips(q, G, nx, t, u)
  <2>1. t \in Tasks /\ nx[t] \in L /\ nx[t] \in Tasks
    BY <1>0
  <2>2. /\ nx[t] # F => r[t] < r[nx[t]]
        /\ r[nx[t]] = r[G] => nx[t] = G
        /\ r[nx[t]] = r[F] => nx[t] = F
        /\ r[F] = 0
    BY <2>1 DEF Ranked
  <2>3. \A u \in L : u \in Tasks /\ ~(r[t] < r[u] /\ (nx[t] = F \/ r[u] < r[nx[t]]))
    BY <1>0 DEF Ranked, Skips
  <2>4. ~(r[t] < r[G] /\ (nx[t] = F \/ r[G] < r[nx[t]]))
    BY <2>3
  <2>5. nx[t] # G => q[t] < q[nx[t]]
    BY <1>0, <1>1, <2>1, <2>2, <2>4
  <2>6. ASSUME NEW u \in L PROVE ~(q[t] < q[u] /\ (nx[t] = G \/ q[u] < q[nx[t]]))
    <3>1. u \in Tasks /\ ~(r[t] < r[u] /\ (nx[t] = F \/ r[u] < r[nx[t]]))
      BY <2>3
    <3> QED
      BY <1>0, <1>1, <2>1, <2>2, <2>4, <3>1
  <2> QED
    BY <2>5, <2>6 DEF Skips
<1>6. Ranked(q, N, G, nx, L, L, A)
  BY <1>1, <1>3, <1>4, <1>5 DEF Ranked
<1> QED
  BY <1>2, <1>6

(* A new task t at the end of the list, after l: what it does to the links *)
(* of the tasks S, of which L are in the list and A are awaited.           *)
Forks(nx, my, S, L, A, t, l) ==
    /\ S \subseteq Tasks /\ L \subseteq S /\ A \subseteq L
    /\ t \in Tasks /\ t \notin S /\ l \in L
    /\ \A u \in S : nx[u] \in S
    /\ \A u \in L : nx[u] \in L /\ (nx[u] = nx[l] => u = l)
    /\ my[t] = nx[l] /\ my[l] = t
    /\ \A u \in Tasks : u # t /\ u # l => my[u] = nx[u]

(* Ranks that keep the order of the tasks S.                               *)
Keeps(q, r, S) == \A u, v \in S : q[u] <= q[v] <=> r[u] <= r[v]

LEMMA RankedFork ==
    ASSUME NEW r \in [Tasks -> Nat], NEW N \in Nat, NEW F, NEW nx, NEW my,
           NEW S, NEW L, NEW A, NEW t, NEW l,
           F \in L, Forks(nx, my, S, L, A, t, l), Ranked(r, N, F, nx, S, L, A)
    PROVE  \E q \in [Tasks -> Nat] : \E M \in Nat :
               /\ Ranked(q, M, F, my, S \cup {t}, L \cup {t}, A)
               /\ Keeps(q, r, S)
<1> DEFINE i == nx[l]
<1> /\ S \in SUBSET Tasks /\ L \in SUBSET S /\ A \in SUBSET L
    /\ t \in Tasks /\ t \notin S /\ l \in L
    /\ \A u \in S : nx[u] \in S
    /\ \A u \in L : nx[u] \in L /\ (nx[u] = i => u = l)
    /\ i \in L /\ nx[l] = i /\ my[t] = i /\ my[l] = t
    /\ \A u \in Tasks : u # t /\ u # l => my[u] = nx[u]
  BY DEF Forks
<1> HIDE DEF i
<1> DEFINE q == [u \in Tasks |-> IF u = t THEN 2 * r[l] + 1 ELSE 2 * r[u]]
           M == 2 * N
<1>0. /\ l \in Tasks /\ i \in Tasks /\ F \in Tasks /\ F # t /\ i # t /\ l # t /\ L \subseteq Tasks
      /\ \A u \in Tasks : r[u] \in Nat /\ r[u] < N
  BY DEF Ranked
<1>1. /\ q[t] = 2 * r[l] + 1
      /\ \A u \in Tasks : u # t => q[u] = 2 * r[u]
  OBVIOUS
<1>2. \A u \in Tasks : q[u] \in Nat /\ q[u] < M
  <2>1. ASSUME NEW u \in Tasks PROVE q[u] \in Nat /\ q[u] < 2 * N
    <3>1. r[u] \in Nat /\ r[l] \in Nat /\ r[u] < N /\ r[l] < N
      BY <1>0
    <3>2. q[u] = 2 * r[l] + 1 \/ q[u] = 2 * r[u]
      BY <1>1
    <3> HIDE DEF q
    <3> QED
      BY <3>1, <3>2
  <2> QED
    BY <2>1
<1>3. q \in [Tasks -> Nat] /\ M \in Nat
  BY <1>2
<1> HIDE DEF q
<1>4. ASSUME NEW u \in S, NEW v \in S
      PROVE  /\ q[u] <= q[v] <=> r[u] <= r[v]
             /\ q[u] < q[v] <=> r[u] < r[v]
             /\ q[u] # q[t] /\ (q[t] < q[u] <=> r[l] < r[u]) /\ (q[u] < q[t] <=> r[u] <= r[l])
             /\ q[u] = q[v] => u = v
  <2>1. u \in Tasks /\ v \in Tasks /\ u # t /\ v # t
    OBVIOUS
  <2>2. r[u] \in Nat /\ r[v] \in Nat /\ r[l] \in Nat
    BY <1>0, <2>1
  <2>3. q[u] = 2 * r[u] /\ q[v] = 2 * r[v] /\ q[t] = 2 * r[l] + 1
    BY <1>1, <2>1
  <2>4. r[u] = r[v] => u = v
    BY DEF Ranked
  <2> QED
    BY <2>2, <2>3, <2>4
<1>5. q[F] = 0
  BY <1>0, <1>1 DEF Ranked
<1>6. /\ \A u \in L : ~(r[l] < r[u] /\ (i = F \/ r[u] < r[i]))
      /\ \A u \in A : ~(r[l] < r[u] /\ (i = F \/ r[u] < r[i]))
      /\ i # F => r[l] < r[i]
  BY DEF Ranked, Skips
<1>7. ASSUME NEW u \in S \cup {t} PROVE my[u] # F => q[u] < q[my[u]]
  <2>1. CASE u = t
    BY <1>4, <1>6, <2>1
  <2>2. CASE u = l
    BY <1>0, <1>4, <2>2
  <2>3. CASE u # t /\ u # l
    <3>1. u \in S /\ my[u] = nx[u] /\ nx[u] \in S
      BY <2>3
    <3> QED
      BY <1>4, <3>1 DEF Ranked
  <2> QED
    BY <2>1, <2>2, <2>3
<1>8. ASSUME NEW B \in SUBSET L, NEW u \in S \cup {t}, NEW v \in B,
             u # t => ~Skips(r, F, nx, u, v)
      PROVE  ~(q[u] < q[v] /\ (my[u] = F \/ q[v] < q[my[u]]))
  <2>0. v \in S /\ v # t
    OBVIOUS
  <2>1. CASE u = t
    BY <1>4, <1>6, <2>0, <2>1
  <2>2. CASE u = l
    BY <1>0, <1>4, <1>6, <2>0, <2>2
  <2>3. CASE u # t /\ u # l
    <3>1. u \in S /\ my[u] = nx[u] /\ nx[u] \in S
      BY <2>3
    <3> QED
      BY <1>4, <1>8, <2>0, <2>3, <3>1 DEF Skips
  <2> QED
    BY <2>1, <2>2, <2>3
<1>9. ASSUME NEW u \in L PROVE ~(q[u] < q[t] /\ (my[u] = F \/ q[t] < q[my[u]]))
  <2>1. CASE u = l
    BY <1>0, <1>2, <2>1
  <2>2. CASE u # l
    <3>1. u \in S /\ u # t /\ my[u] = nx[u] /\ nx[u] \in S
      BY <2>2
    <3>2. ~(r[u] < r[l] /\ (nx[u] = F \/ r[l] < r[nx[u]])) /\ (r[u] = r[l] => u = l)
      BY DEF Ranked, Skips
    <3>3. nx[u] # F => r[u] < r[nx[u]]
      BY <3>1 DEF Ranked
    <3>4. r[u] \in Nat /\ r[l] \in Nat /\ r[nx[u]] \in Nat
      BY <1>0, <3>1
    <3> QED
      BY <1>4, <2>2, <3>1, <3>2, <3>3, <3>4
  <2> QED
    BY <2>1, <2>2
<1>10. Ranked(q, M, F, my, S \cup {t}, L \cup {t}, A)
  <2>1. \A u, v \in S \cup {t} : q[u] = q[v] => u = v
    BY <1>4
  <2>2. \A u \in L \cup {t} : \A v \in L \cup {t} : ~Skips(q, F, my, u, v)
    <3>1. ASSUME NEW u \in L \cup {t}, NEW v \in L PROVE ~Skips(q, F, my, u, v)
      <4>1. u # t => ~Skips(r, F, nx, u, v)
        BY DEF Ranked
      <4> QED
        BY <1>8, <4>1 DEF Skips
    <3>2. ~Skips(q, F, my, t, t)
      BY <1>2 DEF Skips
    <3> QED
      BY <1>9, <3>1, <3>2 DEF Skips
  <2>3. \A u \in S \cup {t} : \A v \in A : ~Skips(q, F, my, u, v)
    <3>1. ASSUME NEW u \in S \cup {t}, NEW v \in A PROVE ~Skips(q, F, my, u, v)
      <4>1. u # t => ~Skips(r, F, nx, u, v)
        BY DEF Ranked
      <4> QED
        BY <1>8, <4>1 DEF Skips
    <3> QED
      BY <3>1
  <2> QED
    BY <1>2, <1>5, <1>7, <2>1, <2>2, <2>3 DEF Ranked
<1> QED
  BY <1>3, <1>4, <1>10 DEF Keeps

(* A task taken out of the list, whose link stays for the walk.            *)
LEMMA RankedExit ==
    ASSUME NEW r, NEW N, NEW F, NEW nx, NEW my,
           NEW S \in SUBSET Tasks, NEW L \in SUBSET S, NEW A \in SUBSET L,
           NEW t \in L, t # F, \A u \in S : nx[u] \in S, \A u \in L : nx[u] \in L,
           \A u \in Tasks : my[u] = IF u \in L /\ nx[u] = t THEN nx[t] ELSE nx[u],
           Ranked(r, N, F, nx, S, L, A)
    PROVE  Ranked(r, N, F, my, S, L \ {t}, A \ {t})
<1>0. /\ \A u \in Tasks : r[u] \in Nat
      /\ \A u, v \in S : r[u] = r[v] => u = v
  BY DEF Ranked
<1>1. ASSUME NEW u \in S PROVE my[u] # F => r[u] < r[my[u]]
  <2>1. CASE u \in L /\ nx[u] = t
    <3>1. r[u] < r[t] /\ (nx[t] # F => r[t] < r[nx[t]]) /\ my[u] = nx[t] /\ nx[t] \in S
      BY <2>1 DEF Ranked
    <3> QED
      BY <1>0, <3>1
  <2>2. CASE ~(u \in L /\ nx[u] = t)
    BY <2>2 DEF Ranked
  <2> QED
    BY <2>1, <2>2
<1>2. ASSUME NEW B \in SUBSET L, NEW u \in S, NEW v \in B \ {t}, ~Skips(r, F, nx, u, v)
      PROVE  ~Skips(r, F, my, u, v)
  <2>1. CASE u \in L /\ nx[u] = t
    <3>1. ~(r[u] < r[v] /\ (t = F \/ r[v] < r[t])) /\ my[u] = nx[t] /\ nx[t] \in S
      BY <1>2, <2>1 DEF Skips
    <3>2. ~(r[t] < r[v] /\ (nx[t] = F \/ r[v] < r[nx[t]]))
      BY DEF Ranked, Skips
    <3>3. r[v] # r[t]
      BY <1>0
    <3>4. r[u] \in Nat /\ r[v] \in Nat /\ r[t] \in Nat /\ r[nx[t]] \in Nat
      BY <1>0, <3>1
    <3> QED
      BY <3>1, <3>2, <3>3, <3>4 DEF Skips
  <2>2. CASE ~(u \in L /\ nx[u] = t)
    BY <1>2, <2>2 DEF Skips
  <2> QED
    BY <2>1, <2>2
<1>3. /\ \A u \in L \ {t} : \A v \in L \ {t} : ~Skips(r, F, my, u, v)
      /\ \A u \in S : \A v \in A \ {t} : ~Skips(r, F, my, u, v)
  BY <1>2 DEF Ranked
<1> QED
  BY <1>1, <1>3 DEF Ranked

LEMMA RankedLess ==
    ASSUME NEW r, NEW N, NEW F, NEW nx, NEW S, NEW L, NEW A, NEW R \in SUBSET S, NEW B \in SUBSET A,
           Ranked(r, N, F, nx, S, L, A)
    PROVE  Ranked(r, N, F, nx, R, L, B)
BY DEF Ranked
---------------------------------------------------------------------------
LEMMA InitOrder == Init => OrderInv
<1> SUFFICES ASSUME Init PROVE OrderInv
  OBVIOUS
<1>1. /\ Linked = {init_task, current} /\ during = {} /\ at = "idle" /\ ~again /\ visited = {}
      /\ next = [t \in Tasks |-> IF t = init_task THEN current ELSE init_task]
      /\ From(walk) = init_task
  BY TaskWalkAssumption DEF Init, Linked, From
<1>2. Awaited = {} /\ Safe = Linked
  BY <1>1 DEF Awaited, Safe
<1> DEFINE r == [t \in Tasks |-> IF t = init_task THEN 0 ELSE 1]
<1>3. r \in [Tasks -> Nat] /\ \A t \in Tasks : r[t] = IF t = init_task THEN 0 ELSE 1
  OBVIOUS
<1>4. next[init_task] = current /\ next[current] = init_task /\ r[init_task] = 0 /\ r[current] = 1
  BY <1>1, TaskWalkAssumption
<1> HIDE DEF r
<1>5. Ranked(r, 2, init_task, next, Linked, Linked, {})
  BY <1>1, <1>3, <1>4 DEF Ranked, Skips
<1>6. Progress(r)
  BY <1>1 DEF Progress
<1>7. VisitsEachOnce
  BY <1>1 DEF VisitsEachOnce
<1> QED
  BY <1>1, <1>2, <1>3, <1>5, <1>6, <1>7 DEF OrderInv

(* What OrderInv and IInv say of the state, without the order.             *)
LEMMA OrderFacts ==
    ASSUME IInv, OrderInv, ~preempt
    PROVE  /\ Linked \subseteq Safe /\ Safe \subseteq Tasks /\ Awaited \subseteq Linked
           /\ \A t \in Linked : next[t] \in Linked
           /\ \A t \in Safe : next[t] \in Safe
           /\ init_task \in Linked /\ current \in Linked /\ From(walk) \in Linked
           /\ at = "idle" => Safe = Linked
           /\ at # "idle" => before \subseteq Safe /\ visited \subseteq Safe
           /\ at \in {"move", "find", "threads", "load", "files", "pid", "nice"} => pos \in Safe
<1>1. init_task \in Linked /\ current \in Linked
  BY TaskWalkAssumption, LinkedDef DEF IInv, ListInv
<1>2. From(walk) \in Linked
  BY <1>1 DEF From
<1> QED
  BY <1>1, <1>2, LinkedDef DEF IInv, Types, ListInv, WalkInv, OrderInv, Safe, Awaited

LEMMA BeginOrder ==
    ASSUME IInv, OrderInv, NEW w \in Walks, Begin(w)
    PROVE  OrderInv'
<1> SUFFICES ASSUME ~preempt PROVE OrderInv'
  BY DEF OrderInv, Begin
<1>1. /\ UNCHANGED <<preempt, state, next, during>> /\ at = "idle"
      /\ walk' = w /\ before' = Linked /\ visited' = {} /\ again' = FALSE
      /\ \/ w = "set_thread_priority" /\ at' = "pid"
         \/ w # "set_thread_priority" /\ at' = "move" /\ pos' = From(w)
  BY DEF Begin, list, exits
<1>2. /\ Linked' = Linked /\ Safe' = Safe /\ Safe = Linked /\ Awaited = {}
      /\ From(walk)' = From(w) /\ From(w) \in Linked /\ Linked \subseteq Tasks
      /\ From(walk) \in Linked /\ \A t \in Linked : next[t] \in Linked
  BY <1>1, OrderFacts DEF Linked, Safe, Awaited, From
<1>3. Awaited' = Linked
  BY <1>1, <1>2 DEF Awaited
<1>4. PICK r \in [Tasks -> Nat], N \in Nat : Ranked(r, N, From(walk), next, Linked, Linked, {})
  BY <1>2 DEF OrderInv
<1>5. PICK q \in [Tasks -> Nat] : Ranked(q, N, From(w), next, Linked, Linked, Linked)
  BY <1>2, <1>4, RankedFrom
<1>6. Progress(q)'
  <2>1. \A t \in Linked : t = From(w) \/ q[From(w)] < q[t]
    <3>1. q[From(w)] = 0 /\ \A t \in Linked : q[t] \in Nat /\ (q[t] = q[From(w)] => t = From(w))
      BY <1>2, <1>5 DEF Ranked
    <3> QED
      BY <3>1
  <2> QED
    BY <1>1, <1>2, <1>3, <2>1 DEF Progress
<1>7. VisitsEachOnce'
  BY <1>1 DEF VisitsEachOnce
<1>8. Ranked(q, N, From(walk)', next', Safe', Linked', Awaited')
  BY <1>1, <1>2, <1>3, <1>5
<1> QED
  BY <1>1, <1>2, <1>6, <1>7, <1>8 DEF OrderInv

LEMMA MoveOrder ==
    ASSUME IInv, OrderInv, Move
    PROVE  OrderInv'
<1> SUFFICES ASSUME ~preempt PROVE OrderInv'
  BY DEF OrderInv, Move
<1>1. UNCHANGED <<preempt, state, next, during, walk, before>> /\ at = "move"
  BY DEF Move, list, exits
<1>2. \/ next[pos] = From(walk) /\ at' = "end" /\ UNCHANGED <<pos, visited, again>>
      \/ /\ next[pos] # From(walk) /\ at' \in {"find", "threads", "load", "move"}
         /\ pos' = next[pos] /\ visited' = visited \cup {next[pos]}
         /\ again' = (again \/ next[pos] \in visited)
  BY DEF Move, Visit
<1>3. Linked' = Linked /\ Safe' = Safe /\ Awaited' = Awaited /\ From(walk)' = From(walk)
  BY <1>1, <1>2 DEF Linked, Safe, Awaited, From
<1>4. /\ Linked \subseteq Safe /\ Safe \subseteq Tasks /\ Awaited \subseteq Linked
      /\ pos \in Safe /\ next[pos] \in Safe /\ before \subseteq Safe /\ visited \subseteq Safe
      /\ Awaited = before \cap Linked
  BY <1>1, OrderFacts DEF Awaited
<1>5. ~again /\ From(walk) \notin visited
  BY DEF OrderInv, VisitsEachOnce
<1>6. PICK r \in [Tasks -> Nat], N \in Nat :
          Ranked(r, N, From(walk), next, Safe, Linked, Awaited) /\ Progress(r)
  BY DEF OrderInv
<1>7. /\ \A t \in visited : r[t] <= r[pos]
      /\ \A t \in Awaited : t = From(walk) \/ t \in visited \/ r[pos] < r[t]
      /\ \A t \in Safe : r[t] \in Nat
      /\ \A t, u \in Safe : r[t] = r[u] => t = u
      /\ next[pos] # From(walk) => r[pos] < r[next[pos]]
      /\ \A t \in Awaited : ~(r[pos] < r[t] /\ (next[pos] = From(walk) \/ r[t] < r[next[pos]]))
  BY <1>1, <1>4, <1>6 DEF Progress, Ranked, Skips
<1>8. CASE next[pos] = From(walk)
  <2>1. \A t \in Awaited : t = From(walk) \/ t \in visited
    BY <1>7, <1>8
  <2>2. VisitsEachOnce'
    <3>1. at' = "end" /\ visited' = visited /\ again' = again
      BY <1>2, <1>8
    <3> QED
      BY <1>1, <1>3, <1>4, <1>5, <2>1, <3>1 DEF VisitsEachOnce
  <2>3. Progress(r)' /\ at' \notin {"idle", "pid", "nice"} /\ visited' = visited
    BY <1>2, <1>8 DEF Progress
  <2> QED
    BY <1>1, <1>3, <1>4, <1>6, <2>2, <2>3 DEF OrderInv
<1>9. CASE next[pos] # From(walk)
  <2>1. next[pos] \notin visited
    BY <1>4, <1>7, <1>9
  <2>2. ~again'
    BY <1>2, <1>5, <1>9, <2>1, Zenon
  <2>3. VisitsEachOnce'
    BY <1>2, <1>3, <1>5, <1>9, <2>2 DEF VisitsEachOnce
  <2>4. Progress(r)'
    <3>1. \A t \in visited' : r[t] <= r[pos']
      BY <1>2, <1>4, <1>7, <1>9
    <3>2. ASSUME NEW t \in Awaited PROVE t = From(walk) \/ t \in visited' \/ r[pos'] < r[t]
      <4>1. pos' = next[pos] /\ visited' = visited \cup {next[pos]}
        BY <1>2, <1>9
      <4>2. CASE r[pos] < r[t]
        <5>1. /\ r[t] \in Nat /\ r[next[pos]] \in Nat /\ ~(r[t] < r[next[pos]])
              /\ r[t] = r[next[pos]] => t = next[pos]
          BY <1>4, <1>7, <4>2
        <5> QED
          BY <4>1, <5>1
      <4>3. CASE t = From(walk) \/ t \in visited
        BY <4>1, <4>3
      <4> QED
        BY <1>7, <4>2, <4>3
    <3> QED
      BY <1>3, <3>1, <3>2 DEF Progress
  <2>5. at' \notin {"idle", "pid", "nice"} /\ visited' \subseteq Safe
    BY <1>2, <1>4, <1>9
  <2> QED
    BY <1>1, <1>3, <1>4, <1>6, <2>3, <2>4, <2>5 DEF OrderInv
<1> QED
  BY <1>8, <1>9

LEMMA StayOrder ==
    ASSUME IInv, OrderInv, FindGetPid \/ ReadThreads \/ LoadFiles \/ ReadFiles \/ PidTask \/ SetUserNice \/ Astray
    PROVE  OrderInv'
<1>1. /\ UNCHANGED <<preempt, state, next, during, walk, before, pos, visited, again>>
      /\ at # "idle" /\ at' # "idle"
  BY DEF FindGetPid, ReadThreads, LoadFiles, ReadFiles, PidTask, SetUserNice, Astray, Goto, list
<1> SUFFICES ASSUME ~preempt PROVE OrderInv'
  BY <1>1 DEF OrderInv
<1>2. /\ at' \in {"move", "find", "threads", "load", "files"} => at \in {"find", "threads", "load", "files"}
      /\ at' \in {"pid", "nice"} => at \in {"pid", "nice"}
      /\ at' = "end" => at \in {"pid", "nice"} \/ walk = "setsocketsize"
  BY DEF FindGetPid, ReadThreads, LoadFiles, ReadFiles, PidTask, SetUserNice, Astray, Goto
<1>3. Linked' = Linked /\ Safe' = Safe /\ Awaited' = Awaited /\ From(walk)' = From(walk)
  BY <1>1 DEF Linked, Safe, Awaited, From
<1>4. at \in {"pid", "nice"} => walk = "set_thread_priority"
  BY DEF OrderInv
<1>5. VisitsEachOnce'
  BY <1>1, <1>2, <1>3, <1>4 DEF OrderInv, VisitsEachOnce
<1>6. \A r : Progress(r) => Progress(r)'
  BY <1>1, <1>2, <1>3 DEF Progress
<1>7. PICK r \in [Tasks -> Nat], N \in Nat :
          Ranked(r, N, From(walk), next, Safe, Linked, Awaited) /\ Progress(r)
  BY DEF OrderInv
<1>8. Ranked(r, N, From(walk)', next', Safe', Linked', Awaited') /\ Progress(r)'
  BY <1>1, <1>3, <1>6, <1>7
<1>9. before' \subseteq Safe' /\ visited' \subseteq Safe'
  BY <1>1, <1>3 DEF OrderInv
<1> QED
  BY <1>1, <1>2, <1>4, <1>5, <1>8, <1>9 DEF OrderInv

LEMMA EndOrder ==
    ASSUME IInv, OrderInv, End
    PROVE  OrderInv'
<1> SUFFICES ASSUME ~preempt PROVE OrderInv'
  BY DEF OrderInv, End
<1>1. /\ UNCHANGED <<preempt, state, next, walk, before, pos, visited, again>>
      /\ at' = "idle" /\ during' = {}
  BY DEF End, list
<1>2. Linked' = Linked /\ Safe' = Linked /\ Awaited' = {} /\ From(walk)' = From(walk)
  BY <1>1 DEF Linked, Safe, Awaited, From
<1>3. PICK r \in [Tasks -> Nat], N \in Nat :
          Ranked(r, N, From(walk), next, Safe, Linked, Awaited)
  BY DEF OrderInv
<1>4. Linked \subseteq Safe
  BY OrderFacts
<1>5. Ranked(r, N, From(walk), next, Linked, Linked, {})
  BY <1>3, <1>4, RankedLess
<1>6. VisitsEachOnce' /\ Progress(r)'
  BY <1>1, <1>2 DEF OrderInv, VisitsEachOnce, Progress
<1>7. Ranked(r, N, From(walk)', next', Safe', Linked', Awaited')
  BY <1>1, <1>2, <1>5
<1> QED
  BY <1>1, <1>6, <1>7 DEF OrderInv
---------------------------------------------------------------------------
LEMMA ForkOrder ==
    ASSUME IInv, OrderInv, NEW t \in Tasks, Fork(t)
    PROVE  OrderInv'
<1> SUFFICES ASSUME ~preempt PROVE OrderInv'
  BY DEF OrderInv, Fork
<1>1. /\ state[t] = "unused" /\ state' = [state EXCEPT ![t] = "alive"]
      /\ next' = [next EXCEPT ![Last] = t, ![t] = init_task]
      /\ UNCHANGED <<preempt, walk, at, pos, visited, again, before, during>>
  BY DEF Fork, walker, exits
<1>2. /\ Linked \subseteq Safe /\ Safe \subseteq Tasks /\ Awaited \subseteq Linked
      /\ \A u \in Linked : next[u] \in Linked
      /\ \A u \in Safe : next[u] \in Safe
      /\ init_task \in Linked /\ From(walk) \in Linked
      /\ at # "idle" => before \subseteq Safe /\ visited \subseteq Safe
      /\ at \in {"move", "find", "threads", "load", "files"} => pos \in Safe
  BY OrderFacts
<1>3. t \notin Safe
  BY <1>1, LinkedDef DEF IInv, WalkInv, Safe
<1>4. Last \in Linked /\ next[Last] = init_task /\ \A u \in Linked : next[u] = init_task => u = Last
  BY <1>2 DEF IInv, ListInv, Last
<1> HIDE DEF Last
<1>5. Linked' = Linked \cup {t}
  BY <1>1 DEF IInv, Types, Linked
<1>6. /\ next'[t] = init_task /\ next'[Last] = t
      /\ \A u \in Tasks : u # t /\ u # Last => next'[u] = next[u]
  BY <1>1, <1>2, <1>3, <1>4 DEF IInv, Types
<1>7. Safe' = Safe \cup {t} /\ From(walk)' = From(walk)
  BY <1>1, <1>5 DEF Safe, From
<1>8. Awaited' = Awaited /\ (at # "idle" => t \notin before)
  BY <1>1, <1>2, <1>3, <1>5 DEF Awaited
<1>9. PICK r \in [Tasks -> Nat], N \in Nat :
          Ranked(r, N, From(walk), next, Safe, Linked, Awaited) /\ Progress(r)
  BY DEF OrderInv
<1>10. PICK q \in [Tasks -> Nat], M \in Nat :
          /\ Ranked(q, M, From(walk), next', Safe \cup {t}, Linked \cup {t}, Awaited)
          /\ Keeps(q, r, Safe)
  <2> DEFINE F  == From(walk)
             my == next'
             l  == Last
             S  == Safe
             L  == Linked
             A  == Awaited
  <2>1. F \in L /\ Forks(next, my, S, L, A, t, l) /\ Ranked(r, N, F, next, S, L, A)
    BY <1>2, <1>3, <1>4, <1>6, <1>9 DEF Forks
  <2> HIDE DEF F, my, l, S, L, A
  <2>2. \E q \in [Tasks -> Nat] : \E M \in Nat :
          /\ Ranked(q, M, F, my, S \cup {t}, L \cup {t}, A)
          /\ Keeps(q, r, S)
    BY <2>1, RankedFork
  <2> QED
    BY <2>2 DEF F, my, l, S, L, A
<1>11. Progress(q)'
  <2> SUFFICES ASSUME at \in {"move", "find", "threads", "load", "files"}
               PROVE  /\ \A u \in visited : q[u] <= q[pos]
                      /\ \A u \in Awaited : u = From(walk) \/ u \in visited \/ q[pos] < q[u]
    BY <1>1, <1>7, <1>8 DEF Progress
  <2>1. /\ \A u \in visited : r[u] <= r[pos]
        /\ \A u \in Awaited : u = From(walk) \/ u \in visited \/ r[pos] < r[u]
    BY <1>9 DEF Progress
  <2>2. pos \in Safe /\ visited \subseteq Safe /\ Awaited \subseteq Safe
    BY <1>2
  <2>3. \A u \in Safe : u \in Tasks /\ q[u] \in Nat /\ r[u] \in Nat /\ (q[u] <= q[pos] <=> r[u] <= r[pos])
    BY <1>2, <1>10, <2>2 DEF Keeps
  <2>4. q[pos] \in Nat /\ r[pos] \in Nat
    BY <2>2, <2>3
  <2>5. \A u \in Safe : r[pos] < r[u] => q[pos] < q[u]
    BY <2>3, <2>4
  <2> QED
    BY <2>1, <2>2, <2>3, <2>5
<1>12. VisitsEachOnce'
  <2>1. at = "end" => \A u \in before \cap Linked' : u \in before \cap Linked
    BY <1>5, <1>8
  <2> QED
    BY <1>1, <1>7, <2>1 DEF OrderInv, VisitsEachOnce
<1>13. Ranked(q, M, From(walk)', next', Safe', Linked', Awaited')
  BY <1>5, <1>7, <1>8, <1>10
<1>14. /\ at' # "idle" => before' \subseteq Safe' /\ visited' \subseteq Safe'
       /\ at' \in {"pid", "nice"} => walk' = "set_thread_priority"
  BY <1>1, <1>2, <1>7 DEF OrderInv
<1> QED
  BY <1>11, <1>12, <1>13, <1>14 DEF OrderInv

LEMMA ExitOrder ==
    ASSUME IInv, OrderInv, NEW t \in Tasks, Exit(t)
    PROVE  OrderInv'
<1> SUFFICES ASSUME ~preempt PROVE OrderInv'
  BY DEF OrderInv, Exit, Detach
<1>1. /\ state[t] = "exiting" /\ state' = [state EXCEPT ![t] = "gone"]
      /\ during' = IF at # "idle" THEN during \cup {t} ELSE during
      /\ UNCHANGED <<preempt, walk, at, pos, visited, again, before>>
      /\ next' = Unlinked(t)
  BY DEF Exit, Detach, walker, Walking
<1>2. /\ Linked \subseteq Safe /\ Safe \subseteq Tasks /\ Awaited \subseteq Linked
      /\ \A u \in Linked : next[u] \in Linked
      /\ \A u \in Safe : next[u] \in Safe
      /\ From(walk) \in Linked
      /\ at = "idle" => Safe = Linked
      /\ at # "idle" => before \subseteq Safe /\ visited \subseteq Safe
  BY OrderFacts
<1>3. Linked' = Linked \ {t} /\ t \in Linked
  BY <1>1 DEF IInv, Types, Linked
<1>4. t # From(walk)
  BY <1>1 DEF IInv, ListInv, From
<1>5. \A u \in Tasks : next'[u] = IF u \in Linked /\ next[u] = t THEN next[t] ELSE next[u]
  BY <1>1 DEF Unlinked
<1>6. /\ From(walk)' = From(walk) /\ Awaited' = Awaited \ {t}
      /\ Safe' \subseteq Safe /\ (at # "idle" => Safe' = Safe)
  BY <1>1, <1>2, <1>3 DEF Safe, From, Awaited
<1>7. PICK r \in [Tasks -> Nat], N \in Nat :
          Ranked(r, N, From(walk), next, Safe, Linked, Awaited) /\ Progress(r)
  BY DEF OrderInv
<1>8. Ranked(r, N, From(walk), next', Safe, Linked \ {t}, Awaited \ {t})
  <2> DEFINE F == From(walk)
             my == next'
  <2>1. /\ Ranked(r, N, F, next, Safe, Linked, Awaited) /\ t # F
        /\ \A u \in Tasks : my[u] = IF u \in Linked /\ next[u] = t THEN next[t] ELSE next[u]
    BY <1>4, <1>5, <1>7
  <2> HIDE DEF F, my
  <2>2. Ranked(r, N, F, my, Safe, Linked \ {t}, Awaited \ {t})
    BY <1>2, <1>3, <2>1, RankedExit
  <2> QED
    BY <2>2 DEF F, my
<1>9. Ranked(r, N, From(walk)', next', Safe', Linked', Awaited')
  <2> DEFINE my == next'
             L == Linked \ {t}
             R == Safe'
  <2>1. Ranked(r, N, From(walk), my, Safe, L, Awaited \ {t}) /\ R \subseteq Safe
    BY <1>6, <1>8
  <2> HIDE DEF my, L, R
  <2>2. Ranked(r, N, From(walk), my, R, L, Awaited \ {t})
    BY <2>1, RankedLess
  <2> QED
    BY <1>3, <1>6, <2>2 DEF my, L, R
<1>10. Progress(r)'
  BY <1>1, <1>6, <1>7 DEF Progress
<1>11. VisitsEachOnce'
  BY <1>1, <1>3, <1>6 DEF OrderInv, VisitsEachOnce
<1>12. /\ at' # "idle" => before' \subseteq Safe' /\ visited' \subseteq Safe'
       /\ at' \in {"pid", "nice"} => walk' = "set_thread_priority"
  BY <1>1, <1>2, <1>6 DEF OrderInv
<1> QED
  BY <1>9, <1>10, <1>11, <1>12 DEF OrderInv

(* Steps after which the list and what the walk still holds are the same.  *)
LEMMA SameOrder ==
    ASSUME IInv, OrderInv,
           \/ UNCHANGED vars
           \/ \E t \in Tasks : ExitFiles(t)
           \/ \E t \in Tasks : Free(t)
    PROVE  OrderInv'
<1>1. UNCHANGED <<preempt, next, walk, at, pos, visited, again, before>>
  BY DEF vars, list, walker, ExitFiles, Free
<1> SUFFICES ASSUME ~preempt PROVE OrderInv'
  BY <1>1 DEF OrderInv
<1>2. Linked' = Linked
  BY DEF vars, list, ExitFiles, Free, IInv, Types, Linked
<1>3. during' = during
  BY DEF vars, exits, ExitFiles, Free
<1>4. Safe' = Safe /\ Awaited' = Awaited /\ From(walk)' = From(walk)
  BY <1>1, <1>2, <1>3 DEF Safe, Awaited, From
<1>5. VisitsEachOnce'
  BY <1>1, <1>2, <1>4 DEF OrderInv, VisitsEachOnce
<1>6. PICK r \in [Tasks -> Nat], N \in Nat :
          Ranked(r, N, From(walk), next, Safe, Linked, Awaited) /\ Progress(r)
  BY DEF OrderInv
<1>7. Ranked(r, N, From(walk)', next', Safe', Linked', Awaited')
  BY <1>1, <1>2, <1>4, <1>6
<1>8. Progress(r)'
  BY <1>1, <1>4, <1>6 DEF Progress
<1>9. /\ at' # "idle" => before' \subseteq Safe' /\ visited' \subseteq Safe'
      /\ at' \in {"pid", "nice"} => walk' = "set_thread_priority"
  BY <1>1, <1>4 DEF OrderInv
<1> QED
  BY <1>5, <1>7, <1>8, <1>9 DEF OrderInv

LEMMA NextOrder == IInv /\ OrderInv /\ [Next]_vars => OrderInv'
BY BeginOrder, MoveOrder, StayOrder, EndOrder, ForkOrder, ExitOrder, SameOrder DEF Next, Walk

(* sys.c:41, iterateprocess.c:21, process.c:66: on a kernel that is not    *)
(* preemptible, however many tasks fork and exit meanwhile, an unlocked    *)
(* walk comes to none twice, to every one that was in the list all through *)
(* it, and ends where it began.                                            *)
THEOREM VisitsCorrect == Spec => []VisitsEachOnce
<1>1. OrderInv => VisitsEachOnce
  BY DEF OrderInv, VisitsEachOnce
<1> QED
  BY <1>1, InitOrder, NextOrder, Invariance, PTL DEF Spec
=============================================================================
