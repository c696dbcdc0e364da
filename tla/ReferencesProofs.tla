-------------------------- MODULE ReferencesProofs --------------------------
(***************************************************************************)
(* Proofs about References for any number of tasks that load exercises and *)
(* any bounds: what protects test_module from rmmod, when its count        *)
(* betrays it, and what an exercise leaves behind of its own task's.       *)
(***************************************************************************)
EXTENDS References, TLAPS

(* The count is exactly the kernel's own reference, what exercises took    *)
(* and what was given back by those that took none; nothing is left over   *)
(* when test_module goes.                                                  *)
CountInv ==
    /\ tm \in Nat /\ gen \in Nat /\ refcnt \in Nat
    /\ got \in Nat /\ stray \in Nat
    /\ tm = 0 => got = stray
    /\ tm # 0 => refcnt = 1 + got - stray

(* rmmod meets its BUG_ON with a count of 0, which nothing raises again.   *)
BugInv == bug => tm # 0 /\ refcnt = 0

IInv == CountInv /\ BugInv
---------------------------------------------------------------------------
LEMMA InitIInv == Init => IInv
<1>1. Init => CountInv
  BY DEF Init, CountInv
<1>2. Init => BugInv
  BY Zenon DEF Init, BugInv
<1> QED
  BY <1>1, <1>2 DEF IInv

(* The calls that touch only what belongs to the loading task.             *)
LEMMA OwnSteps ==
    ASSUME NEW l \in Loaders,
           (\E e \in Exercises : Insmod(l, e)) \/ GetOwn(l) \/ PutOwn(l) \/ UseIt(l)
               \/ FindModule(l) \/ Say(l) \/ Exit(l)
    PROVE  UNCHANGED module
BY Zenon DEF Insmod, GetOwn, PutOwn, UseIt, FindModule, Say, Exit

LEMMA NextIInv == IInv /\ [Next]_vars => IInv'
<1> SUFFICES ASSUME IInv, [Next]_vars PROVE IInv'
  OBVIOUS
<1> USE DEF IInv, CountInv, BugInv
<1>1. ASSUME UNCHANGED module PROVE IInv'
  BY <1>1 DEF module
<1>2. ASSUME NEW l \in Loaders, GetModule(l) PROVE IInv'
  BY <1>2 DEF GetModule
<1>3. ASSUME NEW l \in Loaders, PutModule(l) PROVE IInv'
  BY <1>3 DEF PutModule
<1>4. CASE InsmodTestModule
  <2>1. tm = 0 /\ bug' = bug
    BY <1>4 DEF InsmodTestModule
  <2>2. ~bug
    BY <2>1
  <2>3. BugInv'
    BY Zenon, <2>1, <2>2
  <2>4. CountInv'
    BY <1>4 DEF InsmodTestModule
  <2> QED
    BY <2>3, <2>4
<1>5. CASE RmmodTestModule
  <2>1. tm # 0 /\ refcnt <= 1 /\ refcnt' = refcnt /\ got' = got /\ stray' = stray /\ gen' = gen
    BY <1>5 DEF RmmodTestModule
  <2>2. CASE refcnt = 1
    <3>1. tm' = 0 /\ bug' = bug /\ ~bug
      BY <1>5, <2>2 DEF RmmodTestModule
    <3>2. BugInv'
      BY Zenon, <3>1
    <3> QED
      BY <2>1, <2>2, <3>1, <3>2
  <2>3. CASE refcnt # 1
    <3>1. tm' = tm
      BY <1>5, <2>3 DEF RmmodTestModule
    <3> QED
      BY <2>1, <2>3, <3>1
  <2> QED
    BY <2>2, <2>3
<1>6. CASE UNCHANGED vars
  BY <1>1, <1>6 DEF vars
<1>7. ASSUME NEW l \in Loaders, Load(l) PROVE IInv'
  <2>1. GetModule(l) \/ PutModule(l) \/ UNCHANGED module
    BY <1>7, OwnSteps DEF Load
  <2> QED
    BY <2>1, <1>1, <1>2, <1>3
<1> QED
  BY <1>4, <1>5, <1>6, <1>7 DEF Next

(* module_put.c, __symbol_get.c: the count of test_module is always what   *)
(* was taken less what was given back.                                     *)
THEOREM Invariance == Spec => []IInv
<1>1. Init => IInv
  BY InitIInv
<1>2. IInv /\ [Next]_vars => IInv'
  BY NextIInv
<1> QED
  BY <1>1, <1>2, PTL DEF Spec

(* module_put.c:21: rmmod meets its BUG_ON only after more stray puts than *)
(* references left behind.                                                 *)
THEOREM BugCorrect == Spec => []BugOnlyAfterStrayPuts
<1>1. IInv => BugOnlyAfterStrayPuts
  BY DEF IInv, CountInv, BugInv, BugOnlyAfterStrayPuts
<1> QED
  BY <1>1, Invariance, PTL

(* __symbol_get.c:24, symbol_put_addr.c:21: a reference that no stray put  *)
(* has taken away keeps test_module where it is.                           *)
THEOREM PinCorrect == Spec => ReferencesPinTestModule
<1>1. ASSUME IInv, Next, got > stray PROVE tm' = tm
  <2>1. ASSUME UNCHANGED module PROVE tm' = tm
    BY <2>1 DEF module
  <2>2. ASSUME NEW l \in Loaders, Load(l) PROVE tm' = tm
    <3>1. GetModule(l) \/ PutModule(l) \/ UNCHANGED module
      BY <2>2, OwnSteps DEF Load
    <3> QED
      BY <3>1, <2>1 DEF GetModule, PutModule
  <2>3. ~InsmodTestModule
    BY <1>1 DEF IInv, CountInv, InsmodTestModule
  <2>4. ~RmmodTestModule
    BY <1>1 DEF IInv, CountInv, RmmodTestModule
  <2> QED
    BY <1>1, <2>2, <2>3, <2>4 DEF Next
<1>2. IInv /\ [Next]_vars => [got > stray => tm' = tm]_vars
  BY <1>1
<1> QED
  BY <1>2, Invariance, PTL DEF Spec, ReferencesPinTestModule
---------------------------------------------------------------------------
(* What the exercises do with the pid and the memory of their task, read   *)
(* off the scripts.                                                        *)
PidOnly == {"find_get_pid", "pid_task", "pid_nr", "pid_vnr", "ns_of_pid", "find_pid_ns",
            "task_tgid_nr_ns", "task_active_pid_ns", "__task_pid_nr_ns"}
FindUse == {"find_module", "module_refcount", "sprint_symbol"}

LEMMA Scripts ==
    ASSUME NEW e \in Exercises
    PROVE  \/ e \in PidOnly          /\ Exercise[e] = << Get("pid"), Use("pid") >>
           \/ e = "get_pid"          /\ Exercise[e] = get_pid
           \/ e = "put_pid"          /\ Exercise[e] = put_pid
           \/ e = "find_vpid"        /\ Exercise[e] = find_vpid
           \/ e = "get_task_mm"      /\ Exercise[e] = get_task_mm
           \/ e = "mmput"            /\ Exercise[e] = mmput
           \/ e \in FindUse          /\ Exercise[e] = << Find, Use("module") >>
           \/ e = "module_put"       /\ Exercise[e] = module_put
           \/ e = "__symbol_get"     /\ Exercise[e] = __symbol_get
           \/ e = "try_module_get"   /\ Exercise[e] = try_module_get
           \/ e = "symbol_put_addr"  /\ Exercise[e] = symbol_put_addr
<1>1. e \in PidOnly \cup FindUse \cup {"get_pid", "put_pid", "find_vpid", "get_task_mm", "mmput",
            "module_put", "__symbol_get", "try_module_get", "symbol_put_addr"}
  BY DEF Exercises, Exercise, PidOnly, FindUse
<1>2. \A d \in PidOnly : Exercise[d] = << Get("pid"), Use("pid") >>
  BY DEF PidOnly, Exercise, find_get_pid, pid_task, pid_nr, pid_vnr, ns_of_pid, find_pid_ns,
         task_tgid_nr_ns, task_active_pid_ns, __task_pid_nr_ns
<1>3. \A d \in FindUse : Exercise[d] = << Find, Use("module") >>
  BY DEF FindUse, Exercise, find_module, module_refcount, sprint_symbol
<1>4. /\ Exercise["get_pid"] = get_pid /\ Exercise["put_pid"] = put_pid
      /\ Exercise["find_vpid"] = find_vpid /\ Exercise["get_task_mm"] = get_task_mm
      /\ Exercise["mmput"] = mmput /\ Exercise["module_put"] = module_put
      /\ Exercise["__symbol_get"] = __symbol_get /\ Exercise["try_module_get"] = try_module_get
      /\ Exercise["symbol_put_addr"] = symbol_put_addr
  BY DEF Exercise
<1> QED
  BY <1>1, <1>2, <1>3, <1>4

(* The calls of a script that take and give back what is the task's own.   *)
Takes(c, o) == c[1] = "get" /\ c[2] = o
Gives(c, o) == c[1] = "put" /\ c[2] = o
OfModule(c) == c[1] \in {"get", "find", "put"} /\ c[2] = "module"

LEMMA Calls ==
    ASSUME NEW e \in Exercises
    PROVE  /\ Len(Exercise[e]) \in Nat \ {0}
           /\ e = "put_pid" => Len(Exercise[e]) = 4
           /\ e = "get_task_mm" => Len(Exercise[e]) = 4
           /\ e = "mmput" => Len(Exercise[e]) = 6
           /\ \A k \in 1..Len(Exercise[e]) :
                 /\ Takes(Exercise[e][k], "pid") => e \in KeepsPid \/ (e = "put_pid" /\ k = 1)
                 /\ k = 1 /\ (e \in KeepsPid \/ e = "put_pid") => Takes(Exercise[e][k], "pid")
                 /\ Gives(Exercise[e][k], "pid") <=> e = "put_pid" /\ k = 3
                 /\ Takes(Exercise[e][k], "mm") <=> e \in {"get_task_mm", "mmput"} /\ k = 3
                 /\ Gives(Exercise[e][k], "mm") <=> e = "mmput" /\ k = 5
                 /\ OfModule(Exercise[e][k]) =>
                        e \notin KeepsPid /\ e \notin {"put_pid", "get_task_mm", "mmput"}
<1> DEFINE s == Exercise[e]
           Good(pid) ==
               /\ Len(s) \in Nat \ {0}
               /\ e = "put_pid" => Len(s) = 4
               /\ e = "get_task_mm" => Len(s) = 4
               /\ e = "mmput" => Len(s) = 6
               /\ \A k \in 1..Len(s) :
                     /\ Takes(s[k], "pid") => (pid /\ e # "put_pid") \/ (e = "put_pid" /\ k = 1)
                     /\ k = 1 /\ (pid \/ e = "put_pid") => Takes(s[k], "pid")
                     /\ Gives(s[k], "pid") <=> e = "put_pid" /\ k = 3
                     /\ Takes(s[k], "mm") <=> e \in {"get_task_mm", "mmput"} /\ k = 3
                     /\ Gives(s[k], "mm") <=> e = "mmput" /\ k = 5
                     /\ OfModule(s[k]) => ~pid /\ e \notin {"put_pid", "get_task_mm", "mmput"}
<1>1. e \in KeepsPid <=> s[1] = Get("pid") /\ e # "put_pid"
  BY DEF KeepsPid
<1> USE DEF Takes, Gives, OfModule, Get, Put, Use, Find, SayNotFound
<1>2. CASE e \in PidOnly /\ s = << Get("pid"), Use("pid") >>
  <2>1. Good(TRUE) /\ s[1] = Get("pid")
    BY <1>2 DEF PidOnly
  <2> QED
    BY <1>1, <2>1
<1>3. CASE e \in FindUse /\ s = << Find, Use("module") >>
  <2>1. Good(FALSE) /\ s[1] # Get("pid")
    BY <1>3 DEF FindUse
  <2> QED
    BY <1>1, <2>1
<1>4. CASE e = "get_pid" /\ s = get_pid
  <2>1. Good(TRUE) /\ s[1] = Get("pid")
    BY <1>4 DEF get_pid
  <2> QED
    BY <1>1, <2>1
<1>5. CASE e = "put_pid" /\ s = put_pid
  <2>1. Good(TRUE) /\ s[1] = Get("pid")
    BY <1>5 DEF put_pid
  <2> QED
    BY <1>1, <2>1
<1>6. CASE e = "find_vpid" /\ s = find_vpid
  <2>1. Good(FALSE) /\ s[1] # Get("pid")
    BY <1>6 DEF find_vpid
  <2> QED
    BY <1>1, <2>1
<1>7. CASE e = "get_task_mm" /\ s = get_task_mm
  <2>1. Good(TRUE) /\ s[1] = Get("pid")
    BY <1>7 DEF get_task_mm
  <2> QED
    BY <1>1, <2>1
<1>8. CASE e = "mmput" /\ s = mmput
  <2>1. Good(TRUE) /\ s[1] = Get("pid")
    BY <1>8 DEF mmput
  <2> QED
    BY <1>1, <2>1
<1>9. CASE e = "module_put" /\ s = module_put
  <2>1. Good(FALSE) /\ s[1] # Get("pid")
    BY <1>9 DEF module_put
  <2> QED
    BY <1>1, <2>1
<1>10. CASE e = "__symbol_get" /\ s = __symbol_get
  <2>1. Good(FALSE) /\ s[1] # Get("pid")
    BY <1>10 DEF __symbol_get
  <2> QED
    BY <1>1, <2>1
<1>11. CASE e = "try_module_get" /\ s = try_module_get
  <2>1. Good(FALSE) /\ s[1] # Get("pid")
    BY <1>11 DEF try_module_get
  <2> QED
    BY <1>1, <2>1
<1>12. CASE e = "symbol_put_addr" /\ s = symbol_put_addr
  <2>1. Good(FALSE) /\ s[1] # Get("pid")
    BY <1>12 DEF symbol_put_addr
  <2> QED
    BY <1>1, <2>1
<1> QED
  BY <1>2, <1>3, <1>4, <1>5, <1>6, <1>7, <1>8, <1>9, <1>10, <1>11, <1>12, Scripts
---------------------------------------------------------------------------
(* A loading task's own counts, by where it is in its script.              *)
Held(e, k, pid, mm) ==
    /\ pid \in Nat /\ mm \in Nat
    /\ e \in KeepsPid => pid >= IF k > 1 THEN 2 ELSE 1
    /\ e \notin KeepsPid => pid = IF e = "put_pid" /\ k \in {2, 3} THEN 2 ELSE 1
    /\ mm = IF (e = "get_task_mm" /\ k > 3) \/ (e = "mmput" /\ k \in {4, 5}) THEN 2 ELSE 1

OwnTypes ==
    /\ prog \in [Loaders -> Exercises \cup {"none"}]
    /\ at \in [Loaders -> Nat]
    /\ own \in [Loaders -> [Own -> Nat]]
    /\ ptr \in [Loaders -> 0..MaxGens]
    /\ tm \in {0, gen} /\ gen \in 0..MaxGens

OwnInv ==
    /\ OwnTypes
    /\ \A l \in Loaders :
          at[l] # 0 => prog[l] \in Exercises /\ Held(prog[l], at[l], own[l]["pid"], own[l]["mm"])

LEMMA InitOwn == Init => OwnInv
BY ReferencesAssumption DEF Init, OwnInv, OwnTypes

(* Only one task moves at a time.                                          *)
LEMMA OthersKeep ==
    ASSUME OwnInv, NEW l \in Loaders, OwnTypes',
           \A m \in Loaders : m # l => prog'[m] = prog[m] /\ at'[m] = at[m] /\ own'[m] = own[m],
           at'[l] # 0 => prog'[l] \in Exercises /\ Held(prog'[l], at'[l], own'[l]["pid"], own'[l]["mm"])
    PROVE  OwnInv'
BY DEF OwnInv

(* One of a task's counts is set.                                          *)
LEMMA CountSet ==
    ASSUME NEW f \in [Loaders -> [Own -> Nat]], NEW l \in Loaders, NEW o \in Own, NEW v,
           NEW g, g = [f EXCEPT ![l][o] = v]
    PROVE  g[l][o] = v /\ (v \in Nat => g \in [Loaders -> [Own -> Nat]])
<1>1. [f EXCEPT ![l][o] = v] = [f EXCEPT ![l] = [f[l] EXCEPT ![o] = v]]
  OBVIOUS
<1>2. [f[l] EXCEPT ![o] = v][o] = v /\ (v \in Nat => [f[l] EXCEPT ![o] = v] \in [Own -> Nat])
  OBVIOUS
<1> QED
  BY <1>1, <1>2

(* One call of the script.                                                 *)
LEMMA OneCall ==
    ASSUME OwnInv, NEW l \in Loaders, at[l] # 0, at[l] <= Len(Script(l)),
           prog' = prog, Advance(l), ptr' \in [Loaders -> 0..MaxGens], UNCHANGED <<tm, gen>>,
           LET c == Script(l)[at[l]] IN
               \/ own' = own /\ c[1] \notin {"get", "put"}
               \/ own' = own /\ c[2] = "module" /\ c[1] \in {"get", "put", "find"}
               \/ c[1] = "get" /\ c[2] \in Own /\ own' = [own EXCEPT ![l][c[2]] = @ + 1]
               \/ c[1] = "put" /\ c[2] \in Own /\ own' = [own EXCEPT ![l][c[2]] = @ - 1]
    PROVE  OwnInv'
<1> DEFINE e == prog[l]
           k == at[l]
           c == Exercise[e][k]
           pid == own[l]["pid"]
           mm == own[l]["mm"]
<1>1. OwnTypes /\ e \in Exercises /\ k \in Nat \ {0} /\ Held(e, k, pid, mm)
  BY DEF OwnInv, OwnTypes
<1>2. own \in [Loaders -> [Own -> Nat]] /\ own[l] \in [Own -> Nat]
      /\ at' = [at EXCEPT ![l] = k + 1] /\ at \in [Loaders -> Nat]
  BY <1>1 DEF OwnTypes, Advance
<1>3. /\ Len(Exercise[e]) \in Nat \ {0} /\ k \in 1..Len(Exercise[e])
      /\ e = "put_pid" => Len(Exercise[e]) = 4
      /\ e = "get_task_mm" => Len(Exercise[e]) = 4
      /\ e = "mmput" => Len(Exercise[e]) = 6
  <2>1. k <= Len(Exercise[e])
    BY DEF Script
  <2> HIDE DEF e, k
  <2> QED
    BY <1>1, <2>1, Calls
<1>4. /\ Takes(c, "pid") => e \in KeepsPid \/ (e = "put_pid" /\ k = 1)
      /\ k = 1 /\ (e \in KeepsPid \/ e = "put_pid") => Takes(c, "pid")
      /\ Gives(c, "pid") <=> e = "put_pid" /\ k = 3
      /\ Takes(c, "mm") <=> e \in {"get_task_mm", "mmput"} /\ k = 3
      /\ Gives(c, "mm") <=> e = "mmput" /\ k = 5
  <2> HIDE DEF e, k
  <2> QED
    BY <1>1, <1>3, Calls
<1>5. \/ own' = own /\ ~Takes(c, "pid") /\ ~Takes(c, "mm") /\ ~Gives(c, "pid") /\ ~Gives(c, "mm")
      \/ Takes(c, "pid") /\ own' = [own EXCEPT ![l]["pid"] = @ + 1]
      \/ Takes(c, "mm")  /\ own' = [own EXCEPT ![l]["mm"] = @ + 1]
      \/ Gives(c, "pid") /\ own' = [own EXCEPT ![l]["pid"] = @ - 1]
      \/ Gives(c, "mm")  /\ own' = [own EXCEPT ![l]["mm"] = @ - 1]
  BY DEF Script, Own, Takes, Gives
<1>6. \/ own'[l]["pid"] = pid /\ own'[l]["mm"] = mm
             /\ ~Takes(c, "pid") /\ ~Takes(c, "mm") /\ ~Gives(c, "pid") /\ ~Gives(c, "mm")
      \/ Takes(c, "pid") /\ own'[l]["pid"] = pid + 1 /\ own'[l]["mm"] = mm
      \/ Takes(c, "mm")  /\ own'[l]["mm"] = mm + 1 /\ own'[l]["pid"] = pid
      \/ Gives(c, "pid") /\ own'[l]["pid"] = pid - 1 /\ own'[l]["mm"] = mm
      \/ Gives(c, "mm")  /\ own'[l]["mm"] = mm - 1 /\ own'[l]["pid"] = pid
  BY <1>2, <1>5 DEF Own
<1>7. \A m \in Loaders : m # l => own'[m] = own[m] /\ at'[m] = at[m]
  BY <1>2, <1>5
<1>8. at'[l] = k + 1
  BY <1>2
<1>9. ~(Takes(c, "pid") /\ Takes(c, "mm")) /\ ~(Takes(c, "pid") /\ Gives(c, "pid"))
      /\ ~(Takes(c, "pid") /\ Gives(c, "mm")) /\ ~(Takes(c, "mm") /\ Gives(c, "pid"))
      /\ ~(Takes(c, "mm") /\ Gives(c, "mm")) /\ ~(Gives(c, "pid") /\ Gives(c, "mm"))
  BY DEF Takes, Gives
<1>10. e \in {"put_pid", "get_task_mm", "mmput"} => (e \in KeepsPid <=> e # "put_pid")
  BY DEF KeepsPid, Exercises, Exercise, get_task_mm, mmput
<1>11. Held(e, k + 1, own'[l]["pid"], own'[l]["mm"])
  <2> HIDE DEF e, k, c, pid, mm
  <2> DEFINE p1 == own'[l]["pid"]
             m1 == own'[l]["mm"]
  <2>1. /\ pid \in Nat /\ mm \in Nat /\ k \in Nat \ {0}
        /\ e \in KeepsPid => pid >= IF k > 1 THEN 2 ELSE 1
        /\ e \notin KeepsPid => pid = IF e = "put_pid" /\ k \in {2, 3} THEN 2 ELSE 1
        /\ mm = IF (e = "get_task_mm" /\ k > 3) \/ (e = "mmput" /\ k \in {4, 5}) THEN 2 ELSE 1
    BY <1>1 DEF Held
  <2>2. \/ p1 = pid /\ m1 = mm /\ ~Takes(c, "pid") /\ ~Takes(c, "mm") /\ ~Gives(c, "pid") /\ ~Gives(c, "mm")
        \/ Takes(c, "pid") /\ p1 = pid + 1 /\ m1 = mm
        \/ Takes(c, "mm")  /\ m1 = mm + 1 /\ p1 = pid
        \/ Gives(c, "pid") /\ p1 = pid - 1 /\ m1 = mm
        \/ Gives(c, "mm")  /\ m1 = mm - 1 /\ p1 = pid
    BY <1>6
  <2> HIDE DEF p1, m1
  <2>3. /\ p1 \in Nat
        /\ e \in KeepsPid => p1 >= 2
        /\ e \notin KeepsPid => p1 = IF e = "put_pid" /\ k + 1 \in {2, 3} THEN 2 ELSE 1
    BY <1>4, <1>9, <1>10, <2>1, <2>2
  <2>4. m1 \in Nat /\ m1 = IF (e = "get_task_mm" /\ k + 1 > 3) \/ (e = "mmput" /\ k + 1 \in {4, 5}) THEN 2 ELSE 1
    BY <1>3, <1>4, <1>9, <2>1, <2>2
  <2>5. Held(e, k + 1, p1, m1)
    BY <2>1, <2>3, <2>4 DEF Held
  <2> QED
    BY <2>5 DEF p1, m1
<1>12. own' \in [Loaders -> [Own -> Nat]]
  <2>1. /\ own'[l]["pid"] \in Nat /\ own'[l]["mm"] \in Nat
    BY <1>11 DEF Held
  <2>2. own' = own \/ \E o \in Own : \E v : own' = [own EXCEPT ![l][o] = v]
    BY <1>5, Zenon DEF Own
  <2>3. ASSUME NEW o \in Own, NEW v, own' = [own EXCEPT ![l][o] = v]
        PROVE  own' \in [Loaders -> [Own -> Nat]]
    <3>1. own'[l][o] = v /\ (v \in Nat => own' \in [Loaders -> [Own -> Nat]])
      BY <1>2, <2>3, CountSet
    <3>2. v \in Nat
      BY <2>1, <3>1 DEF Own
    <3> QED
      BY <3>1, <3>2
  <2> QED
    BY <1>2, <2>2, <2>3
<1>13. OwnTypes'
  <2>1. k + 1 \in Nat
    BY <1>1
  <2> HIDE DEF k
  <2>2. at' \in [Loaders -> Nat]
    BY <1>2, <2>1
  <2>3. prog' \in [Loaders -> Exercises \cup {"none"}] /\ tm' \in {0, gen'} /\ gen' \in 0..MaxGens
    BY <1>1 DEF OwnTypes
  <2> QED
    BY <1>12, <2>2, <2>3, Zenon DEF OwnTypes
<1>14. prog'[l] = e /\ e \in Exercises /\ Held(e, at'[l], own'[l]["pid"], own'[l]["mm"])
  BY <1>1, <1>8, <1>11
<1> HIDE DEF e, k, c, pid, mm
<1> QED
  BY <1>7, <1>13, <1>14, OthersKeep

LEMMA InsmodOwn ==
    ASSUME OwnInv, NEW l \in Loaders, NEW e \in Exercises, Insmod(l, e)
    PROVE  OwnInv'
<1>1. /\ prog' = [prog EXCEPT ![l] = e] /\ at' = [at EXCEPT ![l] = 1]
      /\ own' = [own EXCEPT ![l] = [o \in Own |-> 1]] /\ ptr' = [ptr EXCEPT ![l] = 0]
      /\ UNCHANGED <<tm, gen>>
  BY DEF Insmod, module
<1>2. OwnTypes /\ 0 \in 0..MaxGens
  BY ReferencesAssumption DEF OwnInv
<1>3. OwnTypes'
  BY <1>1, <1>2 DEF OwnTypes
<1>4. /\ \A m \in Loaders : m # l => prog'[m] = prog[m] /\ at'[m] = at[m] /\ own'[m] = own[m]
      /\ prog'[l] = e /\ at'[l] = 1 /\ own'[l]["pid"] = 1 /\ own'[l]["mm"] = 1
  BY <1>1, <1>2 DEF OwnTypes, Own
<1>5. Held(e, 1, 1, 1)
  BY DEF Held
<1> QED
  BY <1>3, <1>4, <1>5, OthersKeep

(* An exercise that works on test_module keeps nothing of its task's own,  *)
(* wherever it ends.                                                       *)
LEMMA GiveUpOwn ==
    ASSUME OwnInv, NEW l \in Loaders, at[l] # 0, at[l] <= Len(Script(l)), OfModule(Script(l)[at[l]]),
           GiveUp(l), UNCHANGED <<prog, own, tm, gen>>, ptr' \in [Loaders -> 0..MaxGens]
    PROVE  OwnInv'
<1> DEFINE e == prog[l]
           k == at[l]
           n == Len(Exercise[e])
<1>1. OwnTypes /\ e \in Exercises /\ k \in Nat \ {0} /\ Held(e, k, own[l]["pid"], own[l]["mm"])
  BY DEF OwnInv, OwnTypes
<1>2. k <= n /\ OfModule(Exercise[e][k]) /\ at' = [at EXCEPT ![l] = n + 1]
  BY DEF Script, GiveUp
<1> HIDE DEF e, k
<1>3. n \in Nat \ {0}
  BY <1>1, Calls
<1> HIDE DEF n
<1>4. k \in 1..Len(Exercise[e])
  BY <1>1, <1>2, <1>3 DEF n
<1>5. e \notin KeepsPid /\ e \notin {"put_pid", "get_task_mm", "mmput"}
  BY <1>1, <1>2, <1>4, Calls
<1>6. Held(e, n + 1, own[l]["pid"], own[l]["mm"])
  BY <1>1, <1>5 DEF Held
<1>7. OwnTypes'
  BY <1>1, <1>2, <1>3 DEF OwnTypes
<1>8. at'[l] = n + 1 /\ \A m \in Loaders : m # l => at'[m] = at[m]
  BY <1>1, <1>2 DEF OwnTypes
<1>9. prog'[l] \in Exercises /\ Held(prog'[l], at'[l], own'[l]["pid"], own'[l]["mm"])
  BY <1>1, <1>6, <1>8 DEF e
<1> QED
  BY <1>7, <1>8, <1>9, OthersKeep

LEMMA ExitOwn ==
    ASSUME OwnInv, NEW l \in Loaders, Exit(l)
    PROVE  /\ OwnInv'
           /\ own'[l].mm > 0 <=> prog[l] = "get_task_mm"
           /\ own'[l].pid > 0 <=> prog[l] \in KeepsPid
<1> DEFINE e == prog[l]
           k == at[l]
<1>1. /\ OwnTypes /\ e \in Exercises /\ k \in Nat \ {0} /\ Held(e, k, own[l]["pid"], own[l]["mm"])
      /\ own[l] \in [Own -> Nat]
  BY DEF OwnInv, OwnTypes, Exit
<1>2. /\ prog' = [prog EXCEPT ![l] = "none"] /\ at' = [at EXCEPT ![l] = 0]
      /\ ptr' = [ptr EXCEPT ![l] = 0] /\ UNCHANGED <<tm, gen>>
      /\ own' = [own EXCEPT ![l] = [o \in Own |-> own[l][o] - 1]]
  BY DEF Exit, module
<1>3. k > Len(Exercise[e])
  BY DEF Exit, Script
<1> HIDE DEF e, k
<1>4. /\ Len(Exercise[e]) \in Nat \ {0}
      /\ e = "put_pid" => Len(Exercise[e]) = 4
      /\ e = "get_task_mm" => Len(Exercise[e]) = 4
      /\ e = "mmput" => Len(Exercise[e]) = 6
  BY <1>1, Calls
<1>5. /\ k > 1 /\ (e = "put_pid" => k > 4) /\ (e = "get_task_mm" => k > 3) /\ (e = "mmput" => k > 5)
  <2> DEFINE n == Len(Exercise[e])
  <2>1. /\ n \in Nat \ {0} /\ k > n /\ k \in Nat
        /\ e = "put_pid" => n = 4
        /\ e = "get_task_mm" => n = 4
        /\ e = "mmput" => n = 6
    BY <1>1, <1>3, <1>4
  <2> HIDE DEF n
  <2> QED
    BY <2>1
<1>6. \A o \in Own : own[l][o] \in Nat \ {0}
  BY <1>1 DEF Held, Own
<1>7. own'[l]["pid"] = own[l]["pid"] - 1 /\ own'[l]["mm"] = own[l]["mm"] - 1
  BY <1>1, <1>2 DEF OwnTypes, Own
<1>8. own' \in [Loaders -> [Own -> Nat]]
  <2>1. [o \in Own |-> own[l][o] - 1] \in [Own -> Nat]
    BY <1>6
  <2> QED
    BY <1>1, <1>2, <2>1 DEF OwnTypes
<1>9. OwnTypes'
  <2>1. 0 \in 0..MaxGens
    BY ReferencesAssumption
  <2>2. at' \in [Loaders -> Nat] /\ ptr' \in [Loaders -> 0..MaxGens]
    BY <1>1, <1>2, <2>1 DEF OwnTypes
  <2>3. prog' \in [Loaders -> Exercises \cup {"none"}] /\ tm' \in {0, gen'} /\ gen' \in 0..MaxGens
    BY <1>1, <1>2 DEF OwnTypes
  <2> QED
    BY <1>8, <2>2, <2>3 DEF OwnTypes
<1>10. OwnInv'
  <2>1. at'[l] = 0 /\ \A m \in Loaders : m # l => prog'[m] = prog[m] /\ at'[m] = at[m] /\ own'[m] = own[m]
    BY <1>1, <1>2 DEF OwnTypes
  <2> QED
    BY <1>9, <2>1, OthersKeep
<1>11. own'[l]["mm"] > 0 <=> e = "get_task_mm"
  BY <1>1, <1>5, <1>7 DEF Held
<1>12. own'[l]["pid"] > 0 <=> e \in KeepsPid
  <2>1. own[l]["pid"] \in Nat /\ (e \in KeepsPid => own[l]["pid"] >= 2) /\ (e \notin KeepsPid => own[l]["pid"] = 1)
    BY <1>1, <1>5 DEF Held
  <2> QED
    BY <1>7, <2>1
<1> QED
  BY <1>10, <1>11, <1>12 DEF e

LEMMA LoadOwn ==
    ASSUME OwnInv, NEW l \in Loaders, Load(l)
    PROVE  OwnInv'
<1>1. ptr \in [Loaders -> 0..MaxGens] /\ tm \in 0..MaxGens
  BY ReferencesAssumption DEF OwnInv, OwnTypes
<1>2. CASE GetOwn(l)
  BY <1>1, <1>2, OneCall DEF GetOwn, At, Object, module
<1>3. CASE PutOwn(l)
  BY <1>1, <1>3, OneCall DEF PutOwn, At, Object, module
<1>4. CASE UseIt(l)
  BY <1>1, <1>4, OneCall DEF UseIt, At, module
<1>5. CASE Say(l)
  BY <1>1, <1>5, OneCall DEF Say, At, module
<1>6. CASE PutModule(l)
  BY <1>1, <1>6, OneCall DEF PutModule, At
<1>7. CASE GetModule(l)
  <2>1. CASE Advance(l)
    BY <1>1, <1>7, <2>1, OneCall DEF GetModule, At
  <2>2. CASE GiveUp(l)
    BY <1>1, <1>7, <2>2, GiveUpOwn DEF GetModule, At, OfModule
  <2> QED
    BY <1>7, <2>1, <2>2 DEF GetModule
<1>8. CASE FindModule(l)
  <2>1. ptr' \in [Loaders -> 0..MaxGens]
    BY <1>1, <1>8 DEF FindModule
  <2>2. CASE Advance(l)
    BY <1>8, <2>1, <2>2, OneCall DEF FindModule, At, module
  <2>3. CASE GiveUp(l)
    BY <1>8, <2>1, <2>3, GiveUpOwn DEF FindModule, At, OfModule, module
  <2> QED
    BY <1>8, <2>2, <2>3 DEF FindModule
<1> QED
  BY <1>2, <1>3, <1>4, <1>5, <1>6, <1>7, <1>8, InsmodOwn, ExitOwn DEF Load

LEMMA NextOwn == OwnInv /\ [Next]_vars => OwnInv'
<1> SUFFICES ASSUME OwnInv, [Next]_vars PROVE OwnInv'
  OBVIOUS
<1>1. CASE InsmodTestModule \/ RmmodTestModule \/ UNCHANGED vars
  <2>1. UNCHANGED <<prog, at, own, ptr>>
    BY <1>1 DEF InsmodTestModule, RmmodTestModule, vars, loading
  <2>2. tm' \in {0, gen'} /\ gen' \in 0..MaxGens
    BY <1>1, ReferencesAssumption
    DEF InsmodTestModule, RmmodTestModule, vars, module, OwnInv, OwnTypes
  <2> QED
    BY <2>1, <2>2 DEF OwnInv, OwnTypes
<1> QED
  BY <1>1, LoadOwn DEF Next

(* The exercises' init functions: the variables keep their types, and no   *)
(* count of a task's own falls below zero.                                 *)
THEOREM TypeCorrect == Spec => []TypeOK
<1>1. Init => bug \in BOOLEAN
  BY DEF Init
<1>2. bug \in BOOLEAN /\ [Next]_vars => (bug \in BOOLEAN)'
  <2> SUFFICES ASSUME bug \in BOOLEAN, [Next]_vars PROVE bug' \in BOOLEAN
    OBVIOUS
  <2>1. bug' = bug \/ bug' = TRUE
    <3>1. ASSUME NEW l \in Loaders, Load(l) PROVE bug' = bug
      BY <3>1, Zenon DEF Load, Insmod, GetOwn, PutOwn, UseIt, GetModule, FindModule, Say,
                         PutModule, Exit, module
    <3> QED
      BY <3>1, Zenon DEF Next, InsmodTestModule, RmmodTestModule, vars, module
  <2> QED
    BY <2>1
<1>3. OwnInv /\ IInv /\ bug \in BOOLEAN => TypeOK
  BY ReferencesAssumption DEF OwnInv, OwnTypes, IInv, CountInv, TypeOK
<1> QED
  BY <1>1, <1>2, <1>3, InitOwn, NextOwn, Invariance, PTL DEF Spec

(* put_pid.c:27, mmput.c:34 and the exercises without such a call: which   *)
(* of them leak the memory or the struct pid of the task that loads them.  *)
THEOREM FreedCorrect == Spec => FreedAtExit
<1>1. ASSUME OwnInv, [Next]_vars, NEW l \in Loaders, at[l] # 0, at'[l] = 0
      PROVE  Exit(l)
  <2>1. at[l] \in Nat /\ at \in [Loaders -> Nat] /\ at' # at
    BY <1>1 DEF OwnInv, OwnTypes
  <2>2. PICK m \in Loaders : Load(m)
    BY <1>1, <2>1 DEF Next, InsmodTestModule, RmmodTestModule, vars, loading
  <2>3. /\ Advance(m) => at'[m] # 0
        /\ GiveUp(m) => at'[m] # 0
        /\ m # l => ~Advance(m) /\ ~GiveUp(m)
        /\ \A e \in Exercises : ~(Insmod(m, e) /\ (m # l \/ at'[m] = 0))
    <3>1. at[m] \in Nat
      BY <2>1
    <3>2. Advance(m) => at' = [at EXCEPT ![m] = at[m] + 1]
      BY DEF Advance
    <3> QED
      BY <1>1, <2>1, <3>1, <3>2 DEF GiveUp, Insmod
  <2> QED
    BY <1>1, <2>1, <2>2, <2>3 DEF Load, Exit, GetOwn, PutOwn, UseIt, GetModule, FindModule, Say, PutModule
<1>2. OwnInv /\ [Next]_vars =>
         [\A l \in Loaders :
            at[l] # 0 /\ at'[l] = 0 =>
              /\ own'[l].mm > 0 <=> prog[l] = "get_task_mm"
              /\ own'[l].pid > 0 <=> prog[l] \in KeepsPid]_vars
  BY <1>1, ExitOwn
<1> QED
  BY <1>2, InitOwn, NextOwn, PTL DEF Spec, FreedAtExit
=============================================================================
