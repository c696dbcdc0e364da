----------------------------- MODULE References -----------------------------
(***************************************************************************)
(* The exercises in reference counting: small modules whose init function  *)
(* takes, gives back and uses references to the struct pid and the memory  *)
(* of the insmod task that loads them, or to test_module.  Several tasks   *)
(* load exercises side by side while test_module comes and goes.           *)
(*                                                                         *)
(* The counts and what the kernel does with them (find_get_pid, get_pid,   *)
(* put_pid, get_task_mm, mmput, find_module, __symbol_get, module_put,     *)
(* rmmod) are the kernel's, modelled as the exercises use them.            *)
(***************************************************************************)
EXTENDS Integers, Sequences, FiniteSets

CONSTANTS Loaders,   (* tasks that load exercises                           *)
          MaxRefs,   (* bound: references taken to one test_module      *)
          MaxGens    (* bound: times test_module is loaded                  *)

ASSUME ReferencesAssumption ==
    Loaders # {} /\ MaxRefs \in Nat \ {0} /\ MaxGens \in Nat \ {0}

(* What an init function does, call by call.  Printing a field is a use.   *)
Get(obj) == <<"get", obj>>
Put(obj) == <<"put", obj>>
Use(obj) == <<"use", obj>>
Find     == <<"find", "module">>
(* "find test_module failed!" is printed.                                  *)
SayNotFound == <<"say", "module">>

(* Faulty variant: put_pid is called twice.                                *)
put_pid_twice == << Get("pid"), Use("pid"), Put("pid"), Put("pid"), Use("pid") >>

find_get_pid       == << Get("pid"), Use("pid") >>
get_pid            == << Get("pid"), Use("pid"), Get("pid"), Use("pid"), Get("pid"), Use("pid") >>
put_pid            == << Get("pid"), Use("pid"), Put("pid"), Use("pid") >>
pid_task           == << Get("pid"), Use("pid") >>
pid_nr             == << Get("pid"), Use("pid") >>
pid_vnr            == << Get("pid"), Use("pid") >>
ns_of_pid          == << Get("pid"), Use("pid") >>
find_pid_ns        == << Get("pid"), Use("pid") >>
task_tgid_nr_ns    == << Get("pid"), Use("pid") >>
task_active_pid_ns == << Get("pid"), Use("pid") >>
__task_pid_nr_ns   == << Get("pid"), Use("pid") >>
find_vpid          == << Use("pid") >>
get_task_mm        == << Get("pid"), Use("pid"), Get("mm"), Use("mm") >>

(* Faulty variant: without mmput.                                          *)
mmput_without == << Get("pid"), Use("pid"), Get("mm"), Use("mm") >>
mmput              == << Get("pid"), Use("pid"), Get("mm"), Use("mm"), Put("mm"), Use("mm") >>

(* find_module goes on to do the same with cuse, a module of the kernel's  *)
(* own, which is left out.                                                 *)
find_module     == << Find, Use("module") >>
module_refcount == << Find, Use("module") >>
sprint_symbol   == << Find, Use("module") >>
module_put      == << Find, Use("module"), Put("module"), Use("module") >>
__symbol_get    == << Get("module") >>
(* Both test NULL != NULL after find_module, so the branch that would use  *)
(* what was found is dead.                                                 *)
try_module_get  == << Find, SayNotFound >>
symbol_put_addr == << Get("module"), Find, SayNotFound >>

Exercise ==
    [find_get_pid |-> find_get_pid, get_pid |-> get_pid, put_pid |-> put_pid,
     pid_task |-> pid_task, pid_nr |-> pid_nr, pid_vnr |-> pid_vnr, ns_of_pid |-> ns_of_pid,
     find_pid_ns |-> find_pid_ns, task_tgid_nr_ns |-> task_tgid_nr_ns,
     task_active_pid_ns |-> task_active_pid_ns, __task_pid_nr_ns |-> __task_pid_nr_ns,
     find_vpid |-> find_vpid, get_task_mm |-> get_task_mm, mmput |-> mmput,
     find_module |-> find_module, module_refcount |-> module_refcount,
     sprint_symbol |-> sprint_symbol, module_put |-> module_put,
     __symbol_get |-> __symbol_get, try_module_get |-> try_module_get,
     symbol_put_addr |-> symbol_put_addr]

Exercises == DOMAIN Exercise
Own == {"pid", "mm"}    (* objects of the loading task                      *)

VARIABLES
    prog,    (* the exercise a task loads                                   *)
    at,      (* the next call of its init; 0 when the task has exited       *)
    own,     (* the counts of the task's pid and mm                         *)
    ptr,     (* the test_module that find_module returned to it             *)
    tm,      (* the test_module that is loaded, by number; 0 when none is   *)
    gen,     (* how often it has been loaded                                *)
    refcnt,  (* its reference count; the kernel's own reference is 1        *)
    got,     (* history: references exercises took to this test_module      *)
    stray,   (* history: references given back by one that took none        *)
    bug      (* rmmod ran into BUG_ON: the count was below its own 1        *)

loading == <<prog, at, own, ptr>>
module  == <<tm, gen, refcnt, got, stray, bug>>
vars    == <<loading, module>>

Init ==
    /\ prog = [l \in Loaders |-> "none"]
    /\ at = [l \in Loaders |-> 0]
    /\ own = [l \in Loaders |-> [o \in Own |-> 0]]
    /\ ptr = [l \in Loaders |-> 0]
    /\ tm = 0 /\ gen = 0 /\ refcnt = 0 /\ got = 0 /\ stray = 0 /\ bug = FALSE
---------------------------------------------------------------------------
(* A new insmod task: the kernel holds one reference to its pid and mm.    *)
(* One task at a time loads a given module.                                *)
Insmod(l, e) ==
    /\ at[l] = 0
    /\ Exercise[e][1] = Get("module") => got < MaxRefs
    /\ \A m \in Loaders : at[m] # 0 => prog[m] # e
    /\ prog' = [prog EXCEPT ![l] = e]
    /\ at' = [at EXCEPT ![l] = 1]
    /\ own' = [own EXCEPT ![l] = [o \in Own |-> 1]]
    /\ ptr' = [ptr EXCEPT ![l] = 0]
    /\ UNCHANGED module

Script(l) == Exercise[prog[l]]
At(l, op, objs) ==
    /\ at[l] # 0 /\ at[l] <= Len(Script(l))
    /\ Script(l)[at[l]][1] = op /\ Script(l)[at[l]][2] \in objs
Object(l) == Script(l)[at[l]][2]
Advance(l) == at' = [at EXCEPT ![l] = @ + 1]
GiveUp(l)  == at' = [at EXCEPT ![l] = Len(Script(l)) + 1]

GetOwn(l) ==
    /\ At(l, "get", Own)
    /\ own' = [own EXCEPT ![l][Object(l)] = @ + 1]
    /\ Advance(l)
    /\ UNCHANGED <<prog, ptr, module>>

PutOwn(l) ==
    /\ At(l, "put", Own)
    /\ own' = [own EXCEPT ![l][Object(l)] = @ - 1]
    /\ Advance(l)
    /\ UNCHANGED <<prog, ptr, module>>

UseIt(l) ==
    /\ At(l, "use", Own \cup {"module"})
    /\ Advance(l)
    /\ UNCHANGED <<prog, own, ptr, module>>

(* Faulty variant: find_symbol, which takes no reference.                  *)
GetModuleUnheld(l) ==
    /\ At(l, "get", {"module"})
    /\ IF tm # 0 /\ refcnt > 0
       THEN got' = got + 1 /\ Advance(l)
       ELSE UNCHANGED got /\ GiveUp(l)
    /\ UNCHANGED <<prog, own, ptr, tm, gen, refcnt, stray, bug>>

(* __symbol_get: fails when there is no test_module, or one whose count is 0. *)
GetModule(l) ==
    /\ At(l, "get", {"module"})
    /\ IF tm # 0 /\ refcnt > 0
       THEN refcnt' = refcnt + 1 /\ got' = got + 1 /\ Advance(l)
       ELSE UNCHANGED <<refcnt, got>> /\ GiveUp(l)
    /\ UNCHANGED <<prog, own, ptr, tm, gen, stray, bug>>

(* find_module takes no reference; without test_module init says so and ends. *)
FindModule(l) ==
    /\ At(l, "find", {"module"})
    /\ ptr' = [ptr EXCEPT ![l] = tm]
    /\ IF tm # 0 THEN Advance(l) ELSE GiveUp(l)
    /\ UNCHANGED <<prog, own, module>>

Say(l) ==
    /\ At(l, "say", {"module"})
    /\ Advance(l)
    /\ UNCHANGED <<prog, own, ptr, module>>

(* module_put on what was found; the count stops at 0.  If that is gone    *)
(* meanwhile it writes to freed memory, where the next test_module may be. *)
PutModule(l) ==
    /\ At(l, "put", {"module"})
    /\ \/ /\ tm # 0 /\ refcnt > 0
          /\ refcnt' = refcnt - 1 /\ stray' = stray + 1
       \/ /\ ptr[l] # tm \/ refcnt = 0
          /\ UNCHANGED <<refcnt, stray>>
    /\ Advance(l)
    /\ UNCHANGED <<prog, own, ptr, tm, gen, got, bug>>

(* init returns and the task exits: the kernel lets its pid and mm go.     *)
Exit(l) ==
    /\ at[l] # 0 /\ at[l] > Len(Script(l))
    /\ at' = [at EXCEPT ![l] = 0]
    /\ prog' = [prog EXCEPT ![l] = "none"]
    /\ ptr' = [ptr EXCEPT ![l] = 0]
    /\ own' = [own EXCEPT ![l] = [o \in Own |-> @[o] - 1]]
    /\ UNCHANGED module
---------------------------------------------------------------------------
InsmodTestModule ==
    /\ tm = 0 /\ gen < MaxGens
    /\ tm' = gen + 1 /\ gen' = gen + 1
    /\ refcnt' = 1 /\ got' = 0 /\ stray' = 0
    /\ UNCHANGED <<loading, bug>>

(* Faulty variant: rmmod -f.                                               *)
RmmodForced ==
    /\ tm # 0 /\ ~bug
    /\ tm' = 0
    /\ UNCHANGED <<loading, gen, refcnt, got, stray, bug>>

(* rmmod of test_module is refused when others hold references; with its   *)
(* own reference gone it hits a BUG_ON and test_module stays as it is.     *)
RmmodTestModule ==
    /\ tm # 0 /\ ~bug /\ refcnt <= 1
    /\ IF refcnt = 1
       THEN tm' = 0 /\ UNCHANGED bug
       ELSE bug' = TRUE /\ UNCHANGED tm
    /\ UNCHANGED <<loading, gen, refcnt, got, stray>>
---------------------------------------------------------------------------
Load(l) ==
    \/ \E e \in Exercises : Insmod(l, e)
    \/ GetOwn(l)
    \/ PutOwn(l)
    \/ UseIt(l)
    \/ GetModule(l)
    \/ FindModule(l)
    \/ Say(l)
    \/ PutModule(l)
    \/ Exit(l)

Next == (\E l \in Loaders : Load(l)) \/ InsmodTestModule \/ RmmodTestModule

Spec == Init /\ [][Next]_vars
---------------------------------------------------------------------------
(* The exercises' init functions: the variables keep their types.          *)
TypeOK ==
    /\ prog \in [Loaders -> Exercises \cup {"none"}]
    /\ at \in [Loaders -> Nat]
    /\ own \in [Loaders -> [Own -> Nat]]
    /\ ptr \in [Loaders -> 0..MaxGens]
    /\ tm \in 0..MaxGens /\ gen \in 0..MaxGens
    /\ refcnt \in Nat /\ got \in Nat /\ stray \in Nat /\ bug \in BOOLEAN

(* put_pid.c:27, mmput.c:34 and the exercises without such a call: when    *)
(* the insmod task is gone its memory is freed, unless get_task_mm kept    *)
(* it, and its struct pid too unless the exercise called find_get_pid and  *)
(* not put_pid.                                                            *)
KeepsPid == {e \in Exercises : Exercise[e][1] = Get("pid")} \ {"put_pid"}

FreedAtExit ==
    [][\A l \in Loaders :
          at[l] # 0 /\ at'[l] = 0 =>
              /\ own'[l].mm > 0 <=> prog[l] = "get_task_mm"
              /\ own'[l].pid > 0 <=> prog[l] \in KeepsPid]_vars

(* __symbol_get.c:24, symbol_put_addr.c:21: while references of exercises  *)
(* that module_put.c:21 has not taken away are out, test_module stays.     *)
ReferencesPinTestModule ==
    [][got > stray => tm' = tm]_vars

(* module_put.c:21: rmmod finds its own reference gone only when more were *)
(* given back by exercises that took none than others left behind.         *)
BugOnlyAfterStrayPuts == bug => stray > got
=============================================================================
