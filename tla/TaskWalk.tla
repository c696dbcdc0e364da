------------------------------ MODULE TaskWalk ------------------------------
(***************************************************************************)
(* Code that goes through other tasks' structures: the walks over the task *)
(* list (for_each_process in showtask.c, process.c and sys.c,              *)
(* list_for_each from init_task in print_pid.c, list_for_each_entry from   *)
(* the walker itself in iterateprocess.c) and set_thread_priority_in,      *)
(* which finds one task by its pid.  None takes tasklist_lock, rcu_read_   *)
(* lock or a reference, while tasks fork and exit.                         *)
(*                                                                         *)
(* The list is the kernel's: a new task goes to its end.  An exiting task  *)
(* first gives up its files, whose table is freed at once, then is         *)
(* unlinked and loses its pid, but keeps its own link, and its structure   *)
(* is freed after a grace period.  A kernel that is not preemptible counts *)
(* the walk as a read-side section; a preemptible one does not.            *)
(***************************************************************************)
EXTENDS FiniteSets

CONSTANTS Tasks,       (* task structures; bounds the processes at one time *)
          init_task,   (* the head of the list, which never exits           *)
          current      (* the task that walks, which cannot exit meanwhile  *)

ASSUME TaskWalkAssumption ==
    init_task \in Tasks /\ current \in Tasks /\ init_task # current

FdWalks == {"showprocessfd", "setsocketsize"}
Walks   == {"for_each_process", "showallthread", "print_pid", "iterateprocess", "set_thread_priority"}
           \cup FdWalks

VARIABLES
    preempt,   (* whether the kernel is preemptible                         *)
    state,     (* task -> "unused", "alive", "exiting" (without files),     *)
               (* "gone" (unlinked)                                         *)
    next,      (* task -> its link                                          *)
    walk,      (* the walk that is going on, or that ended last             *)
    at,        (* what the walk does next                                   *)
    pos,       (* its position                                              *)
    visited,   (* the tasks it came to                                      *)
    again,     (* whether it came to one of them twice                      *)
    before,    (* history: the tasks in the list when it began              *)
    stale,     (* whether the files or the pid it holds lost their task     *)
    exited,    (* history: the tasks that began to exit since it began      *)
    during     (* tasks unlinked since it began and still waited for        *)

list   == <<state, next>>
walker == <<walk, at, pos, visited, again, before>>
exits  == <<stale, exited, during>>
vars   == <<preempt, list, walker, exits>>

Linked == {t \in Tasks : state[t] \in {"alive", "exiting"}}

Init ==
    /\ preempt \in BOOLEAN
    /\ state = [t \in Tasks |-> IF t \in {init_task, current} THEN "alive" ELSE "unused"]
    /\ next = [t \in Tasks |-> IF t = init_task THEN current ELSE init_task]
    /\ walk = "for_each_process" /\ at = "idle" /\ pos = init_task
    /\ visited = {} /\ again = FALSE /\ before = {}
    /\ stale = FALSE /\ exited = {} /\ during = {}
---------------------------------------------------------------------------
(* Where a walk begins and ends, without coming to it.                     *)
From(w) == IF w = "iterateprocess" THEN current ELSE init_task

Begin(w) ==
    /\ at = "idle"
    /\ walk' = w /\ before' = Linked
    /\ IF w = "set_thread_priority"
       THEN pos' \in Linked \ {init_task} /\ at' = "pid"    \* find_get_pid
       ELSE pos' = From(w) /\ at' = "move"
    /\ visited' = {} /\ again' = FALSE
    /\ UNCHANGED <<preempt, list, exits>>

Visit(t) ==
    /\ pos' = t
    /\ visited' = visited \cup {t}
    /\ again' = (again \/ t \in visited)
    /\ at' = CASE walk = "print_pid"     -> "find"
               [] walk = "showallthread" -> "threads"
               [] walk \in FdWalks       -> "load"
               [] OTHER                  -> "move"

(* Faulty variant: the loop breaks off at a task that has exited.          *)
MoveWhileAlive ==
    /\ at = "move" /\ state[pos] # "unused"
    /\ IF next[pos] = From(walk) \/ state[pos] = "gone"
       THEN at' = "end" /\ UNCHANGED <<pos, visited, again>>
       ELSE Visit(next[pos])
    /\ UNCHANGED <<preempt, list, walk, before, exits>>

(* The loop follows the link of the task it is at, if that still exists.   *)
Move ==
    /\ at = "move" /\ state[pos] # "unused"
    /\ IF next[pos] = From(walk)
       THEN at' = "end" /\ UNCHANGED <<pos, visited, again>>
       ELSE Visit(next[pos])
    /\ UNCHANGED <<preempt, list, walk, before, exits>>

Goto(to) == at' = to /\ UNCHANGED <<preempt, list, walk, pos, visited, again, before, exited, during>>

(* print_pid looks up the pid of the task.  init_task has none, and an     *)
(* unlinked task has none any more: kpid->count is then read through a     *)
(* null pointer.                                                           *)
FindGetPid ==
    /\ at = "find" /\ state[pos] # "unused"
    /\ Goto(IF pos \in Linked \ {init_task} THEN "move" ELSE "oops")
    /\ UNCHANGED stale

(* for_each_thread goes through the threads of the task.  They come and go *)
(* as tasks do, and are not told apart here: a preemptible kernel may free *)
(* one under it.                                                           *)
ReadThreads ==
    /\ at = "threads" /\ state[pos] # "unused"
    /\ \/ Goto("move")
       \/ preempt /\ Goto("astray")
    /\ UNCHANGED stale

(* Faulty variant: a task without files is not skipped.                    *)
LoadFilesUnchecked ==
    /\ at = "load" /\ state[pos] # "unused"
    /\ Goto("files") /\ stale' = (state[pos] # "alive")

(* files = task->files, which is null once the task has begun to exit.     *)
(* setsocketsize passes over the tasks with another pid.                   *)
LoadFiles ==
    /\ at = "load" /\ state[pos] # "unused"
    /\ \/ state[pos] = "alive" /\ Goto("files") /\ stale' = FALSE
       \/ (state[pos] # "alive" \/ walk = "setsocketsize") /\ Goto("move") /\ UNCHANGED stale

(* The fd table is read through the pointer loaded before, in a section    *)
(* that began after it.  setsocketsize returns when it found the socket.   *)
ReadFiles ==
    /\ at = "files"
    /\ \/ stale /\ Goto("oops")
       \/ ~stale /\ Goto("move")
       \/ ~stale /\ walk = "setsocketsize" /\ Goto("end")
    /\ stale' = FALSE

(* set_thread_priority_in: a pid that lost its task gives none, and the    *)
(* function returns; put_pid is called on either path.                     *)
PidTask ==
    /\ at = "pid"
    /\ Goto(IF stale THEN "end" ELSE "nice") /\ stale' = FALSE

(* Nothing holds the task whose priority is set, if it is in range.        *)
SetUserNice ==
    /\ at = "nice" /\ state[pos] # "unused"
    /\ Goto("end") /\ UNCHANGED stale

(* The task the walk is at was freed under it: whatever follows, it is no  *)
(* walk over the list any more.                                            *)
Astray ==
    /\ at \in {"move", "find", "threads", "load", "nice"} /\ state[pos] = "unused"
    /\ Goto("astray") /\ UNCHANGED stale

(* The function returns.                                                   *)
End ==
    /\ at = "end"
    /\ at' = "idle" /\ exited' = {} /\ during' = {}
    /\ UNCHANGED <<preempt, list, walk, pos, visited, again, before, stale>>
---------------------------------------------------------------------------
Walking == at # "idle"

Last == CHOOSE t \in Linked : next[t] = init_task
Fork(t) ==
    /\ state[t] = "unused"
    /\ state' = [state EXCEPT ![t] = "alive"]
    /\ next' = [next EXCEPT ![Last] = t, ![t] = init_task]
    /\ UNCHANGED <<preempt, walker, exits>>

(* exit_files: task->files becomes null, and its table is freed.           *)
ExitFiles(t) ==
    /\ state[t] = "alive" /\ t \notin {init_task, current}
    /\ state' = [state EXCEPT ![t] = "exiting"]
    /\ exited' = IF Walking THEN exited \cup {t} ELSE exited
    /\ stale' = (stale \/ (at = "files" /\ pos = t))
    /\ UNCHANGED <<preempt, next, walker, during>>

Detach(t) ==
    /\ state[t] = "exiting"
    /\ state' = [state EXCEPT ![t] = "gone"]
    /\ during' = IF Walking THEN during \cup {t} ELSE during
    /\ stale' = (stale \/ (at = "pid" /\ pos = t))
    /\ UNCHANGED <<preempt, walker, exited>>

Unlinked(t) == [u \in Tasks |-> IF u \in Linked /\ next[u] = t THEN next[t] ELSE next[u]]

(* Faulty variants: the task stays linked; or list_del_init, after which   *)
(* it links to itself.                                                     *)
ExitLinked(t) == Detach(t) /\ next' = next
ExitInit(t)   == Detach(t) /\ next' = [Unlinked(t) EXCEPT ![t] = t]

(* release_task: the task leaves the list and its pid.                     *)
Exit(t) == Detach(t) /\ next' = Unlinked(t)

(* Faulty variant: the task is freed at once.                              *)
FreeAtOnce(t) ==
    /\ state[t] = "gone"
    /\ state' = [state EXCEPT ![t] = "unused"]
    /\ during' = during \ {t}
    /\ UNCHANGED <<preempt, next, walker, stale, exited>>

(* The grace period waits for a walk that began before the task was        *)
(* unlinked, unless it can be preempted.                                   *)
Free(t) ==
    /\ state[t] = "gone"
    /\ t \in during => preempt
    /\ state' = [state EXCEPT ![t] = "unused"]
    /\ during' = during \ {t}
    /\ UNCHANGED <<preempt, next, walker, stale, exited>>
---------------------------------------------------------------------------
Walk ==
    \/ Move
    \/ FindGetPid
    \/ ReadThreads
    \/ LoadFiles
    \/ ReadFiles
    \/ PidTask
    \/ SetUserNice
    \/ Astray
    \/ End

Next ==
    \/ \E w \in Walks : Begin(w)
    \/ Walk
    \/ \E t \in Tasks : Fork(t) \/ ExitFiles(t) \/ Exit(t) \/ Free(t)

Spec == Init /\ [][Next]_vars
---------------------------------------------------------------------------
(* print_pid.c:41, showtask.c:47: the variables keep their types, and a    *)
(* linked task is linked to a linked one, however the walk goes.           *)
TypeOK ==
    /\ preempt \in BOOLEAN
    /\ state \in [Tasks -> {"unused", "alive", "exiting", "gone"}]
    /\ next \in [Tasks -> Tasks]
    /\ \A t \in Linked : next[t] \in Linked
    /\ walk \in Walks
    /\ at \in {"idle", "move", "find", "threads", "load", "files", "pid", "nice", "end", "oops", "astray"}
    /\ pos \in Tasks /\ visited \subseteq Tasks /\ again \in BOOLEAN
    /\ stale \in BOOLEAN
    /\ before \subseteq Tasks /\ exited \subseteq Tasks /\ during \subseteq Tasks

(* sys.c:41, "walk over all processes", iterateprocess.c:21, process.c:66: *)
(* on a kernel that is not preemptible a walk comes to every task that was *)
(* in the list all through it, to none twice, and ends where it began,     *)
(* although it holds no lock.  (setsocketsize ends when it has found its   *)
(* socket.)                                                                *)
VisitsEachOnce ==
    ~preempt =>
        /\ ~again /\ From(walk) \notin visited
        /\ at = "end" /\ walk \notin {"setsocketsize", "set_thread_priority"} =>
               \A t \in before \cap Linked : t # From(walk) => t \in visited

(* showtask.c:47-51,239: no walk reads a task that has been freed and      *)
(* set_user_nice changes none, unless the kernel is preemptible.           *)
NotAstray == ~preempt => at # "astray"

(* print_pid.c:47-52, process.c:68-71: kpid is null, or the fd table gone, *)
(* only for a task that exited while the walk went on: the tasks that had  *)
(* exited before it began, and are still in the list as zombies, do no     *)
(* harm.                                                                   *)
FaultsOnlyAfterExit == at = "oops" /\ ~preempt => pos \in during \cup exited
=============================================================================
