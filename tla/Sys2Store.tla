----------------------------- MODULE Sys2Store -----------------------------
(***************************************************************************)
(* sys2/: commands written to /sys/kernel/mymodule/my_data.  my_data_store *)
(* copies the text into the one global buffer my_data, finds the command   *)
(* whose name it starts with and calls its handler with a pointer into the *)
(* same buffer.  sysfs serialises the writes through one open file only,   *)
(* so two tasks that opened it separately run my_data_store side by side.  *)
(***************************************************************************)
EXTENDS Integers, Sequences, FiniteSets, SequencesExt

CONSTANTS Writers,   (* tasks with the file open, each through its own open     *)
          Devs,      (* network interfaces that may be registered               *)
          UidOf,     (* pid -> uid of the processes; pid 1 is init              *)
          Sockets,   (* <<pid, fd>> pairs that are sockets                      *)
          Texts      (* what the tasks write: see Text below                    *)

(* A name is the list of its words, so that "is a prefix of" means what    *)
(* strncmp finds; len is its length in characters.                         *)
Command(name, len, handler) == [name |-> name, len |-> len, handler |-> handler]

(* Faulty variant of the table: setnice is tried before setniceuser.       *)
command_handlers_unordered ==
    << Command(<<"show", "task">>, 8, "show"),
       Command(<<"show", "all", "task">>, 11, "show"),
       Command(<<"parse">>, 5, "parse_command"),
       Command(<<"set", "nice">>, 7, "set_all_task_nice"),
       Command(<<"set", "nice", "user">>, 11, "set_user_nice_by_uid"),
       Command(<<"show", "kernel", "symbol">>, 16, "show"),
       Command(<<"show", "all", "thread">>, 13, "show"),
       Command(<<"set", "thread", "priority">>, 17, "set_thread_priority"),
       Command(<<"show", "interface">>, 13, "showinterface"),
       Command(<<"set", "mtu">>, 6, "setmtu"),
       Command(<<"clear", "interface">>, 14, "clearinterface"),
       Command(<<"show", "process", "fd">>, 13, "show"),
       Command(<<"set", "socket", "size">>, 13, "setsocketsize") >>

(* Handlers that only print are "show".                                    *)
command_handlers ==
    << Command(<<"show", "task">>, 8, "show"),
       Command(<<"show", "all", "task">>, 11, "show"),
       Command(<<"parse">>, 5, "parse_command"),
       Command(<<"set", "nice", "user">>, 11, "set_user_nice_by_uid"),
       Command(<<"set", "nice">>, 7, "set_all_task_nice"),
       Command(<<"show", "kernel", "symbol">>, 16, "show"),
       Command(<<"show", "all", "thread">>, 13, "show"),
       Command(<<"set", "thread", "priority">>, 17, "set_thread_priority"),
       Command(<<"show", "interface">>, 13, "showinterface"),
       Command(<<"set", "mtu">>, 6, "setmtu"),
       Command(<<"clear", "interface">>, 14, "clearinterface"),
       Command(<<"show", "process", "fd">>, 13, "show"),
       Command(<<"set", "socket", "size">>, 13, "setsocketsize") >>

(* The tokens of a parameter, as sscanf tells them apart.                  *)
Num(n)  == <<"num", n>>
Word(d) == <<"name", d>>
IsNum(tok) == tok[1] = "num"

(* A text is a command's name and what follows it: a separator and an      *)
(* argument, a lone newline (nothing: <<>>), or not even that (Bare).      *)
Bare == << <<"bare", 0>> >>
Junk == << <<"junk", 0>> >>
Text(name, len, arg) == [name |-> name, len |-> len, arg |-> arg]

Pids   == DOMAIN UidOf
Nices  == -20..19
MtuMin == 68
MtuMax == 65535
MtuDefault == 1500

ASSUME Sys2Assumption ==
    /\ Devs # {} /\ Writers # {} /\ IsFiniteSet(Writers)
    /\ \A p \in Pids : p \in Nat \ {0}
    /\ Sockets \subseteq Pids \X Nat

(* A text starts with a command's name in full, or with no command at all: *)
(* then nothing of it is a name.                                           *)
ASSUME TextsAssumption ==
    \A t \in Texts :
        /\ Len(t.arg) \in Nat /\ DOMAIN t.arg = 1..Len(t.arg)
        /\ \/ \E i \in DOMAIN command_handlers :
                  t.name = command_handlers[i].name /\ t.len = command_handlers[i].len
           \/ t.name = <<>> /\ t.len = 0
        /\ \/ t.arg = Bare
           \/ \A i \in DOMAIN t.arg : /\ t.arg[i][1] \in {"num", "name"}
                                      /\ IsNum(t.arg[i]) => t.arg[i][2] \in Int

VARIABLES
    my_data,   (* the buffer: the command's name it starts with, how many   *)
               (* characters precede the argument laid down last, and what  *)
               (* a reader finds one character after these                  *)
    pc,        (* where each writer is                                      *)
    text,      (* the text a writer is storing                              *)
    entry,     (* the command it compares my_data with, or was called for   *)
    args,      (* the handler's local copy of the parameter                 *)
    todo,      (* processes its setnice loop has yet to visit               *)
    devstate,  (* interface -> "up", "leaving" (unregistered), "freed"      *)
    devref,    (* interface -> references the handlers hold                 *)
    mtu,       (* interface -> MTU                                          *)
    nice,      (* pid -> nice value                                         *)
    pidref,    (* pid -> references to its struct pid                       *)
    rcu,       (* writer -> depth of its RCU read-side sections             *)
    resized,   (* writers that changed a socket's buffers                   *)
    raced      (* history: writers whose text another one wrote over before *)
               (* they had found its command                                *)

devs  == <<devstate, devref, mtu>>
procs == <<nice, pidref, rcu, resized>>
vars  == <<my_data, pc, text, entry, args, todo, devs, procs, raced>>

Goto(w, to) == pc' = [pc EXCEPT ![w] = to]

NoText == Text(<<>>, 0, <<>>)
(* my_data_store returns: a writer's locals are gone.                      *)
Return(w) ==
    /\ Goto(w, "idle")
    /\ text' = [text EXCEPT ![w] = NoText]
    /\ entry' = [entry EXCEPT ![w] = 0]
    /\ args' = [args EXCEPT ![w] = <<>>]

Init ==
    /\ my_data = [name |-> <<>>, len |-> 0, param |-> <<>>]
    /\ pc = [w \in Writers |-> "idle"]
    /\ text = [w \in Writers |-> NoText]
    /\ entry = [w \in Writers |-> 0]
    /\ args = [w \in Writers |-> <<>>]
    /\ todo = [w \in Writers |-> {}]
    /\ devstate = [d \in Devs |-> "up"]
    /\ devref = [d \in Devs |-> 0]
    /\ mtu = [d \in Devs |-> MtuDefault]
    /\ nice = [p \in Pids |-> 0]
    /\ pidref = [p \in Pids |-> 0]
    /\ rcu = [w \in Writers |-> 0]
    /\ resized = {} /\ raced = {}
---------------------------------------------------------------------------
(* my_data_store, line 115: snprintf lays the text down left to right, in  *)
(* two steps here, the name and then the rest.                             *)

(* What a reader finds one character after a name of `len` characters:     *)
(* with another length it is some other piece of the old text.             *)
ParamAt(len) == IF len = my_data.len THEN my_data.param ELSE Junk

(* The other writers whose text is overwritten as w writes to the buffer.  *)
Overwritten(w) == {v \in Writers \ {w} : pc[v] \in {"storing", "stored"}}

(* The name may be in the buffer already, as the start of a longer one.    *)
StoreName(w) ==
    /\ pc[w] = "idle"
    /\ \E t \in Texts :
          /\ text' = [text EXCEPT ![w] = t]
          /\ my_data' = IF IsPrefix(t.name, my_data.name)
                        THEN my_data
                        ELSE [name |-> t.name, len |-> t.len, param |-> ParamAt(t.len)]
    /\ raced' = raced \cup Overwritten(w)
    /\ Goto(w, "storing")
    /\ UNCHANGED <<entry, args, todo, devs, procs>>

(* The name the buffer starts with once something else begins `at`         *)
(* characters into it: the longest one that ends before, if any.           *)
NameUpTo(at) ==
    LET kept == {i \in DOMAIN command_handlers :
                    command_handlers[i].len <= at /\ IsPrefix(command_handlers[i].name, my_data.name)}
    IN IF at >= my_data.len THEN my_data.name
       ELSE IF kept = {} THEN <<>>
       ELSE command_handlers[CHOOSE i \in kept : \A j \in kept :
                                command_handlers[j].len <= command_handlers[i].len].name

(* A bare name ends in the terminator and leaves what lay behind it.  The  *)
(* rest of a longer command lands inside the parameter of a shorter one.   *)
StoreRest(w) ==
    /\ pc[w] = "storing"
    /\ LET at == text[w].len IN
       my_data' = IF at > my_data.len
                  THEN [my_data EXCEPT !.param = Junk]
                  ELSE [name |-> NameUpTo(at), len |-> at,
                        param |-> IF text[w].arg = Bare THEN ParamAt(at) ELSE text[w].arg]
    /\ raced' = raced \cup Overwritten(w)
    /\ entry' = [entry EXCEPT ![w] = 1]
    /\ Goto(w, "stored")
    /\ UNCHANGED <<text, args, todo, devs, procs>>

(* Lines 119-127: the loop over the table.  Every strncmp reads the buffer *)
(* anew, and nothing keeps the other writers out of it in between.         *)
handler(w) == command_handlers[entry[w]]
Matches(w) == IsPrefix(handler(w).name, my_data.name)

Match(w) ==
    /\ pc[w] = "stored" /\ Matches(w)
    /\ Goto(w, "called")
    /\ raced' = raced \ {w}
    /\ UNCHANGED <<my_data, text, entry, args, todo, devs, procs>>

NextCommand(w) ==
    /\ pc[w] = "stored" /\ ~Matches(w)
    /\ entry[w] < Len(command_handlers)
    /\ entry' = [entry EXCEPT ![w] = @ + 1]
    /\ UNCHANGED <<my_data, pc, text, args, todo, devs, procs, raced>>

UnknownCommand(w) ==
    /\ pc[w] = "stored" /\ ~Matches(w)
    /\ entry[w] = Len(command_handlers)
    /\ Return(w)
    /\ raced' = raced \ {w}
    /\ UNCHANGED <<my_data, todo, devs, procs>>

(* A handler reads its parameter where it was told to in my_data, whatever *)
(* is there by now, and works on its own copy from then on.                *)
Called(w, handlers) == pc[w] = "called" /\ handler(w).handler \in handlers
Param(w) == ParamAt(handler(w).len)

(* sscanf: the parameter begins with n numbers.                            *)
Numbers(param, n) ==
    param # Junk /\ Len(param) >= n /\ \A i \in 1..n : param[i][1] = "num"

---------------------------------------------------------------------------
(* Handlers that print, and parse_command, which also copies its parameter *)
(* and never frees the copy: strsep has set cmd_copy to NULL by then.      *)
PrintingHandlers == {"show", "parse_command"}

Show(w) ==
    /\ Called(w, PrintingHandlers)
    /\ Return(w)
    /\ UNCHANGED <<my_data, todo, devs, procs, raced>>

(* showinterface_in, setmtu_in, clearinterface_in: an interface is looked  *)
(* up and held.  setmtu_in scans its name and a number and ignores what    *)
(* follows; for the other two the whole parameter, trimmed, is the name.   *)
DevHandlers == {"showinterface", "setmtu", "clearinterface"}

NamesDev(w, d) ==
    /\ devstate[d] = "up"
    /\ IF handler(w).handler = "setmtu"
       THEN /\ Param(w) # Junk /\ Len(Param(w)) >= 2
            /\ Param(w)[1] = Word(d) /\ Param(w)[2][1] = "num"
       ELSE Param(w) = << Word(d) >>

(* Faulty variant: the look-up takes no reference, as __dev_get_by_name.   *)
GetDevUnheld(w) ==
    /\ Called(w, DevHandlers)
    /\ \E d \in Devs : NamesDev(w, d)
    /\ args' = [args EXCEPT ![w] = Param(w)]
    /\ Goto(w, "held")
    /\ UNCHANGED <<my_data, text, entry, todo, devs, procs, raced>>

GetDev(w) ==
    /\ Called(w, DevHandlers)
    /\ \E d \in Devs : NamesDev(w, d) /\ devref' = [devref EXCEPT ![d] = @ + 1]
    /\ args' = [args EXCEPT ![w] = Param(w)]
    /\ Goto(w, "held")
    /\ UNCHANGED <<my_data, text, entry, todo, devstate, mtu, procs, raced>>

NoDev(w) ==
    /\ Called(w, DevHandlers)
    /\ ~\E d \in Devs : NamesDev(w, d)
    /\ Return(w)
    /\ UNCHANGED <<my_data, todo, devs, procs, raced>>

DevOf(w) == args[w][1][2]
MtuOf(w) == args[w][2][2]

(* setmtu_in changes the MTU only within its range, and lets the interface *)
(* go on either path.  (The counters the other two read or clear are not   *)
(* modelled.)                                                              *)
UseDev(w) ==
    /\ pc[w] = "held"
    /\ IF handler(w).handler = "setmtu" /\ MtuOf(w) >= MtuMin /\ MtuOf(w) <= MtuMax
       THEN mtu' = [mtu EXCEPT ![DevOf(w)] = MtuOf(w)]
       ELSE UNCHANGED mtu
    /\ Goto(w, "release")
    /\ UNCHANGED <<my_data, text, entry, args, todo, devstate, devref, procs, raced>>

(* Faulty variant: the path that finds the MTU out of range returns        *)
(* without dev_put.                                                        *)
PutDevInRange(w) ==
    /\ pc[w] = "release"
    /\ devref' = [devref EXCEPT ![DevOf(w)] =
          IF handler(w).handler = "setmtu" /\ MtuOf(w) < MtuMin THEN @ ELSE @ - 1]
    /\ Return(w)
    /\ UNCHANGED <<my_data, todo, devstate, mtu, procs, raced>>

PutDev(w) ==
    /\ pc[w] = "release"
    /\ devref' = [devref EXCEPT ![DevOf(w)] = @ - 1]
    /\ Return(w)
    /\ UNCHANGED <<my_data, todo, devstate, mtu, procs, raced>>
---------------------------------------------------------------------------
(* set_all_task_nice and set_user_nice_by_uid: the processes to visit.     *)
(* Both skip pid 0, which for_each_process never visits anyway.            *)
NiceHandlers == {"set_all_task_nice", "set_user_nice_by_uid"}

ParamGivesNice(w) ==
    IF handler(w).handler = "set_all_task_nice"
    THEN Numbers(Param(w), 1) /\ Param(w)[1][2] \in Nices
    ELSE Numbers(Param(w), 2) /\ Param(w)[2][2] \in Nices

StartNice(w) ==
    /\ Called(w, NiceHandlers)
    /\ ParamGivesNice(w)
    /\ args' = [args EXCEPT ![w] = Param(w)]
    /\ todo' = [todo EXCEPT ![w] =
          IF handler(w).handler = "set_all_task_nice"
          THEN Pids
          ELSE {p \in Pids : UidOf[p] = Param(w)[1][2]}]
    /\ Goto(w, "nice")
    /\ UNCHANGED <<my_data, text, entry, devs, procs, raced>>

BadNice(w) ==
    /\ Called(w, NiceHandlers)
    /\ ~ParamGivesNice(w)
    /\ Return(w)
    /\ UNCHANGED <<my_data, todo, devs, procs, raced>>

NiceOf(w) == args[w][IF handler(w).handler = "set_all_task_nice" THEN 1 ELSE 2][2]

SetNice(w) ==
    /\ pc[w] = "nice" /\ todo[w] # {}
    /\ LET p == CHOOSE q \in todo[w] : \A r \in todo[w] : q <= r IN
       /\ nice' = [nice EXCEPT ![p] = NiceOf(w)]
       /\ todo' = [todo EXCEPT ![w] = @ \ {p}]
    /\ UNCHANGED <<my_data, pc, text, entry, args, devs, pidref, rcu, resized, raced>>

NiceDone(w) ==
    /\ pc[w] = "nice" /\ todo[w] = {}
    /\ Return(w)
    /\ UNCHANGED <<my_data, todo, devs, procs, raced>>

(* set_thread_priority_in: find_get_pid takes a reference, given back once *)
(* pid_task has looked for the thread and before its priority is set.      *)
FindPid(w) ==
    /\ Called(w, {"set_thread_priority"})
    /\ IF Numbers(Param(w), 2) /\ Param(w)[1][2] \in Pids
       THEN /\ args' = [args EXCEPT ![w] = Param(w)]
            /\ pidref' = [pidref EXCEPT ![Param(w)[1][2]] = @ + 1]
            /\ Goto(w, "found")
            /\ UNCHANGED <<text, entry>>
       ELSE Return(w) /\ UNCHANGED pidref
    /\ UNCHANGED <<my_data, todo, devs, nice, rcu, resized, raced>>

(* Faulty variant: the path that finds no thread returns without put_pid.  *)
PutPidOfThread(w) ==
    /\ pc[w] = "found"
    /\ \/ /\ pidref' = [pidref EXCEPT ![args[w][1][2]] = @ - 1]
          /\ Goto(w, "priority") /\ UNCHANGED <<text, entry, args>>
       \/ Return(w) /\ UNCHANGED pidref
    /\ UNCHANGED <<my_data, todo, devs, nice, rcu, resized, raced>>

(* The thread may have exited while its struct pid lives on: then there is *)
(* no priority to set.                                                     *)
PutPid(w) ==
    /\ pc[w] = "found"
    /\ pidref' = [pidref EXCEPT ![args[w][1][2]] = @ - 1]
    /\ \/ Goto(w, "priority") /\ UNCHANGED <<text, entry, args>>
       \/ Return(w)
    /\ UNCHANGED <<my_data, todo, devs, nice, rcu, resized, raced>>

SetPriority(w) ==
    /\ pc[w] = "priority"
    /\ nice' = IF args[w][2][2] \in Nices THEN [nice EXCEPT ![args[w][1][2]] = args[w][2][2]]
                                          ELSE nice
    /\ Return(w)
    /\ UNCHANGED <<my_data, todo, devs, pidref, rcu, resized, raced>>

(* Faulty variant: a failed look-up of the socket also returns inside the  *)
(* read-side section.                                                      *)
SetSocketSizeLeaky(w) ==
    /\ Called(w, {"setsocketsize"})
    /\ IF Numbers(Param(w), 4)
       THEN /\ rcu' = [rcu EXCEPT ![w] = @ + 1]
            /\ resized' = IF <<Param(w)[1][2], Param(w)[2][2]>> \in Sockets
                          THEN resized \cup {w} ELSE resized
       ELSE UNCHANGED <<rcu, resized>>
    /\ Return(w)
    /\ UNCHANGED <<my_data, todo, devs, nice, pidref, raced>>

(* setsocketsize_in returns from inside its read-side section on success.  *)
SetSocketSize(w) ==
    /\ Called(w, {"setsocketsize"})
    /\ IF Numbers(Param(w), 4) /\ <<Param(w)[1][2], Param(w)[2][2]>> \in Sockets
       THEN rcu' = [rcu EXCEPT ![w] = @ + 1] /\ resized' = resized \cup {w}
       ELSE UNCHANGED <<rcu, resized>>
    /\ Return(w)
    /\ UNCHANGED <<my_data, todo, devs, nice, pidref, raced>>
---------------------------------------------------------------------------
(* The rest of the kernel: an interface is unregistered, and freed when no *)
(* reference to it is left and the grace period after its removal is over. *)
(* That waits for every read-side section: in a preemptible kernel one that *)
(* a task never left lasts as long as the task.                            *)
Unregister(d) ==
    /\ devstate[d] = "up"
    /\ devstate' = [devstate EXCEPT ![d] = "leaving"]
    /\ UNCHANGED <<my_data, pc, text, entry, args, todo, devref, mtu, procs, raced>>

Free(d) ==
    /\ devstate[d] = "leaving" /\ devref[d] = 0
    /\ \A w \in Writers : rcu[w] = 0
    /\ devstate' = [devstate EXCEPT ![d] = "freed"]
    /\ UNCHANGED <<my_data, pc, text, entry, args, todo, devref, mtu, procs, raced>>
---------------------------------------------------------------------------
(* What a writer does once it has called write().                          *)
Continue(w) ==
    \/ StoreRest(w)
    \/ Match(w)
    \/ NextCommand(w)
    \/ UnknownCommand(w)
    \/ Show(w)
    \/ GetDev(w)
    \/ NoDev(w)
    \/ UseDev(w)
    \/ PutDev(w)
    \/ StartNice(w)
    \/ BadNice(w)
    \/ SetNice(w)
    \/ NiceDone(w)
    \/ FindPid(w)
    \/ PutPid(w)
    \/ SetPriority(w)
    \/ SetSocketSize(w)

(* A task that was left inside an RCU section writes no more in this       *)
(* model, which bounds rcu by one.                                         *)
Next ==
    \/ \E w \in Writers : (rcu[w] = 0 /\ StoreName(w)) \/ Continue(w)
    \/ \E d \in Devs : Unregister(d) \/ Free(d)

Spec == Init /\ [][Next]_vars

(* A write() in progress is scheduled until it returns, and the kernel     *)
(* frees an interface as soon as it can; nobody has to write.              *)
FairSpec == /\ Spec
            /\ \A w \in Writers : WF_vars(Continue(w))
            /\ \A d \in Devs : WF_vars(Free(d))
---------------------------------------------------------------------------
Tokens == {"num", "name"}

(* sys2.c, mypacket.c, showtask.c, process.c: the variables keep their types. *)
TypeOK ==
    /\ pc \in [Writers -> {"idle", "storing", "stored", "called", "held", "release",
                           "nice", "found", "priority"}]
    /\ my_data.len \in Nat
    /\ my_data.param = Junk \/ \A i \in DOMAIN my_data.param : my_data.param[i][1] \in Tokens
    /\ \A w \in Writers : text[w] \in Texts \cup {NoText}
    /\ entry \in [Writers -> 0..Len(command_handlers)]
    /\ todo \in [Writers -> SUBSET Pids]
    /\ devstate \in [Devs -> {"up", "leaving", "freed"}]
    /\ devref \in [Devs -> Nat] /\ mtu \in [Devs -> Int]
    /\ nice \in [Pids -> Int] /\ pidref \in [Pids -> Nat]
    /\ rcu \in [Writers -> Nat] /\ resized \subseteq Writers /\ raced \subseteq Writers

(* mypacket.c:174-214, 246-260, 295-309 and showtask.c:224-239: whatever   *)
(* writes do to my_data meanwhile, a handler gives back exactly the        *)
(* references it took, on every path.                                      *)
RefsBalanced ==
    /\ \A d \in Devs : devref[d] =
          Cardinality({w \in Writers : pc[w] \in {"held", "release"} /\ DevOf(w) = d})
    /\ \A p \in Pids : pidref[p] =
          Cardinality({w \in Writers : pc[w] = "found" /\ args[w][1][2] = p})

(* sys2.c:119-127 with the order of the table: a writer whose text nobody  *)
(* wrote over meanwhile gets the handler its text names, never one whose   *)
(* name is only the start of that name.  One that was overwritten gets the *)
(* handler the buffer names by then; the only other it can get is setnice  *)
(* for setniceuser, when it had passed that entry already.                 *)
DispatchesNamedCommand ==
    [][\A w \in Writers : pc[w] = "stored" /\ pc'[w] = "called" =>
          IF w \notin raced
          THEN handler(w).name = text[w].name
          ELSE \/ handler(w).name = my_data.name
               \/ /\ handler(w).name = <<"set", "nice">>
                  /\ my_data.name = <<"set", "nice", "user">>]_vars

(* mypacket.c and process.c:193-221: an interface that is unregistered     *)
(* while commands use it does go away: no path keeps a reference, and only *)
(* a setsocketsize that succeeded, whose return leaves its read-side       *)
(* section open, can hold back the grace period.                           *)
UnregisterCompletes ==
    \A d \in Devs : devstate[d] = "leaving" ~> devstate[d] = "freed" \/ resized # {}

(* mypacket.c:159,226,280 and showtask.c:207, "check whether the input is  *)
(* empty": a command written without an argument is refused.               *)
EmptyInputRefused ==
    \A w \in Writers :
        pc[w] \in {"held", "found"} => text[w].arg \notin {<<>>, Bare}
=============================================================================
