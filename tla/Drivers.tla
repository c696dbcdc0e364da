------------------------------ MODULE Drivers ------------------------------
(***************************************************************************)
(* How the drivers of the repository come and go: the resources that each  *)
(* init function takes one after the other, what it does when one cannot   *)
(* be had, what its exit function gives back, and the tasks that use the   *)
(* device meanwhile, which may begin before init has finished.             *)
(*                                                                         *)
(* insmod, rmmod and the file layer are the kernel's: modelled from what   *)
(* module_init, fops.owner, cdev_del and sysfs_remove_file do for a driver. *)
(***************************************************************************)
EXTENDS Naturals, Sequences, FiniteSets

CONSTANTS Drivers,   (* the drivers under study, names of Driver            *)
          Users      (* tasks that open and use the device                  *)

(* A step of an init function: the resource, and what follows a failure.   *)
(*   "unwind"   give back what was taken, last first; init returns an error *)
(*   "zero"     the same, but init returns 0                               *)
(*   "probe"    the same for what the probe function of a driver took; that *)
(*              function fails, but init, which registered it, returns 0   *)
(*   "ignore"   the failure is not noticed                                 *)
(* or something taken before that init itself gives back.                  *)
Take(res, onfail) == [res |-> res, onfail |-> onfail]
Give(res)         == [res |-> res, onfail |-> "given"]

(* By driver: init and exit; entry, the resource through which users get   *)
(* in; needs, what an operation uses; locks, whether it runs under a mutex; *)
(* and hold, what keeps the code in place for a user:                      *)
(*   "open"   fops.owner or cdev.owner: the module, while the file is open *)
(*   "call"   removing the entry waits for the operations in progress      *)
(*   "none"   nothing                                                      *)
newchrdevbase ==
    [init |-> << Take("region", "unwind"), Take("cdev", "unwind"),
                 Take("class", "unwind"), Take("device", "unwind") >>,
     exit |-> << "cdev", "region", "device", "class" >>,
     entry |-> "cdev", needs |-> {}, locks |-> FALSE, hold |-> "open"]

mutex ==
    [init |-> << Take("region", "unwind"), Take("cdev", "unwind"), Take("buffer", "unwind") >>,
     exit |-> << "buffer", "cdev", "region" >>,
     entry |-> "cdev", needs |-> {"buffer"}, locks |-> TRUE, hold |-> "open"]

(* When of_find_node_by_path fails ret is still 0.  "checked" stands for   *)
(* the three properties that are read, "regs" for the five ioremaps.       *)
dtsofled ==
    [init |-> << Take("region", "unwind"), Take("cdev", "unwind"), Take("class", "unwind"),
                 Take("device", "unwind"), Take("node", "zero"), Take("checked", "unwind"),
                 Take("regs", "ignore") >>,
     exit |-> << "regs", "cdev", "region", "device", "class" >>,
     entry |-> "cdev", needs |-> {"regs"}, locks |-> FALSE, hold |-> "open"]

(* cdev_add is compared with -1, which is no error it returns; class_destroy *)
(* follows class_unregister, which it contains.                            *)
my_device ==
    [init |-> << Take("region", "unwind"), Take("cdev", "ignore"),
                 Take("class", "ignore"), Take("device", "ignore") >>,
     exit |-> << "device", "class", "class", "cdev", "region" >>,
     entry |-> "cdev", needs |-> {}, locks |-> FALSE, hold |-> "none"]

chrdevbase ==
    [init |-> << Take("chrdev", "ignore") >>,
     exit |-> << "chrdev" >>,
     entry |-> "chrdev", needs |-> {}, locks |-> FALSE, hold |-> "open"]

sys ==
    [init |-> << Take("kobj", "unwind"), Take("file", "unwind") >>,
     exit |-> << "file", "kobj" >>,
     entry |-> "file", needs |-> {}, locks |-> FALSE, hold |-> "call"]

(* register_net_hooks returns 0 whatever nf_register_net_hook returned.    *)
sys2 ==
    [init |-> << Take("kobj", "unwind"), Take("file", "unwind"), Take("hook", "ignore") >>,
     exit |-> << "hook", "file", "kobj" >>,
     entry |-> "file", needs |-> {}, locks |-> FALSE, hold |-> "call"]

procsys ==
    [init |-> << Take("entry", "unwind") >>,
     exit |-> << "entry" >>,
     entry |-> "entry", needs |-> {}, locks |-> FALSE, hold |-> "call"]

(* pci_register_driver calls my_net_probe for the device, or not at all if *)
(* there is none: then it is as if its first step had failed.              *)
(* my_net_remove starts from the driver data of the PCI device, which      *)
(* my_net_probe never sets.                                                *)
mynetwork ==
    [init |-> << Take("driver", "unwind"), Take("netdev", "probe"),
                 Take("registered", "probe"), Take("pci", "probe") >>,
     exit |-> << "drvdata", "registered", "netdev", "pci", "driver" >>,
     entry |-> "registered", needs |-> {"pci"}, locks |-> FALSE, hold |-> "call"]

(* All in init: it prints the properties of a device tree node, and frees  *)
(* the memory for the last one whether it could be read or not.  Nothing   *)
(* fails for a count below zero: kept unsigned, it is what kmalloc refuses. *)
dtsof ==
    [init |-> << Take("node", "unwind"), Take("checked", "unwind"),
                 Take("memory", "unwind"), Give("memory") >>,
     exit |-> << >>,
     entry |-> "none", needs |-> {}, locks |-> FALSE, hold |-> "none"]

Driver ==
    [newchrdevbase |-> newchrdevbase, mutex |-> mutex, dtsofled |-> dtsofled,
     my_device |-> my_device, chrdevbase |-> chrdevbase, sys |-> sys, sys2 |-> sys2,
     procsys |-> procsys, mynetwork |-> mynetwork, dtsof |-> dtsof]

ASSUME DriversAssumption == Drivers # {} /\ Drivers \subseteq DOMAIN Driver

VARIABLES
    driver,   (* the driver of this behaviour                              *)
    phase,    (* what insmod or rmmod is at                                *)
    step,     (* index into init or exit                                   *)
    ret,      (* what the latest init returned or will return              *)
    shut,     (* the entry is being removed and lets nobody in any more    *)
    held,     (* resources taken and not given back                        *)
    failed,   (* history: resources the latest init could not have         *)
    astray,   (* history: those given back since then while not held       *)
    user,     (* what each user is doing with the device                   *)
    owner     (* the user that holds resource_mutex, in a set              *)

load  == <<phase, step, ret, shut, held, failed, astray>>
vars  == <<driver, load, user, owner>>

D      == Driver[driver]

(* What giving back something that is not held leads to: an oops on a      *)
(* pointer that is null or an error, a warning at most, or, for a class    *)
(* that is destroyed a second time, either of them.                        *)
Outcome(res) ==
    IF res \in held THEN {"exit"}
    ELSE IF res \in {"regs", "drvdata"} \/ (res = "device" /\ "class" \notin held) THEN {"oops"}
    ELSE IF res = "class" THEN {"exit", "oops"}
    ELSE {"exit"}

(* No label gives these back: the reference to the device tree node stays, *)
(* a registered driver too when its probe fails, and "checked" is nothing  *)
(* to hold.                                                                *)
Unlabelled == {"node", "checked", "driver"}

Init ==
    /\ driver \in Drivers
    /\ phase = "absent" /\ step = 0 /\ ret = "ok"
    /\ shut = FALSE /\ held = {} /\ failed = {} /\ astray = {}
    /\ user = [u \in Users |-> "closed"] /\ owner = {}
---------------------------------------------------------------------------
(* insmod: the init function, one resource at a time.                      *)
Insmod ==
    /\ phase = "absent"
    /\ phase' = "init" /\ step' = 1 /\ ret' = "ok"
    /\ failed' = {} /\ astray' = {}
    /\ UNCHANGED <<driver, shut, held, user, owner>>

This == D.init[step]
InInit == phase = "init" /\ step <= Len(D.init)
Taking == InInit /\ This.onfail # "given"

Acquire ==
    /\ Taking
    /\ This.res = "device" => "class" \in held
    /\ held' = held \cup ({This.res} \ {"checked"})
    /\ step' = step + 1
    /\ UNCHANGED <<driver, phase, ret, shut, failed, astray, user, owner>>

(* Faulty variants: the label of the step before, that of the step itself. *)
FailOneLabelShort ==
    /\ Taking
    /\ failed' = failed \cup {This.res}
    /\ IF This.onfail = "ignore"
       THEN step' = step + 1 /\ UNCHANGED <<phase, ret>>
       ELSE /\ phase' = "unwind" /\ step' = step - 2
            /\ ret' = IF This.onfail = "unwind" THEN "error" ELSE "ok"
    /\ UNCHANGED <<driver, shut, held, astray, user, owner>>
FailOneLabelFar ==
    /\ Taking
    /\ failed' = failed \cup {This.res}
    /\ IF This.onfail = "ignore"
       THEN step' = step + 1 /\ UNCHANGED <<phase, ret>>
       ELSE /\ phase' = "unwind" /\ step' = step
            /\ ret' = IF This.onfail = "unwind" THEN "error" ELSE "ok"
    /\ UNCHANGED <<driver, shut, held, astray, user, owner>>

Fail ==
    /\ Taking
    /\ failed' = failed \cup {This.res}
    /\ IF This.onfail = "ignore"
       THEN step' = step + 1 /\ UNCHANGED <<phase, ret>>
       ELSE /\ phase' = "unwind" /\ step' = step - 1
            /\ ret' = IF This.onfail = "unwind" THEN "error" ELSE "ok"
    /\ UNCHANGED <<driver, shut, held, astray, user, owner>>

InitDone ==
    /\ phase = "init" /\ step > Len(D.init)
    /\ phase' = "live" /\ step' = 0
    /\ UNCHANGED <<driver, ret, shut, held, failed, astray, user, owner>>

Inside == {u \in Users : user[u] = "inside"}
Opened == {u \in Users : user[u] # "closed"}

(* sysfs, proc and the network core remove an entry in two steps: they let *)
(* nobody in any more, then wait until nobody is inside.                   *)
Drained(res) == res = D.entry /\ D.hold = "call" /\ res \in held

GiveBack(res) ==
    /\ Drained(res) => shut /\ Inside = {}
    /\ shut' = IF Drained(res) THEN FALSE ELSE shut
    /\ held' = held \ {res}
    /\ astray' = IF res \in held THEN astray ELSE astray \cup {res}

Shut ==
    /\ ~shut
    /\ \/ phase = "unwind" /\ step > 0 /\ Drained(D.init[step].res)
       \/ phase = "exit" /\ step <= Len(D.exit) /\ Drained(D.exit[step])
    /\ shut' = TRUE
    /\ UNCHANGED <<driver, phase, step, ret, held, failed, astray, user, owner>>

(* kfree in the body of init.                                              *)
GiveInInit ==
    /\ InInit /\ ~Taking
    /\ GiveBack(This.res)
    /\ step' = step + 1
    /\ UNCHANGED <<driver, phase, ret, failed, user, owner>>

(* The labels at the end of init.                                          *)
Unwind ==
    /\ phase = "unwind" /\ step > 0
    /\ IF D.init[step].res \in Unlabelled
       THEN UNCHANGED <<shut, held, astray>>
       ELSE GiveBack(D.init[step].res)
    /\ step' = step - 1
    /\ UNCHANGED <<driver, phase, ret, failed, user, owner>>

(* The kernel frees a module whose init failed, whoever has it open; one   *)
(* whose init returned 0 stays.                                            *)
Unwound ==
    /\ phase = "unwind" /\ step = 0
    /\ phase' = IF ret = "ok" THEN "live" ELSE "absent"
    /\ UNCHANGED <<driver, step, ret, shut, held, failed, astray, user, owner>>

(* Faulty variant: rmmod -f.                                               *)
RmmodForced ==
    /\ phase = "live"
    /\ phase' = "exit" /\ step' = 1
    /\ UNCHANGED <<driver, ret, shut, held, failed, astray, user, owner>>

(* rmmod: refused while the module is in use.                              *)
Rmmod ==
    /\ phase = "live"
    /\ D.hold = "open" => Opened = {}
    /\ phase' = "exit" /\ step' = 1
    /\ UNCHANGED <<driver, ret, shut, held, failed, astray, user, owner>>

(* The remove function of a driver runs only if its probe has succeeded.   *)
Unbound == \E i \in DOMAIN D.init : D.init[i].res \in failed /\ D.init[i].onfail = "probe"

Release ==
    /\ phase = "exit" /\ step <= Len(D.exit)
    /\ LET res == D.exit[step] IN
       IF Unbound /\ res # "driver"
       THEN UNCHANGED <<phase, shut, held, astray>>
       ELSE GiveBack(res) /\ phase' \in Outcome(res)
    /\ step' = step + 1
    /\ UNCHANGED <<driver, ret, failed, user, owner>>

ExitDone ==
    /\ phase = "exit" /\ step > Len(D.exit)
    /\ phase' = "absent" /\ step' = 0
    /\ UNCHANGED <<driver, ret, shut, held, failed, astray, user, owner>>
---------------------------------------------------------------------------
(* A user gets in as soon as the entry exists, and while the module is not *)
(* on its way out.                                                         *)
Open(u) ==
    /\ user[u] = "closed" /\ D.entry \in held
    /\ D.hold = "open" => phase \notin {"exit", "oops"}
    /\ ~shut
    /\ user' = [user EXCEPT ![u] = "open"]
    /\ UNCHANGED <<driver, load, owner>>

(* Faulty variant: an entry on its way out still lets a call in.           *)
CallWhileShut(u) ==
    /\ user[u] = "open"
    /\ D.hold = "call" => D.entry \in held
    /\ user' = [user EXCEPT ![u] = IF D.locks THEN "lock" ELSE "inside"]
    /\ UNCHANGED <<driver, load, owner>>

(* It calls an operation.  sysfs and proc refuse one whose entry is gone.  *)
Call(u) ==
    /\ user[u] = "open"
    /\ D.hold = "call" => D.entry \in held /\ ~shut
    /\ user' = [user EXCEPT ![u] = IF D.locks THEN "lock" ELSE "inside"]
    /\ UNCHANGED <<driver, load, owner>>

(* mutex_lock in my_read and my_write.                                     *)
Lock(u) ==
    /\ user[u] = "lock" /\ owner = {}
    /\ user' = [user EXCEPT ![u] = "inside"] /\ owner' = {u}
    /\ UNCHANGED <<driver, load>>

(* Faulty variant: the -EFAULT path does not unlock.                       *)
ReturnLocked(u) ==
    /\ user[u] = "inside"
    /\ user' = [user EXCEPT ![u] = "open"]
    /\ owner' \in {owner, owner \ {u}}
    /\ UNCHANGED <<driver, load>>

(* The operation returns, with the data or with -EFAULT: both unlock.      *)
Return(u) ==
    /\ user[u] = "inside"
    /\ user' = [user EXCEPT ![u] = "open"]
    /\ owner' = owner \ {u}
    /\ UNCHANGED <<driver, load>>

Close(u) ==
    /\ user[u] = "open"
    /\ user' = [user EXCEPT ![u] = "closed"]
    /\ UNCHANGED <<driver, load, owner>>
---------------------------------------------------------------------------
Loading   == Acquire \/ Fail \/ GiveInInit \/ InitDone \/ Unwind \/ Unwound
Unloading == Release \/ ExitDone
Operation(u) == Lock(u) \/ Return(u)

Next ==
    \/ Insmod \/ Loading \/ Rmmod \/ Unloading \/ Shut
    \/ \E u \in Users : Open(u) \/ Call(u) \/ Operation(u) \/ Close(u)

Spec == Init /\ [][Next]_vars

(* What has begun is scheduled until it is done, and mutex_lock is fair.   *)
(* Nobody has to load, open, call or close anything.                       *)
FairSpec ==
    /\ Spec
    /\ WF_vars(Loading) /\ WF_vars(Unloading) /\ WF_vars(Shut)
    /\ \A u \in Users : WF_vars(Return(u)) /\ SF_vars(Lock(u))
---------------------------------------------------------------------------
Resources == UNION {{D.init[i].res : i \in DOMAIN D.init}}

(* The init and exit functions: the variables keep their types.            *)
TypeOK ==
    /\ driver \in Drivers
    /\ phase \in {"absent", "init", "unwind", "live", "exit", "oops"}
    /\ step \in 0..(Len(D.init) + Len(D.exit) + 1)
    /\ ret \in {"ok", "error"} /\ shut \in BOOLEAN
    /\ held \subseteq Resources /\ failed \subseteq Resources
    /\ astray \subseteq Resources \cup {"drvdata"}
    /\ user \in [Users -> {"closed", "open", "lock", "inside"}]
    /\ owner \subseteq Users

(* newchrdevbase.c:212-219, mutex.c:52-66, dtsofled.c:188-198,             *)
(* dtsof.c:79-93 and the others: wherever init stops, and after every exit, *)
(* nothing stays behind but the reference to the device tree node.         *)
NothingLeftBehind == phase = "absent" => held \subseteq {"node"}

(* newchrdevbase.c:212-236 and the others: init and exit give back only    *)
(* what is held, unless init overlooked a failure; my_device.c:73-74 falls *)
(* short of it anyway, and mynetwork.c:109 in its driver data alone.       *)
Overlooked ==
    \E i \in DOMAIN D.init : D.init[i].res \in failed /\ D.init[i].onfail \in {"ignore", "zero"}

ReleasesWhatItHolds ==
    astray \ {"drvdata"} # {} => Overlooked \/ driver = "my_device"

(* The fops of the drivers: no operation runs in a module that is gone,    *)
(* except that of a driver without owner (my_device.c:47) and of a user    *)
(* that opened the device before init failed (mutex.c:51,60).  And once    *)
(* init is over and had all it wanted, an operation finds what it uses, up *)
(* to the last step of exit (mutex.c:73, dtsofled.c:201, mynetwork.c:109). *)
OperationsFindWhatTheyNeed ==
    Inside # {} =>
        /\ phase = "absent" => D.hold = "none" \/ ret # "ok"
        /\ ~(D.needs \subseteq held) => phase = "init" \/ failed # {}

(* mutex.c:101-145: an operation that began returns, on either path.       *)
OperationsReturn == \A u \in Users : user[u] \in {"lock", "inside"} ~> user[u] = "open"

(* sys.c:109, procsys.c:71, sys2.c:172: loading and unloading come to an   *)
(* end, also when the entry to be removed is in use all the time.          *)
InsmodAndRmmodEnd ==
    phase \in {"init", "unwind", "exit"} ~> phase \in {"absent", "live", "oops"}

(* chrdevbase.c:158, "ChardevBase driver has been loaded", and sys2.c:165: *)
(* a module that says it is loaded has what it came for.                   *)
LoadedMeansRegistered ==
    phase = "live" => \A i \in DOMAIN D.init : D.init[i].res \in held \cup {"checked"}
=============================================================================
