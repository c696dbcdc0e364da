# A TLA+ development for linux_driver

The repository is a collection of Linux kernel code: a system call audit for a
2.4 kernel, a producer/consumer module, a module that takes commands through
sysfs, a set of small drivers and a set of exercises, one per kernel API.  Each
is small; what is hard in them is what they share with a running kernel:
other tasks, interrupts to a sequence of steps, failures half way, and objects
that somebody else frees.  The specifications here model that, component by
component, and TLC and TLAPS check what can be said of it.

## Inventory

| Part of `src/` | State | Operations | What is hard | What makes it correct |
|---|---|---|---|---|
| `np-nc/` | three semaphores, a ring with `in` and `out`, the counter `cflag` | N producer and N consumer threads | interleavings; `cflag` tested and incremented without a lock; threads that could not be created | the ring is a bounded queue; permits are conserved; consumers never stop early; producers are not left blocked when their goods fit |
| `auditexample/` | the record buffer `audit_buf`, `current_pos`, `serial`, two function pointers | hook at the end of a system call; `audit()` for the daemon; load and unload | the copy sleeps in page faults; one wake-up at exactly 80 %; signals; two daemons; the daemon's own prints are audited | a batch is an unbroken run of the oldest records; nobody sleeps on a full buffer; a daemon is served |
| `sys2/`: commands | one static buffer `my_data`, the command table, references to interfaces and pids, read-side sections | `my_data_store` and its thirteen handlers | concurrent writers of one buffer; arguments left from earlier commands; prefixes in the table; early returns | references balance, the named command runs, an unregistered interface goes away |
| `sys2/`: packet counters | plain global counters, the registered hook | `packet_hook` on every processor; registration and removal | `++` on every processor at once; a registration that failed; removal with packets inside | a counter is never ahead of the packets; nobody is inside a module that is gone |
| `newchrdevbase/`, `mutex/`, `dtsofled/`, `dtsof/`, `ioctl_device/`, `chrdevbase/`, `sys/`, `sys2/`, `procsys/`, `network/` | the resources a driver holds | init with its error labels, exit, open/read/write/ioctl/release | failures at each step of init; users that come before init is over; removal in use | nothing stays behind, nothing is given back twice, operations find what they need |
| `find_get_pid/` ... `symbol_put_addr/` (21 exercises), `test_module/` | reference counts of the loading task's pid and mm, and of test_module | one init function each | use after put, references kept, puts without a get, test_module removed meanwhile | what is used is alive; what is freed and kept when insmod ends; rmmod respects references |
| `print_pid/`, `iterateprocess/`, `sys/`, `sys2/showtask.c`, `sys2/process.c` | the kernel's task list, the tasks' fd tables and pids | walks and look-ups without a lock | tasks fork, give up their files, leave the list and are freed meanwhile | each surviving task is seen once, nothing freed is read, a fault needs an exit during the walk |
| `__wake_up/`, `__wake_up_sync/`, `__wake_up_sync_key/` | a wait queue, a thread, a timer | init sleeps, the thread wakes it | wake-up before the sleep; entry and task left behind | insmod returns; stale data only after the timeout |
| `add_wait_queue/`, `kernel_thread/`, `kthread_run/` | threads created asleep, a wait queue on init's stack | init starts them, by a wake-up of the queue or one by one | a thread that could not be created; a wake-up that ends early | every created thread runs, insmod returns |

Interaction: the audit hook calls the module through `my_audit` and
`my_sysaudit`, the daemon calls the stub `sys_audit` and its prints run through
the hook again.  The sysfs file of `sys2` calls a handler with a pointer into
the shared buffer; handlers call the network core and the task list.  Drivers
are called by insmod, rmmod and the file layer.  The exercises share
`test_module`.  The other parts do not interact.

`PROJECT.json` lists every component with its status, and every hazard at its
line with the properties that cover it.

## Modules

| Module | Models | Run |
|---|---|---|
| `NpNc` | `np-nc/np-nc.c` | `NpNc` |
| `GoodsFifo` | what the ring promises: a bounded queue | refined by `NpNc` (`FifoSpec`) |
| `Audit` | `auditexample/`: hook, stubs, module, daemon | `Audit`, `AuditTwoDaemons`, `AuditCopied` |
| `AuditLog` | what the audit module promises its daemon | refined by `Audit` (`LogSpec`) |
| `Sys2Store`, `MCSys2Store` | `sys2/`: dispatch and handlers; texts and processes | `Sys2Store`, `Sys2Empty` |
| `PacketHook` | `sys2/mypacket.c`: the hook, its registration and removal | `PacketHook` |
| `LossyCounters` | what `x++` without a lock promises | refined by `NpNc` (`CflagSpec`) and `PacketHook` (`CountersSpec`) |
| `Drivers` | init, exit and users of ten drivers | `Drivers`, `DriversLoaded` |
| `References` | 21 exercises in reference counting and test_module | `References` |
| `TaskWalk`, `MCTaskWalk` | the walks over the task list; its symmetry | `TaskWalk` |
| `WaitQueue` | six wait queue and thread exercises | `WaitQueue` |
| `NpNcProofs`, `AuditProofs`, `Sys2StoreProofs`, `PacketHookProofs`, `DriversProofs`, `ReferencesProofs`, `TaskWalkProofs`, `WaitQueueProofs` | theorems about the module each is named for | TLAPS |

Definitions named "Faulty variant" in the comments are not part of a
specification.  Each is the definition below it with a plausible mistake; put
in its place it makes the property named in `PROJECT.json` fail, which shows
that the property depends on the code.

### NpNc

A step runs a thread to its next access to shared data: the two `down`s, the
store or read of the slot, the advance of the index, the two `up`s, and for a
consumer the load and the store of `cflag++` as separate steps (`CLoad`,
`CStore`).  `pc` is the place in the loop; `p_num` and `seen` are the
locals.  `kernel_thread` may fail for any set of threads.  `made` and `taken`
are history, and the variables of `GoodsFifo`: the refinement says that what is
read is what was stored, in order, once each, at most `BUF_NUM` apart, each
producer's goods in its own order.

The unlocked counter errs one way only, which is what `QuitsOnlyAfterCNUM`
says: an increment may be lost, so a consumer may stay too long, but none leaves
before `CNUM` goods were taken.  `CflagSpec` says the whole of it: `cflag`
implements `LossyCounters`, with the goods taken and counted as what it counts.
Consumers need not return at all: once the
goods are gone, one that tested `cflag` in time waits in `down(&s2)` for ever
and the module's threads stay; this is the program's normal end, so the run
turns the deadlock check off.  `ProducersFinish` is conditional: `N*PNUM` goods
fit in what the consumers certainly take (`CNUM`) plus the ring.  With PNUM 5,
CNUM 5 and BUF_NUM 10, as in `np-nc.c`, they do up to N = 3; the file uses N, the
semaphores and the buffer, but declares none of them, so N is a parameter.

Bounds: two threads of each kind, two goods each, two slots, `CNUM` 2.  The ring
wraps, is full and is empty, two consumers race on the counter, and producers
meet a full ring that consumers have left.  Fairness: a runnable thread runs,
and `up` hands a semaphore to its waiters in turn, hence strong fairness of the
`down`s.  This is the kernel's FIFO wait list of a semaphore.

### Audit

The kernel is a 2.4 one on one processor: a task in the kernel is not
preempted, so a step runs it to its next sleep (the wait queue or a page fault
of the copy).  Any task makes audited calls at any time (`SystemCall`).
`AuditedCalls` is the list of comparisons in `entry.s`; the daemon's own
call, 238, is not in it, but `write`, with which it prints, is.
`module/audit.c` has carriage returns only and counts as one line, so
its definitions all map to line 1.

* `LogSpec`: with one daemon the module implements `AuditLog`.  The mapping
  takes the first `num` records copied as the batch.  Records that arrive in a
  page fault of the copy may be dropped; none is handed over twice, out of
  order or mixed with others.
* `PrintsOnlyWhatWasCopied` does not hold (run `AuditCopied`): `current_pos` is
  read again after the copy, so `num` counts records that were not copied.
* `SleepsExactlyBelowThreshold`, with two daemons: no daemon sleeps on a buffer
  that is full enough or with a signal pending, although the wake-up is sent at
  exactly 80 % and never again.
* `NoShortBatch`, with two daemons, is about the number `audit()` returns: it is
  below 80 % of the buffer only after a signal, or when the other daemon reset
  `current_pos` while this one was in a page fault of its copy (the history
  variable `robbed`; it then returns what came in since, perhaps 0).  Two
  daemons woken for one buffer are no such case: the one that finds it taken
  sleeps again.
* `ReaderServed` while other tasks make calls.  `PrintingFeedsItself` once the
  machine is quiet (`GoQuiet`, which may come at any time or never): with `write`
  audited, the daemon's prints of one batch fill the buffer for the next.  The
  batch an auditor reads is then its own.

Bounds: a buffer of 5 (80 % is 4, so there is room beyond the threshold; 3 with
two daemons), serials modulo 8 so that they wrap, one signal, one unload, one
line per record (eleven in the code: fewer lines make feeding itself harder).
With two daemons the serials are all equal, since no property of that run looks
at them.  Fairness: the daemons are scheduled, the module is loaded in the end,
and some task keeps making calls unless the machine goes quiet.  A quiet machine
whose daemons sleep or were lost with the module stops, so the deadlock check
is off.  Not modelled: a traced task leaves by `tracesys` and is not audited.

### Sys2Store

A write is two steps for the text (the name, then the rest), since `snprintf`
writes from left to right and another writer may come in between; one step per
table entry for the dispatch, since each `strncmp` reads the buffer anew and
nothing locks it (`Match`, `NextCommand`, `UnknownCommand`); and one per access
of the handler to something shared.  A text is the list of the words of its
command's name and the tokens of its argument.  Texts may be torn: a shorter
name ends a longer one early (`NameUpTo`), the rest of a longer command lands in
the parameter of a shorter one, and a reader at another distance than the
name's length finds `Junk`, which no handler accepts.  `setmtu` scans a name and
a number and ignores what follows; `showinterface` and `clearinterface` take the
whole parameter, trimmed, for the interface's name (`NamesDev`).  A thread
that `setthreadpriority` looks up may be gone though its `struct pid` is not:
`PutPid` then returns, giving the reference back as on the other path.

The handlers work on their own copies of the argument, taken when they call
`sscanf`, so the race garbles what a command does, but not its references
(`RefsBalanced`, on every path), and an interface that is unregistered meanwhile
still goes away (`UnregisterCompletes`), whatever the other writer does.

`DispatchesNamedCommand` depends on the order of the table: `setniceuser` comes
before `setnice`.  A writer whose text nobody wrote over before its command was
found gets the handler its own text names.  One that was overtaken (`raced`)
gets the handler the buffer names when it is compared, with one exception, which
is a consequence of the unlocked loop: if it had compared `setnice 5` with
`setniceuser` and the buffer then becomes `setniceuser 7 5`, the next entry,
`setnice`, matches, and `set_all_task_nice` is called with the rest.  That no
other pair of commands is mistaken, however the texts are torn, is what is
checked and proved.

A `setsocketsize` that finds its socket returns from inside `rcu_read_lock`.
From then on its task is in a read-side section for ever, and freeing an
interface waits for every such section to end; so `UnregisterCompletes` names
the one exception, a socket that was resized.

`EmptyInputRefused` does not hold (run `Sys2Empty`): see the findings.

Bounds: two writers, one interface, two processes with different owners, one
socket, and eleven texts (`MCSys2Store`), which reach every handler:
`setmtu` with an MTU in and out of its range and with none, `showinterface` and
`clearinterface` with an interface, `setthreadpriority` with a thread that may be
gone, `setsocketsize` with and without a socket, the two `setnice` commands and
`parse`.  The parameters that handlers refuse are those that races produce.  The
values set are those already in force, since no property looks at them.  A
writer that resized a socket writes no more; otherwise its read-side depth would
grow without end.  Fairness: a write in progress goes on, and the kernel frees an
unregistered interface when it can.  Writers may stop, so the deadlock check is
off.

### Drivers

A driver is a record: the list of resources its init takes, each with what the
code does when it cannot be had, the list its exit gives back, the resource
through which users get in, what an operation needs, and what holds the module
in place.  The actions run these lists as the C code does, one resource a step;
users open, call, return and close at any time, from the moment `cdev_add` (or
the sysfs, proc or network counterpart) was called, which is before init is
over.  `dtsof` does all its work in init, gives its memory back there (`Give`)
and nobody uses it.  `mutex.c`'s lock is taken for each operation.

The properties name their exceptions, and these are the defects of the code:
`dtsofled` reports success after it undid everything (`ret` is still 0) and its
exit then gives back what it does not hold; `my_device` destroys its class
twice, which may oops (as does destroying a device of a class that is an error
pointer), and has no owner; `mynetwork` never sets the driver data its remove
reads; `cdev_add` before the buffer exists lets a user in who finds none; `dtsof`
and `dtsofled` keep their reference to the device tree node.

`mynetwork`'s init only registers a PCI driver and returns that result; its
resources are taken by the probe function.  A probe that fails gives back what
it took and insmod succeeds all the same: the module is live with nothing but
the registered driver, and its exit unregisters that without calling remove
(`Unbound`).
`OperationsFindWhatTheyNeed` is about both the module's code and the resources
an operation uses.

Bounds: two users.  No property relates more.  Fairness: what insmod, rmmod or
an operation began goes on; the mutex is granted in turn.  The removal of a
sysfs or proc entry first shuts the entry and then waits for those inside,
which is why `InsmodAndRmmodEnd` holds with a user that never stops calling.
The system may come to rest (an oops in rmmod), so the deadlock check is off.

### References

An exercise is the list of what its init takes, gives back and uses.  Two tasks
load exercises side by side, a module once at a time, while test_module is
loaded and removed.  `FreedAtExit` says which exercises leave a `struct pid` or
an `mm` behind: all that call `find_get_pid` but `put_pid`, and `get_task_mm`.
`mmput` and `put_pid` print what they gave back, harmlessly: the task itself
holds it.  `module_put` without a reference takes one
away from others or the kernel's own, and rmmod then hits its `BUG_ON`;
`ReferencesPinTestModule` and `BugOnlyAfterStrayPuts` say exactly when.
`try_module_get` and `symbol_put_addr` test `NULL != NULL` and never reach
their point.  Bounds: at most two references to one test_module, which is loaded
at most twice.

### TaskWalk

Three kinds of code: walks that only look at the tasks, walks that go on to
their threads (`showallthread`), fd tables (`showprocessfd`, `setsocketsize`) or
pids (`print_pid`), and the
look-up of `setthreadpriority`, which finds a task by its pid and then calls
`set_user_nice` on it.  The task list is a ring through `init_task`.  A task
exits in three steps: it gives up its files, whose table is freed at once
(`ExitFiles`); it is unlinked and loses its pid, but keeps its link (`Exit`); and
it is freed after a grace period, which on a kernel without preemption waits for
a walk that began before (`Free`).  There, a walk without a lock does see each
surviving task, once (`VisitsEachOnce`), and reads nothing freed (`NotAstray`);
on a preemptible kernel none of that is promised, and the properties say so
(`~preempt`).  `FaultsOnlyAfterExit`: `print_pid` meets a null pid, and the fd
walks a table that is gone, only at a task that exited during the walk; a zombie
that exited before is passed over by its null `files`.

Not modelled: reuse of a pid number, and which threads a task has; they come and
go as tasks do, and `ReadThreads` stands for the whole inner loop of
`showallthread`, which a preemptible kernel may lead astray.  The properties are
about the tasks a walk comes to; that `showtasklist` and `print_task_info` count
them (in `sys.c` they print 0, as `iTaskCount` is never incremented there) is
not part of the model.  Bounds: five task structures, so three
tasks come and go and are reused.  They are interchangeable: the actions and
properties name only `init_task` and `current`, and no property is a liveness
property, so TLC may permute the other three (`MCTaskWalk`).  After an oops in
the walk nothing need happen, so the deadlock check is off.

### WaitQueue

One of six modules is loaded: init, its threads, the timer and rmmod.  Touching
what is gone may go on or crash.

In the three wake-up exercises, if the thread is quicker than init its wake-up
is lost, and `InitReturns` rests on the timeout alone; if it is slower than the
timeout it finds the entry on init's stack and the task in `old_thread` gone, and
`StaleOnlyAfterTimeout` says that this is the only way.  The `_sync` modules read
`old_thread` once more after the wake-up, which nothing protects; the property
leaves that read out.

`add_wait_queue` (for kernels 4.11 and 4.12, whose names it uses) starts two
threads by one wake-up of the queue, which passes over no entry and oopses at one
that holds an error; `kernel_thread` ignores a failure, `kthread_run` checks it.
`CreatedThreadsRun`: a thread that was created does run, unless init ran into
such an error pointer.

Bounds: five ticks for ten thousand.  Fairness: tasks run and time passes.  The
system comes to rest, so the deadlock check is off.

### PacketHook

A packet goes through `packet_hook` on one processor, which counts it as IP and in
one of four classes; each `++` is a load and a store (`Load`, `Store`).  `Receive`
hands over what the IPv4 hook point passes; `Insmod` may fail to register,
unnoticed; `Rmmod` unregisters, and the module goes once the processors left the
hook (`Free`), which the network core sees to.

* `CountersSpec`: the counters implement `LossyCounters`.
* `ExactWithoutOverlap`: they are exact, and the four classes add up to the IP
  packets, unless two processors were at one `++` at once.
* `HookOnlyWhileLoaded`: nobody is in the hook of a module that is gone.

The comments at `mypacket.c:24` and `:49` say that VLAN packets are counted, for
VLAN 1 to VLAN 4094.  They are not: `nf_ops` (line 99) registers the hook for
IPv4, and a frame with a VLAN header does not pass the IPv4 hook point, so
`vlan_stats` stays zero.  This follows from that constant and from the kernel,
whatever the code does, so no property is made of it; the model has both hook
points (`Passes`, `Protocol`) so that the branch for VLANs (`VlanPart`) is
reached by exactly the frames that reach it in the kernel: none.

Bounds: three processors, one VLAN besides untagged frames, four frames per
load; a third processor makes a stale value overwrite two increments.  No
property needs packets to arrive, so the run has no fairness.

## Findings

1. `module/audit.c`: the length copied and the number returned are two reads of
   `current_pos` with a sleep in between (run `AuditCopied`).
2. `sys2/sys2.c:123`: a command without an argument runs with that of an earlier
   one, past the check for empty input (run `Sys2Empty`).
3. `chrdevbase/chrdevbase.c:152-158`: the driver reports that it is loaded when
   its device could not be registered (run `DriversLoaded`).

## Proofs

Every safety invariant, action property and refinement that a passing run checks
is also a theorem, for all values of the constants that their named assumptions
allow.  Each module has its own `IInv`, the inductive invariant, and step lemmas
for its actions; the theorems follow from `Invariance` or from an extension of it
(`FInv`, `CInv`, `EInv`, ...) that is stated where it is needed.

**NpNcProofs**, for every `N`, `PNUM`, `CNUM` and `BUF_NUM`, with or without failures
of `kernel_thread`: `TypeCorrect`, `MutexCorrect`, `PermitsCorrect`,
`CounterCorrect`, and the refinements `CflagCorrect` and `FifoCorrect`.  None of the
properties is inductive as it stands.

* `MutexInv`: with the mutex free, nobody is between `down` and `up`; exclusion
  alone does not say what the semaphore's count means.
* `PermitsConserved` itself, which also bounds `s1` and `s2`: an `up` adds one to
  a count only as its thread leaves `Holders`.  This is why the types are proved
  together with it.
* `RoundInv`: a producer past its loop test has a good left.
* `CountInv`: `cflag` plus the goods taken but not yet counted is at most the
  number of goods taken, and so is what any consumer is about to store.  The
  second half carries lost updates.  `QuitsOnlyAfterCNUM` and `CflagSpec` follow.
* For the ring, `FInv` adds: `BacklogInv` (the goods stored and not taken are `s2`
  plus those in the hands of threads between semaphore and ring), `IndexInv` (the
  indices are the two counts modulo `BUF_NUM`, one late before `advance`),
  `SlotInv` (each waiting good is in its slot) and `MadeInv` (what a producer made
  is what its `p_num` says).  `Room`: the permits leave a slot free for the good
  being stored; that it differs from those in use is `ModDistinct`.
  `FifoCorrect` assumes `PNUM <= 100`: beyond it `i*100 + k` gives two producers
  equal goods, which the abstract queue cannot tell apart.

**AuditProofs**, for any buffer of at least two slots, serial width and list of
calls, and any number of signals, faults and removals.

* `WakeUpCorrect` and `SerialsCorrect`, for any daemons.  The two properties and the
  types are inductive together: a sleeper is below the threshold, and a record
  raises the position by one, so it passes the threshold only by meeting it,
  which wakes.  `ModSucc` carries the serials over the wrap.
* `TypeCorrect`, for any daemons, adds `Copying`: what is copied so far is no more
  than was asked for.
* `BatchCorrect`, for any daemons, adds `Batches`: a daemon in its copy that no
  signal and no other daemon's reset came upon still has a threshold of records
  in the buffer, which only grows behind it.
* `LogCorrect`, the refinement of `AuditLog` (`LogSpec`), for one daemon
  (`Readers = {d}`; two mix their batches).  `OneReader`: a copy under way is an
  initial part of the buffer, which only grows behind it.  It assumes
  `NoStaleBatch`: once the module is removed the stub `sys_audit` returns what is in
  `eax`, and if that is the number of an earlier batch the daemon prints that
  batch again.  Either the null test leaves zero there, as it does in the build
  the runs model, or the module is never removed.

**Sys2StoreProofs**, for any finite set of writers and any interfaces, processes,
sockets and texts.

* `RefsCorrect`.  `NamesInv` adds that what a handler holds is an interface or a
  process there is a count for, so that taking and giving back move the count
  and the set of holders together, on every path out of a handler.
* `DispatchCorrect`.  `NestedNames`: of all the names in the table of `sys2.c` only
  `setnice` is the beginning of another.  `BufferInv`: whatever was torn, the
  buffer starts with one name of the table or with none.  `LoopInv`: as long as
  nobody wrote over a writer's text, the buffer names its command, or will once
  the rest is stored (`NameUpTo`), and no entry it has passed is a prefix of that
  name.  An overtaken writer has passed entries the buffer did not match then,
  so that only the nested pair can be mistaken.  `TextsAssumption` restricts the
  texts as the model does: a text starts with a command's whole name or with no
  command.
* `TypeCorrect`.  `CopyInv`: what a handler goes on to use as a number is one in its
  own copy, whatever other writers have made of the buffer since.

**PacketHookProofs**, for any processors and VLANs and any number of frames:
`HookCorrect`, `TypeCorrect`, the refinement `CountersCorrect` and
`ExactCorrect`.  `BehindInv`: a counter, and what a processor is about to increment,
is not ahead of the completed increments; `BusyInv`: a processor in the hook has
something left to count.  For exactness `EInv` adds `Conserved` (the packets received
are the increments done and the processors that still have theirs to do, for IP
and for the four classes alike) and `Exact` (without an overlap each counter is the
number of its increments, and the value a processor loaded is still current).
The number of processors need not be finite: at most as many as there are frames
are in the hook.

**DriversProofs**, for each of the ten drivers, any users and any number of loads
and removals: `NothingStaysBehind`, `GivesBackOnce`, `OperationsAreSafe` and `TypesKept`.
`Upper`: only what was taken before the present step, and what a later label or
the rest of exit gives back, is held; `Lower`: unless a failure went unnoticed all
of that is held; `FailureInv` says what `ret` tells about failures, and `UserInv` who may
be in.  A failed probe (`Unbound`) leaves the registered driver alone, in `Upper`
and in `Lower`.  `Tables` has the facts about the ten tables that this rests on, driver by
driver: what is taken is taken once and is on the exit list.

**ReferencesProofs**, for any tasks and bounds: `BugCorrect`, `PinCorrect`, `FreedCorrect`
and `TypeCorrect`.  `CountInv`: the count of test_module is the kernel's own reference
plus what was taken less what was given back by those that took none.  `OwnInv`:
the counts of a task's own pid and mm are those that go with its place in its
exercise (`Held`), whose calls `Scripts` lists by kind.

**TaskWalkProofs**, for any set of task structures: `TypeCorrect`, `WalkCorrect`,
`FaultCorrect` and `VisitsCorrect`.  `ListInv`: the links permute the tasks in the list.
`WalkInv`: the tasks in the list and those unlinked during the walk link only to
each other, and the walk is at one of them; none of them is freed while the walk
goes on.  That a walk comes to every task speaks of reachability; `OrderInv` avoids
the induction by ranks: there is a numbering of the tasks in which every link
leads upwards or back to where the walk began, a link in the list skips no listed
task, and a link of a task unlinked meanwhile skips none the walk still has to
come to.  A fork or an exit is given the numbering for the next state, and what
has been visited is never ahead of the walk.

**WaitQueueProofs**, for any timeout: `StaleCorrect` and `TypeCorrect`.  `SleepInv`: init
leaves its sleep by the thread's wake-up or with no tick left, never otherwise; so
whoever finds init gone without having woken it is late.

Only model-checked are the liveness properties, which are out of the prover's
reach, like `ENABLED`: `ProducersFinish`, `ReaderServed`, `PrintingFeedsItself`,
`UnregisterCompletes`, `OperationsReturn`, `InsmodAndRmmodEnd`, `InitReturns` and
`CreatedThreadsRun`.

## Not modelled, and why

Register values, buffer contents, statistics and texts are data that no property
looks at.  `hello`, the symbol look-ups (`find_symbol`, `module_address` and
others), `showkernelsymbol` and the debug printer look something up and print it;
they keep no state.  `abort_exclusive_wait` does not build: its own exit function,
which takes nothing, is called with four arguments.  The driver tests appear
only as the users of Drivers; mmap/main.c, build files and generated code are
left out.

Five hazards have no property, since the code has nothing against them and a
property would only repeat the line or a constant: `PROJECT.json` says why for
each.  Where a
property names a hazard's harm as its exception (`~preempt`, `Overlooked`, a
stray put, a late thread), what is checked is that nothing else leads to it; the
"note" of that hazard says so.

## Plan

Every component whose state changes is modelled, and every safety property the
runs check is proved.  What is left:

1. The safety half of the liveness properties: for `ProducersFinish` that a
   producer that is blocked for ever leaves room nobody can give back, for
   `InitReturns` that a sleeping init always has a tick, a timer or a wake-up
   ahead; each as an invariant with its proof.
2. `LogSpec` for several daemons, against an abstract log that says how their
   batches may mix.
3. Texts that share a beginning with a command but are cut short by the end of
   the buffer, for which `TextsAssumption` would have to be weakened.
