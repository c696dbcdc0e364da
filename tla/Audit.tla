------------------------------- MODULE Audit -------------------------------
(***************************************************************************)
(* The system call audit of auditexample/: the hook at the end of          *)
(* system_call (forKenerl/entry.s), the stubs it calls (forKenerl/audit.c),*)
(* the loadable module that keeps the records (module/audit.c) and the     *)
(* daemon that collects them (daemon/auditd.c).                            *)
(*                                                                         *)
(* The kernel is a 2.4 one on one processor: a task in the kernel runs     *)
(* until it sleeps, and mod_sys_audit sleeps in wait_event_interruptible   *)
(* and in the page faults of __clear_user and __copy_to_user.  A step of   *)
(* the model runs a task up to its next chance to sleep.                   *)
(***************************************************************************)
EXTENDS Integers, Sequences, FiniteSets

CONSTANTS Readers,         (* the daemons, each a caller of audit()          *)
          Calls,           (* numbers of the system calls other tasks make   *)
          AUDIT_BUF_SIZE,  (* module/audit.c, slots of audit_buf             *)
          SerialMod,       (* the u32 serial wraps here: 2^32 in the code    *)
          LinesPerRecord,  (* write() calls the daemon makes for one record  *)
          StaleEax,        (* what eax may hold when sys_audit sets nothing  *)
          MaxSignals,      (* bound: signals sent to the daemons             *)
          MaxUnloads       (* bound: times the module is removed             *)

ASSUME AuditAssumption ==
    /\ Calls \subseteq Nat
    /\ AUDIT_BUF_SIZE \in Nat /\ AUDIT_BUF_SIZE >= 2
    /\ SerialMod \in Nat \ {0}
    /\ LinesPerRecord \in Nat \ {0}
    /\ StaleEax \subseteq Nat
    /\ MaxSignals \in Nat /\ MaxUnloads \in Nat

Slots     == 0..(AUDIT_BUF_SIZE - 1)
Threshold == (AUDIT_BUF_SIZE * 8) \div 10

(* Faulty variant of AuditedCalls: write() is missing from the list.       *)
AuditedWithoutWrite ==
    (1..225) \ {4, 17, 31, 32, 35, 44, 53, 56, 58, 98, 112, 137, 188, 189, 222, 223}

(* The calls system_call compares ORIG_EAX with before it takes auditsys.  *)
(* sys_audit itself, number 238, is not among them.                        *)
AuditedCalls ==
    (1..225) \ {17, 31, 32, 35, 44, 53, 56, 58, 98, 112, 137, 188, 189, 222, 223}
NR_write == 4

VARIABLES
    loaded,       (* my_audit and my_sysaudit point into the module          *)
    audit_buf,    (* serials of the records, by slot                         *)
    current_pos,  (* slots in use                                            *)
    serial,       (* serial of the next record                               *)
    pc,           (* where each daemon is                                    *)
    sigpending,   (* daemons with a signal pending                           *)
    want,         (* records a daemon's copy was asked for                   *)
    user,         (* records copied to a daemon's buffer so far              *)
    num,          (* what audit() returned to a daemon                       *)
    lines,        (* lines a daemon has yet to print                         *)
    robbed,       (* history: daemons in whose copy another reset the buffer *)
    quiet,        (* no task but the daemons makes calls any more            *)
    signals,      (* signals sent so far                                     *)
    unloads       (* removals so far                                         *)

module == <<loaded, audit_buf, current_pos, serial>>
budget == <<quiet, signals, unloads>>
vars   == <<module, pc, sigpending, want, user, num, lines, robbed, budget>>

Set(f, r, v) == [f EXCEPT ![r] = v]
Move(r, from, to) == pc[r] = from /\ pc' = Set(pc, r, to)

(* The daemons may start before the module: audit_init has not run yet.    *)
Init ==
    /\ loaded = FALSE
    /\ audit_buf = [s \in Slots |-> 0] /\ current_pos = 0 /\ serial = 0
    /\ pc = [r \in Readers |-> "user"]
    /\ sigpending = {}
    /\ want = [r \in Readers |-> 0]
    /\ user = [r \in Readers |-> <<>>]
    /\ num = [r \in Readers |-> 0]
    /\ lines = [r \in Readers |-> 0]
    /\ robbed = {}
    /\ quiet = FALSE /\ signals = 0 /\ unloads = 0
---------------------------------------------------------------------------
(* audit_init sets both pointers; the statics of a fresh module are zero.  *)
Load ==
    /\ ~loaded
    /\ loaded' = TRUE
    /\ audit_buf' = [s \in Slots |-> 0] /\ current_pos' = 0 /\ serial' = 0
    /\ UNCHANGED <<pc, sigpending, want, user, num, lines, robbed, budget>>

(* audit_exit clears both pointers and the module goes.  Nothing counted   *)
(* the daemons inside mod_sys_audit as users, so they are not waited for:  *)
(* they would resume in code that is no longer there.                      *)
InModule == {"wait", "asleep", "copy"}

Unload ==
    /\ loaded /\ unloads < MaxUnloads
    /\ loaded' = FALSE
    /\ unloads' = unloads + 1
    /\ pc' = [r \in Readers |-> IF pc[r] \in InModule THEN "lost" ELSE pc[r]]
    /\ robbed' = {}
    /\ UNCHANGED <<audit_buf, current_pos, serial, sigpending, want, user, num, lines, quiet, signals>>

(* Faulty variants of WakeUpAt: the wake-up waits until the buffer is full, *)
(* or tests the position before it is advanced and so is never sent.       *)
WakeUpWhenFull(pos, at) ==
    IF pos = AUDIT_BUF_SIZE THEN [r \in Readers |-> IF at[r] = "asleep" THEN "wait" ELSE at[r]]
                            ELSE at
WakeUpPostIncrement(pos, at) ==
    IF pos - 1 = AUDIT_BUF_SIZE THEN [r \in Readers |-> IF at[r] = "asleep" THEN "wait" ELSE at[r]]
                                ELSE at

(* mod_syscall_audit wakes every sleeper when the buffer gets to 80 %.     *)
WakeUpAt(pos, at) ==
    IF pos = Threshold THEN [r \in Readers |-> IF at[r] = "asleep" THEN "wait" ELSE at[r]]
                       ELSE at


NextSerial == (serial + 1) % SerialMod

(* Faulty variants of ModSyscallAudit: a dropped record uses up a serial,  *)
(* and a full buffer takes one more.                                       *)
ModSyscallAuditNumbersDrops(at) ==
    IF current_pos < AUDIT_BUF_SIZE
    THEN /\ audit_buf' = Set(audit_buf, current_pos, serial)
         /\ serial' = NextSerial
         /\ current_pos' = current_pos + 1
         /\ pc' = WakeUpAt(current_pos + 1, at)
    ELSE UNCHANGED <<audit_buf, current_pos>> /\ serial' = NextSerial /\ pc' = at
ModSyscallAuditOneMore(at) ==
    IF current_pos <= AUDIT_BUF_SIZE
    THEN /\ audit_buf' = Set(audit_buf, current_pos, serial)
         /\ serial' = NextSerial
         /\ current_pos' = current_pos + 1
         /\ pc' = WakeUpAt(current_pos + 1, at)
    ELSE UNCHANGED <<audit_buf, serial, current_pos>> /\ pc' = at

(* mod_syscall_audit, called as the daemons move to `at`: a full buffer    *)
(* drops the record and does not even number it.                           *)
ModSyscallAudit(at) ==
    IF current_pos < AUDIT_BUF_SIZE
    THEN /\ audit_buf' = Set(audit_buf, current_pos, serial)
         /\ serial' = NextSerial
         /\ current_pos' = current_pos + 1
         /\ pc' = WakeUpAt(current_pos + 1, at)
    ELSE UNCHANGED <<audit_buf, serial, current_pos>> /\ pc' = at

(* syscall_audit calls the module when there is one.                       *)
SyscallAudit(nr, at) ==
    IF nr \in AuditedCalls /\ loaded
    THEN ModSyscallAudit(at)
    ELSE UNCHANGED <<audit_buf, serial, current_pos>> /\ pc' = at

(* The end of system_call for a task that is not a daemon.  (A traced task *)
(* leaves through tracesys, which does not audit: it takes no step here.)  *)
SystemCall(nr) ==
    /\ ~quiet
    /\ SyscallAudit(nr, pc)
    /\ UNCHANGED <<loaded, sigpending, want, user, num, lines, robbed, budget>>

(* The machine goes quiet: only the daemons run from now on.               *)
GoQuiet ==
    /\ ~quiet /\ quiet' = TRUE
    /\ UNCHANGED <<module, pc, sigpending, want, user, num, lines, robbed, signals, unloads>>
---------------------------------------------------------------------------
(* The daemon calls audit(0, ...) and mod_sys_audit clears its buffer.     *)
Call(r) ==
    /\ loaded
    /\ Move(r, "user", "wait")
    /\ user' = Set(user, r, <<>>)
    /\ UNCHANGED <<module, sigpending, want, num, lines, robbed, budget>>

(* With no module sys_audit returns without setting a value: what it       *)
(* returns is what its test of my_sysaudit left in eax.                    *)
CallUnloaded(r) ==
    /\ ~loaded
    /\ Move(r, "user", "exit")
    /\ \E v \in StaleEax : num' = Set(num, r, v)
    /\ UNCHANGED <<module, sigpending, want, user, lines, robbed, budget>>

(* Faulty variant: the condition is not tested again after a wake-up.      *)
ReadyAtOnce(r) == current_pos >= 0

(* wait_event_interruptible: the result is ignored, so a signal ends the   *)
(* wait like a full buffer does.  The length of the copy is fixed here.    *)
Ready(r) == current_pos >= Threshold \/ r \in sigpending

WaitEvent(r) ==
    /\ pc[r] = "wait"
    /\ IF Ready(r)
       THEN pc' = Set(pc, r, "copy") /\ want' = Set(want, r, current_pos)
       ELSE pc' = Set(pc, r, "asleep") /\ UNCHANGED want
    /\ UNCHANGED <<module, sigpending, user, num, lines, robbed, budget>>

(* __copy_to_user up to record m.                                          *)
CopiedTo(r, m) ==
    user[r] \o [i \in 1..(m - Len(user[r])) |-> audit_buf[Len(user[r]) + i - 1]]

(* It faults with m records copied: others run before it goes on.          *)
CopyFault(r) ==
    /\ pc[r] = "copy"
    /\ \E m \in (Len(user[r]) + 1)..(want[r] - 1) : user' = Set(user, r, CopiedTo(r, m))
    /\ UNCHANGED <<module, pc, sigpending, want, num, lines, robbed, budget>>

(* Faulty variant: the buffer is not reset after the copy.                 *)
CopyNoReset(r) ==
    /\ Move(r, "copy", "exit")
    /\ user' = Set(user, r, CopiedTo(r, want[r]))
    /\ num' = Set(num, r, current_pos)
    /\ UNCHANGED <<module, sigpending, want, lines, robbed, budget>>

(* It copies the rest; current_pos is read anew for the result, and reset: *)
(* a daemon still in its own copy will return what has come in since.      *)
CopyRest(r) ==
    /\ Move(r, "copy", "exit")
    /\ user' = Set(user, r, CopiedTo(r, want[r]))
    /\ num' = Set(num, r, current_pos)
    /\ current_pos' = 0
    /\ robbed' = {q \in Readers \ {r} : pc[q] = "copy"}
    /\ UNCHANGED <<loaded, audit_buf, serial, sigpending, want, lines, budget>>

(* ret_from_sys_call delivers a pending signal: it kills the daemon, or    *)
(* stops it for a while and lets it go on.                                 *)
SysReturn(r) ==
    /\ pc[r] = "exit"
    /\ pc' = Set(pc, r, "print")
    /\ sigpending' = sigpending \ {r}
    /\ lines' = Set(lines, r, num[r] * LinesPerRecord)
    /\ UNCHANGED <<module, want, user, num, robbed, budget>>

Killed(r) ==
    /\ r \in sigpending
    /\ Move(r, "exit", "dead")
    /\ sigpending' = sigpending \ {r}
    /\ UNCHANGED <<module, want, user, num, lines, robbed, budget>>

(* The daemon is started again.                                            *)
Restart(r) ==
    /\ Move(r, "dead", "user")
    /\ UNCHANGED <<module, sigpending, want, user, num, lines, robbed, budget>>

(* auditd.c prints each of num records; on a terminal every line is a      *)
(* write(), and that is an audited call like any other.                    *)
PrintLine(r) ==
    /\ pc[r] = "print" /\ lines[r] > 0
    /\ lines' = Set(lines, r, lines[r] - 1)
    /\ SyscallAudit(NR_write, pc)
    /\ UNCHANGED <<loaded, sigpending, want, user, num, robbed, budget>>

Printed(r) ==
    /\ lines[r] = 0
    /\ Move(r, "print", "user")
    /\ UNCHANGED <<module, sigpending, want, user, num, lines, robbed, budget>>

(* A signal is kept pending inside audit(), where it interrupts a sleep in *)
(* the wait queue.  Anywhere else in the daemon it kills it at once.       *)
SignalInCall(r) ==
    /\ signals < MaxSignals /\ signals' = signals + 1
    /\ pc[r] \in InModule \cup {"exit"}
    /\ sigpending' = sigpending \cup {r}
    /\ pc' = IF pc[r] = "asleep" THEN Set(pc, r, "wait") ELSE pc
    /\ UNCHANGED <<module, want, user, num, lines, robbed, quiet, unloads>>

SignalOutside(r) ==
    /\ signals < MaxSignals /\ signals' = signals + 1
    /\ pc[r] \in {"user", "print"}
    /\ pc' = Set(pc, r, "dead")
    /\ UNCHANGED <<module, sigpending, want, user, num, lines, robbed, quiet, unloads>>
---------------------------------------------------------------------------
Daemon(r) ==
    \/ Call(r)
    \/ CallUnloaded(r)
    \/ WaitEvent(r)
    \/ CopyFault(r)
    \/ CopyRest(r)
    \/ SysReturn(r)
    \/ PrintLine(r)
    \/ Printed(r)

Tasks == \E nr \in Calls : SystemCall(nr)

Next ==
    \/ Load
    \/ Unload
    \/ Tasks
    \/ GoQuiet
    \/ \E r \in Readers : Daemon(r) \/ Killed(r) \/ Restart(r) \/ SignalInCall(r) \/ SignalOutside(r)

Spec == Init /\ [][Next]_vars

(* The daemons are scheduled fairly, the module is loaded in the end, and  *)
(* some task keeps making calls unless the machine goes quiet, which it    *)
(* need not.                                                               *)
FairSpec ==
    /\ Spec
    /\ WF_vars(Load) /\ \A r \in Readers : WF_vars(Daemon(r))
    /\ WF_vars(Tasks)
---------------------------------------------------------------------------
(* module/audit.c, auditd.c: the variables keep their types.               *)
TypeOK ==
    /\ loaded \in BOOLEAN
    /\ audit_buf \in [Slots -> 0..(SerialMod - 1)]
    /\ current_pos \in 0..AUDIT_BUF_SIZE
    /\ serial \in 0..(SerialMod - 1)
    /\ pc \in [Readers -> {"user", "wait", "asleep", "copy", "exit", "print", "dead", "lost"}]
    /\ sigpending \subseteq Readers
    /\ want \in [Readers -> 0..AUDIT_BUF_SIZE]
    /\ user \in [Readers -> Seq(0..(SerialMod - 1))]
    /\ num \in [Readers -> Nat]
    /\ lines \in [Readers -> Nat]
    /\ robbed \subseteq Readers
    /\ signals \in 0..MaxSignals /\ unloads \in 0..MaxUnloads

(* module/audit.c, wake_up_interruptible and wait_event_interruptible: the *)
(* one wake-up, sent when the buffer gets to exactly 80 %, reaches whoever *)
(* must not sleep on, so a daemon sleeps only while the buffer is below    *)
(* 80 % and no signal is pending for it.                                   *)
SleepsExactlyBelowThreshold ==
    \A r \in Readers : pc[r] = "asleep" => current_pos < Threshold /\ r \notin sigpending

(* module/audit.c, mod_sys_audit: audit() returns fewer records than 80 %  *)
(* of the buffer only when a signal ended the wait, or when another daemon *)
(* emptied the buffer while this one was in a page fault of its copy.      *)
(* Being woken together for one buffer is no such case: the daemon that    *)
(* finds it taken sleeps again.                                            *)
NoShortBatch ==
    [][\A r \in Readers : pc[r] = "copy" /\ pc'[r] = "exit" =>
          num'[r] >= Threshold \/ r \in sigpending \/ r \in robbed]_vars

(* module/audit.c, mod_syscall_audit: the slots in use hold the latest     *)
(* records, consecutively numbered, up to the last one made.               *)
LatestSerials ==
    \A i \in 0..(current_pos - 1) :
        (audit_buf[i] + (current_pos - i)) % SerialMod = serial

(* auditd.c:31-43: the daemon prints num records, so each of them should   *)
(* have been copied by that call.                                          *)
PrintsOnlyWhatWasCopied ==
    \A r \in Readers : pc[r] = "print" => num[r] <= Len(user[r])

(* module/audit.c, mod_sys_audit: with one daemon a batch is the oldest    *)
(* records, in order, once.                                                *)
Received(r) == [i \in 1..(IF num[r] < Len(user[r]) THEN num[r] ELSE Len(user[r])) |-> user[r][i]]
TheReader == CHOOSE r \in Readers : TRUE
Log == INSTANCE AuditLog WITH
           log   <- [i \in 1..current_pos |-> audit_buf[i - 1]],
           next  <- serial,
           batch <- IF pc[TheReader] \in {"exit", "print"} THEN Received(TheReader) ELSE <<>>
LogSpec == Log!Spec

(* module/audit.c, mod_sys_audit: while tasks keep making audited calls, a *)
(* daemon that called audit() gets its answer.                             *)
ReaderServed ==
    \A r \in Readers : pc[r] \in {"wait", "asleep"} ~> pc[r] \in {"exit", "lost"} \/ quiet

(* auditd.c:31-43 with entry.s: printing a batch is itself audited.  On a  *)
(* quiet machine a daemon on a terminal that received one full batch still *)
(* receives another, unless a signal or the module's removal comes between. *)
PrintingFeedsItself ==
    \A r \in Readers :
        (quiet /\ pc[r] = "print" /\ lines[r] = num[r] * LinesPerRecord /\ num[r] >= Threshold)
            ~> \/ pc[r] = "exit" /\ num[r] >= Threshold
               \/ pc[r] \in {"dead", "lost"} \/ r \in sigpending \/ ~loaded
=============================================================================
