---------------------------- MODULE AuditProofs ----------------------------
(***************************************************************************)
(* Proofs about Audit for any number of daemons, any size of the buffer    *)
(* and any width of the serial numbers: the one wake-up is enough, a batch *)
(* is short only for the reasons named, the records waiting are the latest *)
(* ones in order, the variables keep their types, and with one daemon the  *)
(* log is the calls in order.                                              *)
(***************************************************************************)
EXTENDS Audit, SequenceTheorems, TLAPS

(* A quotient and a remainder in range are the only ones.                  *)
LEMMA ModUnique ==
    ASSUME NEW M \in Nat, M > 0, NEW q \in Int, NEW r \in 0..(M - 1), NEW a, a = M * q + r
    PROVE  a % M = r
<1> DEFINE p == a \div M
           s == a % M
<1>1. a \in Int
  OBVIOUS
<1>2. p \in Int /\ s \in 0..(M - 1) /\ a = M * p + s
  BY <1>1
<1> HIDE DEF p, s
<1>3. M * (p - q) = r - s
  BY <1>2
<1>4. p - q \in Int /\ r - s < M /\ r - s > 0 - M
  BY <1>2
<1>5. p - q >= 1 => M * (p - q) >= M
  BY <1>4
<1>6. p - q <= 0 - 1 => M * (p - q) <= 0 - M
  BY <1>4
<1>7. r - s = 0
  BY <1>2, <1>3, <1>4, <1>5, <1>6
<1> QED
  BY <1>2, <1>7 DEF s

(* Counting up commutes with the wrap.                                     *)
LEMMA ModSucc ==
    ASSUME NEW M \in Nat, M > 0, NEW a \in Int
    PROVE  (a + 1) % M = ((a % M) + 1) % M
<1> DEFINE q == a \div M
           r == a % M
<1>1. q \in Int /\ r \in 0..(M - 1) /\ a = M * q + r
  OBVIOUS
<1> HIDE DEF q, r
<1>2. CASE r + 1 < M
  <2>1. a + 1 = M * q + (r + 1) /\ r + 1 \in 0..(M - 1)
    BY <1>1, <1>2
  <2>2. (a + 1) % M = r + 1
    BY <1>1, <2>1, ModUnique
  <2>3. (r + 1) % M = r + 1
    BY <2>1
  <2> QED
    BY <2>2, <2>3 DEF r
<1>3. CASE r + 1 = M
  <2>1. a + 1 = M * (q + 1) + 0 /\ q + 1 \in Int /\ 0 \in 0..(M - 1)
    BY <1>1, <1>3
  <2>2. (a + 1) % M = 0
    BY <2>1, ModUnique
  <2>3. (r + 1) % M = 0
    <3>1. M = M * 1 + 0 /\ 1 \in Int
      OBVIOUS
    <3> QED
      BY <1>3, <2>1, <3>1, ModUnique
  <2> QED
    BY <2>2, <2>3 DEF r
<1> QED
  BY <1>1, <1>2, <1>3
---------------------------------------------------------------------------
Places == {"user", "wait", "asleep", "copy", "exit", "print", "dead", "lost"}

Types ==
    /\ current_pos \in 0..AUDIT_BUF_SIZE
    /\ serial \in 0..(SerialMod - 1)
    /\ audit_buf \in [Slots -> 0..(SerialMod - 1)]
    /\ pc \in [Readers -> Places]
    /\ want \in [Readers -> Nat]

IInv == Types /\ SleepsExactlyBelowThreshold /\ LatestSerials

(* The sizes of the buffer, of the level that wakes and of a serial.       *)
LEMMA Sizes ==
    /\ AUDIT_BUF_SIZE \in Nat /\ AUDIT_BUF_SIZE >= 2
    /\ Threshold \in Nat /\ 0 < Threshold
    /\ SerialMod \in Nat /\ SerialMod > 0
<1>1. AUDIT_BUF_SIZE \in Nat /\ AUDIT_BUF_SIZE >= 2 /\ SerialMod \in Nat /\ SerialMod > 0
  BY AuditAssumption
<1> QED
  BY <1>1 DEF Threshold

LEMMA InitIInv == Init => IInv
<1> SUFFICES ASSUME Init PROVE IInv
  OBVIOUS
<1>1. Types
  BY Sizes DEF Init, Types, Places, Slots
<1>2. SleepsExactlyBelowThreshold /\ LatestSerials
  BY DEF Init, SleepsExactlyBelowThreshold, LatestSerials
<1> QED
  BY <1>1, <1>2 DEF IInv
---------------------------------------------------------------------------
(* A record is made, or dropped, and wakes the sleepers at the threshold.  *)
LEMMA WakeUpEffect ==
    ASSUME Types
    PROVE  /\ WakeUpAt(current_pos + 1, pc) \in [Readers -> Places]
           /\ \A r \in Readers :
                \/ WakeUpAt(current_pos + 1, pc)[r] = pc[r] /\ (pc[r] = "asleep" => current_pos + 1 # Threshold)
                \/ WakeUpAt(current_pos + 1, pc)[r] = "wait"
BY DEF Types, WakeUpAt, Places

LEMMA RecordStep ==
    ASSUME IInv, ModSyscallAudit(pc), UNCHANGED <<sigpending, want>>
    PROVE  IInv'
<1>1. CASE current_pos < AUDIT_BUF_SIZE
  <2>1. /\ audit_buf' = [audit_buf EXCEPT ![current_pos] = serial]
        /\ serial' = (serial + 1) % SerialMod
        /\ current_pos' = current_pos + 1
        /\ pc' = WakeUpAt(current_pos + 1, pc)
    BY <1>1 DEF ModSyscallAudit, Set, NextSerial
  <2>2. /\ current_pos \in Nat /\ current_pos \in Slots /\ serial \in 0..(SerialMod - 1)
        /\ audit_buf \in [Slots -> 0..(SerialMod - 1)] /\ want \in [Readers -> Nat]
    BY <1>1, Sizes DEF IInv, Types, Slots
  <2>3. current_pos' \in 0..AUDIT_BUF_SIZE /\ serial' \in 0..(SerialMod - 1)
    BY <1>1, <2>1, <2>2, Sizes
  <2>4. pc' \in [Readers -> Places]
    BY <2>1, WakeUpEffect DEF IInv
  <2>5. Types'
    BY <2>1, <2>2, <2>3, <2>4 DEF Types
  <2>6. SleepsExactlyBelowThreshold'
    <3> SUFFICES ASSUME NEW r \in Readers, pc'[r] = "asleep"
                 PROVE  current_pos' < Threshold /\ r \notin sigpending'
      BY DEF SleepsExactlyBelowThreshold
    <3>1. pc[r] = "asleep" /\ current_pos + 1 # Threshold
      BY <2>1, WakeUpEffect DEF IInv
    <3>2. current_pos < Threshold /\ r \notin sigpending
      BY <3>1 DEF IInv, SleepsExactlyBelowThreshold
    <3> QED
      BY <2>1, <2>2, <3>1, <3>2, Sizes
  <2>7. LatestSerials'
    <3> SUFFICES ASSUME NEW i \in 0..(current_pos' - 1)
                 PROVE  (audit_buf'[i] + (current_pos' - i)) % SerialMod = serial'
      BY DEF LatestSerials
    <3>1. CASE i = current_pos
      <4>1. audit_buf'[i] = serial /\ current_pos' - i = 1
        BY <2>1, <2>2, <3>1
      <4> QED
        BY <2>1, <4>1
    <3>2. CASE i # current_pos
      <4>1. i \in 0..(current_pos - 1) /\ i \in Slots
        BY <1>1, <2>1, <2>2, <3>2, Sizes DEF Slots
      <4>2. (audit_buf[i] + (current_pos - i)) % SerialMod = serial
        BY <4>1 DEF IInv, LatestSerials
      <4>3. audit_buf[i] \in Int /\ current_pos - i \in Int
        BY <2>2, <4>1
      <4>4. audit_buf'[i] = audit_buf[i]
        BY <2>1, <2>2, <3>2, <4>1
      <4>5. audit_buf'[i] + (current_pos' - i) = (audit_buf[i] + (current_pos - i)) + 1
        BY <2>1, <2>2, <4>1, <4>3, <4>4
      <4>6. (audit_buf[i] + (current_pos - i)) \in Int
        BY <4>3
      <4>7. ((audit_buf[i] + (current_pos - i)) + 1) % SerialMod = (serial + 1) % SerialMod
        BY <4>2, <4>6, Sizes, ModSucc
      <4> QED
        BY <2>1, <4>5, <4>7
    <3> QED
      BY <3>1, <3>2
  <2> QED
    BY <2>5, <2>6, <2>7 DEF IInv
<1>2. CASE ~(current_pos < AUDIT_BUF_SIZE)
  BY <1>2 DEF IInv, Types, SleepsExactlyBelowThreshold, LatestSerials,
              ModSyscallAudit
<1> QED
  BY <1>1, <1>2

(* The end of a system call, of another task or of a daemon that prints.   *)
LEMMA SystemCallStep ==
    ASSUME IInv, NEW nr, SyscallAudit(nr, pc), UNCHANGED <<sigpending, want>>
    PROVE  IInv'
<1>1. CASE nr \in AuditedCalls /\ loaded
  BY <1>1, RecordStep DEF SyscallAudit
<1>2. CASE ~(nr \in AuditedCalls /\ loaded)
  BY <1>2 DEF IInv, Types, SleepsExactlyBelowThreshold, LatestSerials,
              SyscallAudit
<1> QED
  BY <1>1, <1>2
---------------------------------------------------------------------------
(* A daemon that moves on, without the records, to a place where it is     *)
(* neither asleep nor copying.                                             *)
LEMMA MoveOnStep ==
    ASSUME IInv, NEW r \in Readers, NEW to \in Places \ {"asleep", "copy"},
           pc' = [pc EXCEPT ![r] = to],
           \A s \in Readers : s # r => (s \in sigpending' <=> s \in sigpending),
           UNCHANGED <<want, audit_buf, serial>>, current_pos' \in {current_pos, 0}
    PROVE  IInv'
<1>1. /\ pc' \in [Readers -> Places] /\ pc'[r] = to
      /\ \A s \in Readers : s # r => pc'[s] = pc[s]
  BY DEF IInv, Types
<1>2. current_pos' \in 0..AUDIT_BUF_SIZE
  BY Sizes DEF IInv, Types
<1>3. Types'
  BY <1>1, <1>2 DEF IInv, Types
<1>4. SleepsExactlyBelowThreshold'
  BY <1>1, Sizes DEF IInv, SleepsExactlyBelowThreshold
<1>5. LatestSerials'
  BY DEF IInv, LatestSerials
<1> QED
  BY <1>3, <1>4, <1>5 DEF IInv

LEMMA WaitEventStep ==
    ASSUME IInv, NEW r \in Readers, WaitEvent(r)
    PROVE  IInv'
<1>1. /\ pc[r] = "wait" /\ UNCHANGED <<audit_buf, current_pos, serial, sigpending>>
      /\ \/ /\ current_pos >= Threshold \/ r \in sigpending
            /\ pc' = [pc EXCEPT ![r] = "copy"] /\ want' = [want EXCEPT ![r] = current_pos]
         \/ /\ ~(current_pos >= Threshold) /\ r \notin sigpending
            /\ pc' = [pc EXCEPT ![r] = "asleep"] /\ want' = want
  BY DEF WaitEvent, Ready, Set, module
<1>2. current_pos \in Nat /\ pc \in [Readers -> Places] /\ want \in [Readers -> Nat]
  BY Sizes DEF IInv, Types
<1>3. Types'
  BY <1>1, <1>2 DEF IInv, Types, Places
<1>4. SleepsExactlyBelowThreshold'
  BY <1>1, <1>2, Sizes DEF IInv, SleepsExactlyBelowThreshold
<1>5. LatestSerials'
  BY <1>1 DEF IInv, LatestSerials
<1> QED
  BY <1>3, <1>4, <1>5 DEF IInv

(* Steps that leave the daemons where they are, or lost.                   *)
LEMMA LoadStep ==
    ASSUME IInv, Load \/ Unload
    PROVE  IInv'
<1>1. CASE Load
  <2>1. /\ current_pos' = 0 /\ serial' = 0 /\ audit_buf' = [s \in Slots |-> 0]
        /\ UNCHANGED <<pc, sigpending, want>>
    BY <1>1 DEF Load
  <2>2. Types'
    BY <2>1, Sizes DEF IInv, Types
  <2>3. SleepsExactlyBelowThreshold' /\ LatestSerials'
    BY <2>1, Sizes DEF IInv, SleepsExactlyBelowThreshold, LatestSerials
  <2> QED
    BY <2>2, <2>3 DEF IInv
<1>2. CASE Unload
  <2>1. /\ UNCHANGED <<audit_buf, current_pos, serial, sigpending, want>>
        /\ pc' = [r \in Readers |-> IF pc[r] \in InModule THEN "lost" ELSE pc[r]]
    BY <1>2 DEF Unload
  <2>2. pc' \in [Readers -> Places] /\ \A r \in Readers : pc'[r] \in {pc[r], "lost"}
    BY <2>1 DEF IInv, Types, Places
  <2>3. Types'
    BY <2>1, <2>2 DEF IInv, Types
  <2>4. SleepsExactlyBelowThreshold' /\ LatestSerials'
    BY <2>1, <2>2 DEF IInv, SleepsExactlyBelowThreshold, LatestSerials
  <2> QED
    BY <2>3, <2>4 DEF IInv
<1> QED
  BY <1>1, <1>2

(* A signal wakes a daemon that sleeps.                                    *)
LEMMA SignalStep ==
    ASSUME IInv, NEW r \in Readers, SignalInCall(r)
    PROVE  IInv'
<1>1. /\ UNCHANGED <<audit_buf, current_pos, serial, want>>
      /\ sigpending' = sigpending \cup {r}
      /\ pc' = IF pc[r] = "asleep" THEN [pc EXCEPT ![r] = "wait"] ELSE pc
  BY DEF SignalInCall, module, Set
<1>2. /\ pc' \in [Readers -> Places] /\ pc'[r] # "asleep"
      /\ \A s \in Readers : pc'[s] \in {pc[s], "wait"}
  BY <1>1 DEF IInv, Types, Places
<1>3. Types'
  BY <1>1, <1>2 DEF IInv, Types
<1>4. SleepsExactlyBelowThreshold' /\ LatestSerials'
  BY <1>1, <1>2 DEF IInv, SleepsExactlyBelowThreshold, LatestSerials
<1> QED
  BY <1>3, <1>4 DEF IInv

(* The steps of a daemon.                                                  *)
LEMMA DaemonStep ==
    ASSUME IInv, NEW r \in Readers, Daemon(r) \/ Killed(r) \/ Restart(r) \/ SignalOutside(r)
    PROVE  IInv'
<1> DEFINE Goes(to) ==
             /\ to \in Places \ {"asleep", "copy"} /\ pc' = [pc EXCEPT ![r] = to]
             /\ sigpending' \in {sigpending, sigpending \ {r}}
             /\ UNCHANGED <<want, audit_buf, serial>> /\ current_pos' \in {current_pos, 0}
<1>1. ASSUME NEW to, Goes(to) PROVE IInv'
  BY <1>1, MoveOnStep
<1>2. CASE Call(r)
  <2>1. Goes("wait")
    BY <1>2 DEF Call, Move, Set, module, Places
  <2> QED
    BY <1>1, <2>1
<1>3. CASE CallUnloaded(r) \/ CopyRest(r)
  <2>1. Goes("exit")
    BY <1>3 DEF CallUnloaded, CopyRest, Move, Set, module, Places
  <2> QED
    BY <1>1, <2>1
<1>4. CASE WaitEvent(r)
  BY <1>4, WaitEventStep
<1>5. CASE CopyFault(r)
  BY <1>5 DEF CopyFault, module, IInv, Types, SleepsExactlyBelowThreshold,
              LatestSerials
<1>6. CASE SysReturn(r)
  <2>1. Goes("print")
    BY <1>6 DEF SysReturn, Set, module, Places
  <2> QED
    BY <1>1, <2>1
<1>7. CASE PrintLine(r)
  BY <1>7, SystemCallStep DEF PrintLine
<1>8. CASE Printed(r) \/ Restart(r)
  <2>1. Goes("user")
    BY <1>8 DEF Printed, Restart, Move, Set, module, Places
  <2> QED
    BY <1>1, <2>1
<1>9. CASE Killed(r) \/ SignalOutside(r)
  <2>1. Goes("dead")
    BY <1>9 DEF Killed, SignalOutside, Move, Set, module, Places
  <2> QED
    BY <1>1, <2>1
<1> QED
  BY <1>2, <1>3, <1>4, <1>5, <1>6, <1>7, <1>8, <1>9 DEF Daemon
---------------------------------------------------------------------------
LEMMA NextIInv == IInv /\ [Next]_vars => IInv'
<1> SUFFICES ASSUME IInv, [Next]_vars PROVE IInv'
  OBVIOUS
<1>1. CASE GoQuiet \/ UNCHANGED vars
  <2>1. UNCHANGED <<audit_buf, current_pos, serial, pc, sigpending, want>>
    BY <1>1 DEF GoQuiet, vars, module
  <2> QED
    BY <2>1 DEF IInv, Types, SleepsExactlyBelowThreshold, LatestSerials
<1>2. ASSUME NEW nr \in Calls, SystemCall(nr) PROVE IInv'
  BY <1>2, SystemCallStep DEF SystemCall
<1> QED
  BY <1>1, <1>2, LoadStep, SignalStep, DaemonStep DEF Next, Tasks

(* module/audit.c: the invariant the other theorems rest on.               *)
THEOREM Invariance == Spec => []IInv
BY InitIInv, NextIInv, PTL DEF Spec

(* module/audit.c, wake_up_interruptible and wait_event_interruptible: the *)
(* one wake-up reaches whoever must not sleep on: a daemon sleeps only     *)
(* below the threshold and with no signal pending.                         *)
THEOREM WakeUpCorrect == Spec => []SleepsExactlyBelowThreshold
<1>1. IInv => SleepsExactlyBelowThreshold
  BY DEF IInv
<1> QED
  BY <1>1, Invariance, PTL

(* module/audit.c, mod_syscall_audit: wherever the serials wrap, the slots *)
(* in use hold the latest ones in order.                                   *)
THEOREM SerialsCorrect == Spec => []LatestSerials
<1>1. IInv => LatestSerials
  BY DEF IInv
<1> QED
  BY <1>1, Invariance, PTL
---------------------------------------------------------------------------
(* The buffer of a daemon in its copy: it was at the threshold when the    *)
(* wait ended, and it only grows until some daemon resets it.              *)
Batches ==
    /\ robbed \subseteq Readers
    /\ \A r \in Readers : pc[r] \in InModule => loaded
    /\ \A r \in Readers :
          pc[r] = "copy" /\ r \notin sigpending /\ r \notin robbed => current_pos >= Threshold

LEMMA RecordMoves ==
    ASSUME Types, NEW nr, SyscallAudit(nr, pc)
    PROVE  \A r \in Readers : pc'[r] = pc[r] \/ (pc[r] = "asleep" /\ pc'[r] = "wait")
BY DEF Types, SyscallAudit, ModSyscallAudit, WakeUpAt

LEMMA RecordBatches ==
    ASSUME Types, Batches, NEW nr, SyscallAudit(nr, pc), UNCHANGED <<loaded, sigpending, robbed>>
    PROVE  Batches'
<1>1. \A r \in Readers : pc'[r] = pc[r] \/ (pc[r] = "asleep" /\ pc'[r] = "wait")
  BY RecordMoves
<1>2. current_pos \in Nat /\ Threshold \in Nat /\ current_pos' \in {current_pos, current_pos + 1}
  BY Sizes DEF Types, SyscallAudit, ModSyscallAudit
<1> QED
  BY <1>1, <1>2 DEF Batches, InModule

(* A daemon moves, and nobody else's batch changes.                        *)
LEMMA MoveBatches ==
    ASSUME Types, Batches, NEW r \in Readers,
           \A q \in Readers : q # r => pc'[q] = pc[q] /\ (q \in sigpending => q \in sigpending'),
           pc'[r] \in InModule => loaded,
           pc'[r] = "copy" =>
               r \in sigpending' \/ current_pos >= Threshold \/ (pc[r] = "copy" /\ r \notin sigpending),
           UNCHANGED <<loaded, robbed, current_pos>>
    PROVE  Batches'
BY Sizes DEF Batches, Types

LEMMA NextBatches == IInv /\ Batches /\ [Next]_vars => Batches'
<1> SUFFICES ASSUME IInv, Batches, [Next]_vars PROVE Batches'
  OBVIOUS
<1>1. Types /\ pc \in [Readers -> Places] /\ current_pos \in Nat /\ Threshold \in Nat
  BY Sizes DEF IInv, Types
<1>2. CASE Load
  BY <1>2 DEF Load, Batches, InModule
<1>3. CASE Unload
  <2>1. robbed' = {} /\ \A r \in Readers : pc'[r] \notin InModule
    BY <1>3 DEF Unload, InModule
  <2> QED
    BY <2>1 DEF Batches, InModule
<1>4. CASE GoQuiet \/ UNCHANGED vars
  BY <1>4 DEF GoQuiet, vars, module, Batches
<1>5. ASSUME NEW nr \in Calls, SystemCall(nr) PROVE Batches'
  BY <1>1, <1>5, RecordBatches DEF SystemCall
<1>6. ASSUME NEW r \in Readers, CopyRest(r) PROVE Batches'
  <2>1. /\ pc' = [pc EXCEPT ![r] = "exit"] /\ UNCHANGED <<loaded, sigpending>>
        /\ robbed' = {q \in Readers \ {r} : pc[q] = "copy"}
    BY <1>6 DEF CopyRest, Move, Set
  <2> QED
    BY <1>1, <2>1 DEF Batches, InModule
<1>7. ASSUME NEW r \in Readers, PrintLine(r) PROVE Batches'
  BY <1>1, <1>7, RecordBatches DEF PrintLine
<1>8. ASSUME NEW r \in Readers, Call(r) \/ CallUnloaded(r) \/ WaitEvent(r) \/ CopyFault(r)
      PROVE  Batches'
  <2>1. UNCHANGED <<loaded, robbed, current_pos, sigpending>> /\ \A q \in Readers : q # r => pc'[q] = pc[q]
    BY <1>1, <1>8 DEF Call, CallUnloaded, WaitEvent, CopyFault, Move, Set, module
  <2>2. pc'[r] \in InModule => loaded
    BY <1>1, <1>8 DEF Call, CallUnloaded, WaitEvent, CopyFault, Move, Set, module, Batches, InModule
  <2>3. pc'[r] = "copy" => r \in sigpending \/ current_pos >= Threshold \/ pc[r] = "copy"
    BY <1>1, <1>8 DEF Call, CallUnloaded, WaitEvent, Ready, CopyFault, Move, Set
  <2> QED
    BY <1>1, <2>1, <2>2, <2>3, MoveBatches
<1>9. ASSUME NEW r \in Readers,
             SysReturn(r) \/ Printed(r) \/ Killed(r) \/ Restart(r) \/ SignalInCall(r) \/ SignalOutside(r)
      PROVE  Batches'
  <2>1. UNCHANGED <<loaded, robbed, current_pos>> /\ \A q \in Readers : q # r => pc'[q] = pc[q]
    BY <1>1, <1>9 DEF SysReturn, Printed, Killed, Restart, SignalInCall, SignalOutside, Move, Set, module
  <2>2. \A q \in Readers : q # r /\ q \in sigpending => q \in sigpending'
    BY <1>9 DEF SysReturn, Printed, Killed, Restart, SignalInCall, SignalOutside
  <2>3. pc'[r] \in InModule => pc[r] \in InModule /\ r \in sigpending'
    BY <1>1, <1>9 DEF SysReturn, Printed, Killed, Restart, SignalInCall, SignalOutside, Move, Set, InModule
  <2>4. pc'[r] = "copy" => r \in sigpending'
    BY <2>3 DEF InModule
  <2> QED
    BY <1>1, <2>1, <2>2, <2>3, <2>4, MoveBatches DEF Batches
<1> QED
  BY <1>2, <1>3, <1>4, <1>5, <1>6, <1>7, <1>8, <1>9 DEF Next, Tasks, Daemon

LEMMA InitBatches == Init => Batches
BY DEF Init, Batches, InModule
---------------------------------------------------------------------------
(* The copy: what a daemon has of it so far never exceeds what it wants.   *)
Serials == 0..(SerialMod - 1)

MoreTypes ==
    /\ sigpending \subseteq Readers
    /\ want \in [Readers -> 0..AUDIT_BUF_SIZE]
    /\ user \in [Readers -> Seq(Serials)]
    /\ num \in [Readers -> Nat]
    /\ lines \in [Readers -> Nat]
    /\ signals \in 0..MaxSignals /\ unloads \in 0..MaxUnloads

Copying ==
    \A r \in Readers :
        /\ pc[r] \in {"wait", "asleep"} => user[r] = <<>>
        /\ pc[r] = "copy" => Len(user[r]) <= want[r]

CInv == IInv /\ MoreTypes /\ Copying

LEMMA FunctionIsSeq ==
    ASSUME NEW S, NEW n \in Nat, NEW f \in [1..n -> S]
    PROVE  f \in Seq(S) /\ Len(f) = n
<1>1. f \in Seq(S)
  BY SeqDef
<1>2. DOMAIN f = 1..Len(f) /\ Len(f) \in Nat
  BY <1>1, LenProperties
<1> QED
  BY <1>1, <1>2

(* __copy_to_user up to record m: what was copied before, and then slots.  *)
LEMMA CopiedToIs ==
    ASSUME Types, MoreTypes, NEW r \in Readers, NEW m \in Len(user[r])..AUDIT_BUF_SIZE
    PROVE  /\ Len(user[r]) \in Nat
           /\ CopiedTo(r, m) \in Seq(Serials) /\ Len(CopiedTo(r, m)) = m
           /\ \A i \in 1..m : CopiedTo(r, m)[i] = IF i <= Len(user[r]) THEN user[r][i] ELSE audit_buf[i - 1]
<1> DEFINE k == Len(user[r])
           rest == [i \in 1..(m - k) |-> audit_buf[k + i - 1]]
<1>1. user[r] \in Seq(Serials) /\ k \in Nat /\ m \in Nat /\ k <= m
  BY Sizes, LenProperties DEF MoreTypes
<1> HIDE DEF k
<1>2. \A i \in 1..(m - k) : audit_buf[k + i - 1] \in Serials
  <2> TAKE i \in 1..(m - k)
  <2>1. k + i - 1 \in 0..(AUDIT_BUF_SIZE - 1)
    BY <1>1, Sizes
  <2> QED
    BY <2>1 DEF Types, Slots, Serials
<1>3. rest \in [1..(m - k) -> Serials] /\ m - k \in Nat
  <2>1. m - k \in Nat
    BY <1>1
  <2>2. rest \in [1..(m - k) -> Serials]
    BY <1>2
  <2> QED
    BY <2>1, <2>2
<1>4. rest \in Seq(Serials) /\ Len(rest) = m - k
  BY <1>3, FunctionIsSeq
<1>5. CopiedTo(r, m) = user[r] \o rest
  BY DEF CopiedTo, k
<1>6. /\ user[r] \o rest \in Seq(Serials) /\ Len(user[r] \o rest) = k + (m - k)
      /\ \A i \in 1..(k + (m - k)) : (user[r] \o rest)[i] = IF i <= k THEN user[r][i] ELSE rest[i - k]
  <2> HIDE DEF rest
  <2> QED
    BY <1>1, <1>4, ConcatProperties DEF k
<1>7. k + (m - k) = m
  BY <1>1
<1>8. ASSUME NEW i \in 1..m, ~(i <= k) PROVE rest[i - k] = audit_buf[i - 1]
  <2>1. i - k \in 1..(m - k) /\ k + (i - k) - 1 = i - 1
    BY <1>1, <1>8
  <2> QED
    BY <2>1
<1> HIDE DEF rest
<1>9. \A i \in 1..m : CopiedTo(r, m)[i] = IF i <= k THEN user[r][i] ELSE audit_buf[i - 1]
  BY <1>5, <1>6, <1>7, <1>8
<1> QED
  BY <1>1, <1>5, <1>6, <1>7, <1>9 DEF k

(* Steps that leave the copies as they are.                                *)
LEMMA OtherCopyStep ==
    ASSUME CInv, NEW nr,
           \/ Load \/ Unload \/ GoQuiet \/ SystemCall(nr) \/ UNCHANGED vars
           \/ \E r \in Readers : SysReturn(r) \/ PrintLine(r) \/ Printed(r) \/ Killed(r) \/ Restart(r)
                               \/ SignalInCall(r) \/ SignalOutside(r)
    PROVE  MoreTypes' /\ Copying'
<1> USE DEF CInv
<1>1. /\ user' = user /\ want' = want /\ num' = num
      /\ sigpending' \subseteq Readers
      /\ signals' \in 0..MaxSignals /\ unloads' \in 0..MaxUnloads
  BY AuditAssumption DEF MoreTypes, Load, Unload, GoQuiet, SystemCall, SysReturn, PrintLine, Printed, Killed,
     Restart, SignalInCall, SignalOutside, module, budget, vars
<1>2. lines' \in [Readers -> Nat]
  <2>1. ASSUME NEW r \in Readers, SysReturn(r) PROVE lines' \in [Readers -> Nat]
    <3>1. num[r] * LinesPerRecord \in Nat
      BY AuditAssumption DEF MoreTypes
    <3> QED
      BY <2>1, <3>1 DEF MoreTypes, SysReturn, Set
  <2>2. ASSUME NEW r \in Readers, PrintLine(r) PROVE lines' \in [Readers -> Nat]
    <3>1. lines[r] - 1 \in Nat
      BY <2>2 DEF MoreTypes, PrintLine
    <3> QED
      BY <2>2, <3>1 DEF MoreTypes, PrintLine, Set
  <2>3. CASE lines' = lines
    BY <2>3 DEF MoreTypes
  <2> QED
    BY <2>1, <2>2, <2>3 DEF Load, Unload, GoQuiet, SystemCall, Printed, Killed, Restart, SignalInCall,
       SignalOutside, module, budget, vars
<1>3. \A s \in Readers :
          \/ pc'[s] = pc[s] \/ (pc[s] = "asleep" /\ pc'[s] = "wait")
          \/ pc'[s] \in {"lost", "print", "user", "dead"}
  <2>1. CASE SystemCall(nr) \/ \E r \in Readers : PrintLine(r)
    BY <2>1, RecordMoves DEF IInv, SystemCall, PrintLine
  <2>2. CASE Load \/ GoQuiet \/ UNCHANGED vars
    BY <2>2 DEF Load, GoQuiet, vars
  <2>3. CASE Unload
    BY <2>3 DEF Unload, IInv, Types
  <2>4. ASSUME NEW r \in Readers,
               SysReturn(r) \/ Printed(r) \/ Killed(r) \/ Restart(r) \/ SignalInCall(r) \/ SignalOutside(r),
               NEW s \in Readers
        PROVE  \/ pc'[s] = pc[s] \/ (pc[s] = "asleep" /\ pc'[s] = "wait")
               \/ pc'[s] \in {"lost", "print", "user", "dead"}
    BY <2>4 DEF IInv, Types, SysReturn, Printed, Killed, Restart, SignalInCall, SignalOutside, Move, Set
  <2> QED
    BY <2>1, <2>2, <2>3, <2>4
<1>4. MoreTypes'
  BY <1>1, <1>2 DEF MoreTypes
<1>5. Copying'
  BY <1>1, <1>3 DEF Copying
<1> QED
  BY <1>4, <1>5

(* The steps of audit() that fill the daemon's buffer.                     *)
LEMMA AuditCopyStep ==
    ASSUME CInv, NEW r \in Readers,
           Call(r) \/ CallUnloaded(r) \/ WaitEvent(r) \/ CopyFault(r) \/ CopyRest(r)
    PROVE  MoreTypes' /\ Copying'
<1> USE DEF CInv
<1>1. /\ Types /\ current_pos \in 0..AUDIT_BUF_SIZE /\ current_pos \in Nat
      /\ pc \in [Readers -> Places] /\ want \in [Readers -> 0..AUDIT_BUF_SIZE]
      /\ user \in [Readers -> Seq(Serials)] /\ num \in [Readers -> Nat]
      /\ <<>> \in Seq(Serials) /\ Len(<<>>) = 0
  BY Sizes, EmptySeq DEF IInv, Types, MoreTypes
<1>2. /\ UNCHANGED <<sigpending, lines, signals, unloads>>
      /\ \A s \in Readers : s # r => pc'[s] = pc[s] /\ want'[s] = want[s] /\ user'[s] = user[s]
  BY <1>1 DEF Call, CallUnloaded, WaitEvent, CopyFault, CopyRest, Move, Set, module, budget
<1>3. /\ want' \in [Readers -> 0..AUDIT_BUF_SIZE] /\ num' \in [Readers -> Nat]
      /\ user' \in [Readers -> Seq(Serials)]
      /\ pc'[r] \in {"wait", "asleep"} => user'[r] = <<>>
      /\ pc'[r] = "copy" => Len(user'[r]) <= want'[r]
  <2>1. CASE Call(r)
    <3>1. /\ pc' = [pc EXCEPT ![r] = "wait"] /\ user' = [user EXCEPT ![r] = <<>>]
          /\ want' = want /\ num' = num
      BY <2>1 DEF Call, Move, Set
    <3> QED
      BY <1>1, <3>1
  <2>2. CASE CallUnloaded(r)
    <3>1. PICK v \in StaleEax : num' = [num EXCEPT ![r] = v]
      BY <2>2 DEF CallUnloaded, Set
    <3>2. v \in Nat
      BY AuditAssumption
    <3>3. pc' = [pc EXCEPT ![r] = "exit"] /\ want' = want /\ user' = user
      BY <2>2 DEF CallUnloaded, Move, Set
    <3> QED
      BY <1>1, <3>1, <3>2, <3>3
  <2>3. CASE WaitEvent(r)
    <3>1. /\ \/ pc' = [pc EXCEPT ![r] = "copy"] /\ want' = [want EXCEPT ![r] = current_pos]
             \/ pc' = [pc EXCEPT ![r] = "asleep"] /\ want' = want
          /\ pc[r] = "wait" /\ num' = num /\ user' = user
      BY <2>3 DEF WaitEvent, Set
    <3>2. Len(user[r]) = 0 /\ user[r] = <<>>
      BY <1>1, <3>1 DEF Copying
    <3>3. pc'[r] = "copy" => want'[r] = current_pos
      BY <1>1, <3>1
    <3>4. want' \in [Readers -> 0..AUDIT_BUF_SIZE]
      BY <1>1, <3>1
    <3> QED
      BY <1>1, <3>1, <3>2, <3>3, <3>4
  <2>4. CASE CopyFault(r)
    <3>1. PICK m \in (Len(user[r]) + 1)..(want[r] - 1) : user' = [user EXCEPT ![r] = CopiedTo(r, m)]
      BY <2>4 DEF CopyFault, Set
    <3>2. Len(user[r]) \in Nat
      BY <1>1, LenProperties
    <3>3. m \in Len(user[r])..AUDIT_BUF_SIZE /\ m <= want[r]
      BY <1>1, <3>1, <3>2, Sizes
    <3>4. CopiedTo(r, m) \in Seq(Serials) /\ Len(CopiedTo(r, m)) = m
      BY <1>1, <3>3, CopiedToIs
    <3> QED
      BY <1>1, <2>4, <3>1, <3>3, <3>4 DEF CopyFault, module, budget
  <2>5. CASE CopyRest(r)
    <3>1. /\ pc[r] = "copy" /\ pc' = [pc EXCEPT ![r] = "exit"]
          /\ user' = [user EXCEPT ![r] = CopiedTo(r, want[r])]
          /\ num' = [num EXCEPT ![r] = current_pos] /\ want' = want
      BY <2>5 DEF CopyRest, Move, Set
    <3>2. Len(user[r]) \in Nat
      BY <1>1, LenProperties
    <3>3. want[r] \in Len(user[r])..AUDIT_BUF_SIZE
      BY <1>1, <3>1, <3>2, Sizes DEF Copying
    <3>4. CopiedTo(r, want[r]) \in Seq(Serials)
      BY <1>1, <3>3, CopiedToIs
    <3> QED
      BY <1>1, <3>1, <3>4
  <2> QED
    BY <2>1, <2>2, <2>3, <2>4, <2>5
<1>4. MoreTypes'
  BY <1>2, <1>3 DEF MoreTypes
<1>5. Copying'
  BY <1>2, <1>3 DEF Copying
<1> QED
  BY <1>4, <1>5

LEMMA NextCInv == CInv /\ [Next]_vars => CInv'
<1> SUFFICES ASSUME CInv, [Next]_vars PROVE CInv'
  OBVIOUS
<1>1. IInv'
  BY NextIInv DEF CInv
<1>2. MoreTypes' /\ Copying'
  BY OtherCopyStep, AuditCopyStep DEF Next, Tasks, Daemon
<1> QED
  BY <1>1, <1>2 DEF CInv

LEMMA InitCInv == Init => CInv
<1> SUFFICES ASSUME Init PROVE CInv
  OBVIOUS
<1>1. <<>> \in Seq(Serials)
  BY EmptySeq
<1>2. MoreTypes
  BY <1>1, Sizes, AuditAssumption DEF Init, MoreTypes
<1>3. Copying
  BY DEF Init, Copying
<1> QED
  BY <1>2, <1>3, InitIInv DEF CInv

(* module/audit.c, auditd.c: the variables keep their types.               *)
THEOREM TypeCorrect == Spec => []TypeOK
<1>1. Init => loaded \in BOOLEAN
  BY DEF Init
<1>2. loaded \in BOOLEAN /\ [Next]_vars => (loaded \in BOOLEAN)'
  BY DEF Next, Load, Unload, Tasks, SystemCall, GoQuiet, Daemon, Call, CallUnloaded, WaitEvent, CopyFault,
         CopyRest, SysReturn, PrintLine, Printed, Killed, Restart, SignalInCall, SignalOutside, module, vars
<1>3. CInv /\ Batches /\ loaded \in BOOLEAN => TypeOK
  BY DEF CInv, IInv, Types, MoreTypes, Batches, TypeOK, Places, Serials
<1>4. CInv /\ Batches /\ [Next]_vars => Batches'
  BY NextBatches DEF CInv
<1> QED
  BY <1>1, <1>2, <1>3, <1>4, InitCInv, InitBatches, NextCInv, PTL DEF Spec

(* module/audit.c, mod_sys_audit: whatever the number of daemons and of    *)
(* page faults, audit() returns less than 80 % of the buffer only after a  *)
(* signal or when another daemon emptied the buffer during the copy.       *)
THEOREM BatchCorrect == Spec => NoShortBatch
<1> DEFINE Step == \A r \in Readers : pc[r] = "copy" /\ pc'[r] = "exit" =>
                       num'[r] >= Threshold \/ r \in sigpending \/ r \in robbed
<1>1. CInv /\ Batches /\ [Next]_vars => [Step]_vars
  <2> SUFFICES ASSUME CInv, Batches, Next, NEW r \in Readers, pc[r] = "copy", pc'[r] = "exit",
                      r \notin sigpending, r \notin robbed
               PROVE  num'[r] >= Threshold
    OBVIOUS
  <2>1. current_pos >= Threshold /\ pc \in [Readers -> Places] /\ num \in [Readers -> Nat] /\ loaded
    BY DEF Batches, CInv, IInv, Types, MoreTypes, InModule
  <2>2. CASE CopyRest(r)
    BY <2>1, <2>2 DEF CopyRest, Set
  <2>3. ASSUME NEW nr, SyscallAudit(nr, pc) PROVE FALSE
    BY <2>3, RecordMoves DEF CInv, IInv
  <2>4. ASSUME NEW q \in Readers, Daemon(q) \/ Killed(q) \/ Restart(q) \/ SignalInCall(q) \/ SignalOutside(q)
        PROVE  CopyRest(r)
    <3>1. ~PrintLine(q)
      BY <2>3 DEF PrintLine
    <3>2. q = r
      BY <2>1, <2>4, <3>1 DEF Daemon, Call, CallUnloaded, WaitEvent, CopyFault, CopyRest, SysReturn, Printed,
         Killed, Restart, SignalInCall, SignalOutside, Move, Set
    <3> QED
      BY <2>1, <2>4, <3>1, <3>2 DEF Daemon, Call, CallUnloaded, WaitEvent, CopyFault, SysReturn, Printed,
         Killed, Restart, SignalInCall, SignalOutside, Move, Set
  <2>5. ~(Load \/ Unload \/ GoQuiet)
    BY <2>1 DEF Load, Unload, GoQuiet
  <2>6. ~Tasks
    BY <2>3 DEF Tasks, SystemCall
  <2> QED
    BY <2>2, <2>4, <2>5, <2>6 DEF Next
<1>2. CInv /\ Batches /\ [Next]_vars => CInv' /\ Batches'
  BY NextCInv, NextBatches DEF CInv
<1> HIDE DEF Step
<1>3. Spec => [][Step]_vars
  BY <1>1, <1>2, InitCInv, InitBatches, PTL DEF Spec
<1> QED
  BY <1>3 DEF NoShortBatch, Step
---------------------------------------------------------------------------
(* The refinement of AuditLog by a single daemon.  What the log and the    *)
(* batch are, and what each kind of step does to them.                     *)
TheLog   == [i \in 1..current_pos |-> audit_buf[i - 1]]
TheBatch == IF pc[TheReader] \in {"exit", "print"} THEN Received(TheReader) ELSE <<>>

(* Without the module sys_audit answers no number of records that were not *)
(* copied: its test leaves zero in eax, as the compiled test of a null     *)
(* pointer does, or the module is never removed.                           *)
NoStaleBatch == StaleEax \subseteq {0} \/ MaxUnloads = 0

(* Of the one daemon: what it copied so far are the oldest records, which  *)
(* stay where they are.                                                    *)
OneReader(d) ==
    /\ pc[d] \in InModule => loaded
    /\ pc[d] = "copy" =>
           want[d] <= current_pos /\ \A i \in 1..Len(user[d]) : user[d][i] = audit_buf[i - 1]
    /\ MaxUnloads = 0 /\ ~loaded => user[d] = <<>>

LEMMA PrefixIsSeq ==
    ASSUME NEW p \in 0..AUDIT_BUF_SIZE, NEW b \in [Slots -> Serials]
    PROVE  /\ [i \in 1..p |-> b[i - 1]] \in Seq(Serials) /\ Len([i \in 1..p |-> b[i - 1]]) = p
           /\ p \in Nat
<1> DEFINE f == [i \in 1..p |-> b[i - 1]]
<1>1. p \in Nat /\ p <= AUDIT_BUF_SIZE
  BY Sizes
<1>2. \A i \in 1..p : b[i - 1] \in Serials
  <2> TAKE i \in 1..p
  <2>1. i - 1 \in 0..(AUDIT_BUF_SIZE - 1)
    BY <1>1, Sizes
  <2> QED
    BY <2>1 DEF Slots
<1>3. f \in [1..p -> Serials]
  BY <1>2
<1> HIDE DEF f
<1>4. f \in Seq(Serials) /\ Len(f) = p
  BY <1>1, <1>3, FunctionIsSeq
<1> QED
  BY <1>1, <1>4 DEF f

LEMMA LogIsSeq ==
    ASSUME Types
    PROVE  TheLog \in Seq(Serials) /\ Len(TheLog) = current_pos /\ current_pos \in Nat
BY PrefixIsSeq DEF Types, TheLog, Serials

LEMMA LogGrows ==
    ASSUME Types, Types', current_pos < AUDIT_BUF_SIZE,
           audit_buf' = [audit_buf EXCEPT ![current_pos] = serial], current_pos' = current_pos + 1
    PROVE  TheLog' = Append(TheLog, serial)
<1>1. /\ TheLog \in Seq(Serials) /\ Len(TheLog) = current_pos /\ current_pos \in Nat
      /\ serial \in Serials
  BY LogIsSeq DEF Types, Serials
<1>2. TheLog' \in Seq(Serials) /\ Len(TheLog') = current_pos + 1
  <2>1. TheLog' \in Seq(Serials) /\ Len(TheLog') = current_pos'
    BY PrefixIsSeq DEF Types, TheLog, Serials
  <2> QED
    BY <2>1
<1>3. /\ Append(TheLog, serial) \in Seq(Serials) /\ Len(Append(TheLog, serial)) = current_pos + 1
      /\ \A i \in 1..current_pos : Append(TheLog, serial)[i] = TheLog[i]
      /\ Append(TheLog, serial)[current_pos + 1] = serial
  BY <1>1, AppendProperties
<1>4. ASSUME NEW i \in 1..(current_pos + 1) PROVE TheLog'[i] = Append(TheLog, serial)[i]
  <2>1. TheLog'[i] = audit_buf'[i - 1]
    BY <1>1 DEF TheLog
  <2>2. current_pos \in Slots /\ i - 1 \in Slots /\ audit_buf \in [Slots -> Serials]
    BY <1>1, Sizes DEF Types, Slots, Serials
  <2>3. CASE i = current_pos + 1
    <3>1. i - 1 = current_pos
      BY <1>1, <2>3
    <3> QED
      BY <1>3, <2>1, <2>2, <2>3, <3>1
  <2>4. CASE i # current_pos + 1
    <3>1. i \in 1..current_pos /\ i - 1 # current_pos
      BY <1>1, <2>4
    <3>2. TheLog[i] = audit_buf[i - 1]
      BY <3>1 DEF TheLog
    <3> QED
      BY <1>3, <2>1, <2>2, <3>1, <3>2
  <2> QED
    BY <2>3, <2>4
<1> QED
  BY <1>2, <1>3, <1>4, SeqEqual

(* The batch before and after a step that leaves what was received.        *)
LEMMA BatchStep ==
    ASSUME NEW d, Readers = {d}
    PROVE  /\ TheReader = d
           /\ pc[d] \notin {"exit", "print"} => TheBatch = <<>>
           /\ pc'[d] \notin {"exit", "print"} => TheBatch' = <<>>
           /\ /\ pc[d] \in {"exit", "print"} /\ pc'[d] \in {"exit", "print"}
              /\ user'[d] = user[d] /\ num'[d] = num[d]
              => TheBatch' = TheBatch
<1>1. TheReader = d
  <2>1. \E r \in Readers : TRUE
    OBVIOUS
  <2>2. TheReader \in Readers
    BY <2>1 DEF TheReader
  <2> QED
    BY <2>2
<1>2. TheReader' = TheReader
  BY DEF TheReader
<1> HIDE DEF TheReader
<1> QED
  BY <1>1, <1>2 DEF TheBatch, Received

(* The copy ends: the batch is the oldest of the records in the log.       *)
LEMMA BatchHandedOver ==
    ASSUME NEW d, Readers = {d}, CInv, OneReader(d), CopyRest(d)
    PROVE  /\ \E m \in 0..Len(TheLog) : TheBatch' = SubSeq(TheLog, 1, m)
           /\ TheLog' = <<>>
<1>1. /\ pc[d] = "copy" /\ pc' = [pc EXCEPT ![d] = "exit"] /\ current_pos' = 0 /\ audit_buf' = audit_buf
      /\ user' = [user EXCEPT ![d] = CopiedTo(d, want[d])] /\ num' = [num EXCEPT ![d] = current_pos]
  BY DEF CopyRest, Move, Set
<1>2. /\ d \in Readers /\ Types /\ MoreTypes /\ user[d] \in Seq(Serials) /\ want[d] \in 0..AUDIT_BUF_SIZE
      /\ Len(user[d]) <= want[d] /\ want[d] <= current_pos
      /\ \A i \in 1..Len(user[d]) : user[d][i] = audit_buf[i - 1]
  BY <1>1 DEF CInv, IInv, MoreTypes, Copying, OneReader
<1> DEFINE w == want[d]
           copied == CopiedTo(d, w)
<1>3. TheLog \in Seq(Serials) /\ Len(TheLog) = current_pos /\ current_pos \in Nat
  BY <1>2, LogIsSeq
<1>4. w \in Nat /\ w \in 0..current_pos /\ w \in Len(user[d])..AUDIT_BUF_SIZE
  <2>1. Len(user[d]) \in Nat
    BY <1>2, LenProperties
  <2> QED
    BY <1>2, <1>3, <2>1, Sizes
<1>5. /\ copied \in Seq(Serials) /\ Len(copied) = w
      /\ \A i \in 1..w : copied[i] = IF i <= Len(user[d]) THEN user[d][i] ELSE audit_buf[i - 1]
  BY <1>2, <1>4, CopiedToIs
<1>6. \A i \in 1..w : copied[i] = audit_buf[i - 1]
  <2> TAKE i \in 1..w
  <2>1. Len(user[d]) \in Nat
    BY <1>2, LenProperties
  <2>2. i <= Len(user[d]) => user[d][i] = audit_buf[i - 1]
    BY <1>2, <1>4, <2>1
  <2> QED
    BY <1>5, <2>2
<1>7. user'[d] = copied /\ num'[d] = current_pos /\ pc'[d] = "exit"
  BY <1>1, <1>2 DEF CInv, IInv, Types, MoreTypes
<1> HIDE DEF w, copied
<1>8. TheBatch' = [i \in 1..w |-> copied[i]]
  <2>1. TheReader' = d /\ TheReader = d
    BY BatchStep DEF TheReader
  <2>2. TheBatch' = [i \in 1..(IF num'[d] < Len(user'[d]) THEN num'[d] ELSE Len(user'[d])) |-> user'[d][i]]
    BY <1>7, <2>1 DEF TheBatch, Received
  <2>3. (IF num'[d] < Len(user'[d]) THEN num'[d] ELSE Len(user'[d])) = w
    BY <1>3, <1>4, <1>5, <1>7
  <2> QED
    BY <1>7, <2>2, <2>3
<1>9. SubSeq(TheLog, 1, w) = [i \in 1..w |-> copied[i]]
  <2>1. ASSUME NEW i \in 1..w PROVE TheLog[i] = copied[i] /\ copied[i] \in Serials
    <3>1. i \in 1..current_pos
      BY <1>3, <1>4
    <3>2. TheLog[i] = audit_buf[i - 1]
      BY <3>1 DEF TheLog
    <3> QED
      BY <1>5, <1>6, <3>2, ElementOfSeq
  <2>2. /\ SubSeq(TheLog, 1, w) \in Seq(Serials) /\ Len(SubSeq(TheLog, 1, w)) = w
        /\ \A i \in 1..w : SubSeq(TheLog, 1, w)[i] = TheLog[i]
    <3>1. \A i \in 1..w : TheLog[i] \in Serials
      BY <2>1
    <3>2. /\ SubSeq(TheLog, 1, w) \in Seq(Serials)
          /\ Len(SubSeq(TheLog, 1, w)) = IF 1 <= w THEN w - 1 + 1 ELSE 0
          /\ \A i \in 1..(w - 1 + 1) : SubSeq(TheLog, 1, w)[i] = TheLog[1 + i - 1]
      BY <1>4, <3>1, SubSeqProperties
    <3> QED
      BY <1>4, <3>2
  <2>3. /\ [i \in 1..w |-> copied[i]] \in Seq(Serials) /\ Len([i \in 1..w |-> copied[i]]) = w
    <3>1. [i \in 1..w |-> copied[i]] \in [1..w -> Serials]
      BY <2>1
    <3> QED
      BY <1>4, <3>1, FunctionIsSeq
  <2> QED
    BY <2>1, <2>2, <2>3, SeqEqual
<1>10. TheLog' = <<>>
  <2>1. TheLog' \in [1..0 -> Serials]
    BY <1>1 DEF TheLog
  <2>2. TheLog' \in Seq(Serials) /\ Len(TheLog') = 0
    BY <2>1, FunctionIsSeq
  <2> QED
    BY <2>2, EmptySeq
<1> QED
  BY <1>3, <1>4, <1>8, <1>9, <1>10

LEMMA UnchangedLog ==
    ASSUME UNCHANGED <<audit_buf, current_pos>>
    PROVE  TheLog' = TheLog
BY DEF TheLog

(* A record is made, or dropped, while the daemon is anywhere.             *)
LEMMA RecordInLog ==
    ASSUME NEW d, Readers = {d}, CInv, CInv', OneReader(d), NEW nr, SyscallAudit(nr, pc),
           UNCHANGED <<loaded, want, user, num>>
    PROVE  OneReader(d)' /\ (Log!Record \/ UNCHANGED <<TheLog, serial, TheBatch>>)
<1>1. pc'[d] = pc[d] \/ (pc[d] = "asleep" /\ pc'[d] = "wait")
  BY RecordMoves DEF CInv, IInv
<1>2. TheBatch' = TheBatch
  BY <1>1, BatchStep
<1>3. CASE UNCHANGED <<audit_buf, serial, current_pos>>
  <2>1. OneReader(d)'
    BY <1>1, <1>3 DEF OneReader, InModule
  <2> QED
    BY <1>2, <1>3, <2>1, UnchangedLog
<1>4. CASE /\ current_pos < AUDIT_BUF_SIZE
           /\ audit_buf' = [audit_buf EXCEPT ![current_pos] = serial]
           /\ serial' = (serial + 1) % SerialMod /\ current_pos' = current_pos + 1
  <2>1. TheLog' = Append(TheLog, serial) /\ Len(TheLog) = current_pos
    BY <1>4, LogGrows, LogIsSeq DEF CInv, IInv
  <2>2. Log!Record
    BY <1>2, <1>4, <2>1 DEF Log!Record, TheLog, TheBatch
  <2>3. ASSUME pc'[d] = "copy"
        PROVE  /\ want'[d] <= current_pos'
               /\ \A i \in 1..Len(user'[d]) : user'[d][i] = audit_buf'[i - 1]
    <3>1. /\ want[d] <= current_pos /\ Len(user[d]) <= want[d] /\ user[d] \in Seq(Serials)
          /\ want[d] \in Nat /\ current_pos \in Nat /\ current_pos < AUDIT_BUF_SIZE
          /\ \A i \in 1..Len(user[d]) : user[d][i] = audit_buf[i - 1]
      BY <1>1, <1>4, <2>3, Sizes DEF OneReader, CInv, IInv, Types, MoreTypes, Copying
    <3>2. Len(user[d]) \in Nat
      BY <3>1, LenProperties
    <3>3. ASSUME NEW i \in 1..Len(user[d]) PROVE audit_buf'[i - 1] = audit_buf[i - 1]
      <4>1. i - 1 \in Slots /\ i - 1 # current_pos
        BY <3>1, <3>2, Sizes DEF Slots
      <4> QED
        BY <1>4, <4>1 DEF CInv, IInv, Types
    <3> QED
      BY <1>4, <3>1, <3>3
  <2>4. OneReader(d)'
    BY <1>1, <2>3 DEF OneReader, InModule
  <2> QED
    BY <2>2, <2>4
<1> QED
  BY <1>3, <1>4 DEF SyscallAudit, ModSyscallAudit, Set, NextSerial

(* Every other step: the log stays, and the batch stays, is used up, or is *)
(* handed over.                                                            *)
LEMMA LoadInLog ==
    ASSUME NEW d, Readers = {d}, NoStaleBatch, CInv, OneReader(d), Load \/ Unload \/ GoQuiet
    PROVE  OneReader(d)' /\ (Log!Reload \/ UNCHANGED <<TheLog, serial, TheBatch>>)
<1>1. CASE Load
  <2>1. pc[d] \notin InModule /\ TheBatch' = TheBatch
    BY <1>1, BatchStep DEF Load, OneReader
  <2>2. OneReader(d)'
    BY <1>1, <2>1 DEF Load, OneReader, InModule
  <2>3. TheLog' = <<>>
    <3>1. TheLog' \in [1..0 -> Serials]
      BY <1>1 DEF Load, TheLog
    <3>2. TheLog' \in Seq(Serials) /\ Len(TheLog') = 0
      BY <3>1, FunctionIsSeq
    <3> QED
      BY <3>2, EmptySeq
  <2>4. Log!Reload
    BY <1>1, <2>1, <2>3 DEF Load, Log!Reload, TheLog, TheBatch
  <2> QED
    BY <2>2, <2>4
<1>2. CASE Unload
  <2>1. pc'[d] = IF pc[d] \in InModule THEN "lost" ELSE pc[d]
    BY <1>2 DEF Unload
  <2>2. TheBatch' = TheBatch
    BY <1>2, <2>1, BatchStep DEF Unload, InModule
  <2>3. MaxUnloads # 0
    BY <1>2, AuditAssumption DEF Unload, CInv, MoreTypes
  <2>4. OneReader(d)'
    BY <1>2, <2>1, <2>3 DEF Unload, OneReader, InModule
  <2> QED
    BY <1>2, <2>2, <2>4, UnchangedLog DEF Unload
<1>3. CASE GoQuiet
  <2>1. TheBatch' = TheBatch
    BY <1>3, BatchStep DEF GoQuiet
  <2>2. OneReader(d)'
    BY <1>3 DEF GoQuiet, OneReader, module
  <2> QED
    BY <1>3, <2>1, <2>2, UnchangedLog DEF GoQuiet, module
<1> QED
  BY <1>1, <1>2, <1>3

LEMMA DaemonInLog ==
    ASSUME NEW d, Readers = {d}, NoStaleBatch, CInv, CInv', OneReader(d),
           \/ Daemon(d) \/ Killed(d) \/ Restart(d) \/ SignalInCall(d) \/ SignalOutside(d)
    PROVE  OneReader(d)' /\ [Log!Next]_<<TheLog, serial, TheBatch>>
<1> DEFINE Stays == UNCHANGED <<audit_buf, current_pos, serial>> /\ (TheBatch' = TheBatch \/ TheBatch' = <<>>)
<1>1. ASSUME Stays PROVE [Log!Next]_<<TheLog, serial, TheBatch>>
  <2>1. TheLog' = TheLog /\ serial' = serial
    BY <1>1, UnchangedLog
  <2>2. CASE TheBatch' = <<>>
    BY <2>1, <2>2 DEF Log!Next, Log!UseUp, TheLog, TheBatch
  <2> QED
    BY <1>1, <2>1, <2>2
<1>2. /\ pc \in [{d} -> Places] /\ want \in [{d} -> 0..AUDIT_BUF_SIZE] /\ num \in [{d} -> Nat]
      /\ user \in [{d} -> Seq(Serials)] /\ current_pos \in Nat
  BY LogIsSeq DEF CInv, IInv, Types, MoreTypes
<1>3. CASE CopyRest(d)
  <2>1. Log!Drain
    BY <1>3, BatchHandedOver DEF Log!Drain, TheLog, TheBatch, CopyRest
  <2>2. OneReader(d)'
    BY <1>2, <1>3 DEF CopyRest, Move, Set, OneReader, InModule
  <2> QED
    BY <2>1, <2>2 DEF Log!Next
<1>4. CASE PrintLine(d)
  BY <1>4, RecordInLog DEF PrintLine, Log!Next
<1>5. CASE CallUnloaded(d)
  <2>1. /\ ~loaded /\ pc[d] = "user" /\ pc'[d] = "exit" /\ user' = user
        /\ UNCHANGED <<audit_buf, current_pos, serial, loaded>>
        /\ num'[d] \in StaleEax
    BY <1>2, <1>5 DEF CallUnloaded, Move, Set, module
  <2>2. OneReader(d)'
    BY <2>1 DEF OneReader, InModule
  <2>3. TheBatch' = <<>>
    <3>1. TheReader' = d
      BY BatchStep DEF TheReader
    <3>2. TheBatch' = [i \in 1..(IF num'[d] < Len(user[d]) THEN num'[d] ELSE Len(user[d])) |-> user[d][i]]
      BY <2>1, <3>1 DEF TheBatch, Received
    <3>3. Len(user[d]) \in Nat /\ num'[d] \in Nat /\ (user[d] = <<>> => Len(user[d]) = 0)
      BY <1>2, <2>1, LenProperties, EmptySeq, AuditAssumption
    <3>4. num'[d] = 0 \/ Len(user[d]) = 0
      BY <2>1, <3>3 DEF NoStaleBatch, OneReader
    <3>5. (IF num'[d] < Len(user[d]) THEN num'[d] ELSE Len(user[d])) = 0
      BY <3>3, <3>4
    <3>6. TheBatch' \in [1..0 -> Serials]
      BY <3>2, <3>5
    <3>7. TheBatch' \in Seq(Serials) /\ Len(TheBatch') = 0
      BY <3>6, FunctionIsSeq
    <3> QED
      BY <3>7, EmptySeq
  <2> QED
    BY <1>1, <2>1, <2>2, <2>3
<1>6. CASE WaitEvent(d)
  <2>1. /\ pc[d] = "wait" /\ pc'[d] \in {"copy", "asleep"} /\ user' = user
        /\ UNCHANGED <<audit_buf, current_pos, serial, loaded>>
        /\ pc'[d] = "copy" => want'[d] = current_pos
    BY <1>2, <1>6 DEF WaitEvent, Set, module
  <2>2. user[d] = <<>> /\ Len(user[d]) = 0
    BY <2>1, EmptySeq DEF CInv, Copying
  <2>3. OneReader(d)'
    BY <1>2, <2>1, <2>2 DEF OneReader, InModule
  <2> QED
    BY <1>1, <2>1, <2>3, BatchStep
<1>7. CASE CopyFault(d)
  <2>1. PICK m \in (Len(user[d]) + 1)..(want[d] - 1) : user' = [user EXCEPT ![d] = CopiedTo(d, m)]
    BY <1>7 DEF CopyFault, Set
  <2>2. pc[d] = "copy" /\ UNCHANGED <<loaded, audit_buf, current_pos, serial, pc, want>>
    BY <1>7 DEF CopyFault, module
  <2>3. Len(user[d]) \in Nat /\ want[d] \in Nat /\ want[d] <= AUDIT_BUF_SIZE
    BY <1>2, LenProperties, Sizes
  <2>4. m \in Nat /\ m \in Len(user[d])..AUDIT_BUF_SIZE
    BY <2>3, Sizes
  <2>5. /\ Len(CopiedTo(d, m)) = m
        /\ \A i \in 1..m : CopiedTo(d, m)[i] = IF i <= Len(user[d]) THEN user[d][i] ELSE audit_buf[i - 1]
    BY <2>4, CopiedToIs DEF CInv, IInv
  <2>6. \A i \in 1..m : CopiedTo(d, m)[i] = audit_buf[i - 1]
    <3> TAKE i \in 1..m
    <3>1. i <= Len(user[d]) => user[d][i] = audit_buf[i - 1]
      BY <2>2, <2>3, <2>4 DEF OneReader
    <3> QED
      BY <2>5, <3>1
  <2>7. user'[d] = CopiedTo(d, m)
    BY <1>2, <2>1
  <2>8. loaded /\ want[d] <= current_pos
    BY <2>2 DEF OneReader, InModule
  <2>9. OneReader(d)'
    BY <2>2, <2>5, <2>6, <2>7, <2>8 DEF OneReader
  <2> QED
    BY <1>1, <2>2, <2>9, BatchStep
<1>8. CASE Call(d)
  <2>1. /\ loaded /\ pc'[d] = "wait" /\ UNCHANGED <<loaded, audit_buf, current_pos, serial>>
    BY <1>2, <1>8 DEF Call, Move, Set, module
  <2>2. OneReader(d)'
    BY <2>1 DEF OneReader
  <2> QED
    BY <1>1, <2>1, <2>2, BatchStep
<1>9. CASE SysReturn(d) \/ Printed(d) \/ Killed(d) \/ Restart(d) \/ SignalInCall(d) \/ SignalOutside(d)
  <2>1. /\ UNCHANGED <<loaded, audit_buf, current_pos, serial, want, user, num>>
        /\ \/ pc[d] = "exit" /\ pc'[d] = "print"
           \/ pc'[d] \in {"user", "dead"}
           \/ pc[d] \in InModule /\ pc'[d] = IF pc[d] = "asleep" THEN "wait" ELSE pc[d]
           \/ pc'[d] = pc[d]
    BY <1>2, <1>9 DEF SysReturn, Printed, Killed, Restart, SignalInCall, SignalOutside, Move, Set, module
  <2>2. OneReader(d)'
    BY <2>1 DEF OneReader, InModule
  <2>3. TheBatch' = TheBatch \/ TheBatch' = <<>>
    BY <2>1, BatchStep DEF InModule
  <2> QED
    BY <1>1, <2>1, <2>2, <2>3
<1> QED
  BY <1>3, <1>4, <1>5, <1>6, <1>7, <1>8, <1>9 DEF Daemon

(* module/audit.c, mod_sys_audit: with one daemon, what it receives is the *)
(* oldest records in order and once, for every size of the buffer, every   *)
(* width of the serials and every number of signals, page faults and       *)
(* loads.  The daemon's buffer keeps an old batch, so the answer without   *)
(* the module matters (NoStaleBatch).                                      *)
THEOREM LogCorrect ==
    ASSUME NEW d, Readers = {d}, NoStaleBatch
    PROVE  Spec => LogSpec
<1>1. Init => CInv /\ OneReader(d) /\ Log!Init
  <2> SUFFICES ASSUME Init PROVE CInv /\ OneReader(d) /\ Log!Init
    OBVIOUS
  <2>1. CInv
    BY InitCInv
  <2>2. OneReader(d)
    BY DEF Init, OneReader, InModule
  <2>3. TheLog = <<>>
    BY <2>1, LogIsSeq, EmptySeq DEF CInv, IInv, Init
  <2>4. TheBatch = <<>>
    BY BatchStep DEF Init
  <2> QED
    BY <2>1, <2>2, <2>3, <2>4 DEF Log!Init, TheLog, TheBatch, Init
<1>2. CInv /\ OneReader(d) /\ [Next]_vars => CInv' /\ OneReader(d)' /\ [Log!Next]_<<TheLog, serial, TheBatch>>
  <2> SUFFICES ASSUME CInv, OneReader(d), [Next]_vars
               PROVE  CInv' /\ OneReader(d)' /\ [Log!Next]_<<TheLog, serial, TheBatch>>
    OBVIOUS
  <2>1. CInv'
    BY NextCInv
  <2>2. CASE UNCHANGED vars
    <3>1. OneReader(d)'
      BY <2>2 DEF OneReader, vars, module
    <3>2. TheLog' = TheLog /\ serial' = serial /\ TheBatch' = TheBatch
      BY <2>2, UnchangedLog, BatchStep DEF vars, module
    <3> QED
      BY <2>1, <3>1, <3>2
  <2>3. ASSUME NEW nr \in Calls, SystemCall(nr)
        PROVE  OneReader(d)' /\ [Log!Next]_<<TheLog, serial, TheBatch>>
    BY <2>1, <2>3, RecordInLog DEF SystemCall, Log!Next
  <2>4. CASE Load \/ Unload \/ GoQuiet
    BY <2>1, <2>4, LoadInLog DEF Log!Next
  <2> QED
    BY <2>1, <2>2, <2>3, <2>4, DaemonInLog DEF Next, Tasks
<1> QED
  BY <1>1, <1>2, PTL DEF Spec, LogSpec, Log!Spec, TheLog, TheBatch
=============================================================================
