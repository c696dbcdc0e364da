------------------------------ MODULE AuditLog ------------------------------
(***************************************************************************)
(* What the audit module promises its daemon, without slots, page faults   *)
(* or wake-ups: a bounded log of numbered records, and one reader that     *)
(* takes the whole log at once.  A batch is an unbroken run of the oldest  *)
(* records; what arrives while it is being handed over may be dropped, but *)
(* no record is handed over twice, out of order or mixed with others.      *)
(***************************************************************************)
EXTENDS Naturals, Sequences

CONSTANTS AUDIT_BUF_SIZE,  (* records the log can hold               *)
          SerialMod        (* serial numbers wrap around here        *)

VARIABLES log,     (* serials of the records waiting, oldest first   *)
          next,    (* the serial of the next record                  *)
          batch    (* what the reader received, until it is used up  *)

Init == log = <<>> /\ next = 0 /\ batch = <<>>

Record ==
    /\ Len(log) < AUDIT_BUF_SIZE
    /\ log' = Append(log, next)
    /\ next' = (next + 1) % SerialMod
    /\ UNCHANGED batch

Drain ==
    /\ \E m \in 0..Len(log) : batch' = SubSeq(log, 1, m)
    /\ log' = <<>>
    /\ UNCHANGED next

UseUp == batch' = <<>> /\ UNCHANGED <<log, next>>

(* The module is loaded afresh.                                            *)
Reload == log' = <<>> /\ next' = 0 /\ UNCHANGED batch

Next == Record \/ Drain \/ UseUp \/ Reload

Spec == Init /\ [][Next]_<<log, next, batch>>
=============================================================================
