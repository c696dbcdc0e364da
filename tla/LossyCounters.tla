--------------------------- MODULE LossyCounters ---------------------------
(***************************************************************************)
(* What a plain `x++` promises when several tasks or processors do it with *)
(* no lock: a counter never runs ahead of what it counts and, once it has  *)
(* counted anything, it is not zero.  It may be behind by any amount, and  *)
(* may go backwards.                                                       *)
(***************************************************************************)
EXTENDS Naturals

CONSTANTS Counters

VARIABLES value,   (* counter -> what a reader finds                        *)
          incs     (* counter -> its completed increments                   *)

Zero == [c \in Counters |-> 0]

Init == value = Zero /\ incs = Zero

Increment(c) ==
    /\ incs' = [incs EXCEPT ![c] = @ + 1]
    /\ \E v \in 1..(incs[c] + 1) : value' = [value EXCEPT ![c] = v]

(* The module they are in is loaded afresh.                                *)
Reset == value' = Zero /\ incs' = Zero

Next == Reset \/ \E c \in Counters : Increment(c)

Spec == Init /\ [][Next]_<<value, incs>>
=============================================================================
