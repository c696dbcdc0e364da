----------------------------- MODULE GoodsFifo -----------------------------
(***************************************************************************)
(* What the ring buffer of np-nc.c promises, without semaphores, indices   *)
(* or slots: producer i puts its goods 1..PNUM once each and in order, the *)
(* consumers together take the goods in the order they were put, and never *)
(* more than BUF_NUM goods wait in between.                                *)
(***************************************************************************)
EXTENDS Naturals, Sequences, FiniteSets

CONSTANTS N,        (* number of producer threads            *)
          PNUM,     (* goods one producer makes              *)
          BUF_NUM   (* goods that may wait to be consumed    *)

VARIABLES made,     (* every good put so far, oldest first   *)
          taken     (* every good taken so far, oldest first *)

(* The value a producer stores: its number and the round, i*100 + round.   *)
Good(i, k) == i * 100 + k

(* How many goods producer i has put.                                      *)
MadeBy(i) == Cardinality({j \in DOMAIN made : \E k \in 1..PNUM : made[j] = Good(i, k)})

Init == made = <<>> /\ taken = <<>>

Put(i) ==
    /\ MadeBy(i) < PNUM
    /\ Len(made) - Len(taken) < BUF_NUM
    /\ made' = Append(made, Good(i, MadeBy(i) + 1))
    /\ UNCHANGED taken

Take ==
    /\ Len(taken) < Len(made)
    /\ taken' = Append(taken, made[Len(taken) + 1])
    /\ UNCHANGED made

Next == Take \/ \E i \in 1..N : Put(i)

Spec == Init /\ [][Next]_<<made, taken>>
=============================================================================
