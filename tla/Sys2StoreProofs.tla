-------------------------- MODULE Sys2StoreProofs --------------------------
(***************************************************************************)
(* Proofs about Sys2Store for any writers, interfaces, processes and       *)
(* texts: whatever the writes do to the shared buffer, the references the  *)
(* handlers take and give back are balanced, a command reaches the handler *)
(* it names unless another write overtakes it, and the variables keep      *)
(* their types.                                                            *)
(***************************************************************************)
EXTENDS Sys2Store, FiniteSetTheorems, TLAPS

Places == {"idle", "storing", "stored", "called", "held", "release", "nice", "found", "priority"}
Holding == {"held", "release", "found"}

(* The writers that hold a reference to an interface, or to a pid.         *)
PidOf(w) == args[w][1][2]
DevHolders(d) == {w \in Writers : pc[w] \in {"held", "release"} /\ DevOf(w) = d}
PidHolders(p) == {w \in Writers : pc[w] = "found" /\ PidOf(w) = p}

Types ==
    /\ pc \in [Writers -> Places]
    /\ args = [w \in Writers |-> args[w]]
    /\ devref = [d \in Devs |-> devref[d]]
    /\ pidref = [p \in Pids |-> pidref[p]]

Balance ==
    /\ \A d \in Devs : devref[d] = Cardinality(DevHolders(d))
    /\ \A p \in Pids : pidref[p] = Cardinality(PidHolders(p))

(* What is held is something there can be a reference to.                  *)
NamesInv ==
    \A w \in Writers : /\ pc[w] \in {"held", "release"} => DevOf(w) \in Devs
                       /\ pc[w] = "found" => PidOf(w) \in Pids

IInv == Types /\ Balance /\ NamesInv

LEMMA BalanceIsRefsBalanced == Balance <=> RefsBalanced
BY DEF Balance, RefsBalanced, DevHolders, PidHolders, PidOf

LEMMA SizeChange ==
    ASSUME NEW S \in SUBSET Writers, NEW w \in Writers
    PROVE  /\ Cardinality(S) \in Nat
           /\ w \notin S => Cardinality(S \cup {w}) = Cardinality(S) + 1
           /\ w \in S => Cardinality(S \ {w}) = Cardinality(S) - 1
<1>1. IsFiniteSet(S) /\ Cardinality(S) \in Nat
  BY Sys2Assumption, FS_Subset, FS_CardinalityType
<1>2. w \notin S => Cardinality(S \cup {w}) = Cardinality(S) + 1
  BY <1>1, FS_AddElement
<1>3. w \in S => Cardinality(S \ {w}) = Cardinality(S) - 1
  BY <1>1, FS_RemoveElement
<1> QED
  BY <1>1, <1>2, <1>3

LEMMA InitIInv == Init => IInv
<1> SUFFICES ASSUME Init PROVE IInv
  OBVIOUS
<1>1. Types /\ NamesInv
  BY DEF Init, Types, NamesInv, Places
<1>2. \A d \in Devs : DevHolders(d) = {}
  BY DEF Init, DevHolders
<1>3. \A p \in Pids : PidHolders(p) = {}
  BY DEF Init, PidHolders
<1>4. Balance
  BY <1>2, <1>3, FS_EmptySet DEF Init, Balance
<1> QED
  BY <1>1, <1>4 DEF IInv
---------------------------------------------------------------------------
(* What a writer's step does to its place and its parameters.              *)
LEMMA GoEffect ==
    ASSUME Types, NEW w \in Writers, NEW to \in Places, NEW a,
           pc' = [pc EXCEPT ![w] = to], args' = [args EXCEPT ![w] = a]
    PROVE  /\ pc' \in [Writers -> Places] /\ args' = [v \in Writers |-> args'[v]]
           /\ pc'[w] = to /\ args'[w] = a
           /\ \A v \in Writers : v # w => pc'[v] = pc[v] /\ args'[v] = args[v]
BY DEF Types

(* A step between places where nothing is held.                            *)
LEMMA FreeStep ==
    ASSUME IInv, NEW w \in Writers, NEW to \in Places \ Holding, NEW a,
           pc[w] \notin Holding,
           pc' = [pc EXCEPT ![w] = to], args' = [args EXCEPT ![w] = a],
           UNCHANGED <<devref, pidref>>
    PROVE  IInv'
<1>1. /\ pc' \in [Writers -> Places] /\ args' = [v \in Writers |-> args'[v]]
      /\ pc'[w] = to
      /\ \A v \in Writers : v # w => pc'[v] = pc[v] /\ args'[v] = args[v]
  BY GoEffect DEF IInv
<1>2. \A d \in Devs : DevHolders(d)' = DevHolders(d)
  BY <1>1 DEF DevHolders, DevOf, Holding
<1>3. \A p \in Pids : PidHolders(p)' = PidHolders(p)
  BY <1>1 DEF PidHolders, PidOf, Holding
<1>4. Types' /\ Balance'
  BY <1>1, <1>2, <1>3 DEF IInv, Types, Balance
<1>5. NamesInv'
  BY <1>1 DEF IInv, NamesInv, DevOf, PidOf, Holding
<1> QED
  BY <1>4, <1>5 DEF IInv

(* The steps of the handlers that hold nothing.                            *)
LEMMA PlainStep ==
    ASSUME IInv, NEW w \in Writers,
           StoreName(w) \/ StoreRest(w) \/ Match(w) \/ NextCommand(w) \/ UnknownCommand(w) \/ Show(w) \/ NoDev(w) \/ StartNice(w)
           \/ BadNice(w) \/ SetNice(w) \/ NiceDone(w) \/ SetPriority(w) \/ SetSocketSize(w)
    PROVE  IInv'
<1> DEFINE Goes == \E to \in Places \ Holding : \E a :
             /\ pc[w] \notin Holding /\ pc' = [pc EXCEPT ![w] = to]
             /\ args' = [args EXCEPT ![w] = a] /\ UNCHANGED <<devref, pidref>>
<1>1. Goes => IInv'
  BY FreeStep
<1>2. args = [args EXCEPT ![w] = args[w]] /\ pc = [pc EXCEPT ![w] = pc[w]] /\ pc[w] \in Places
  BY DEF IInv, Types
<1>3. {"idle", "storing", "stored", "called", "nice", "priority"} = Places \ Holding
  BY DEF Places, Holding
<1> HIDE DEF Goes
<1>4. ASSUME NEW from \in Places \ Holding, NEW to \in Places \ Holding, NEW a,
             pc[w] = from, pc' = [pc EXCEPT ![w] = to], args' = [args EXCEPT ![w] = a],
             UNCHANGED <<devref, pidref>>
      PROVE  IInv'
  BY <1>1, <1>4 DEF Goes
<1>5. CASE StoreName(w)
  <2>1. /\ pc[w] = "idle" /\ pc' = [pc EXCEPT ![w] = "storing"]
        /\ UNCHANGED <<args, devref, pidref>>
    BY <1>5 DEF StoreName, Goto, devs, procs
  <2> QED
    BY <1>2, <1>3, <1>4, <2>1
<1>6. CASE StoreRest(w)
  <2>1. /\ pc[w] = "storing" /\ pc' = [pc EXCEPT ![w] = "stored"]
        /\ UNCHANGED <<args, devref, pidref>>
    BY <1>6 DEF StoreRest, Goto, devs, procs
  <2> QED
    BY <1>2, <1>3, <1>4, <2>1
<1>7. CASE Match(w) \/ NextCommand(w)
  <2>1. /\ pc[w] = "stored" /\ (pc' = [pc EXCEPT ![w] = "called"] \/ pc' = pc)
        /\ UNCHANGED <<args, devref, pidref>>
    BY <1>7 DEF Match, NextCommand, Goto, devs, procs
  <2> QED
    BY <1>2, <1>3, <1>4, <2>1
<1>8. CASE UnknownCommand(w) \/ Show(w) \/ NoDev(w) \/ BadNice(w)
  <2>1. /\ pc[w] \in {"stored", "called"} /\ pc' = [pc EXCEPT ![w] = "idle"]
        /\ args' = [args EXCEPT ![w] = <<>>] /\ UNCHANGED <<devref, pidref>>
    BY <1>8 DEF UnknownCommand, Show, NoDev, BadNice, Called, Return, Goto, devs, procs
  <2> QED
    BY <1>3, <1>4, <2>1
<1>9. CASE StartNice(w)
  BY <1>2, <1>3, <1>4, <1>9 DEF StartNice, Called, Goto, devs, procs
<1>10. CASE SetNice(w)
  BY <1>2, <1>3, <1>4, <1>10 DEF SetNice, devs
<1>11. CASE NiceDone(w)
  BY <1>2, <1>3, <1>4, <1>11 DEF NiceDone, Return, Goto, devs, procs
<1>12. CASE SetPriority(w)
  BY <1>2, <1>3, <1>4, <1>12 DEF SetPriority, Return, Goto, devs
<1>13. CASE SetSocketSize(w)
  BY <1>2, <1>3, <1>4, <1>13 DEF SetSocketSize, Called, Return, Goto, devs
<1> QED
  BY <1>5, <1>6, <1>7, <1>8, <1>9, <1>10, <1>11, <1>12, <1>13
---------------------------------------------------------------------------
(* The steps that take a reference or give it back, and the one between.   *)
LEMMA GetDevStep ==
    ASSUME IInv, NEW w \in Writers, GetDev(w)
    PROVE  IInv'
<1>1. PICK d \in Devs : NamesDev(w, d) /\ devref' = [devref EXCEPT ![d] = @ + 1]
  BY DEF GetDev
<1>2. /\ pc[w] = "called" /\ pc' = [pc EXCEPT ![w] = "held"]
      /\ args' = [args EXCEPT ![w] = Param(w)] /\ UNCHANGED pidref
  BY DEF GetDev, Called, Goto, procs
<1>3. /\ pc' \in [Writers -> Places] /\ args' = [v \in Writers |-> args'[v]]
      /\ pc'[w] = "held" /\ args'[w] = Param(w)
      /\ \A v \in Writers : v # w => pc'[v] = pc[v] /\ args'[v] = args[v]
  BY <1>2, GoEffect DEF IInv, Places
<1>4. DevOf(w)' = d
  <2>1. args'[w][1] = Word(d)
    BY <1>1, <1>3 DEF NamesDev
  <2> QED
    BY <2>1 DEF DevOf, Word
<1>5. DevHolders(d)' = DevHolders(d) \cup {w} /\ w \notin DevHolders(d)
  BY <1>2, <1>3, <1>4 DEF DevHolders, DevOf
<1>6. \A e \in Devs : e # d => DevHolders(e)' = DevHolders(e)
  BY <1>2, <1>3, <1>4 DEF DevHolders, DevOf
<1>7. \A p \in Pids : PidHolders(p)' = PidHolders(p)
  BY <1>2, <1>3 DEF PidHolders, PidOf
<1>8. Cardinality(DevHolders(d)') = Cardinality(DevHolders(d)) + 1
  BY <1>5, SizeChange DEF DevHolders
<1>9. Types' /\ Balance'
  BY <1>1, <1>2, <1>3, <1>6, <1>7, <1>8 DEF IInv, Types, Balance
<1>10. NamesInv'
  BY <1>3, <1>4 DEF IInv, NamesInv, DevOf, PidOf
<1> QED
  BY <1>9, <1>10 DEF IInv

LEMMA UseDevStep ==
    ASSUME IInv, NEW w \in Writers, UseDev(w)
    PROVE  IInv'
<1>1. /\ pc[w] = "held" /\ pc' = [pc EXCEPT ![w] = "release"]
      /\ UNCHANGED <<args, devref, pidref>>
  BY DEF UseDev, Goto, procs
<1>2. /\ pc' \in [Writers -> Places] /\ pc'[w] = "release"
      /\ \A v \in Writers : v # w => pc'[v] = pc[v]
  BY <1>1 DEF IInv, Types, Places
<1>3. \A d \in Devs : DevHolders(d)' = DevHolders(d)
  BY <1>1, <1>2 DEF DevHolders, DevOf
<1>4. \A p \in Pids : PidHolders(p)' = PidHolders(p)
  BY <1>1, <1>2 DEF PidHolders, PidOf
<1> QED
  BY <1>1, <1>2, <1>3, <1>4 DEF IInv, Types, Balance, NamesInv, DevOf, PidOf

LEMMA PutDevStep ==
    ASSUME IInv, NEW w \in Writers, PutDev(w)
    PROVE  IInv'
<1>d. PICK d \in Devs : d = DevOf(w)
  BY DEF PutDev, IInv, NamesInv
<1>1. /\ pc[w] = "release" /\ pc' = [pc EXCEPT ![w] = "idle"]
      /\ args' = [args EXCEPT ![w] = <<>>] /\ UNCHANGED pidref
      /\ devref' = [devref EXCEPT ![d] = @ - 1]
  BY <1>d DEF PutDev, Return, Goto, procs
<1>2. /\ pc' \in [Writers -> Places] /\ args' = [v \in Writers |-> args'[v]]
      /\ pc'[w] = "idle"
      /\ \A v \in Writers : v # w => pc'[v] = pc[v] /\ args'[v] = args[v]
  BY <1>1, GoEffect DEF IInv, Places
<1>3. d \in Devs /\ w \in DevHolders(d)
  BY <1>d, <1>1 DEF DevHolders
<1>4. DevHolders(d)' = DevHolders(d) \ {w}
  BY <1>d, <1>1, <1>2 DEF DevHolders, DevOf
<1>5. \A e \in Devs : e # d => DevHolders(e)' = DevHolders(e)
  BY <1>d, <1>1, <1>2 DEF DevHolders, DevOf
<1>6. \A p \in Pids : PidHolders(p)' = PidHolders(p)
  BY <1>1, <1>2 DEF PidHolders, PidOf
<1>7. Cardinality(DevHolders(d)') = Cardinality(DevHolders(d)) - 1
  BY <1>3, <1>4, SizeChange DEF DevHolders
<1>8. Types' /\ Balance'
  BY <1>1, <1>2, <1>3, <1>5, <1>6, <1>7 DEF IInv, Types, Balance
<1>9. NamesInv'
  BY <1>2 DEF IInv, NamesInv, DevOf, PidOf
<1> QED
  BY <1>8, <1>9 DEF IInv

LEMMA FindPidStep ==
    ASSUME IInv, NEW w \in Writers, FindPid(w)
    PROVE  IInv'
<1>1. pc[w] = "called" /\ UNCHANGED devref
  BY DEF FindPid, Called, devs
<1>2. CASE Numbers(Param(w), 2) /\ Param(w)[1][2] \in Pids
  <2>1. /\ pc' = [pc EXCEPT ![w] = "found"] /\ args' = [args EXCEPT ![w] = Param(w)]
        /\ pidref' = [pidref EXCEPT ![Param(w)[1][2]] = @ + 1]
    BY <1>2 DEF FindPid, Goto
  <2>2. PICK p \in Pids : p = Param(w)[1][2]
    BY <1>2
  <2>3. /\ pc' \in [Writers -> Places] /\ args' = [v \in Writers |-> args'[v]]
        /\ pc'[w] = "found" /\ args'[w] = Param(w)
        /\ \A v \in Writers : v # w => pc'[v] = pc[v] /\ args'[v] = args[v]
    BY <2>1, GoEffect DEF IInv, Places
  <2>4. PidOf(w)' = p
    BY <2>2, <2>3 DEF PidOf
  <2>5. PidHolders(p)' = PidHolders(p) \cup {w} /\ w \notin PidHolders(p)
    BY <1>1, <2>3, <2>4 DEF PidHolders, PidOf
  <2>6. \A q \in Pids : q # p => PidHolders(q)' = PidHolders(q)
    BY <1>1, <2>3, <2>4 DEF PidHolders, PidOf
  <2>7. \A d \in Devs : DevHolders(d)' = DevHolders(d)
    BY <1>1, <2>3 DEF DevHolders, DevOf
  <2>8. Cardinality(PidHolders(p)') = Cardinality(PidHolders(p)) + 1
    BY <2>5, SizeChange DEF PidHolders
  <2>9. Types' /\ Balance'
    BY <1>1, <2>1, <2>2, <2>3, <2>6, <2>7, <2>8 DEF IInv, Types, Balance
  <2>10. NamesInv'
    BY <2>3, <2>4 DEF IInv, NamesInv, DevOf, PidOf
  <2> QED
    BY <2>9, <2>10 DEF IInv
<1>3. CASE ~(Numbers(Param(w), 2) /\ Param(w)[1][2] \in Pids)
  <2>1. /\ pc' = [pc EXCEPT ![w] = "idle"] /\ args' = [args EXCEPT ![w] = <<>>]
        /\ UNCHANGED pidref
    BY <1>3 DEF FindPid, Return, Goto
  <2>2. "idle" \in Places \ Holding /\ pc[w] \notin Holding
    BY <1>1 DEF Places, Holding
  <2> QED
    BY <1>1, <2>1, <2>2, FreeStep
<1> QED
  BY <1>2, <1>3

LEMMA PutPidStep ==
    ASSUME IInv, NEW w \in Writers, PutPid(w)
    PROVE  IInv'
<1>1. /\ pc[w] = "found" /\ UNCHANGED devref
      /\ pidref' = [pidref EXCEPT ![PidOf(w)] = @ - 1]
  BY DEF PutPid, devs, PidOf
<1>2. PICK p \in Pids : p = PidOf(w)
  BY <1>1 DEF IInv, NamesInv
<1>3. PICK to \in {"priority", "idle"}, a \in {args[w], <<>>} :
          pc' = [pc EXCEPT ![w] = to] /\ args' = [args EXCEPT ![w] = a]
  <2>1. args = [args EXCEPT ![w] = args[w]]
    BY DEF IInv, Types
  <2> QED
    BY <2>1 DEF PutPid, Return, Goto
<1>4. /\ pc' \in [Writers -> Places] /\ args' = [v \in Writers |-> args'[v]]
      /\ pc'[w] = to
      /\ \A v \in Writers : v # w => pc'[v] = pc[v] /\ args'[v] = args[v]
  BY <1>3, GoEffect DEF IInv, Places
<1>5. w \in PidHolders(p) /\ PidHolders(p)' = PidHolders(p) \ {w}
  BY <1>1, <1>2, <1>4 DEF PidHolders, PidOf
<1>6. \A q \in Pids : q # p => PidHolders(q)' = PidHolders(q)
  BY <1>1, <1>2, <1>4 DEF PidHolders, PidOf
<1>7. \A d \in Devs : DevHolders(d)' = DevHolders(d)
  BY <1>1, <1>4 DEF DevHolders, DevOf
<1>8. Cardinality(PidHolders(p)') = Cardinality(PidHolders(p)) - 1
  BY <1>5, SizeChange DEF PidHolders
<1>9. Types' /\ Balance'
  BY <1>1, <1>2, <1>4, <1>6, <1>7, <1>8 DEF IInv, Types, Balance
<1>10. NamesInv'
  BY <1>1, <1>4 DEF IInv, NamesInv, DevOf, PidOf
<1> QED
  BY <1>9, <1>10 DEF IInv
---------------------------------------------------------------------------
LEMMA NextIInv == IInv /\ [Next]_vars => IInv'
<1> SUFFICES ASSUME IInv, [Next]_vars PROVE IInv'
  OBVIOUS
<1>1. ASSUME UNCHANGED <<pc, args, devref, pidref>> PROVE IInv'
  <2>1. /\ \A d \in Devs : DevHolders(d)' = DevHolders(d)
        /\ \A p \in Pids : PidHolders(p)' = PidHolders(p)
    BY <1>1 DEF DevHolders, PidHolders, DevOf, PidOf
  <2> QED
    BY <1>1, <2>1 DEF IInv, Types, Balance, NamesInv, DevOf, PidOf
<1>2. CASE UNCHANGED vars
  BY <1>1, <1>2 DEF vars, devs, procs
<1>3. ASSUME NEW d \in Devs, Unregister(d) \/ Free(d) PROVE IInv'
  BY <1>1, <1>3 DEF Unregister, Free, procs
<1>4. ASSUME NEW w \in Writers, StoreName(w) \/ Continue(w) PROVE IInv'
  BY <1>4, PlainStep, GetDevStep, UseDevStep, PutDevStep, FindPidStep, PutPidStep DEF Continue
<1> QED
  BY <1>2, <1>3, <1>4 DEF Next

(* mypacket.c:174,246,257,295 and showtask.c:224-239: for any tasks that   *)
(* write anything, no handler keeps a reference or gives one back twice.   *)
THEOREM RefsCorrect == Spec => []RefsBalanced
<1>1. IInv => RefsBalanced
  BY BalanceIsRefsBalanced DEF IInv
<1> QED
  BY <1>1, InitIInv, NextIInv, PTL DEF Spec
---------------------------------------------------------------------------
(* The table of the commands: no name begins with an earlier one.          *)
LEMMA PrefixAt ==
    ASSUME NEW S, NEW s \in Seq(S), NEW t \in Seq(S), IsPrefix(s, t)
    PROVE  Len(s) <= Len(t) /\ \A k \in 1..Len(s) : s[k] = t[k]
<1>1. /\ Len(s) \in Nat /\ Len(t) \in Nat /\ Len(s) <= Len(t)
      /\ SubSeq(s, 1, Len(s)) = SubSeq(t, 1, Len(s))
  BY DEF IsPrefix
<1>2. ASSUME NEW k \in 1..Len(s) PROVE s[k] = t[k]
  <2>1. SubSeq(s, 1, Len(s))[k] = s[k] /\ SubSeq(t, 1, Len(s))[k] = t[k]
    BY <1>1
  <2> QED
    BY <1>1, <2>1
<1> QED
  BY <1>1, <1>2

LEMMA PrefixSelf ==
    ASSUME NEW S, NEW s \in Seq(S)
    PROVE  IsPrefix(s, s)
BY DEF IsPrefix

Name(i) == command_handlers[i].name

LEMMA Table ==
    /\ DOMAIN command_handlers = 1..13
    /\ Name(1) = <<"show", "task">> /\ Name(2) = <<"show", "all", "task">>
    /\ Name(3) = <<"parse">> /\ Name(4) = <<"set", "nice", "user">>
    /\ Name(5) = <<"set", "nice">> /\ Name(6) = <<"show", "kernel", "symbol">>
    /\ Name(7) = <<"show", "all", "thread">> /\ Name(8) = <<"set", "thread", "priority">>
    /\ Name(9) = <<"show", "interface">> /\ Name(10) = <<"set", "mtu">>
    /\ Name(11) = <<"clear", "interface">> /\ Name(12) = <<"show", "process", "fd">>
    /\ Name(13) = <<"set", "socket", "size">>
BY DEF Name, command_handlers, Command

NameLen(i) == command_handlers[i].len

LEMMA TableLens ==
    /\ Len(command_handlers) = 13
    /\ \A i \in 1..13 : NameLen(i) \in Nat /\ NameLen(i) > 0
    /\ NameLen(4) = 11 /\ NameLen(5) = 7
BY DEF NameLen, command_handlers, Command

Words == {"show", "task", "all", "parse", "set", "nice", "user", "kernel", "symbol", "thread",
          "priority", "interface", "mtu", "clear", "process", "fd", "socket", "size"}

LEMMA NamesTyped ==
    /\ \A i \in 1..13 : Name(i) \in Seq(Words)
    /\ Len(Name(3)) = 1
    /\ \A i \in {1, 5, 9, 10, 11} : Len(Name(i)) = 2
    /\ \A i \in {2, 4, 6, 7, 8, 12, 13} : Len(Name(i)) = 3
<1>1. ASSUME NEW W, NEW a \in W, NEW b \in W, NEW c \in W
      PROVE  /\ <<a>> \in Seq(W) /\ Len(<<a>>) = 1
             /\ <<a, b>> \in Seq(W) /\ Len(<<a, b>>) = 2
             /\ <<a, b, c>> \in Seq(W) /\ Len(<<a, b, c>>) = 3
  OBVIOUS
<1>2. Name(3) \in Seq(Words) /\ Len(Name(3)) = 1
  <2>1. Name(3) = <<"parse">> /\ "parse" \in Words
    BY Table DEF Words
  <2> QED
    BY <1>1, <2>1
<1>3. ASSUME NEW i \in {1, 5, 9, 10, 11} PROVE Name(i) \in Seq(Words) /\ Len(Name(i)) = 2
  <2>1. \E a, b \in Words : Name(i) = <<a, b>>
    BY Table DEF Words
  <2> QED
    BY <1>1, <2>1
<1>4. ASSUME NEW i \in {2, 4, 6, 7, 8, 12, 13} PROVE Name(i) \in Seq(Words) /\ Len(Name(i)) = 3
  <2>1. \E a, b, c \in Words : Name(i) = <<a, b, c>>
    BY Table DEF Words
  <2> QED
    BY <1>1, <2>1
<1>5. \A i \in 1..13 : i = 3 \/ i \in {1, 5, 9, 10, 11} \/ i \in {2, 4, 6, 7, 8, 12, 13}
  OBVIOUS
<1> QED
  BY <1>2, <1>3, <1>4, <1>5

(* With two words to compare, the second one tells most names apart, and   *)
(* the first or the third one the rest: the only name that another begins  *)
(* with is setnice.                                                        *)
LEMMA NestedNames ==
    ASSUME NEW j \in 1..13, NEW i \in 1..13, IsPrefix(Name(j), Name(i)), j # i
    PROVE  j = 5 /\ i = 4
<1>1. Len(Name(j)) <= Len(Name(i)) /\ \A k \in 1..Len(Name(j)) : Name(j)[k] = Name(i)[k]
  BY PrefixAt, NamesTyped
<1>2. /\ Name(j)[1] = Name(i)[1]
      /\ j # 3 => Name(j)[2] = Name(i)[2]
      /\ j \in {2, 4, 7} => Name(j)[3] = Name(i)[3]
      /\ ~(j = 4 /\ i = 5)
  <2>1. /\ Len(Name(j)) \in {1, 2, 3} /\ (j # 3 => Len(Name(j)) \in {2, 3})
        /\ (j \in {2, 4, 7} => Len(Name(j)) = 3)
    BY NamesTyped
  <2>2. ~(j = 4 /\ i = 5)
    <3>1. Len(Name(4)) = 3 /\ Len(Name(5)) = 2
      BY NamesTyped
    <3> DEFINE n == Len(Name(4))
               m == Len(Name(5))
    <3>2. j = 4 /\ i = 5 => n <= m
      BY <1>1
    <3>3. n = 3 /\ m = 2
      BY <3>1
    <3> HIDE DEF n, m
    <3> QED
      BY <3>2, <3>3
  <2> HIDE DEF Name
  <2> DEFINE n == Len(Name(j))
  <2>3. n \in {1, 2, 3} /\ (j # 3 => n \in {2, 3}) /\ (j \in {2, 4, 7} => n = 3)
    BY <2>1
  <2>4. \A k \in 1..n : Name(j)[k] = Name(i)[k]
    BY <1>1
  <2> HIDE DEF n
  <2> QED
    BY <2>2, <2>3, <2>4
<1>3. j # 3 /\ i # 3
  BY <1>2, Table
<1>4. Name(1)[2] = "task" /\ Name(2)[2] = "all" /\ Name(4)[2] = "nice" /\ Name(5)[2] = "nice"
      /\ Name(6)[2] = "kernel" /\ Name(7)[2] = "all" /\ Name(8)[2] = "thread"
      /\ Name(9)[2] = "interface" /\ Name(10)[2] = "mtu" /\ Name(11)[2] = "interface"
      /\ Name(12)[2] = "process" /\ Name(13)[2] = "socket"
      /\ Name(9)[1] = "show" /\ Name(11)[1] = "clear" /\ Name(2)[3] = "task" /\ Name(7)[3] = "thread"
  BY Table
<1> HIDE DEF Name
<1>5. ASSUME NEW n \in 1..13, NEW m \in 1..13, n # m, n # 3, m # 3, Name(n)[2] = Name(m)[2]
      PROVE  {n, m} \in {{2, 7}, {4, 5}, {9, 11}}
  BY <1>4, <1>5
<1>6. {j, i} \in {{2, 7}, {4, 5}, {9, 11}}
  BY <1>2, <1>3, <1>5
<1> QED
  BY <1>2, <1>4, <1>6

LEMMA NothingBeginsEmpty == \A i \in 1..13 : ~IsPrefix(Name(i), <<>>)
<1>1. ASSUME NEW i \in 1..13, IsPrefix(Name(i), <<>>) PROVE FALSE
  <2>1. Len(Name(i)) <= Len(<<>>)
    BY <1>1 DEF IsPrefix
  <2>2. Len(Name(i)) \in {1, 2, 3}
    BY NamesTyped
  <2> QED
    BY <2>1, <2>2
<1> QED
  BY <1>1

(* What a task writes begins with a name of the table, or with none.       *)
LEMMA TextNames ==
    ASSUME NEW t \in Texts \cup {NoText}
    PROVE  /\ t.len \in Nat
           /\ \/ t.name = <<>> /\ t.len = 0
              \/ \E i \in 1..13 : t.name = Name(i) /\ t.len = NameLen(i)
<1>1. CASE t \in Texts
  <2>1. \/ t.name = <<>> /\ t.len = 0
        \/ \E i \in DOMAIN command_handlers :
               t.name = command_handlers[i].name /\ t.len = command_handlers[i].len
    BY <1>1, TextsAssumption
  <2>2. DOMAIN command_handlers = 1..13
    BY Table
  <2>3. \/ t.name = <<>> /\ t.len = 0
        \/ \E i \in 1..13 : t.name = Name(i) /\ t.len = NameLen(i)
    <3>1. ASSUME NEW i \in DOMAIN command_handlers,
                 t.name = command_handlers[i].name, t.len = command_handlers[i].len
          PROVE  i \in 1..13 /\ t.name = Name(i) /\ t.len = NameLen(i)
      BY <2>2, <3>1 DEF Name, NameLen
    <3> QED
      BY <2>1, <3>1
  <2>4. t.len \in Nat
    <3>1. \A i \in 1..13 : NameLen(i) \in Nat
      BY TableLens
    <3> HIDE DEF NameLen
    <3>2. CASE t.len = 0
      BY <3>2
    <3>3. ASSUME NEW i \in 1..13, t.len = NameLen(i) PROVE t.len \in Nat
      BY <3>1, <3>3, Zenon
    <3> QED
      BY <2>3, <3>2, <3>3
  <2> QED
    BY <2>3, <2>4
<1>2. CASE t = NoText
  BY <1>2 DEF NoText, Text
<1> QED
  BY <1>1, <1>2
---------------------------------------------------------------------------
(* The types.  A parameter is a list of tokens, or some piece of an old    *)
(* text that is none.                                                      *)
Tokenized(a) ==
    /\ Len(a) \in Nat /\ DOMAIN a = 1..Len(a)
    /\ \A i \in DOMAIN a : a[i][1] \in Tokens /\ (a[i][1] = "num" => a[i][2] \in Int)

TextInv ==
    /\ my_data = [name |-> my_data.name, len |-> my_data.len, param |-> my_data.param]
    /\ my_data.len \in Nat
    /\ my_data.param = Junk \/ Tokenized(my_data.param)
    /\ text \in [Writers -> Texts \cup {NoText}]

LEMMA TextsTokenized ==
    ASSUME NEW t \in Texts \cup {NoText}
    PROVE  t.arg = Bare \/ Tokenized(t.arg)
<1>1. CASE t \in Texts
  BY <1>1, TextsAssumption DEF Tokenized, Tokens, IsNum
<1>2. CASE t = NoText
  BY <1>2 DEF NoText, Text, Tokenized
<1> QED
  BY <1>1, <1>2

LEMMA TextStep == TextInv /\ [Next]_vars => TextInv'
<1> SUFFICES ASSUME TextInv, [Next]_vars PROVE TextInv'
  OBVIOUS
<1>1. ASSUME NEW w \in Writers, StoreName(w) PROVE TextInv'
  <2>1. PICK t \in Texts :
            /\ \/ my_data' = my_data
               \/ my_data' = [name |-> t.name, len |-> t.len, param |-> ParamAt(t.len)]
            /\ text' = [text EXCEPT ![w] = t]
    BY <1>1 DEF StoreName
  <2>2. text' \in [Writers -> Texts \cup {NoText}]
    BY <2>1 DEF TextInv
  <2>3. CASE my_data' = my_data
    BY <2>2, <2>3 DEF TextInv
  <2>4. CASE my_data' = [name |-> t.name, len |-> t.len, param |-> ParamAt(t.len)]
    <3>1. t.len \in Nat
      BY TextNames
    <3>2. ParamAt(t.len) = Junk \/ Tokenized(ParamAt(t.len))
      BY DEF ParamAt, TextInv
    <3>3. /\ my_data' = [name |-> my_data'.name, len |-> my_data'.len, param |-> my_data'.param]
          /\ my_data'.len = t.len /\ my_data'.param = ParamAt(t.len)
      BY <2>4
    <3> QED
      BY <2>2, <3>1, <3>2, <3>3 DEF TextInv
  <2> QED
    BY <2>1, <2>3, <2>4
<1>2. ASSUME NEW w \in Writers, StoreRest(w) PROVE TextInv'
  <2>1. text' = text /\ text[w] \in Texts \cup {NoText} /\ text[w].len \in Nat
    BY <1>2, TextNames DEF StoreRest, TextInv
  <2>2. ASSUME NEW n, NEW l \in Nat, NEW p, p = Junk \/ Tokenized(p),
               my_data' = [name |-> n, len |-> l, param |-> p]
        PROVE  TextInv'
    <3>1. /\ my_data' = [name |-> my_data'.name, len |-> my_data'.len, param |-> my_data'.param]
          /\ my_data'.len = l /\ my_data'.param = p
      BY <2>2
    <3> QED
      BY <2>1, <2>2, <3>1 DEF TextInv
  <2>3. text[w].arg # Bare => Tokenized(text[w].arg)
    BY <2>1, TextsTokenized
  <2>4. ParamAt(text[w].len) = Junk \/ Tokenized(ParamAt(text[w].len))
    BY DEF ParamAt, TextInv
  <2>5. CASE text[w].len > my_data.len
    <3>1. my_data' = [name |-> my_data.name, len |-> my_data.len, param |-> Junk]
      <4>1. my_data' = [my_data EXCEPT !.param = Junk]
        BY <1>2, <2>5 DEF StoreRest
      <4> QED
        BY <4>1 DEF TextInv
    <3> QED
      BY <2>2, <3>1 DEF TextInv
  <2>6. CASE ~(text[w].len > my_data.len)
    <3>1. my_data' = [name |-> NameUpTo(text[w].len), len |-> text[w].len,
                      param |-> IF text[w].arg = Bare THEN ParamAt(text[w].len) ELSE text[w].arg]
      BY <1>2, <2>6 DEF StoreRest
    <3> QED
      BY <2>1, <2>2, <2>3, <2>4, <3>1
  <2> QED
    BY <2>5, <2>6
<1>3. ASSUME my_data' = my_data, text' = text \/ \E w \in Writers : text' = [text EXCEPT ![w] = NoText]
      PROVE  TextInv'
  BY <1>3 DEF TextInv
<1>4. ASSUME NEW w \in Writers, Continue(w), ~StoreRest(w)
      PROVE  my_data' = my_data /\ (text' = text \/ text' = [text EXCEPT ![w] = NoText])
  BY <1>4, Zenon DEF Continue, Match, NextCommand, UnknownCommand, Show, GetDev, NoDev, UseDev, PutDev, StartNice, BadNice, SetNice,
                     NiceDone, FindPid, PutPid, SetPriority, SetSocketSize, Return
<1>5. ASSUME NEW d \in Devs, Unregister(d) \/ Free(d) PROVE my_data' = my_data /\ text' = text
  BY <1>5 DEF Unregister, Free
<1> QED
  BY <1>1, <1>2, <1>3, <1>4, <1>5 DEF Next, vars

(* A handler that works on its copy has found the number it needs in it.   *)
CopyInv ==
    /\ entry = [w \in Writers |-> entry[w]]
    /\ \A w \in Writers :
          /\ pc[w] = "held" /\ handler(w).handler = "setmtu" => MtuOf(w) \in Int
          /\ pc[w] = "nice" => NiceOf(w) \in Nices

LEMMA CopyStep == IInv /\ TextInv /\ CopyInv /\ [Next]_vars => CopyInv'
<1> SUFFICES ASSUME IInv, TextInv, CopyInv, [Next]_vars PROVE CopyInv'
  OBVIOUS
<1>1. /\ pc \in [Writers -> Places] /\ args = [w \in Writers |-> args[w]]
      /\ entry = [w \in Writers |-> entry[w]]
  BY DEF IInv, Types, CopyInv
<1>2. CASE UNCHANGED <<pc, entry, args>>
  BY <1>2 DEF CopyInv, MtuOf, NiceOf, handler
(* One writer goes somewhere where it has no number, the others stay.      *)
<1>3. ASSUME NEW w \in Writers, NEW to, pc' = [pc EXCEPT ![w] = to], to \notin {"held", "nice"},
             entry' = entry \/ \E h : entry' = [entry EXCEPT ![w] = h],
             args' = args \/ \E a : args' = [args EXCEPT ![w] = a]
      PROVE  CopyInv'
  <2>1. /\ pc'[w] = to /\ entry' = [v \in Writers |-> entry'[v]]
        /\ \A v \in Writers : v # w => pc'[v] = pc[v] /\ entry'[v] = entry[v] /\ args'[v] = args[v]
    BY <1>1, <1>3
  <2> QED
    BY <1>3, <2>1 DEF CopyInv, MtuOf, NiceOf, handler
<1>4. ASSUME NEW w \in Writers, GetDev(w) PROVE CopyInv'
  <2>1. PICK d \in Devs : NamesDev(w, d)
    BY <1>4 DEF GetDev
  <2>2. /\ pc' = [pc EXCEPT ![w] = "held"] /\ args' = [args EXCEPT ![w] = Param(w)] /\ entry' = entry
    BY <1>4 DEF GetDev, Goto
  <2>3. /\ pc'[w] = "held" /\ args'[w] = Param(w)
        /\ \A v \in Writers : v # w => pc'[v] = pc[v] /\ args'[v] = args[v]
    BY <1>1, <2>2
  <2>4. handler(w).handler = "setmtu" => Tokenized(Param(w))
    BY <2>1 DEF NamesDev, Param, ParamAt, TextInv
  <2>5. handler(w).handler = "setmtu" => Param(w)[2][2] \in Int
    <3>1. handler(w).handler = "setmtu" => Len(Param(w)) >= 2 /\ Param(w)[2][1] = "num"
      BY <2>1 DEF NamesDev
    <3> HIDE DEF Param
    <3> QED
      BY <2>4, <3>1 DEF Tokenized
  <2> QED
    BY <2>2, <2>3, <2>5 DEF CopyInv, MtuOf, NiceOf, handler
<1>5. ASSUME NEW w \in Writers, StartNice(w) PROVE CopyInv'
  <2>1. /\ pc' = [pc EXCEPT ![w] = "nice"] /\ args' = [args EXCEPT ![w] = Param(w)] /\ entry' = entry
        /\ ParamGivesNice(w)
    BY <1>5 DEF StartNice, Goto
  <2>2. /\ pc'[w] = "nice" /\ args'[w] = Param(w)
        /\ \A v \in Writers : v # w => pc'[v] = pc[v] /\ args'[v] = args[v]
    BY <1>1, <2>1
  <2>3. Param(w)[IF handler(w).handler = "set_all_task_nice" THEN 1 ELSE 2][2] \in Nices
    BY <2>1 DEF ParamGivesNice
  <2> QED
    BY <2>1, <2>2, <2>3 DEF CopyInv, MtuOf, NiceOf, handler
<1>6. ASSUME NEW w \in Writers, StoreName(w) \/ Continue(w), ~GetDev(w), ~StartNice(w), ~NextCommand(w)
      PROVE  CopyInv'
  <2>1. \/ UNCHANGED <<pc, entry, args>>
        \/ /\ \/ pc' = [pc EXCEPT ![w] = "idle"]
              \/ pc' = [pc EXCEPT ![w] = "storing"]
              \/ pc' = [pc EXCEPT ![w] = "stored"]
              \/ pc' = [pc EXCEPT ![w] = "called"]
              \/ pc' = [pc EXCEPT ![w] = "release"]
              \/ pc' = [pc EXCEPT ![w] = "found"]
              \/ pc' = [pc EXCEPT ![w] = "priority"]
           /\ entry' = entry \/ \E h : entry' = [entry EXCEPT ![w] = h]
           /\ args' = args \/ \E a : args' = [args EXCEPT ![w] = a]
    BY <1>6, Zenon DEF Continue, StoreName, StoreRest, Match, UnknownCommand, Show, NoDev, UseDev, PutDev, BadNice,
                       SetNice, NiceDone, FindPid, PutPid, SetPriority, SetSocketSize, Return, Goto
  <2> QED
    BY <1>2, <1>3, <2>1
<1>7. ASSUME NEW w \in Writers, NextCommand(w) PROVE CopyInv'
  <2>1. /\ pc[w] = "stored" /\ UNCHANGED <<pc, args>>
        /\ entry' = [entry EXCEPT ![w] = entry[w] + 1]
    BY <1>7 DEF NextCommand
  <2>2. pc' = [pc EXCEPT ![w] = "stored"]
    BY <1>1, <2>1
  <2> QED
    BY <1>3, <2>1, <2>2
<1>8. ASSUME NEW d \in Devs, Unregister(d) \/ Free(d) PROVE UNCHANGED <<pc, entry, args>>
  BY <1>8 DEF Unregister, Free
<1> QED
  BY <1>2, <1>4, <1>5, <1>6, <1>7, <1>8 DEF Next, vars

KernelTypes ==
    /\ todo \in [Writers -> SUBSET Pids]
    /\ devstate \in [Devs -> {"up", "leaving", "freed"}]
    /\ mtu \in [Devs -> Int] /\ nice \in [Pids -> Int]
    /\ rcu \in [Writers -> Nat] /\ resized \subseteq Writers

LEMMA KernelStep == CopyInv /\ KernelTypes /\ [Next]_vars => KernelTypes'
<1> SUFFICES ASSUME CopyInv, KernelTypes, [Next]_vars PROVE KernelTypes'
  OBVIOUS
<1> USE DEF KernelTypes
<1>1. CASE UNCHANGED <<todo, devstate, mtu, nice, rcu, resized>>
  BY <1>1
<1>2. ASSUME NEW d \in Devs, Unregister(d) \/ Free(d) PROVE KernelTypes'
  BY <1>2 DEF Unregister, Free, procs
<1>3. ASSUME NEW w \in Writers, UseDev(w) PROVE KernelTypes'
  BY <1>3 DEF UseDev, procs, CopyInv
<1>4. ASSUME NEW w \in Writers, StartNice(w) PROVE KernelTypes'
  <2>1. PICK P \in SUBSET Pids : todo' = [todo EXCEPT ![w] = P]
    BY <1>4 DEF StartNice
  <2> QED
    BY <1>4, <2>1 DEF StartNice, devs, procs
<1>5. ASSUME NEW w \in Writers, SetNice(w) PROVE KernelTypes'
  <2>1. NiceOf(w) \in Int
    BY <1>5 DEF SetNice, CopyInv, Nices
  <2>2. PICK p : nice' = [nice EXCEPT ![p] = NiceOf(w)] /\ todo' = [todo EXCEPT ![w] = @ \ {p}]
    BY <1>5 DEF SetNice
  <2>3. UNCHANGED <<devstate, mtu, rcu, resized>>
    BY <1>5 DEF SetNice, devs
  <2>4. nice' \in [Pids -> Int]
    BY <2>1, <2>2
  <2>5. todo' \in [Writers -> SUBSET Pids]
    BY <2>2
  <2> QED
    BY <2>3, <2>4, <2>5
<1>6. ASSUME NEW w \in Writers, SetPriority(w) PROVE KernelTypes'
  <2>1. UNCHANGED <<todo, devstate, mtu, rcu, resized>>
    BY <1>6 DEF SetPriority, devs
  <2>2. \/ nice' = nice
        \/ \E p, n : n \in Nices /\ nice' = [nice EXCEPT ![p] = n]
    BY <1>6 DEF SetPriority
  <2>3. nice' \in [Pids -> Int]
    BY <2>2 DEF Nices
  <2> QED
    BY <2>1, <2>3
<1>7. ASSUME NEW w \in Writers, SetSocketSize(w) PROVE KernelTypes'
  BY <1>7 DEF SetSocketSize, devs
<1>8. ASSUME NEW w \in Writers, StoreName(w) \/ Continue(w),
             ~UseDev(w), ~StartNice(w), ~SetNice(w), ~SetPriority(w), ~SetSocketSize(w)
      PROVE  UNCHANGED <<todo, devstate, mtu, nice, rcu, resized>>
  BY <1>8, Zenon DEF StoreName, Continue, StoreRest, Match, NextCommand, UnknownCommand, Show, GetDev, NoDev, PutDev, BadNice, NiceDone,
                     FindPid, PutPid, devs, procs
<1> QED
  BY <1>1, <1>2, <1>3, <1>4, <1>5, <1>6, <1>7, <1>8 DEF Next, vars, devs, procs

(* The loop stays inside the table, and outside it no entry is kept.       *)
EntryInv ==
    /\ entry \in [Writers -> 0..13] /\ raced \subseteq Writers
    /\ \A w \in Writers : pc[w] = "stored" => entry[w] \in 1..13

LEMMA EntryStep == IInv /\ EntryInv /\ [Next]_vars => EntryInv'
<1> SUFFICES ASSUME IInv, EntryInv, [Next]_vars PROVE EntryInv'
  OBVIOUS
<1>1. pc \in [Writers -> Places]
  BY DEF IInv, Types
<1>2. CASE UNCHANGED <<pc, entry, raced>>
  BY <1>2 DEF EntryInv
<1>3. ASSUME NEW w \in Writers, StoreName(w) PROVE EntryInv'
  BY <1>1, <1>3 DEF EntryInv, StoreName, Goto, Overwritten
<1>4. ASSUME NEW w \in Writers, StoreRest(w) PROVE EntryInv'
  BY <1>1, <1>4 DEF EntryInv, StoreRest, Goto, Overwritten
<1>5. ASSUME NEW w \in Writers, NextCommand(w) PROVE EntryInv'
  <2>1. entry' = [entry EXCEPT ![w] = entry[w] + 1] /\ UNCHANGED <<pc, raced>>
    BY <1>5 DEF NextCommand
  <2>2. entry[w] \in 0..13 /\ entry[w] < 13
    BY <1>5, TableLens DEF NextCommand, EntryInv
  <2>3. entry[w] + 1 \in 1..13
    BY <2>2
  <2> QED
    BY <2>1, <2>3 DEF EntryInv
<1>6. ASSUME NEW w \in Writers, Continue(w), ~StoreRest(w), ~NextCommand(w) PROVE EntryInv'
  <2>1. /\ raced' = raced \/ raced' = raced \ {w}
        /\ entry' = entry \/ entry' = [entry EXCEPT ![w] = 0]
        /\ pc' = pc \/ \E to \in Places \ {"stored"} : pc' = [pc EXCEPT ![w] = to]
        /\ pc' = pc => entry' = entry
    <3>1. CASE SetNice(w)
      BY <3>1 DEF SetNice
    <3>2. CASE Match(w)
      BY <3>2 DEF Match, Goto, Places
    <3>3. CASE UnknownCommand(w) \/ Show(w) \/ NoDev(w) \/ PutDev(w) \/ BadNice(w) \/ NiceDone(w)
               \/ SetPriority(w) \/ SetSocketSize(w)
      <4>1. /\ raced' = raced \/ raced' = raced \ {w}
            /\ Return(w) /\ pc[w] # "idle"
        BY <3>3 DEF UnknownCommand, Show, NoDev, PutDev, BadNice, NiceDone, SetPriority, SetSocketSize, Called
      <4> QED
        BY <1>1, <4>1 DEF Return, Goto, Places
    <3>4. CASE GetDev(w) \/ UseDev(w) \/ StartNice(w)
      BY <3>4 DEF GetDev, UseDev, StartNice, Goto, Places
    <3>5. CASE FindPid(w) \/ PutPid(w)
      <4>1. raced' = raced /\ pc[w] \in {"called", "found"}
        BY <3>5 DEF FindPid, PutPid, Called
      <4>2. \/ pc' = [pc EXCEPT ![w] = "idle"] /\ entry' = [entry EXCEPT ![w] = 0]
            \/ entry' = entry /\ \E to \in {"found", "priority"} : pc' = [pc EXCEPT ![w] = to]
        BY <3>5 DEF FindPid, PutPid, Return, Goto
      <4> QED
        BY <1>1, <4>1, <4>2 DEF Places
    <3> QED
      BY <1>6, <3>1, <3>2, <3>3, <3>4, <3>5 DEF Continue
  <2>2. entry' \in [Writers -> 0..13] /\ raced' \subseteq Writers
    BY <2>1 DEF EntryInv
  <2>3. ASSUME NEW v \in Writers, pc'[v] = "stored" PROVE entry'[v] \in 1..13
    BY <1>1, <2>1, <2>3 DEF EntryInv
  <2> QED
    BY <2>2, <2>3 DEF EntryInv
<1>7. ASSUME NEW d \in Devs, Unregister(d) \/ Free(d) PROVE UNCHANGED <<pc, entry, raced>>
  BY <1>7 DEF Unregister, Free
<1> QED
  BY <1>2, <1>3, <1>4, <1>5, <1>6, <1>7 DEF Next, vars

LEMMA InitEntry == Init => EntryInv
BY DEF Init, EntryInv

(* sys2.c, mypacket.c, showtask.c, process.c: the variables keep their     *)
(* types; what is read from the buffer is only used as the number it is.   *)
THEOREM TypeCorrect == Spec => []TypeOK
<1>1. Init => TextInv /\ CopyInv /\ KernelTypes
  <2> SUFFICES ASSUME Init PROVE TextInv /\ CopyInv /\ KernelTypes
    OBVIOUS
  <2>1. TextInv
    BY DEF Init, TextInv, Tokenized
  <2>2. CopyInv
    BY DEF Init, CopyInv
  <2>3. KernelTypes
    BY DEF Init, KernelTypes, MtuDefault
  <2> QED
    BY <2>1, <2>2, <2>3
<1>2. IInv /\ TextInv /\ CopyInv /\ KernelTypes /\ EntryInv => TypeOK
  <2> SUFFICES ASSUME IInv, TextInv, KernelTypes, EntryInv PROVE TypeOK
    OBVIOUS
  <2>1. devref \in [Devs -> Nat] /\ pidref \in [Pids -> Nat]
    <3>1. PICK w : w \in Writers
      BY Sys2Assumption
    <3>2. \A d \in Devs : devref[d] \in Nat
      <4> TAKE d \in Devs
      <4>1. DevHolders(d) \in SUBSET Writers
        BY DEF DevHolders
      <4>2. Cardinality(DevHolders(d)) \in Nat
        BY <3>1, <4>1, SizeChange
      <4> QED
        BY <4>2 DEF IInv, Balance
    <3>3. \A p \in Pids : pidref[p] \in Nat
      <4> TAKE p \in Pids
      <4>1. PidHolders(p) \in SUBSET Writers
        BY DEF PidHolders
      <4>2. Cardinality(PidHolders(p)) \in Nat
        BY <3>1, <4>1, SizeChange
      <4> QED
        BY <4>2 DEF IInv, Balance
    <3>4. devref = [d \in Devs |-> devref[d]] /\ pidref = [p \in Pids |-> pidref[p]]
      BY DEF IInv, Types
    <3> QED
      BY <3>2, <3>3, <3>4
  <2>2. my_data.param = Junk \/ \A i \in DOMAIN my_data.param : my_data.param[i][1] \in Tokens
    BY DEF TextInv, Tokenized
  <2> QED
    BY <2>1, <2>2, TableLens DEF IInv, Types, Places, TextInv, KernelTypes, EntryInv, TypeOK
<1> QED
  BY <1>1, <1>2, InitIInv, InitEntry, NextIInv, TextStep, CopyStep, KernelStep, EntryStep, PTL DEF Spec
---------------------------------------------------------------------------
(* The loop over the table.  The buffer starts with a name of the table or *)
(* with none, and the argument laid down last begins behind that name.     *)
BufferInv ==
    /\ my_data.len \in Nat
    /\ my_data.name = <<>> \/ \E i \in 1..13 : my_data.name = Name(i) /\ NameLen(i) <= my_data.len

(* Cut short, the buffer starts with the longest name that is left.        *)
Left(i, at) == NameLen(i) <= at /\ IsPrefix(Name(i), my_data.name)

LEMMA NameUpToIs ==
    ASSUME BufferInv, NEW at \in Nat, at < my_data.len
    PROVE  \/ NameUpTo(at) = <<>> /\ \A i \in 1..13 : ~Left(i, at)
           \/ \E i \in 1..13 : /\ NameUpTo(at) = Name(i) /\ Left(i, at)
                               /\ \A j \in 1..13 : Left(j, at) => NameLen(j) <= NameLen(i)
<1> DEFINE kept == {i \in 1..13 : Left(i, at)}
<1>1. NameUpTo(at) = IF kept = {} THEN <<>>
                     ELSE Name(CHOOSE i \in kept : \A j \in kept : NameLen(j) <= NameLen(i))
  <2>1. ~(at >= my_data.len)
    BY DEF BufferInv
  <2> DEFINE prefixes == {i \in DOMAIN command_handlers :
                 command_handlers[i].len <= at /\ IsPrefix(command_handlers[i].name, my_data.name)}
             Longest(S) == CHOOSE i \in S : \A j \in S : command_handlers[j].len <= command_handlers[i].len
  <2>2. NameUpTo(at) = IF prefixes = {} THEN <<>> ELSE command_handlers[Longest(prefixes)].name
    BY <2>1, Zenon DEF NameUpTo
  <2>3. prefixes = kept
    BY Table DEF Left, Name, NameLen
  <2> HIDE DEF prefixes, kept
  <2>4. NameUpTo(at) = IF kept = {} THEN <<>> ELSE command_handlers[Longest(kept)].name
    BY <2>2, <2>3, Zenon
  <2> QED
    BY <2>4, Zenon DEF Name, NameLen
<1>2. ASSUME NEW m \in kept PROVE \E i \in kept : \A j \in kept : NameLen(j) <= NameLen(i)
  <2>1. PICK n \in 1..13 : my_data.name = Name(n)
    BY <1>2, NothingBeginsEmpty DEF BufferInv, Left
  <2>2. \A j \in kept : j = n \/ (j = 5 /\ n = 4)
    BY <2>1, NestedNames DEF Left
  <2>3. \A j \in kept : NameLen(j) \in Nat
    BY TableLens
  <2> HIDE DEF kept
  <2>4. CASE n \in kept
    <3>1. \A j \in kept : NameLen(j) <= NameLen(n)
      BY <2>2, <2>3, <2>4, TableLens
    <3> QED
      BY <2>4, <3>1
  <2>5. CASE n \notin kept
    <3>1. \A j \in kept : j = m
      BY <1>2, <2>2, <2>5
    <3> QED
      BY <1>2, <2>3, <3>1
  <2> QED
    BY <2>4, <2>5
<1>3. CASE kept = {}
  BY <1>1, <1>3
<1>4. CASE kept # {}
  <2> DEFINE i == CHOOSE i \in kept : \A j \in kept : NameLen(j) <= NameLen(i)
  <2>1. i \in kept /\ \A j \in kept : NameLen(j) <= NameLen(i)
    BY <1>2, <1>4, Zenon
  <2>2. NameUpTo(at) = Name(i)
    BY <1>1, <1>4
  <2> HIDE DEF i
  <2> QED
    BY <2>1, <2>2
<1> QED
  BY <1>3, <1>4

(* A text whose name is in the buffer already finds it there once the rest *)
(* of it is laid down.                                                     *)
LEMMA NameStays ==
    ASSUME BufferInv, NEW t \in Texts, IsPrefix(t.name, my_data.name)
    PROVE  NameUpTo(t.len) = t.name
<1>1. CASE t.name = <<>> /\ t.len = 0
  <2>1. \A i \in 1..13 : NameLen(i) \in Nat /\ NameLen(i) > 0
    BY TableLens
  <2>2. CASE 0 >= my_data.len
    <3>1. ASSUME NEW i \in 1..13, NameLen(i) <= my_data.len PROVE FALSE
      <4>1. NameLen(i) \in Nat /\ NameLen(i) > 0 /\ my_data.len \in Nat
        BY <2>1 DEF BufferInv
      <4> QED
        BY <2>2, <3>1, <4>1
    <3>2. my_data.name = <<>>
      BY <3>1, Zenon DEF BufferInv
    <3> QED
      BY <1>1, <2>2, <3>2 DEF NameUpTo
  <2>3. CASE 0 < my_data.len
    <3>1. ASSUME NEW i \in 1..13, Left(i, 0) PROVE FALSE
      <4>1. NameLen(i) \in Nat /\ NameLen(i) > 0 /\ NameLen(i) <= 0
        BY <2>1, <3>1 DEF Left
      <4> QED
        BY <4>1
    <3>2. NameUpTo(0) = <<>> \/ \E i \in 1..13 : Left(i, 0)
      BY <2>3, NameUpToIs
    <3> QED
      BY <1>1, <3>1, <3>2
  <2> QED
    BY <2>2, <2>3 DEF BufferInv
<1>2. ASSUME NEW i \in 1..13, t.name = Name(i), t.len = NameLen(i)
      PROVE  NameUpTo(t.len) = t.name
  <2>1. PICK m \in 1..13 : my_data.name = Name(m) /\ NameLen(m) <= my_data.len
    BY <1>2, NothingBeginsEmpty DEF BufferInv
  <2>2. i = m \/ (i = 5 /\ m = 4)
    BY <1>2, <2>1, NestedNames
  <2>3. /\ NameLen(i) \in Nat /\ NameLen(m) \in Nat /\ my_data.len \in Nat
        /\ NameLen(4) = 11 /\ NameLen(5) = 7
    BY TableLens DEF BufferInv
  <2>4. CASE NameLen(i) >= my_data.len
    <3>1. i = m
      BY <2>1, <2>2, <2>3, <2>4
    <3> QED
      BY <1>2, <2>1, <2>4, <3>1 DEF NameUpTo
  <2>5. CASE NameLen(i) < my_data.len
    <3>1. Left(i, t.len)
      BY <1>2, <2>3 DEF Left
    <3>2. PICK k \in 1..13 : /\ NameUpTo(t.len) = Name(k) /\ Left(k, t.len)
                             /\ \A j \in 1..13 : Left(j, t.len) => NameLen(j) <= NameLen(k)
      BY <1>2, <2>3, <2>5, <3>1, NameUpToIs
    <3>3. NameLen(k) <= NameLen(i) /\ NameLen(i) <= NameLen(k) /\ NameLen(k) \in Nat
      BY <1>2, <3>1, <3>2, TableLens DEF Left
    <3>4. k = m \/ (k = 5 /\ m = 4)
      BY <2>1, <3>2, NestedNames DEF Left
    <3>5. k = i
      BY <2>2, <2>3, <3>3, <3>4
    <3> QED
      BY <1>2, <3>2, <3>5
  <2> QED
    BY <2>3, <2>4, <2>5
<1> QED
  BY <1>1, <1>2, TextNames

(* What the two steps of snprintf make of the buffer's name.               *)
LEMMA StoreNameEffect ==
    ASSUME BufferInv, TextInv, NEW w \in Writers, StoreName(w)
    PROVE  BufferInv' /\ NameUpTo(text[w].len)' = text'[w].name
<1>1. PICK t \in Texts :
          /\ text' = [text EXCEPT ![w] = t]
          /\ my_data' = IF IsPrefix(t.name, my_data.name)
                        THEN my_data
                        ELSE [name |-> t.name, len |-> t.len, param |-> ParamAt(t.len)]
  BY DEF StoreName
<1>2. text'[w] = t
  BY <1>1 DEF TextInv
<1>3. CASE IsPrefix(t.name, my_data.name)
  <2>1. my_data' = my_data
    BY <1>1, <1>3
  <2>2. NameUpTo(t.len)' = NameUpTo(t.len)
    BY <2>1 DEF NameUpTo
  <2>3. NameUpTo(t.len) = t.name
    BY <1>3, NameStays
  <2>4. NameUpTo(text[w].len)' = NameUpTo(t.len)'
    BY <1>2, <2>1 DEF NameUpTo
  <2> QED
    BY <1>2, <2>1, <2>2, <2>3, <2>4 DEF BufferInv
<1>4. CASE ~IsPrefix(t.name, my_data.name)
  <2>1. my_data'.name = t.name /\ my_data'.len = t.len
    BY <1>1, <1>4
  <2>2. /\ t.len \in Nat
        /\ \/ t.name = <<>> /\ t.len = 0
           \/ \E i \in 1..13 : t.name = Name(i) /\ t.len = NameLen(i)
    BY TextNames
  <2>3. NameUpTo(text[w].len)' = t.name
    BY <1>2, <2>1, <2>2 DEF NameUpTo
  <2>4. \A i \in 1..13 : NameLen(i) \in Nat
    BY TableLens
  <2>5. my_data'.name = <<>> \/ \E i \in 1..13 : my_data'.name = Name(i) /\ NameLen(i) <= my_data'.len
    <3>1. ASSUME NEW i \in 1..13, t.name = Name(i), t.len = NameLen(i)
          PROVE  my_data'.name = Name(i) /\ NameLen(i) <= my_data'.len
      BY <2>1, <2>2, <2>4, <3>1
    <3> QED
      BY <2>1, <2>2, <3>1
  <2> QED
    BY <1>2, <2>1, <2>2, <2>3, <2>5 DEF BufferInv
<1> QED
  BY <1>3, <1>4

LEMMA StoreRestEffect ==
    ASSUME BufferInv, TextInv, NEW w \in Writers, StoreRest(w)
    PROVE  BufferInv' /\ my_data'.name = NameUpTo(text[w].len)
<1> DEFINE at == text[w].len
<1>1. at \in Nat /\ my_data.len \in Nat
  BY TextNames DEF TextInv, BufferInv
<1>2. /\ at > my_data.len => my_data' = [my_data EXCEPT !.param = Junk]
      /\ ~(at > my_data.len) => my_data'.name = NameUpTo(at) /\ my_data'.len = at
  BY DEF StoreRest
<1> HIDE DEF at
<1>3. CASE at > my_data.len
  <2>1. my_data' = [name |-> my_data.name, len |-> my_data.len, param |-> Junk]
    BY <1>2, <1>3 DEF TextInv
  <2>2. my_data'.name = my_data.name /\ my_data'.len = my_data.len
    BY <2>1
  <2>3. NameUpTo(at) = my_data.name
    BY <1>1, <1>3 DEF NameUpTo
  <2> QED
    BY <2>2, <2>3 DEF BufferInv, at
<1>4. CASE at = my_data.len
  <2>1. my_data'.name = my_data.name /\ my_data'.len = my_data.len /\ NameUpTo(at) = my_data.name
    BY <1>1, <1>2, <1>4 DEF NameUpTo
  <2> QED
    BY <2>1 DEF BufferInv, at
<1>5. CASE at < my_data.len
  <2>1. my_data'.name = NameUpTo(at) /\ my_data'.len = at
    BY <1>1, <1>2, <1>5
  <2>2. NameUpTo(at) = <<>> \/ \E i \in 1..13 : NameUpTo(at) = Name(i) /\ NameLen(i) <= at
    BY <1>1, <1>5, NameUpToIs DEF Left
  <2> QED
    BY <1>1, <2>1, <2>2 DEF BufferInv, at
<1> QED
  BY <1>1, <1>3, <1>4, <1>5

(* A writer that nobody has overwritten has its own name in the buffer,    *)
(* and that name begins with none of the entries it has passed.            *)
OwnText(w) ==
    /\ pc[w] = "storing" => NameUpTo(text[w].len) = text[w].name
    /\ pc[w] = "stored" => /\ my_data.name = text[w].name
                           /\ \A j \in 1..13 : j < entry[w] => ~IsPrefix(Name(j), my_data.name)

LoopInv == BufferInv /\ \A w \in Writers : w \notin raced => OwnText(w)

(* A step that leaves the buffer alone.                                    *)
LEMMA QuietStep ==
    ASSUME LoopInv, my_data' = my_data, NEW w \in Writers,
           \A v \in Writers : v # w => /\ pc'[v] = pc[v] /\ text'[v] = text[v] /\ entry'[v] = entry[v]
                                       /\ (v \in raced => v \in raced'),
           w \notin raced' => OwnText(w)'
    PROVE  LoopInv'
<1>1. BufferInv'
  BY DEF LoopInv, BufferInv
<1>2. ASSUME NEW v \in Writers, v # w, v \notin raced' PROVE OwnText(v)'
  <2>1. OwnText(v) /\ pc'[v] = pc[v] /\ text'[v] = text[v] /\ entry'[v] = entry[v]
    BY <1>2 DEF LoopInv
  <2>2. NameUpTo(text[v].len)' = NameUpTo(text[v].len)
    BY <2>1 DEF NameUpTo
  <2> QED
    BY <2>1, <2>2 DEF OwnText
<1> QED
  BY <1>1, <1>2 DEF LoopInv

LEMMA LoopStep == IInv /\ TextInv /\ EntryInv /\ LoopInv /\ [Next]_vars => LoopInv'
<1> SUFFICES ASSUME IInv, TextInv, EntryInv, LoopInv, [Next]_vars PROVE LoopInv'
  OBVIOUS
<1>1. /\ pc \in [Writers -> Places] /\ text \in [Writers -> Texts \cup {NoText}]
      /\ entry \in [Writers -> 0..13] /\ BufferInv
  BY DEF IInv, Types, TextInv, EntryInv, LoopInv
<1>2. CASE UNCHANGED <<my_data, pc, text, entry, raced>>
  <2>1. ASSUME NEW w \in Writers PROVE LoopInv'
    <3>1. NameUpTo(text[w].len)' = NameUpTo(text[w].len)
      BY <1>2 DEF NameUpTo
    <3>2. w \notin raced' => OwnText(w)'
      BY <1>2, <3>1 DEF LoopInv, OwnText
    <3> QED
      BY <1>2, <3>2, QuietStep
  <2> QED
    BY <2>1, Sys2Assumption
<1>3. ASSUME NEW w \in Writers, StoreName(w) PROVE LoopInv'
  <2>1. /\ pc' = [pc EXCEPT ![w] = "storing"] /\ raced' = raced \cup Overwritten(w)
    BY <1>3 DEF StoreName, Goto
  <2>2. BufferInv' /\ NameUpTo(text[w].len)' = text'[w].name
    BY <1>1, <1>3, StoreNameEffect
  <2>3. OwnText(w)'
    BY <1>1, <2>1, <2>2 DEF OwnText
  <2>4. ASSUME NEW v \in Writers, v # w, v \notin raced' PROVE pc'[v] \notin {"storing", "stored"}
    BY <1>1, <2>1, <2>4 DEF Overwritten
  <2> QED
    BY <2>2, <2>3, <2>4 DEF LoopInv, OwnText
<1>4. ASSUME NEW w \in Writers, StoreRest(w) PROVE LoopInv'
  <2>1. /\ pc[w] = "storing" /\ pc' = [pc EXCEPT ![w] = "stored"] /\ raced' = raced \cup Overwritten(w)
        /\ entry' = [entry EXCEPT ![w] = 1] /\ text' = text
    BY <1>4 DEF StoreRest, Goto
  <2>2. BufferInv' /\ my_data'.name = NameUpTo(text[w].len)
    BY <1>1, <1>4, StoreRestEffect
  <2>3. w \notin raced' => OwnText(w)'
    BY <1>1, <2>1, <2>2 DEF LoopInv, OwnText
  <2>4. ASSUME NEW v \in Writers, v # w, v \notin raced' PROVE pc'[v] \notin {"storing", "stored"}
    BY <1>1, <2>1, <2>4 DEF Overwritten
  <2> QED
    BY <2>2, <2>3, <2>4 DEF LoopInv, OwnText
<1>5. ASSUME NEW w \in Writers, NextCommand(w) PROVE LoopInv'
  <2>1. /\ pc[w] = "stored" /\ ~Matches(w) /\ entry' = [entry EXCEPT ![w] = entry[w] + 1]
        /\ UNCHANGED <<my_data, pc, text, raced>>
    BY <1>5 DEF NextCommand
  <2>2. entry[w] \in 0..13 /\ entry'[w] = entry[w] + 1
    BY <1>1, <2>1
  <2>3. ~IsPrefix(Name(entry[w]), my_data.name)
    BY <2>1 DEF Matches, handler, Name
  <2>4. ASSUME w \notin raced, NEW j \in 1..13, j < entry'[w] PROVE ~IsPrefix(Name(j), my_data.name)
    <3>1. j < entry[w] \/ j = entry[w]
      BY <2>2, <2>4
    <3> QED
      BY <2>1, <2>3, <2>4, <3>1 DEF LoopInv, OwnText
  <2>5. w \notin raced' => OwnText(w)'
    BY <2>1, <2>4 DEF LoopInv, OwnText
  <2> QED
    BY <1>1, <2>1, <2>5, QuietStep
<1>6. ASSUME NEW w \in Writers, Continue(w), ~StoreRest(w), ~NextCommand(w) PROVE LoopInv'
  <2>1. /\ my_data' = my_data
        /\ raced' = raced \/ raced' = raced \ {w}
        /\ text' = text \/ text' = [text EXCEPT ![w] = NoText]
        /\ entry' = entry \/ entry' = [entry EXCEPT ![w] = 0]
    BY <1>6, Zenon DEF Continue, Match, UnknownCommand, Show, GetDev, NoDev, UseDev, PutDev, StartNice, BadNice,
       SetNice, NiceDone, FindPid, PutPid, SetPriority, SetSocketSize, Return
  <2>2. \/ pc' = pc /\ pc[w] = "nice"
        \/ pc' = [pc EXCEPT ![w] = "idle"]
        \/ pc' = [pc EXCEPT ![w] = "called"]
        \/ pc' = [pc EXCEPT ![w] = "held"]
        \/ pc' = [pc EXCEPT ![w] = "release"]
        \/ pc' = [pc EXCEPT ![w] = "nice"]
        \/ pc' = [pc EXCEPT ![w] = "found"]
        \/ pc' = [pc EXCEPT ![w] = "priority"]
    BY <1>6, Zenon DEF Continue, Match, UnknownCommand, Show, GetDev, NoDev, UseDev, PutDev, StartNice, BadNice,
       SetNice, NiceDone, FindPid, PutPid, SetPriority, SetSocketSize, Return, Goto
  <2>3. pc'[w] \notin {"storing", "stored"} /\ \A v \in Writers : v # w => pc'[v] = pc[v]
    BY <1>1, <2>2
  <2>4. OwnText(w)'
    BY <2>3 DEF OwnText
  <2> QED
    BY <1>1, <2>1, <2>3, <2>4, QuietStep
<1>7. ASSUME NEW d \in Devs, Unregister(d) \/ Free(d) PROVE UNCHANGED <<my_data, pc, text, entry, raced>>
  BY <1>7 DEF Unregister, Free
<1> QED
  BY <1>2, <1>3, <1>4, <1>5, <1>6, <1>7 DEF Next, vars

LEMMA InitLoop == Init => TextInv /\ EntryInv /\ LoopInv
<1> SUFFICES ASSUME Init PROVE TextInv /\ EntryInv /\ LoopInv
  OBVIOUS
<1>1. TextInv
  BY DEF Init, TextInv, Tokenized
<1>2. LoopInv
  BY DEF Init, LoopInv, BufferInv, OwnText
<1> QED
  BY <1>1, <1>2, InitEntry

(* One strncmp that matches: what it is compared with, and what is passed. *)
LEMMA MatchNames ==
    ASSUME EntryInv, LoopInv, NEW w \in Writers, pc[w] = "stored", Matches(w)
    PROVE  IF w \notin raced
           THEN handler(w).name = text[w].name
           ELSE \/ handler(w).name = my_data.name
                \/ handler(w).name = <<"set", "nice">> /\ my_data.name = <<"set", "nice", "user">>
<1> DEFINE e == entry[w]
<1>1. e \in 1..13 /\ handler(w).name = Name(e) /\ IsPrefix(Name(e), my_data.name)
  BY DEF EntryInv, Matches, handler, Name
<1> HIDE DEF e
<1>2. PICK m \in 1..13 : my_data.name = Name(m)
  BY <1>1, NothingBeginsEmpty DEF LoopInv, BufferInv
<1>3. e = m \/ (e = 5 /\ m = 4)
  BY <1>1, <1>2, NestedNames
<1>4. CASE w \notin raced
  <2>1. my_data.name = text[w].name /\ \A j \in 1..13 : j < e => ~IsPrefix(Name(j), my_data.name)
    BY <1>4 DEF LoopInv, OwnText, e
  <2>2. IsPrefix(Name(m), Name(m))
    BY NamesTyped, PrefixSelf
  <2>3. ASSUME e = 5, m = 4 PROVE FALSE
    <3>1. 4 \in 1..13 /\ 4 < e
      BY <2>3
    <3>2. IsPrefix(Name(4), my_data.name)
      BY <1>2, <2>2, <2>3
    <3> QED
      BY <2>1, <3>1, <3>2
  <2> QED
    BY <1>1, <1>2, <1>3, <1>4, <2>1, <2>3
<1>5. CASE w \in raced
  BY <1>1, <1>2, <1>3, <1>5, Table
<1> QED
  BY <1>4, <1>5

(* sys2.c:119-127 with the order of the table: for any number of writers   *)
(* and any texts, an entry of the table compared at a time, a writer whose *)
(* text nobody overwrote gets the handler its text names, and one that was *)
(* overwritten the one the buffer names, or setnice for setniceuser.       *)
THEOREM DispatchCorrect == Spec => DispatchesNamedCommand
<1> DEFINE Step == \A w \in Writers : pc[w] = "stored" /\ pc'[w] = "called" =>
                       IF w \notin raced
                       THEN handler(w).name = text[w].name
                       ELSE \/ handler(w).name = my_data.name
                            \/ /\ handler(w).name = <<"set", "nice">>
                               /\ my_data.name = <<"set", "nice", "user">>
<1>1. IInv /\ EntryInv /\ LoopInv /\ [Next]_vars => [Step]_vars
  <2> SUFFICES ASSUME IInv, EntryInv, LoopInv, Next, NEW w \in Writers, pc[w] = "stored", pc'[w] = "called"
               PROVE  Matches(w)
    BY MatchNames
  <2>1. pc \in [Writers -> Places]
    BY DEF IInv, Types
  <2>2. ASSUME NEW d \in Devs, Unregister(d) \/ Free(d) PROVE FALSE
    BY <2>2 DEF Unregister, Free
  <2>3. ASSUME NEW v \in Writers, StoreName(v) \/ Continue(v), ~Match(v) PROVE FALSE
    <3>1. \/ pc' = pc
          \/ pc' = [pc EXCEPT ![v] = "idle"]
          \/ pc' = [pc EXCEPT ![v] = "storing"]
          \/ pc' = [pc EXCEPT ![v] = "stored"]
          \/ pc' = [pc EXCEPT ![v] = "held"]
          \/ pc' = [pc EXCEPT ![v] = "release"]
          \/ pc' = [pc EXCEPT ![v] = "nice"]
          \/ pc' = [pc EXCEPT ![v] = "found"]
          \/ pc' = [pc EXCEPT ![v] = "priority"]
      BY <2>3, Zenon DEF Continue, StoreName, StoreRest, NextCommand, UnknownCommand, Show, GetDev, NoDev, UseDev,
         PutDev, StartNice, BadNice, SetNice, NiceDone, FindPid, PutPid, SetPriority, SetSocketSize, Return, Goto
    <3> QED
      BY <2>1, <3>1
  <2>4. ASSUME NEW v \in Writers, Match(v) PROVE Matches(w)
    <3>1. pc' = [pc EXCEPT ![v] = "called"] /\ Matches(v)
      BY <2>4 DEF Match, Goto
    <3>2. v = w
      BY <2>1, <3>1
    <3> QED
      BY <3>1, <3>2
  <2> QED
    BY <2>2, <2>3, <2>4 DEF Next
<1> HIDE DEF Step
<1>2. Spec => [][Step]_vars
  BY <1>1, InitIInv, InitLoop, NextIInv, TextStep, EntryStep, LoopStep, PTL DEF Spec
<1> QED
  BY <1>2 DEF DispatchesNamedCommand, Step
=============================================================================
