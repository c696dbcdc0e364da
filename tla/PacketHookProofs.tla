-------------------------- MODULE PacketHookProofs --------------------------
(***************************************************************************)
(* Proofs about PacketHook for any number of processors, VLANs and frames: *)
(* the unlocked counters implement LossyCounters, nobody is in the hook of *)
(* a module that is gone, and the counters are exact as long as no two     *)
(* processors are at the same `++` at once.                                *)
(***************************************************************************)
EXTENDS PacketHook, FiniteSetTheorems, TLAPS

(* The counters that packets at the IPv4 hook point are counted in.        *)
Plain == Counters \ VlanStats

Types ==
    /\ module \in {"absent", "live", "leaving"}
    /\ counter \in [Counters -> Nat] /\ incs \in [Counters -> Nat]
    /\ at \in [CPUs -> {"idle", "load", "store"}]
    /\ todo \in [CPUs -> Seq(Plain)]
    /\ loaded \in [CPUs -> Nat]

(* A processor is in the hook as long as it has something left to count,   *)
(* and only between registration and the end of the grace period.          *)
BusyInv ==
    /\ \A p \in CPUs : at[p] # "idle" => todo[p] # <<>>
    /\ hooked => module = "live"
    /\ HookOnlyWhileLoaded

(* A counter is behind what was counted, and so is the value that a        *)
(* processor loaded some time ago and is about to increment: this half     *)
(* carries the lost updates.                                               *)
BehindInv ==
    /\ \A c \in Counters : counter[c] <= incs[c]
    /\ \A p \in CPUs : at[p] = "store" => loaded[p] <= incs[Head(todo[p])]

(* Increments of frames at the IPv4 hook point leave these alone.          *)
NoVlanCounted == \A c \in VlanStats : incs[c] = 0 /\ counter[c] = 0

IInv == Types /\ BusyInv /\ BehindInv /\ NoVlanCounted
---------------------------------------------------------------------------
(* mypacket.c:42-93: a frame that passes the IPv4 hook point is counted in *)
(* something, and in no VLAN's statistics.                                 *)
LEMMA IncrementsPlain ==
    ASSUME NEW f \in Frames, Passes(f)
    PROVE  Increments(f) \in Seq(Plain) /\ Increments(f) # <<>>
<1>1. f.l3 = "IP" /\ Protocol(f) = "IP"
  BY DEF Passes, Protocol, nf_ops
<1>2. VlanPart(f) = <<>>
  BY <1>1 DEF VlanPart
<1>3. Counter("ip") \in Plain
  BY DEF Plain, Counters, VlanStats, Counter, vlan_stats
<1>4. f.proto \in {"tcp", "udp", "icmp", "gre"}
  BY DEF Frames
<1>5. Class(f) \in Plain
  BY <1>4 DEF Class, Plain, Counters, VlanStats, Counter, vlan_stats
<1>6. Increments(f) = <<>> \o << Counter("ip"), Class(f) >>
  BY <1>1, <1>2 DEF Increments
<1> HIDE DEF Plain
<1>7. << Counter("ip"), Class(f) >> \in Seq(Plain)
  BY <1>3, <1>5
<1>8. Increments(f) = << Counter("ip"), Class(f) >>
  BY <1>6, <1>7
<1> QED
  BY <1>7, <1>8

(* What is at the head of a processor's list is a counter, and the rest is *)
(* a list of counters.                                                     *)
LEMMA HeadTail ==
    ASSUME NEW s \in Seq(Plain), s # <<>>
    PROVE  Head(s) \in Plain /\ Head(s) \in Counters /\ Head(s) \notin VlanStats
           /\ Tail(s) \in Seq(Plain) /\ (Len(s) # 1 => Tail(s) # <<>>)
<1>1. ASSUME NEW S, NEW u \in Seq(S), u # <<>>
      PROVE  Head(u) \in S /\ Tail(u) \in Seq(S) /\ (Len(u) # 1 => Tail(u) # <<>>)
  <2>1. Len(u) \in Nat \ {0} /\ Len(Tail(u)) = Len(u) - 1
    BY <1>1
  <2>2. Len(u) # 1 => Len(Tail(u)) # Len(<<>>)
    BY <2>1
  <2>3. Len(u) # 1 => Tail(u) # <<>>
    BY <2>2, Zenon
  <2>4. Head(u) \in S /\ Tail(u) \in Seq(S)
    BY <1>1
  <2> QED
    BY <2>3, <2>4
<1>2. Head(s) \in Plain /\ Tail(s) \in Seq(Plain) /\ (Len(s) # 1 => Tail(s) # <<>>)
  BY <1>1
<1> QED
  BY <1>2 DEF Plain

LEMMA InitIInv == Init => IInv
<1> SUFFICES ASSUME Init PROVE IInv
  OBVIOUS
<1>1. Types /\ BusyInv
  BY DEF Init, Types, BusyInv, HookOnlyWhileLoaded, Zero
<1>2. BehindInv
  BY DEF Init, BehindInv, Zero
<1>3. NoVlanCounted
  BY DEF Init, NoVlanCounted, Zero, Counters
<1> QED
  BY <1>1, <1>2, <1>3 DEF IInv
---------------------------------------------------------------------------
(* One operation at a time.                                                *)
LEMMA InsmodStep == IInv /\ Insmod => IInv'
<1> SUFFICES ASSUME IInv, Insmod PROVE IInv'
  OBVIOUS
<1>1. Types'
  BY DEF IInv, Types, Insmod, Zero, cpu
<1>2. BusyInv'
  BY DEF IInv, BusyInv, HookOnlyWhileLoaded, Insmod, cpu
<1>3. \A p \in CPUs : at'[p] = "idle"
  BY DEF IInv, BusyInv, HookOnlyWhileLoaded, Insmod, cpu
<1>4. BehindInv' /\ NoVlanCounted'
  BY <1>3 DEF BehindInv, NoVlanCounted, Insmod, Zero, Counters
<1> QED
  BY <1>1, <1>2, <1>4 DEF IInv

LEMMA RmmodStep == IInv /\ (Rmmod \/ Free) => IInv'
BY DEF IInv, Types, BusyInv, HookOnlyWhileLoaded, BehindInv, NoVlanCounted, Rmmod, Free, cpu

LEMMA ReceiveStep ==
    ASSUME IInv, NEW p \in CPUs, NEW f \in Frames, Receive(p, f)
    PROVE  IInv'
<1>1. Increments(f) \in Seq(Plain) /\ Increments(f) # <<>>
  BY IncrementsPlain DEF Receive
<1>2. Types'
  BY <1>1 DEF IInv, Types, Receive, hook
<1>3. BusyInv'
  BY <1>1 DEF IInv, Types, BusyInv, HookOnlyWhileLoaded, Receive, hook
<1>4. BehindInv'
  BY DEF IInv, Types, BehindInv, Receive, hook
<1>5. NoVlanCounted'
  BY DEF IInv, NoVlanCounted, Receive
<1> QED
  BY <1>2, <1>3, <1>4, <1>5 DEF IInv

LEMMA LoadStep ==
    ASSUME IInv, NEW p \in CPUs, Load(p)
    PROVE  IInv'
<1>1. todo[p] \in Seq(Plain) /\ todo[p] # <<>>
  BY DEF IInv, Types, BusyInv, Load
<1>2. Head(todo[p]) \in Counters
  BY <1>1, HeadTail
<1>3. Types'
  BY <1>2 DEF IInv, Types, Load, hook
<1>4. BusyInv'
  BY DEF IInv, Types, BusyInv, HookOnlyWhileLoaded, Load, hook
<1>5. BehindInv'
  BY <1>2 DEF IInv, Types, BehindInv, Load
<1>6. NoVlanCounted'
  BY DEF IInv, NoVlanCounted, Load
<1> QED
  BY <1>3, <1>4, <1>5, <1>6 DEF IInv

LEMMA StoreStep ==
    ASSUME IInv, NEW p \in CPUs, Store(p)
    PROVE  /\ IInv'
           /\ Lossy!Increment(Head(todo[p])) /\ Head(todo[p]) \in Counters
<1> DEFINE c == Head(todo[p])
<1>1. at[p] = "store" /\ todo[p] \in Seq(Plain) /\ todo[p] # <<>>
  BY DEF IInv, Types, BusyInv, Store
<1>2. /\ c \in Counters /\ c \notin VlanStats
      /\ Tail(todo[p]) \in Seq(Plain) /\ (Len(todo[p]) # 1 => Tail(todo[p]) # <<>>)
  BY <1>1, HeadTail
<1>3. /\ counter' = [counter EXCEPT ![c] = loaded[p] + 1]
      /\ incs' = [incs EXCEPT ![c] = @ + 1]
  BY DEF Store
<1>4. /\ todo' = [todo EXCEPT ![p] = Tail(@)]
      /\ at' = [at EXCEPT ![p] = IF Len(todo[p]) = 1 THEN "idle" ELSE "load"]
      /\ loaded' = [loaded EXCEPT ![p] = 0]
      /\ UNCHANGED hook
  BY DEF Store
<1>5. /\ counter \in [Counters -> Nat] /\ incs \in [Counters -> Nat] /\ loaded[p] \in Nat
      /\ loaded[p] <= incs[c] /\ incs[c] \in Nat
  BY <1>1, <1>2 DEF IInv, Types, BehindInv
<1> HIDE DEF c
<1>6. Types'
  BY <1>2, <1>3, <1>4, <1>5 DEF IInv, Types, hook
<1>7. BusyInv'
  <2>1. ASSUME NEW q \in CPUs, at'[q] # "idle" PROVE todo'[q] # <<>>
    <3>1. CASE q = p
      BY <1>2, <1>4, <2>1, <3>1 DEF IInv, Types
    <3>2. CASE q # p
      BY <1>4, <2>1, <3>2 DEF IInv, Types, BusyInv
    <3> QED
      BY <3>1, <3>2
  <2>2. module # "absent" /\ module' = module /\ hooked' = hooked
    BY <1>1, <1>4 DEF IInv, BusyInv, HookOnlyWhileLoaded, hook
  <2> QED
    BY <2>1, <2>2 DEF IInv, BusyInv, HookOnlyWhileLoaded
<1>8. BehindInv'
  <2>1. \A d \in Counters : counter'[d] <= incs'[d] /\ incs[d] <= incs'[d]
    BY <1>2, <1>3, <1>5 DEF IInv, Types, BehindInv
  <2>2. ASSUME NEW q \in CPUs, at'[q] = "store" PROVE loaded'[q] <= incs'[Head(todo'[q])]
    <3>1. q # p /\ at[q] = "store" /\ loaded'[q] = loaded[q] /\ todo'[q] = todo[q]
      BY <1>4, <2>2 DEF IInv, Types
    <3>2. todo[q] \in Seq(Plain) /\ todo[q] # <<>>
      BY <3>1 DEF IInv, Types, BusyInv
    <3>3. Head(todo[q]) \in Counters
      BY <3>2, HeadTail
    <3>4. loaded[q] <= incs[Head(todo[q])]
      BY <3>1 DEF IInv, BehindInv
    <3>5. loaded[q] \in Nat /\ incs[Head(todo[q])] \in Nat /\ incs'[Head(todo[q])] \in Nat
      BY <3>3, <1>6 DEF IInv, Types
    <3> QED
      BY <2>1, <3>1, <3>3, <3>4, <3>5
  <2> QED
    BY <2>1, <2>2 DEF BehindInv
<1>9. NoVlanCounted'
  BY <1>2, <1>3, <1>5 DEF IInv, NoVlanCounted, Counters
<1>10. Lossy!Increment(c)
  <2>1. loaded[p] + 1 \in 1..(incs[c] + 1)
    BY <1>5
  <2> QED
    BY <1>3, <2>1 DEF Lossy!Increment
<1> QED
  BY <1>2, <1>6, <1>7, <1>8, <1>9, <1>10 DEF IInv, c

LEMMA NextIInv == IInv /\ [Next]_vars => IInv'
<1> SUFFICES ASSUME IInv, [Next]_vars PROVE IInv'
  OBVIOUS
<1>1. CASE UNCHANGED vars
  BY <1>1 DEF vars, hook, cpu, IInv, Types, BusyInv, HookOnlyWhileLoaded, BehindInv,
              NoVlanCounted
<1> QED
  BY <1>1, InsmodStep, RmmodStep, ReceiveStep, LoadStep, StoreStep DEF Next

(* mypacket.c:24-118: the invariant the other theorems rest on.            *)
THEOREM Invariance == Spec => []IInv
BY InitIInv, NextIInv, PTL DEF Spec

(* sys2.c:171: nobody is in the hook of a module that is gone.             *)
THEOREM HookCorrect == Spec => []HookOnlyWhileLoaded
<1>1. IInv => HookOnlyWhileLoaded
  BY DEF IInv, BusyInv
<1> QED
  BY <1>1, Invariance, PTL

(* mypacket.c:49-92: the counters are lossy counters, however the          *)
(* processors interleave.                                                  *)
THEOREM CountersCorrect == Spec => CountersSpec
<1>1. Init => Lossy!Init
  BY DEF Init, Lossy!Init, Zero, Lossy!Zero
<1>2. IInv /\ [Next]_vars => [Lossy!Next]_<<counter, incs>>
  <2> SUFFICES ASSUME IInv, [Next]_vars PROVE [Lossy!Next]_<<counter, incs>>
    OBVIOUS
  <2>1. ASSUME NEW p \in CPUs, Store(p) PROVE Lossy!Next
    BY <2>1, StoreStep DEF Lossy!Next
  <2>2. CASE Insmod
    BY <2>2 DEF Insmod, Zero, Lossy!Next, Lossy!Reset, Lossy!Zero
  <2>3. CASE Rmmod \/ Free
    BY <2>3 DEF Rmmod, Free
  <2>4. ASSUME NEW p \in CPUs, Load(p) PROVE UNCHANGED <<counter, incs>>
    BY <2>4 DEF Load
  <2>5. ASSUME NEW p \in CPUs, NEW f \in Frames, Receive(p, f) PROVE UNCHANGED <<counter, incs>>
    BY <2>5 DEF Receive
  <2>6. CASE UNCHANGED vars
    BY <2>6 DEF vars
  <2> QED
    BY <2>1, <2>2, <2>3, <2>4, <2>5, <2>6 DEF Next
<1> QED
  BY <1>1, <1>2, Invariance, PTL DEF Spec, CountersSpec, Lossy!Spec
---------------------------------------------------------------------------
(* Exactness.  A packet is counted as IP and then in one of four classes,  *)
(* so the packets received are those already counted as IP and those still *)
(* to be, and likewise for the classes.                                    *)
Ip      == Counter("ip")
Classes == {Counter("tcp"), Counter("udp"), Counter("icmp"), Counter("other")}
Sum     == incs[Counter("tcp")] + incs[Counter("udp")] + incs[Counter("icmp")] + incs[Counter("other")]

Both(p) == \E c \in Classes : todo[p] = << Ip, c >>
One(p)  == \E c \in Classes : todo[p] = << c >>

Shape ==
    \A p \in CPUs :
        /\ at[p] = "idle" => todo[p] = <<>>
        /\ at[p] # "idle" => Both(p) \/ One(p)
        /\ at[p] # "store" => loaded[p] = 0

Uncounted    == {p \in CPUs : Len(todo[p]) = 2}   (* not counted as IP yet   *)
Unclassified == {p \in CPUs : Len(todo[p]) # 0}   (* nor in a class          *)

Conserved ==
    /\ IsFiniteSet(Uncounted) /\ IsFiniteSet(Unclassified)
    /\ received \in 0..MaxFrames
    /\ incs[Ip] + Cardinality(Uncounted) = received
    /\ Sum + Cardinality(Unclassified) = received

(* Without an overlap a counter is what was counted, at most one processor *)
(* is about to store it, and what that one loaded is still its value.      *)
Exact ==
    ~overlap =>
        /\ \A c \in Counters : counter[c] = incs[c]
        /\ \A p \in CPUs : at[p] = "store" =>
               /\ loaded[p] = counter[Head(todo[p])]
               /\ \A q \in CPUs : at[q] = "store" /\ q # p => Head(todo[q]) # Head(todo[p])

EInv == IInv /\ Shape /\ Conserved /\ Exact

LEMMA PlainIs ==
    /\ Plain = {Ip} \cup Classes /\ Ip \notin Classes /\ Plain \subseteq Counters
    /\ Counters = Plain \cup VlanStats
BY DEF Plain, Ip, Classes, Counters, VlanStats, Counter, vlan_stats

LEMMA ClassesDiffer ==
    /\ Counter("tcp") # Counter("udp") /\ Counter("tcp") # Counter("icmp") /\ Counter("tcp") # Counter("other")
    /\ Counter("udp") # Counter("icmp") /\ Counter("udp") # Counter("other")
    /\ Counter("icmp") # Counter("other")
BY DEF Counter

LEMMA InitEInv == Init => EInv
<1> SUFFICES ASSUME Init PROVE EInv
  OBVIOUS
<1>1. Shape /\ Exact
  BY DEF Init, Shape, Exact, Zero
<1>2. Uncounted = {} /\ Unclassified = {}
  BY DEF Init, Uncounted, Unclassified
<1>3. incs[Ip] = 0 /\ Sum = 0
  <2>1. Classes \subseteq Counters /\ Ip \in Counters
    BY PlainIs
  <2>2. \A c \in Counters : incs[c] = 0
    BY DEF Init, Zero
  <2> QED
    BY <2>1, <2>2 DEF Sum, Classes
<1>4. Conserved
  BY <1>2, <1>3, FS_EmptySet, PacketHookAssumption DEF Init, Conserved
<1> QED
  BY <1>1, <1>4, InitIInv DEF EInv

(* Where a busy processor stands.                                          *)
LEMMA BusyIs ==
    ASSUME Shape, NEW p \in CPUs
    PROVE  /\ at[p] = "idle" => Len(todo[p]) = 0
           /\ at[p] # "idle" =>
                 \/ /\ Len(todo[p]) = 2 /\ Head(todo[p]) = Ip /\ Both(p)
                    /\ \E c \in Classes : Tail(todo[p]) = << c >>
                 \/ Len(todo[p]) = 1 /\ Head(todo[p]) \in Classes /\ Tail(todo[p]) = <<>>
<1>1. CASE at[p] = "idle"
  BY <1>1 DEF Shape
<1>2. ASSUME NEW c \in Classes, todo[p] = << Ip, c >>, at[p] # "idle"
      PROVE  /\ Len(todo[p]) = 2 /\ Head(todo[p]) = Ip /\ Both(p)
             /\ \E d \in Classes : Tail(todo[p]) = << d >>
  BY <1>2 DEF Both
<1>3. ASSUME NEW c \in Classes, todo[p] = << c >>, at[p] # "idle"
      PROVE  Len(todo[p]) = 1 /\ Head(todo[p]) \in Classes /\ Tail(todo[p]) = <<>>
  BY <1>3
<1>4. CASE at[p] # "idle" /\ Both(p)
  BY <1>2, <1>4 DEF Both
<1>5. CASE at[p] # "idle" /\ One(p)
  BY <1>3, <1>5 DEF One
<1> QED
  BY <1>1, <1>4, <1>5 DEF Shape
---------------------------------------------------------------------------
LEMMA InsmodExact ==
    ASSUME EInv, Insmod
    PROVE  EInv'
<1>1. IInv' /\ \A p \in CPUs : at[p] = "idle"
  BY InsmodStep DEF EInv, IInv, BusyInv, HookOnlyWhileLoaded, Insmod
<1>2. \A c \in Counters : counter'[c] = 0 /\ incs'[c] = 0
  BY DEF Insmod, Zero
<1>3. UNCHANGED <<at, todo, loaded>> /\ received' = 0
  BY DEF Insmod, cpu
<1>4. Shape' /\ Exact'
  BY <1>1, <1>2, <1>3 DEF EInv, Shape, Both, One, Exact
<1>5. Uncounted' = {} /\ Unclassified' = {}
  BY <1>1, <1>3, BusyIs DEF EInv, Uncounted, Unclassified
<1>6. incs'[Ip] = 0 /\ Sum' = 0
  BY <1>2, PlainIs DEF Sum, Classes
<1>7. Conserved'
  BY <1>3, <1>5, <1>6, FS_EmptySet, PacketHookAssumption DEF Conserved
<1> QED
  BY <1>1, <1>4, <1>7 DEF EInv

LEMMA ReceiveExact ==
    ASSUME EInv, NEW p \in CPUs, NEW f \in Frames, Receive(p, f)
    PROVE  EInv'
<1>1. IInv'
  BY ReceiveStep DEF EInv
<1>2. /\ at[p] = "idle" /\ received < MaxFrames /\ received' = received + 1
      /\ at' = [at EXCEPT ![p] = "load"] /\ todo' = [todo EXCEPT ![p] = Increments(f)]
      /\ UNCHANGED <<counter, loaded, incs, overlap>>
  BY DEF Receive
<1>3. \E c \in Classes : Increments(f) = << Ip, c >>
  <2>1. Protocol(f) = "IP"
    BY DEF Receive, Passes, Protocol, nf_ops
  <2>2. VlanPart(f) = <<>>
    BY <2>1 DEF VlanPart
  <2>3. f.proto \in {"tcp", "udp", "icmp", "gre"}
    BY DEF Frames
  <2>4. Class(f) \in Classes
    BY <2>3 DEF Class, Classes
  <2>5. Increments(f) = <<>> \o << Ip, Class(f) >>
    BY <2>1, <2>2 DEF Increments, Ip
  <2>6. << Ip, Class(f) >> \in Seq(Plain)
    BY <2>4, PlainIs
  <2>7. Increments(f) = << Ip, Class(f) >>
    BY <2>5, <2>6
  <2> QED
    BY <2>4, <2>7
<1>4. at \in [CPUs -> {"idle", "load", "store"}] /\ todo \in [CPUs -> Seq(Plain)]
  BY DEF EInv, IInv, Types
<1>5. Shape'
  BY <1>2, <1>3, <1>4 DEF EInv, Shape, Both, One
<1>6. Len(todo[p]) = 0 /\ Len(todo'[p]) = 2
  <2>1. \A c : Len(<< Ip, c >>) = 2
    OBVIOUS
  <2>2. Len(todo[p]) = 0
    BY <1>2, BusyIs DEF EInv
  <2> QED
    BY <1>2, <1>3, <1>4, <2>1, <2>2
<1>7. /\ p \notin Uncounted /\ Uncounted' = Uncounted \cup {p}
      /\ p \notin Unclassified /\ Unclassified' = Unclassified \cup {p}
  <2>1. \A q \in CPUs : q # p => todo'[q] = todo[q]
    BY <1>2, <1>4
  <2> QED
    BY <1>6, <2>1 DEF Uncounted, Unclassified
<1>8. Conserved'
  <2>1. /\ IsFiniteSet(Uncounted') /\ Cardinality(Uncounted') = Cardinality(Uncounted) + 1
        /\ IsFiniteSet(Unclassified') /\ Cardinality(Unclassified') = Cardinality(Unclassified) + 1
        /\ Cardinality(Uncounted) \in Nat /\ Cardinality(Unclassified) \in Nat
    BY <1>7, FS_AddElement, FS_CardinalityType DEF EInv, Conserved
  <2>2. incs[Ip] \in Nat /\ Sum \in Nat
    BY PlainIs DEF EInv, IInv, Types, Sum, Classes
  <2>3. received' \in 0..MaxFrames
    BY <1>2, PacketHookAssumption DEF EInv, Conserved
  <2>4. incs'[Ip] = incs[Ip] /\ Sum' = Sum
    BY <1>2 DEF Sum
  <2> QED
    BY <1>2, <2>1, <2>2, <2>3, <2>4 DEF EInv, Conserved
<1>9. Exact'
  BY <1>2, <1>4 DEF EInv, Exact
<1> QED
  BY <1>1, <1>5, <1>8, <1>9 DEF EInv

LEMMA LoadExact ==
    ASSUME EInv, NEW p \in CPUs, Load(p)
    PROVE  EInv'
<1>1. IInv'
  BY LoadStep DEF EInv
<1>2. /\ at[p] = "load" /\ at' = [at EXCEPT ![p] = "store"]
      /\ loaded' = [loaded EXCEPT ![p] = counter[Head(todo[p])]]
      /\ UNCHANGED <<counter, todo, incs, received>>
      /\ ~overlap' => ~overlap /\ \A q \in CPUs : ~(at[q] = "store" /\ Head(todo[q]) = Head(todo[p]))
  BY DEF Load, hook, Incrementing
<1>3. at \in [CPUs -> {"idle", "load", "store"}] /\ loaded \in [CPUs -> Nat]
  BY DEF EInv, IInv, Types
<1>4. Shape'
  BY <1>2, <1>3 DEF EInv, Shape, Both, One
<1>5. Conserved'
  BY <1>2 DEF EInv, Conserved, Uncounted, Unclassified, Sum
<1>6. Exact'
  BY <1>2, <1>3 DEF EInv, Exact
<1> QED
  BY <1>1, <1>4, <1>5, <1>6 DEF EInv

(* One of the classes counts one more: the sum does.                       *)
LEMMA SumGrows ==
    ASSUME incs \in [Counters -> Nat], NEW c \in Classes, incs' = [incs EXCEPT ![c] = @ + 1]
    PROVE  Sum' = Sum + 1
<1>1. Classes \subseteq Counters
  BY PlainIs
<1>2. \A d \in Classes : incs[d] \in Nat /\ incs'[d] = IF d = c THEN incs[d] + 1 ELSE incs[d]
  BY <1>1
<1> HIDE DEF Counter
<1> DEFINE t == Counter("tcp")
           u == Counter("udp")
           i == Counter("icmp")
           o == Counter("other")
<1>3. t \in Classes /\ u \in Classes /\ i \in Classes /\ o \in Classes /\ c \in {t, u, i, o}
  BY DEF Classes
<1>4. t # u /\ t # i /\ t # o /\ u # i /\ u # o /\ i # o
  BY ClassesDiffer
<1>5. Sum = incs[t] + incs[u] + incs[i] + incs[o] /\ Sum' = incs'[t] + incs'[u] + incs'[i] + incs'[o]
  BY DEF Sum
<1> HIDE DEF t, u, i, o
<1> QED
  BY <1>2, <1>3, <1>4, <1>5

LEMMA StoreExact ==
    ASSUME EInv, NEW p \in CPUs, Store(p)
    PROVE  EInv'
<1> DEFINE c == Head(todo[p])
<1>1. IInv' /\ c \in Counters
  BY StoreStep DEF EInv
<1>2. /\ at[p] = "store" /\ counter' = [counter EXCEPT ![c] = loaded[p] + 1]
      /\ incs' = [incs EXCEPT ![c] = @ + 1] /\ todo' = [todo EXCEPT ![p] = Tail(todo[p])]
      /\ at' = [at EXCEPT ![p] = IF Len(todo[p]) = 1 THEN "idle" ELSE "load"]
      /\ loaded' = [loaded EXCEPT ![p] = 0] /\ received' = received /\ overlap' = overlap
  BY DEF Store
<1>3. /\ at \in [CPUs -> {"idle", "load", "store"}] /\ todo \in [CPUs -> Seq(Plain)]
      /\ loaded \in [CPUs -> Nat] /\ counter \in [Counters -> Nat] /\ incs \in [Counters -> Nat]
  BY DEF EInv, IInv, Types
<1>4. /\ at'[p] = (IF Len(todo[p]) = 1 THEN "idle" ELSE "load") /\ todo'[p] = Tail(todo[p]) /\ loaded'[p] = 0
      /\ \A q \in CPUs : q # p => at'[q] = at[q] /\ todo'[q] = todo[q] /\ loaded'[q] = loaded[q]
  BY <1>2, <1>3
<1>5. \/ /\ Len(todo[p]) = 2 /\ c = Ip /\ \E d \in Classes : Tail(todo[p]) = << d >>
      \/ Len(todo[p]) = 1 /\ c \in Classes /\ Tail(todo[p]) = <<>>
  BY <1>2, BusyIs DEF EInv
<1>6. /\ IsFiniteSet(Uncounted) /\ IsFiniteSet(Unclassified)
      /\ Cardinality(Uncounted) \in Nat /\ Cardinality(Unclassified) \in Nat
      /\ incs[Ip] \in Nat /\ Sum \in Nat
  BY <1>3, PlainIs, FS_CardinalityType DEF EInv, Conserved, Sum, Classes
<1> HIDE DEF c
<1>7. Shape'
  <2>1. /\ at'[p] = "idle" => todo'[p] = <<>>
        /\ at'[p] # "idle" => \E d \in Classes : todo'[p] = << d >>
        /\ at'[p] # "store" /\ loaded'[p] = 0
    <3>1. CASE Len(todo[p]) = 1 /\ Tail(todo[p]) = <<>>
      <4>1. at'[p] = "idle" /\ todo'[p] = <<>> /\ loaded'[p] = 0
        BY <1>4, <3>1
      <4> QED
        BY <4>1
    <3>2. ASSUME Len(todo[p]) = 2, NEW d \in Classes, Tail(todo[p]) = << d >>
          PROVE  at'[p] = "load" /\ todo'[p] = << d >> /\ loaded'[p] = 0
      BY <1>4, <3>2
    <3> QED
      BY <1>5, <3>1, <3>2
  <2>2. ASSUME NEW q \in CPUs
        PROVE  /\ at'[q] = "idle" => todo'[q] = <<>>
               /\ at'[q] # "idle" => \/ \E d \in Classes : todo'[q] = << Ip, d >>
                                     \/ \E d \in Classes : todo'[q] = << d >>
               /\ at'[q] # "store" => loaded'[q] = 0
    <3>1. CASE q = p
      BY <2>1, <3>1
    <3>2. CASE q # p
      <4>1. at'[q] = at[q] /\ todo'[q] = todo[q] /\ loaded'[q] = loaded[q]
        BY <1>4, <3>2
      <4>2. /\ at[q] = "idle" => todo[q] = <<>>
            /\ at[q] # "idle" => Both(q) \/ One(q)
            /\ at[q] # "store" => loaded[q] = 0
        BY DEF EInv, Shape
      <4> QED
        BY <4>1, <4>2, Zenon DEF Both, One
    <3> QED
      BY <3>1, <3>2
  <2> QED
    BY <2>2 DEF Shape, Both, One
<1>8. Conserved'
  <2> DEFINE n(q) == Len(todo[q])
             m(q) == Len(todo'[q])
  <2>3. \A q \in CPUs : q # p => m(q) = n(q)
    BY <1>4
  <2>4. /\ Uncounted = {q \in CPUs : n(q) = 2} /\ Uncounted' = {q \in CPUs : m(q) = 2}
        /\ Unclassified = {q \in CPUs : n(q) # 0} /\ Unclassified' = {q \in CPUs : m(q) # 0}
    BY DEF Uncounted, Unclassified
  <2>1. CASE Len(todo[p]) = 2 /\ c = Ip /\ \E d \in Classes : Tail(todo[p]) = << d >>
    <3>1. Len(todo'[p]) = 1
      BY <1>4, <2>1
    <3>2. /\ p \in Uncounted /\ Uncounted' = Uncounted \ {p} /\ Unclassified' = Unclassified
      <4>1. n(p) = 2 /\ m(p) = 1
        BY <2>1, <3>1
      <4> HIDE DEF n, m
      <4> QED
        BY <2>3, <2>4, <4>1
    <3>3. IsFiniteSet(Uncounted') /\ Cardinality(Uncounted') = Cardinality(Uncounted) - 1
      BY <1>6, <3>2, FS_RemoveElement
    <3>4. incs'[Ip] = incs[Ip] + 1
      BY <1>1, <1>2, <1>3, <2>1
    <3>5. Sum' = Sum
      <4>1. \A d \in Classes : incs'[d] = incs[d]
        BY <1>2, <1>3, <2>1, PlainIs
      <4> QED
        BY <4>1 DEF Sum, Classes
    <3> QED
      BY <1>2, <1>6, <3>2, <3>3, <3>4, <3>5 DEF EInv, Conserved
  <2>2. CASE Len(todo[p]) = 1 /\ c \in Classes /\ Tail(todo[p]) = <<>>
    <3>1. Len(todo'[p]) = 0
      BY <1>4, <2>2
    <3>2. /\ Uncounted' = Uncounted /\ p \in Unclassified /\ Unclassified' = Unclassified \ {p}
      <4>1. n(p) = 1 /\ m(p) = 0
        BY <2>2, <3>1
      <4> HIDE DEF n, m
      <4> QED
        BY <2>3, <2>4, <4>1
    <3>3. IsFiniteSet(Unclassified') /\ Cardinality(Unclassified') = Cardinality(Unclassified) - 1
      BY <1>6, <3>2, FS_RemoveElement
    <3>4. Sum' = Sum + 1
      BY <1>2, <1>3, <2>2, SumGrows
    <3>5. incs'[Ip] = incs[Ip]
      BY <1>1, <1>2, <1>3, <2>2, PlainIs
    <3> QED
      BY <1>2, <1>6, <3>2, <3>3, <3>4, <3>5 DEF EInv, Conserved
  <2> QED
    BY <1>5, <2>1, <2>2
<1>9. Exact'
  <2> SUFFICES ASSUME ~overlap PROVE Exact'
    BY <1>2 DEF Exact
  <2>1. /\ \A d \in Counters : counter[d] = incs[d]
        /\ loaded[p] = counter[c]
        /\ \A q \in CPUs : at[q] = "store" /\ q # p =>
               /\ loaded[q] = counter[Head(todo[q])] /\ Head(todo[q]) # c
               /\ \A r \in CPUs : at[r] = "store" /\ r # q => Head(todo[r]) # Head(todo[q])
    BY <1>2 DEF EInv, Exact, c
  <2>2. \A d \in Counters : counter'[d] = incs'[d]
    BY <1>1, <1>2, <1>3, <2>1
  <2>3. ASSUME NEW q \in CPUs, at'[q] = "store"
        PROVE  /\ loaded'[q] = counter'[Head(todo'[q])]
               /\ \A r \in CPUs : at'[r] = "store" /\ r # q => Head(todo'[r]) # Head(todo'[q])
    <3>1. q # p /\ at[q] = "store"
      BY <1>4, <2>3
    <3>2. Head(todo[q]) \in Counters
      BY <3>1, BusyIs, PlainIs DEF EInv
    <3>3. counter'[Head(todo[q])] = counter[Head(todo[q])]
      BY <1>2, <1>3, <2>1, <3>1, <3>2
    <3> QED
      BY <1>4, <2>1, <3>1, <3>3
  <2> QED
    BY <2>2, <2>3 DEF Exact
<1> QED
  BY <1>1, <1>7, <1>8, <1>9 DEF EInv

LEMMA NextEInv == EInv /\ [Next]_vars => EInv'
<1> SUFFICES ASSUME EInv, [Next]_vars PROVE EInv'
  OBVIOUS
<1>1. CASE Rmmod \/ Free \/ UNCHANGED vars
  <2>1. UNCHANGED <<counter, at, todo, loaded, incs, received, overlap>>
    BY <1>1 DEF Rmmod, Free, vars, cpu
  <2>2. IInv'
    BY <1>1, NextIInv DEF EInv
  <2>3. Shape' /\ Exact'
    BY <2>1 DEF EInv, Shape, Both, One, Exact
  <2>4. Conserved'
    BY <2>1 DEF EInv, Conserved, Uncounted, Unclassified, Sum
  <2> QED
    BY <2>2, <2>3, <2>4 DEF EInv
<1> QED
  BY <1>1, InsmodExact, ReceiveExact, LoadExact, StoreExact DEF Next

(* mypacket.c:56-93: for any number of processors and packets, a counter   *)
(* is wrong only if two processors were at the same `++` at once; else,    *)
(* when no packet is in the hook, every one was counted as IP and in       *)
(* exactly one class.                                                      *)
THEOREM ExactCorrect == Spec => []ExactWithoutOverlap
<1>1. ASSUME EInv, \A p \in CPUs : at[p] = "idle", ~overlap
      PROVE  /\ counter[Counter("ip")] = received
             /\ counter[Counter("tcp")] + counter[Counter("udp")]
                  + counter[Counter("icmp")] + counter[Counter("other")] = received
  <2>1. Uncounted = {} /\ Unclassified = {}
    BY <1>1, BusyIs DEF EInv, Uncounted, Unclassified
  <2>2. Cardinality(Uncounted) = 0 /\ Cardinality(Unclassified) = 0
    BY <2>1, FS_EmptySet
  <2>3. \A c \in Counters : counter[c] = incs[c] /\ incs[c] \in Nat
    BY <1>1 DEF EInv, Exact, IInv, Types
  <2>4. incs[Ip] = received /\ Sum = received
    <3>1. incs[Ip] \in Nat /\ Sum \in Nat
      BY <2>3, PlainIs DEF Sum, Classes
    <3> QED
      BY <1>1, <2>2, <3>1 DEF EInv, Conserved
  <2> QED
    BY <2>3, <2>4, PlainIs DEF Sum, Ip, Classes
<1>2. EInv => ExactWithoutOverlap
  BY <1>1 DEF ExactWithoutOverlap
<1> QED
  BY <1>2, InitEInv, NextEInv, PTL DEF Spec

(* mypacket.c:24-29: the variables keep their types: no counter gets ahead *)
(* of the packets received, and a processor is in the hook exactly as long *)
(* as it has something left to count.                                      *)
THEOREM TypeCorrect == Spec => []TypeOK
<1>1. Init => hooked \in BOOLEAN /\ overlap \in BOOLEAN
  BY DEF Init
<1>2. hooked \in BOOLEAN /\ overlap \in BOOLEAN /\ [Next]_vars
        => (hooked \in BOOLEAN /\ overlap \in BOOLEAN)'
  BY DEF Next, Insmod, Rmmod, Free, Receive, Load, Store, vars, hook
<1>3. ASSUME EInv, hooked \in BOOLEAN, overlap \in BOOLEAN PROVE TypeOK
  <2>0. MaxFrames \in Nat
    BY PacketHookAssumption
  <2>1. \A c \in Counters : incs[c] \in 0..MaxFrames
    <3>1. \A c \in Counters : incs[c] \in Nat
      BY <1>3 DEF EInv, IInv, Types
    <3>2. /\ received \in 0..MaxFrames
          /\ Cardinality(Uncounted) \in Nat /\ incs[Ip] + Cardinality(Uncounted) = received
          /\ Cardinality(Unclassified) \in Nat /\ Sum + Cardinality(Unclassified) = received
      BY <1>3, FS_CardinalityType DEF EInv, Conserved
    <3>3. incs[Ip] \in Nat /\ \A c \in Classes : incs[c] \in Nat
      BY <3>1, PlainIs
    <3>4. Sum \in Nat /\ \A c \in Classes : incs[c] <= Sum
      BY <3>3 DEF Sum, Classes
    <3>5. incs[Ip] <= MaxFrames /\ Sum <= MaxFrames
      <4>1. ASSUME NEW a \in Nat, NEW b \in Nat, a + b = received PROVE a <= MaxFrames
        BY <2>0, <3>2, <4>1
      <4> QED
        BY <3>2, <3>3, <3>4, <4>1
    <3>6. \A c \in VlanStats : incs[c] = 0
      BY <1>3 DEF EInv, IInv, NoVlanCounted
    <3>7. ASSUME NEW c \in Counters PROVE incs[c] \in 0..MaxFrames
      <4>1. incs[c] = 0 \/ incs[c] <= Sum \/ c = Ip
        BY <3>4, <3>6, PlainIs
      <4>2. incs[c] \in Nat
        BY <3>1
      <4> QED
        BY <2>0, <3>4, <3>5, <4>1, <4>2
    <3> QED
      BY <3>7
  <2>2. counter \in [Counters -> 0..MaxFrames] /\ incs \in [Counters -> 0..MaxFrames]
    <3>1. \A c \in Counters : counter[c] \in Nat /\ counter[c] <= incs[c]
      BY <1>3 DEF EInv, IInv, Types, BehindInv
    <3>2. \A c \in Counters : counter[c] \in 0..MaxFrames
      BY <2>0, <2>1, <3>1
    <3>3. counter \in [Counters -> Nat] /\ incs \in [Counters -> Nat]
      BY <1>3 DEF EInv, IInv, Types
    <3> QED
      BY <2>1, <3>2, <3>3
  <2>3. loaded \in [CPUs -> 0..MaxFrames]
    <3>1. ASSUME NEW p \in CPUs PROVE loaded[p] \in 0..MaxFrames
      <4>1. loaded[p] \in Nat
        BY <1>3 DEF EInv, IInv, Types
      <4>2. CASE at[p] = "store"
        <5>1. Head(todo[p]) \in Counters
          BY <1>3, <4>2, BusyIs, PlainIs DEF EInv
        <5>2. loaded[p] <= incs[Head(todo[p])]
          BY <1>3, <4>2 DEF EInv, IInv, BehindInv
        <5> QED
          BY <2>0, <2>1, <4>1, <5>1, <5>2
      <4>3. CASE at[p] # "store"
        BY <1>3, <2>0, <4>3 DEF EInv, Shape
      <4> QED
        BY <4>2, <4>3
    <3>2. loaded \in [CPUs -> Nat]
      BY <1>3 DEF EInv, IInv, Types
    <3> QED
      BY <3>1, <3>2
  <2>4. /\ \A p \in CPUs : at[p] = "idle" <=> todo[p] = <<>>
        /\ todo \in [CPUs -> Seq(Counters)]
    <3>1. \A p \in CPUs : at[p] = "idle" <=> todo[p] = <<>>
      BY <1>3 DEF EInv, Shape, IInv, BusyInv
    <3>2. Seq(Plain) \subseteq Seq(Counters)
      BY PlainIs
    <3> QED
      BY <1>3, <3>1, <3>2 DEF EInv, IInv, Types
  <2>5. /\ module \in {"absent", "live", "leaving"} /\ at \in [CPUs -> {"idle", "load", "store"}]
        /\ received \in 0..MaxFrames
    BY <1>3 DEF EInv, IInv, Types, Conserved
  <2> QED
    BY <1>3, <2>2, <2>3, <2>4, <2>5 DEF TypeOK
<1> QED
  BY <1>1, <1>2, <1>3, InitEInv, NextEInv, PTL DEF Spec
=============================================================================
