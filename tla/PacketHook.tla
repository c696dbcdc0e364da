----------------------------- MODULE PacketHook -----------------------------
(***************************************************************************)
(* sys2/mypacket.c: packet_hook, a netfilter hook that classifies every    *)
(* packet and counts it in plain global counters.  It runs in the receive  *)
(* softirq of every processor at once, each `++` a load and a store, while *)
(* mymodule_init and mymodule_exit register and unregister it.             *)
(*                                                                         *)
(* Which frames get to a hook, and as what, is the network core's; so are  *)
(* the grace periods that removing a hook and freeing a module wait for.   *)
(***************************************************************************)
EXTENDS Naturals, Sequences

CONSTANTS CPUs,       (* processors that receive packets                    *)
          Vids,       (* VLANs on the wire                                  *)
          MaxFrames   (* bound: frames handed to the hook in one load       *)

ASSUME PacketHookAssumption ==
    CPUs # {} /\ Vids \subseteq 1..4094 /\ MaxFrames \in Nat \ {0}

Untagged == 0
Frames == [vid: Vids \cup {Untagged}, l3: {"IP", "IPV6", "ARP"},
           proto: {"tcp", "udp", "icmp", "gre"}]

vlan_stats(vid) == <<"vlan", vid>>
VlanStats == {vlan_stats(vid) : vid \in Vids}
Counter(name) == <<name, 0>>
Counters == VlanStats \cup {Counter(n) : n \in {"ip", "tcp", "udp", "icmp", "other"}}

nf_ops == [pf |-> "IPV4"]

(* The IPv4 hook point is passed by IPv4 packets only, whose VLAN tag the  *)
(* core has taken off; a bridge passes frames as they come.  Registered    *)
(* where it is, the hook sees no VLAN header, and its VLAN part never runs. *)
Passes(f)   == nf_ops.pf = "IPV4" => f.l3 = "IP"
Protocol(f) == IF nf_ops.pf = "BRIDGE" /\ f.vid # Untagged THEN "8021Q" ELSE f.l3

(* The counters packet_hook increments for a frame, in order.  Behind a    *)
(* VLAN header skb->protocol is still 8021Q, which counts as "other".      *)
VlanPart(f) == IF Protocol(f) = "8021Q" THEN << vlan_stats(f.vid) >> ELSE <<>>
Class(f)    == Counter(IF f.proto = "gre" THEN "other" ELSE f.proto)

(* Faulty variant: no break after the first case.                          *)
IncrementsFallThrough(f) ==
    VlanPart(f) \o (IF Protocol(f) \in {"IP", "IPV6"}
                    THEN << Counter("ip"), Class(f) >> \o
                         (IF f.proto = "tcp" THEN << Counter("udp") >> ELSE <<>>)
                    ELSE << Counter("other") >>)

Increments(f) ==
    VlanPart(f) \o (IF Protocol(f) \in {"IP", "IPV6"}
                    THEN << Counter("ip"), Class(f) >>
                    ELSE << Counter("other") >>)

VARIABLES
    module,     (* "absent", "live", "leaving": its exit has returned       *)
    hooked,     (* nf_ops is registered                                     *)
    counter,    (* the counters                                             *)
    at,         (* processor -> "idle", or in the hook at "load" or "store" *)
    todo,       (* the counters its packet has yet to be counted in         *)
    loaded,     (* the value it is about to increment                       *)
    incs,       (* history: completed increments, by counter                *)
    received,   (* history: packets handed to the hook                      *)
    overlap     (* history: two processors incremented one counter at once  *)

hook == <<module, hooked>>
cpu  == <<at, todo, loaded>>
vars == <<hook, counter, cpu, incs, received, overlap>>

Zero == [c \in Counters |-> 0]

Init ==
    /\ module = "absent" /\ hooked = FALSE
    /\ counter = Zero /\ incs = Zero /\ received = 0 /\ overlap = FALSE
    /\ at = [p \in CPUs |-> "idle"]
    /\ todo = [p \in CPUs |-> <<>>]
    /\ loaded = [p \in CPUs |-> 0]
---------------------------------------------------------------------------
(* mymodule_init ends in register_net_hooks, which returns 0 whether or    *)
(* not nf_register_net_hook failed.  The counters of a new module are 0.   *)
Insmod ==
    /\ module = "absent"
    /\ module' = "live" /\ hooked' \in BOOLEAN
    /\ counter' = Zero /\ incs' = Zero /\ received' = 0 /\ overlap' = FALSE
    /\ UNCHANGED cpu

(* Faulty variant: exit does not unregister the hook.                      *)
RmmodHooked ==
    /\ module = "live"
    /\ module' = "leaving"
    /\ UNCHANGED <<hooked, counter, cpu, incs, received, overlap>>

(* mymodule_exit: no packet enters the hook any more.                      *)
Rmmod ==
    /\ module = "live"
    /\ module' = "leaving" /\ hooked' = FALSE
    /\ UNCHANGED <<counter, cpu, incs, received, overlap>>

(* The module is freed after a grace period: those in the hook leave it.   *)
Free ==
    /\ module = "leaving" /\ \A p \in CPUs : at[p] = "idle"
    /\ module' = "absent"
    /\ UNCHANGED <<hooked, counter, cpu, incs, received, overlap>>
---------------------------------------------------------------------------
(* A softirq is not interrupted by another packet on the same processor.   *)
Receive(p, f) ==
    /\ hooked /\ Passes(f)
    /\ at[p] = "idle" /\ received < MaxFrames
    /\ received' = received + 1
    /\ at' = [at EXCEPT ![p] = "load"]
    /\ todo' = [todo EXCEPT ![p] = Increments(f)]
    /\ UNCHANGED <<hook, counter, loaded, incs, overlap>>

Incrementing(p, c) == at[p] = "store" /\ Head(todo[p]) = c

Load(p) ==
    /\ at[p] = "load"
    /\ at' = [at EXCEPT ![p] = "store"]
    /\ loaded' = [loaded EXCEPT ![p] = counter[Head(todo[p])]]
    /\ overlap' = (overlap \/ \E q \in CPUs : Incrementing(q, Head(todo[p])))
    /\ UNCHANGED <<hook, counter, todo, incs, received>>

(* Faulty variant: the packet is counted once more than it came.           *)
StoreByTwo(p) ==
    /\ at[p] = "store"
    /\ LET c == Head(todo[p]) IN
       /\ counter' = [counter EXCEPT ![c] = loaded[p] + 2]
       /\ incs' = [incs EXCEPT ![c] = @ + 1]
    /\ todo' = [todo EXCEPT ![p] = Tail(@)]
    /\ at' = [at EXCEPT ![p] = IF Len(todo[p]) = 1 THEN "idle" ELSE "load"]
    /\ loaded' = [loaded EXCEPT ![p] = 0]
    /\ UNCHANGED <<hook, received, overlap>>

(* After the last one the hook returns NF_ACCEPT.                          *)
Store(p) ==
    /\ at[p] = "store"
    /\ LET c == Head(todo[p]) IN
       /\ counter' = [counter EXCEPT ![c] = loaded[p] + 1]
       /\ incs' = [incs EXCEPT ![c] = @ + 1]
    /\ todo' = [todo EXCEPT ![p] = Tail(@)]
    /\ at' = [at EXCEPT ![p] = IF Len(todo[p]) = 1 THEN "idle" ELSE "load"]
    /\ loaded' = [loaded EXCEPT ![p] = 0]
    /\ UNCHANGED <<hook, received, overlap>>
---------------------------------------------------------------------------
Next ==
    \/ Insmod \/ Rmmod \/ Free
    \/ \E p \in CPUs : Load(p) \/ Store(p) \/ \E f \in Frames : Receive(p, f)

Spec == Init /\ [][Next]_vars
---------------------------------------------------------------------------
(* mypacket.c:24-29: the variables keep their types, and a processor is in *)
(* the hook exactly as long as it has something left to count.             *)
TypeOK ==
    /\ module \in {"absent", "live", "leaving"} /\ hooked \in BOOLEAN
    /\ counter \in [Counters -> 0..MaxFrames]
    /\ at \in [CPUs -> {"idle", "load", "store"}]
    /\ todo \in [CPUs -> Seq(Counters)]
    /\ \A p \in CPUs : at[p] = "idle" <=> todo[p] = <<>>
    /\ loaded \in [CPUs -> 0..MaxFrames]
    /\ incs \in [Counters -> 0..MaxFrames]
    /\ received \in 0..MaxFrames /\ overlap \in BOOLEAN

(* mypacket.c:49-92: each `++` without a lock is a lossy counter: however  *)
(* the processors interleave, none ever shows more than was counted, and   *)
(* none is zero once something was.                                        *)
Lossy == INSTANCE LossyCounters WITH value <- counter
CountersSpec == Lossy!Spec

(* mypacket.c:56-93: a counter is wrong only if two processors were at the *)
(* same `++` at once.  Otherwise, once no packet is in the hook, every one *)
(* was counted as IP and in exactly one of the four classes.               *)
ExactWithoutOverlap ==
    (\A p \in CPUs : at[p] = "idle") /\ ~overlap =>
        /\ counter[Counter("ip")] = received
        /\ counter[Counter("tcp")] + counter[Counter("udp")]
             + counter[Counter("icmp")] + counter[Counter("other")] = received

(* sys2.c:171: no processor is in the hook once the module is gone.        *)
HookOnlyWhileLoaded == module = "absent" => \A p \in CPUs : at[p] = "idle"
=============================================================================
