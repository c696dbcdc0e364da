---------------------------- MODULE DriversProofs ----------------------------
(***************************************************************************)
(* Proofs about Drivers for any of its ten drivers and any number of       *)
(* users: what init, its labels and exit take and give back adds up, and   *)
(* an operation finds what it uses.                                        *)
(***************************************************************************)
EXTENDS Drivers, TLAPS

N       == Len(D.init)
M       == Len(D.exit)
Res(i)  == D.init[i].res
Given(i) == D.init[i].onfail = "given"
Probed(i) == D.init[i].onfail = "probe"

(* TypeOK without its Boolean, which is apart because no prover here takes *)
(* it together with the arithmetic of step.                                *)
Types ==
    /\ driver \in Drivers
    /\ phase \in {"absent", "init", "unwind", "live", "exit", "oops"}
    /\ step \in 0..(N + M + 1)
    /\ ret \in {"ok", "error"}
    /\ held \subseteq Resources /\ failed \subseteq Resources
    /\ astray \subseteq Resources \cup {"drvdata"}
    /\ user \in [Users -> {"closed", "open", "lock", "inside"}]
    /\ owner \subseteq Users

(* Where insmod and rmmod stand, by phase.                                 *)
StepInv ==
    /\ phase \in {"absent", "live"} => step = 0
    /\ phase = "init" => step \in 1..(N + 1)
    /\ phase = "unwind" => step \in 0..(N - 1)
    /\ phase \in {"exit", "oops"} => step \in 1..(M + 1)

(* Nothing is held but what has been taken and still will be given back.   *)
(* What is left of a probe that failed is the registered driver.           *)
Upper ==
    /\ "checked" \notin held
    /\ phase = "absent" => held \subseteq {"node"}
    /\ phase = "init" =>
           /\ \A x \in held : x = "node" \/ \E i \in 1..(step - 1) : Res(i) = x
           /\ \A i \in 1..(step - 1) : Given(i) => Res(i) \notin held
    /\ phase = "unwind" => \A x \in held : x = "node" \/ (x = "driver" /\ Unbound) \/ \E i \in 1..step : Res(i) = x
    /\ phase = "live" => \A x \in held : x = "node" \/ \E k \in 1..M : D.exit[k] = x
    /\ phase = "exit" => \A x \in held : x = "node" \/ \E k \in step..M : D.exit[k] = x
    /\ phase \in {"live", "exit"} /\ Unbound => held \subseteq {"node", "driver"}

(* Unless a failure went unnoticed, what will be given back is held.       *)
Lower ==
    ~Overlooked =>
        /\ phase = "init" =>
               \A i \in 1..(step - 1) :
                   Res(i) \in held \cup {"checked"} \/ (step = N + 1 /\ Given(N) /\ Res(i) = Res(N))
        /\ phase = "unwind" => \A i \in 1..step : Res(i) \in held \cup {"checked"}
        /\ phase \in {"unwind", "live"} /\ Unbound => "driver" \in held
        /\ phase = "live" /\ ~Unbound => \A k \in 1..M : D.exit[k] \in held \cup {"drvdata"}
        /\ phase = "exit" /\ ~Unbound /\ driver # "my_device" =>
               \A k \in step..M : D.exit[k] \in held \cup {"drvdata"}
        /\ phase = "exit" /\ Unbound => "driver" \in held \/ \A k \in step..M : D.exit[k] # "driver"
        /\ phase = "oops" /\ ~Unbound /\ D.hold = "call" => D.needs \subseteq held

(* What ret and failed tell about the latest init.                         *)
FailureInv ==
    /\ phase \in {"init", "live", "exit", "oops"} => ret = "ok" /\ (failed # {} => Overlooked \/ Unbound)
    /\ phase = "init" => ~Unbound
    /\ phase = "unwind" => /\ failed # {} /\ (ret = "ok" => Overlooked \/ Unbound) /\ (Unbound => ret = "ok")
                           /\ \A i \in 1..step : Res(i) = "driver" => Unbound
    /\ phase = "absent" /\ ret # "ok" => failed # {}
    /\ ReleasesWhatItHolds

(* Who may be in.                                                          *)
UserInv ==
    /\ D.hold = "open" /\ (phase \in {"exit", "oops"} \/ (phase = "absent" /\ ret = "ok")) => Opened = {}
    /\ D.hold = "call" => \A u \in Users : user[u] # "lock" /\ (user[u] = "inside" => D.entry \in held)
    /\ phase = "exit" /\ D.hold = "call" /\ D.needs # {} => step = 1 \/ Unbound

IInv == Types /\ StepInv /\ Upper /\ Lower /\ FailureInv /\ UserInv
---------------------------------------------------------------------------
(* What the arguments below use of the tables in Drivers: what is given    *)
(* back inside init is its last step, everything else is taken once and is *)
(* on the exit list, unless it is one of Unlabelled; and the two drivers   *)
(* whose exit gives back more are the only ones.                           *)
Lists(T) ==
    /\ Len(T.init) \in Nat /\ DOMAIN T.init = 1..Len(T.init)
    /\ Len(T.exit) \in Nat /\ DOMAIN T.exit = 1..Len(T.exit)
    /\ T.hold \in {"open", "call", "none"}

InitList(T) ==
    /\ \A i \in DOMAIN T.init : T.init[i].onfail \in {"given", "unwind", "probe", "zero", "ignore"}
    /\ \A i \in DOMAIN T.init : T.init[i].onfail = "given" =>
           /\ i = Len(T.init) /\ T.init[i].res # "checked"
           /\ \E j \in DOMAIN T.init : j < i /\ T.init[j].res = T.init[i].res
    /\ \A i, j \in DOMAIN T.init :
           i < j /\ j < Len(T.init) => T.init[i].res # T.init[j].res
    /\ \A i \in DOMAIN T.init :
           /\ T.init[i].res # "drvdata"
           /\ \/ T.init[i].res \in {"node", "checked"}
              \/ \E k \in DOMAIN T.exit : T.exit[k] = T.init[i].res
              \/ T.init[Len(T.init)].onfail = "given" /\ T.init[Len(T.init)].res = T.init[i].res

ExitList(d, T) ==
    /\ \A k \in DOMAIN T.exit :
           /\ T.exit[k] # "checked"
           /\ \/ T.exit[k] = "drvdata" /\ d = "mynetwork"
              \/ /\ \E i \in DOMAIN T.init : T.init[i].res = T.exit[k]
                 /\ ~(T.init[Len(T.init)].onfail = "given" /\ T.init[Len(T.init)].res = T.exit[k])
    /\ d # "my_device" => \A k, l \in DOMAIN T.exit : k < l => T.exit[k] # T.exit[l]

Access(d, T) ==
    /\ T.entry # "node" /\ (T.hold = "call" => ~T.locks) /\ (d = "my_device" => T.hold = "none")
    /\ \A x \in T.needs : x # "drvdata" /\ \E k \in DOMAIN T.exit : T.exit[k] = x
    /\ T.needs # {} /\ T.hold = "call" => Len(T.exit) >= 1 /\ T.exit[1] = "drvdata"
    /\ T.hold = "none" => T.needs = {}

(* Only mynetwork has a probe function, which runs once the driver is      *)
(* registered.                                                             *)
Probing(d, T) ==
    \A i \in DOMAIN T.init :
        /\ T.init[i].res = "driver" => i = 1 /\ \A j \in DOMAIN T.init : j > 1 => T.init[j].onfail = "probe"
        /\ T.init[i].onfail = "probe" =>
               /\ d = "mynetwork" /\ i > 1 /\ T.init[1].res = "driver"
               /\ \E k \in DOMAIN T.exit : T.exit[k] = "driver"
               /\ \A j \in DOMAIN T.init : T.init[j].res = T.init[i].res => j = i

Sound(d, T) == Lists(T) /\ InitList(T) /\ ExitList(d, T) /\ Access(d, T) /\ Probing(d, T)

LEMMA Tables == \A d \in DOMAIN Driver : Sound(d, Driver[d])
<1>1. Sound("newchrdevbase", newchrdevbase)
  <2>1. Lists(newchrdevbase)
    BY DEF Lists, newchrdevbase, Take, Give
  <2>2. InitList(newchrdevbase)
    BY DEF InitList, newchrdevbase, Take, Give
  <2>3. ExitList("newchrdevbase", newchrdevbase)
    BY DEF ExitList, newchrdevbase, Take, Give
  <2>4. Access("newchrdevbase", newchrdevbase)
    BY DEF Access, newchrdevbase, Take, Give
  <2>5. Probing("newchrdevbase", newchrdevbase)
    BY DEF Probing, newchrdevbase, Take, Give
  <2> QED
    BY <2>1, <2>2, <2>3, <2>4, <2>5 DEF Sound
<1>2. Sound("mutex", mutex)
  <2>1. Lists(mutex)
    BY DEF Lists, mutex, Take, Give
  <2>2. InitList(mutex)
    BY DEF InitList, mutex, Take, Give
  <2>3. ExitList("mutex", mutex)
    BY DEF ExitList, mutex, Take, Give
  <2>4. Access("mutex", mutex)
    BY DEF Access, mutex, Take, Give
  <2>5. Probing("mutex", mutex)
    BY DEF Probing, mutex, Take, Give
  <2> QED
    BY <2>1, <2>2, <2>3, <2>4, <2>5 DEF Sound
<1>3. Sound("dtsofled", dtsofled)
  <2>1. Lists(dtsofled)
    BY DEF Lists, dtsofled, Take, Give
  <2>2. InitList(dtsofled)
    BY DEF InitList, dtsofled, Take, Give
  <2>3. ExitList("dtsofled", dtsofled)
    BY DEF ExitList, dtsofled, Take, Give
  <2>4. Access("dtsofled", dtsofled)
    BY DEF Access, dtsofled, Take, Give
  <2>5. Probing("dtsofled", dtsofled)
    BY DEF Probing, dtsofled, Take, Give
  <2> QED
    BY <2>1, <2>2, <2>3, <2>4, <2>5 DEF Sound
<1>4. Sound("my_device", my_device)
  <2>1. Lists(my_device)
    BY DEF Lists, my_device, Take, Give
  <2>2. InitList(my_device)
    BY DEF InitList, my_device, Take, Give
  <2>3. ExitList("my_device", my_device)
    BY DEF ExitList, my_device, Take, Give
  <2>4. Access("my_device", my_device)
    BY DEF Access, my_device, Take, Give
  <2>5. Probing("my_device", my_device)
    BY DEF Probing, my_device, Take, Give
  <2> QED
    BY <2>1, <2>2, <2>3, <2>4, <2>5 DEF Sound
<1>5. Sound("chrdevbase", chrdevbase)
  <2>1. Lists(chrdevbase)
    BY DEF Lists, chrdevbase, Take, Give
  <2>2. InitList(chrdevbase)
    BY DEF InitList, chrdevbase, Take, Give
  <2>3. ExitList("chrdevbase", chrdevbase)
    BY DEF ExitList, chrdevbase, Take, Give
  <2>4. Access("chrdevbase", chrdevbase)
    BY DEF Access, chrdevbase, Take, Give
  <2>5. Probing("chrdevbase", chrdevbase)
    BY DEF Probing, chrdevbase, Take, Give
  <2> QED
    BY <2>1, <2>2, <2>3, <2>4, <2>5 DEF Sound
<1>6. Sound("sys", sys)
  <2>1. Lists(sys)
    BY DEF Lists, sys, Take, Give
  <2>2. InitList(sys)
    BY DEF InitList, sys, Take, Give
  <2>3. ExitList("sys", sys)
    BY DEF ExitList, sys, Take, Give
  <2>4. Access("sys", sys)
    BY DEF Access, sys, Take, Give
  <2>5. Probing("sys", sys)
    BY DEF Probing, sys, Take, Give
  <2> QED
    BY <2>1, <2>2, <2>3, <2>4, <2>5 DEF Sound
<1>7. Sound("sys2", sys2)
  <2>1. Lists(sys2)
    BY DEF Lists, sys2, Take, Give
  <2>2. InitList(sys2)
    BY DEF InitList, sys2, Take, Give
  <2>3. ExitList("sys2", sys2)
    BY DEF ExitList, sys2, Take, Give
  <2>4. Access("sys2", sys2)
    BY DEF Access, sys2, Take, Give
  <2>5. Probing("sys2", sys2)
    BY DEF Probing, sys2, Take, Give
  <2> QED
    BY <2>1, <2>2, <2>3, <2>4, <2>5 DEF Sound
<1>8. Sound("procsys", procsys)
  <2>1. Lists(procsys)
    BY DEF Lists, procsys, Take, Give
  <2>2. InitList(procsys)
    BY DEF InitList, procsys, Take, Give
  <2>3. ExitList("procsys", procsys)
    BY DEF ExitList, procsys, Take, Give
  <2>4. Access("procsys", procsys)
    BY DEF Access, procsys, Take, Give
  <2>5. Probing("procsys", procsys)
    BY DEF Probing, procsys, Take, Give
  <2> QED
    BY <2>1, <2>2, <2>3, <2>4, <2>5 DEF Sound
<1>9. Sound("mynetwork", mynetwork)
  <2>1. Lists(mynetwork)
    BY DEF Lists, mynetwork, Take, Give
  <2>2. InitList(mynetwork)
    BY DEF InitList, mynetwork, Take, Give
  <2>3. ExitList("mynetwork", mynetwork)
    BY DEF ExitList, mynetwork, Take, Give
  <2>4. Access("mynetwork", mynetwork)
    BY DEF Access, mynetwork, Take, Give
  <2>5. Probing("mynetwork", mynetwork)
    BY DEF Probing, mynetwork, Take, Give
  <2> QED
    BY <2>1, <2>2, <2>3, <2>4, <2>5 DEF Sound
<1>10. Sound("dtsof", dtsof)
  <2>1. Lists(dtsof)
    BY DEF Lists, dtsof, Take, Give
  <2>2. InitList(dtsof)
    BY DEF InitList, dtsof, Take, Give
  <2>3. ExitList("dtsof", dtsof)
    BY DEF ExitList, dtsof, Take, Give
  <2>4. Access("dtsof", dtsof)
    BY DEF Access, dtsof, Take, Give
  <2>5. Probing("dtsof", dtsof)
    BY DEF Probing, dtsof, Take, Give
  <2> QED
    BY <2>1, <2>2, <2>3, <2>4, <2>5 DEF Sound
<1> QED
  BY <1>1, <1>2, <1>3, <1>4, <1>5, <1>6, <1>7, <1>8, <1>9, <1>10 DEF Driver

LEMMA Table == ASSUME driver \in Drivers PROVE Sound(driver, D)
BY Tables, DriversAssumption DEF D

LEMMA Lengths == ASSUME driver \in Drivers PROVE N \in Nat /\ M \in Nat
BY Table DEF Sound, Lists, N, M

(* The step that init is at, and those before it.                          *)
LEMMA InitSteps ==
    ASSUME driver \in Drivers
    PROVE  /\ \A i \in 1..N : Res(i) \in Resources /\ Res(i) # "drvdata"
           /\ \A i \in 1..N : Given(i) => i = N /\ Res(i) # "checked" /\ \E j \in 1..(N - 1) : Res(j) = Res(i)
           /\ \A i, j \in 1..(N - 1) : i # j => Res(i) # Res(j)
<1>1. Sound(driver, D) /\ N \in Nat /\ DOMAIN D.init = 1..N
  BY Table DEF Sound, Lists, N
<1>2. \A i \in 1..N : Res(i) \in Resources /\ Res(i) # "drvdata"
  BY <1>1 DEF Resources, Res, Sound, InitList
<1>3. \A i \in 1..N : Given(i) => i = N /\ Res(i) # "checked" /\ \E j \in 1..(N - 1) : Res(j) = Res(i)
  BY <1>1 DEF Res, Given, Sound, InitList, N
<1>4. \A i, j \in 1..(N - 1) : i < j => Res(i) # Res(j)
  BY <1>1 DEF Res, Sound, InitList, N
<1>5. \A i, j \in 1..(N - 1) : i # j => Res(i) # Res(j)
  <2> TAKE i, j \in 1..(N - 1)
  <2> QED
    BY <1>1, <1>4
<1> QED
  BY <1>2, <1>3, <1>5

(* What exit gives back.                                                   *)
LEMMA ExitSteps ==
    ASSUME driver \in Drivers
    PROVE  /\ \A k \in 1..M :
                 /\ D.exit[k] # "checked"
                 /\ \/ D.exit[k] = "drvdata" /\ driver = "mynetwork"
                    \/ /\ D.exit[k] \in Resources /\ \E i \in 1..N : Res(i) = D.exit[k]
                       /\ ~(Given(N) /\ Res(N) = D.exit[k])
           /\ \A i \in 1..N :
                 \/ Res(i) \in {"node", "checked"}
                 \/ \E k \in 1..M : D.exit[k] = Res(i)
                 \/ Given(N) /\ Res(N) = Res(i)
           /\ driver # "my_device" => \A k, l \in 1..M : k < l => D.exit[k] # D.exit[l]
<1>1. Sound(driver, D) /\ DOMAIN D.init = 1..N /\ DOMAIN D.exit = 1..M
  BY Table DEF Sound, Lists, N, M
<1>2. \A k \in 1..M :
          /\ D.exit[k] # "checked"
          /\ \/ D.exit[k] = "drvdata" /\ driver = "mynetwork"
             \/ (\E i \in 1..N : Res(i) = D.exit[k]) /\ ~(Given(N) /\ Res(N) = D.exit[k])
  BY <1>1 DEF Sound, ExitList, Res, Given, N
<1>3. \A i \in 1..N :
          \/ Res(i) \in {"node", "checked"}
          \/ \E k \in 1..M : D.exit[k] = Res(i)
          \/ Given(N) /\ Res(N) = Res(i)
  BY <1>1 DEF Sound, InitList, Res, Given, N
<1>4. driver # "my_device" => \A k, l \in 1..M : k < l => D.exit[k] # D.exit[l]
  BY <1>1 DEF Sound, ExitList
<1>5. \A i \in 1..N : Res(i) \in Resources
  BY InitSteps
<1>6. \A k \in 1..M :
          /\ D.exit[k] # "checked"
          /\ \/ D.exit[k] = "drvdata" /\ driver = "mynetwork"
             \/ /\ D.exit[k] \in Resources /\ \E i \in 1..N : Res(i) = D.exit[k]
                /\ ~(Given(N) /\ Res(N) = D.exit[k])
  <2> TAKE k \in 1..M
  <2>1. ASSUME NEW i \in 1..N, Res(i) = D.exit[k] PROVE D.exit[k] \in Resources
    BY <1>5, <2>1
  <2> QED
    BY <1>2, <2>1
<1> QED
  BY <1>3, <1>4, <1>6

(* What the users of a driver depend on.                                   *)
LEMMA AccessIs ==
    ASSUME driver \in Drivers
    PROVE  /\ D.entry # "node" /\ D.hold \in {"open", "call", "none"}
           /\ (D.hold = "call" => ~D.locks) /\ (driver = "my_device" => D.hold = "none")
           /\ \A x \in D.needs : x # "drvdata" /\ \E k \in 1..M : D.exit[k] = x
           /\ D.needs # {} /\ D.hold = "call" => M >= 1 /\ D.exit[1] = "drvdata"
           /\ D.hold = "none" => D.needs = {}
BY Table DEF Sound, Access, Lists, M

(* What a driver with a probe function looks like.                         *)
LEMMA ProbeSteps ==
    ASSUME driver \in Drivers
    PROVE  /\ \A i, j \in 1..N : Res(i) = "driver" /\ j > 1 => i = 1 /\ Probed(j)
           /\ \A i \in 1..N : Probed(i) =>
                  /\ driver = "mynetwork" /\ i > 1 /\ 1 \in 1..N /\ Res(1) = "driver"
                  /\ \E k \in 1..M : D.exit[k] = "driver"
                  /\ \A j \in 1..N : Res(j) = Res(i) => j = i
           /\ Unbound <=> \E i \in 1..N : Res(i) \in failed /\ Probed(i)
<1>1. Probing(driver, D) /\ DOMAIN D.init = 1..N /\ DOMAIN D.exit = 1..M /\ N \in Nat
  BY Table DEF Sound, Lists, N, M
<1>2. \A i, j \in 1..N : Res(i) = "driver" /\ j > 1 => i = 1 /\ Probed(j)
  BY <1>1 DEF Probing, Res, Probed
<1>3. ASSUME NEW i \in 1..N, Probed(i)
      PROVE  /\ driver = "mynetwork" /\ i > 1 /\ 1 \in 1..N /\ Res(1) = "driver"
             /\ \E k \in 1..M : D.exit[k] = "driver"
             /\ \A j \in 1..N : Res(j) = Res(i) => j = i
  BY <1>1, <1>3 DEF Probing, Res, Probed
<1>4. Unbound <=> \E i \in 1..N : Res(i) \in failed /\ Probed(i)
  BY <1>1 DEF Unbound, Res, Probed
<1> QED
  BY <1>2, <1>3, <1>4

LEMMA Onfails ==
    ASSUME driver \in Drivers
    PROVE  \A i \in 1..N : D.init[i].onfail \in {"given", "unwind", "probe", "zero", "ignore"}
BY Table DEF Sound, Lists, InitList, N

LEMMA UnboundIs ==
    ASSUME driver \in Drivers, Unbound
    PROVE  driver = "mynetwork" /\ \E k \in 1..M : D.exit[k] = "driver"
BY ProbeSteps

LEMMA Same ==
    ASSUME driver' = driver
    PROVE  /\ D' = D /\ N' = N /\ M' = M /\ Resources' = Resources
           /\ \A i : Res(i)' = Res(i) /\ (Given(i)' <=> Given(i)) /\ (Probed(i)' <=> Probed(i))
BY DEF D, N, M, Resources, Res, Given, Probed

LEMMA SameFailures ==
    ASSUME driver' = driver, failed' = failed
    PROVE  (Overlooked' <=> Overlooked) /\ (Unbound' <=> Unbound)
BY DEF Overlooked, Unbound, D
---------------------------------------------------------------------------
LEMMA InitIInv == Init => IInv
<1> SUFFICES ASSUME Init PROVE IInv
  OBVIOUS
<1>1. Sound(driver, D)
  BY Table DEF Init
<1>2. Types
  BY Lengths DEF Init, Types
<1>3. StepInv /\ Upper /\ Lower
  BY DEF Init, StepInv, Upper, Lower
<1>4. FailureInv /\ UserInv
  BY <1>1 DEF Init, FailureInv, ReleasesWhatItHolds, UserInv, Opened, Sound, Lists, Unbound
<1> QED
  BY <1>2, <1>3, <1>4 DEF IInv
---------------------------------------------------------------------------
LEMMA InsmodStep ==
    ASSUME IInv, Insmod
    PROVE  IInv'
<1> USE DEF IInv
<1>1. driver' = driver /\ D' = D /\ N' = N /\ M' = M /\ Resources' = Resources /\ Sound(driver, D)
  BY Table, Same DEF Insmod, Types
<1>2. Types'
  BY <1>1, Lengths DEF Types, Insmod
<1>3. StepInv'
  BY <1>1 DEF StepInv, Insmod, N, Sound, Lists
<1>4. Upper'
  BY <1>1 DEF Upper, Insmod
<1>5. Lower'
  BY <1>1 DEF Lower, Insmod
<1>6. FailureInv'
  BY <1>1 DEF FailureInv, Insmod, ReleasesWhatItHolds, Unbound
<1>7. UserInv'
  BY <1>1 DEF UserInv, Insmod
<1> QED
  BY <1>2, <1>3, <1>4, <1>5, <1>6, <1>7

LEMMA AcquireStep ==
    ASSUME IInv, Acquire
    PROVE  IInv'
<1> USE DEF IInv
<1>1. /\ driver' = driver /\ D' = D /\ N' = N /\ M' = M /\ Resources' = Resources /\ Sound(driver, D)
      /\ failed' = failed /\ (Overlooked' <=> Overlooked) /\ (Unbound' <=> Unbound)
  BY Table, Same, SameFailures DEF Acquire, Types
<1>2. /\ phase = "init" /\ step \in 1..N /\ step' = step + 1 /\ phase' = phase /\ N \in Nat
      /\ ~Given(step) /\ held' = held \cup ({Res(step)} \ {"checked"})
      /\ UNCHANGED <<ret, shut, failed, astray, user, owner>>
  BY <1>1 DEF Acquire, Taking, InInit, This, N, Given, Res, StepInv, Sound, Lists
<1>3. Types'
  BY Lengths, InitSteps, <1>1, <1>2 DEF Types
<1>4. StepInv'
  BY <1>1, <1>2 DEF StepInv
<1>5. Upper'
  BY Same, InitSteps, <1>1, <1>2 DEF Upper, Types
<1>6. Lower'
  BY Same, InitSteps, <1>1, <1>2 DEF Lower, Types
<1>7. FailureInv'
  BY <1>1, <1>2 DEF FailureInv, ReleasesWhatItHolds
<1>8. UserInv'
  BY <1>1, <1>2 DEF UserInv
<1> QED
  BY <1>3, <1>4, <1>5, <1>6, <1>7, <1>8

LEMMA FailStep ==
    ASSUME IInv, Fail
    PROVE  IInv'
<1> USE DEF IInv
<1>1. /\ driver' = driver /\ D' = D /\ N' = N /\ M' = M /\ Resources' = Resources /\ Sound(driver, D)
  BY Table, Same DEF Fail, Types
<1>2. /\ phase = "init" /\ step \in 1..N /\ N \in Nat /\ DOMAIN D.init = 1..N
      /\ ~Given(step) /\ failed' = failed \cup {Res(step)}
      /\ UNCHANGED <<held, shut, astray, user, owner>>
  BY <1>1 DEF Fail, Taking, InInit, This, N, Given, Res, StepInv, Sound, Lists
<1>3. (Overlooked => Overlooked') /\ ~Unbound
  BY <1>1, <1>2 DEF Overlooked, FailureInv
<1>4. \/ /\ D.init[step].onfail = "ignore" /\ step' = step + 1 /\ phase' = phase /\ ret' = ret
         /\ Overlooked'
      \/ /\ phase' = "unwind" /\ step' = step - 1 /\ ret' \in {"ok", "error"}
         /\ ret' = "ok" => Overlooked' \/ Probed(step)
         /\ Probed(step) => ret' = "ok"
  <2>1. D.init[step].onfail \in {"ignore", "zero"} => Overlooked'
    BY <1>1, <1>2 DEF Overlooked, Res
  <2>2. D.init[step].onfail \in {"unwind", "probe", "zero", "ignore"}
    BY <1>2, Onfails DEF Types, Given
  <2> QED
    BY <2>1, <2>2 DEF Fail, This, Probed
<1>5. Unbound' <=> Probed(step)
  <2>1. \A i \in 1..N : Probed(i) => (Res(i) \in failed' <=> i = step)
    <3> TAKE i \in 1..N
    <3>1. Res(i) \in failed => ~Probed(i)
      BY <1>3, ProbeSteps DEF Types
    <3>2. Probed(i) /\ Res(step) = Res(i) => step = i
      BY <1>2, ProbeSteps DEF Types
    <3> QED
      BY <1>2, <3>1, <3>2
  <2>2. Unbound' <=> \E i \in 1..N : Res(i) \in failed' /\ Probed(i)
    BY <1>1, <1>2 DEF Unbound, Res, Probed
  <2> QED
    BY <1>2, <2>1, <2>2
<1>6. Types'
  BY Lengths, InitSteps, <1>1, <1>2, <1>4 DEF Types
<1>7. StepInv'
  BY <1>1, <1>2, <1>4 DEF StepInv
<1>8. Upper'
  <2>1. CASE step' = step + 1 /\ phase' = phase
    <3>1. \A i \in 1..step : i = step \/ i \in 1..(step - 1)
      BY <1>2
    <3>2. \A i \in 1..(step' - 1) : Given(i) => Res(i) \notin held
      BY <1>2, <2>1, <3>1 DEF Upper
    <3>3. \A x \in held : x = "node" \/ \E i \in 1..(step' - 1) : Res(i) = x
      BY <1>2, <2>1 DEF Upper
    <3> QED
      BY Same, <1>1, <1>2, <2>1, <3>2, <3>3 DEF Upper
  <2>2. CASE phase' = "unwind" /\ step' = step - 1
    <3>1. \A x \in held' : x = "node" \/ \E i \in 1..step' : Res(i) = x
      BY <1>2, <2>2 DEF Upper
    <3>2. \A x \in held' : x = "node" \/ \E i \in 1..step' : Res(i)' = x
      BY Same, <1>1, <3>1
    <3>3. "checked" \notin held'
      BY <1>2 DEF Upper
    <3> QED
      BY <2>2, <3>2, <3>3 DEF Upper
  <2> QED
    BY <1>4, <2>1, <2>2
<1>9. phase' = "unwind" => \A i \in 1..step' : Res(i) = "driver" => Probed(step)
  BY ProbeSteps, <1>2, <1>4 DEF Types
<1>10. Lower'
  <2>1. phase' = "init" => Overlooked'
    BY <1>2, <1>4
  <2>2. ASSUME phase' = "unwind", ~Overlooked'
        PROVE  \A i \in 1..step' : Res(i) \in held \cup {"checked"}
    <3>1. ~Overlooked /\ step' = step - 1 /\ step \in 1..N
      BY <1>2, <1>3, <1>4, <2>2
    <3> QED
      BY <1>2, <3>1 DEF Lower
  <2>3. ASSUME phase' = "unwind", ~Overlooked', Unbound' PROVE "driver" \in held
    <3>1. step > 1 /\ step' = step - 1 /\ Res(1) = "driver"
      BY <1>2, <1>4, <1>5, <2>3, ProbeSteps DEF Types
    <3>2. 1 \in 1..step'
      BY <1>2, <3>1
    <3> QED
      BY <2>2, <2>3, <3>1, <3>2
  <2>4. phase' \in {"init", "unwind"}
    BY <1>2, <1>4
  <2> QED
    BY Same, <1>1, <1>2, <2>1, <2>2, <2>3, <2>4 DEF Lower
<1>11. FailureInv'
  <2>1. ReleasesWhatItHolds'
    BY <1>1, <1>2, <1>3 DEF FailureInv, ReleasesWhatItHolds
  <2>2. phase' = "init" => ~Unbound' /\ ret' = "ok" /\ Overlooked'
    BY <1>2, <1>4, <1>5 DEF FailureInv, Probed
  <2>3. phase' = "unwind" => failed' # {} /\ (ret' = "ok" => Overlooked' \/ Unbound') /\ (Unbound' => ret' = "ok")
    BY <1>2, <1>4, <1>5
  <2>4. phase' = "unwind" => \A i \in 1..step' : Res(i)' = "driver" => Unbound'
    BY Same, <1>1, <1>5, <1>9
  <2>5. phase' \in {"init", "unwind"}
    BY <1>2, <1>4
  <2> QED
    BY <2>1, <2>2, <2>3, <2>4, <2>5 DEF FailureInv
<1>12. UserInv'
  BY <1>1, <1>2, <1>4 DEF UserInv, Opened
<1> QED
  BY <1>6, <1>7, <1>8, <1>10, <1>11, <1>12

(* What giving back does to held and astray.                               *)
LEMMA GiveBackEffect ==
    ASSUME IInv, NEW res, GiveBack(res), driver' = driver
    PROVE  /\ held' = held \ {res}
           /\ astray' = astray \/ (res \notin held /\ astray' = astray \cup {res})
           /\ res = D.entry /\ D.hold = "call" /\ res \in held => Inside = {}
BY DEF GiveBack, Drained

LEMMA GiveInInitStep ==
    ASSUME IInv, GiveInInit
    PROVE  IInv'
<1> USE DEF IInv
<1>1. /\ driver' = driver /\ D' = D /\ N' = N /\ M' = M /\ Resources' = Resources
      /\ N \in Nat /\ M \in Nat
      /\ failed' = failed /\ (Overlooked' <=> Overlooked) /\ (Unbound' <=> Unbound)
  BY Lengths, Same, SameFailures DEF GiveInInit, Types
<1>2. /\ phase = "init" /\ step \in 1..N /\ step' = step + 1 /\ phase' = phase
      /\ Given(step) /\ GiveBack(Res(step))
      /\ UNCHANGED <<ret, user, owner>>
  BY <1>1 DEF GiveInInit, Taking, InInit, This, N, Given, Res, StepInv
<1>3. /\ held' = held \ {Res(step)}
      /\ astray' = astray \/ (Res(step) \notin held /\ astray' = astray \cup {Res(step)})
      /\ Res(step) = D.entry /\ D.hold = "call" /\ Res(step) \in held => Inside = {}
  BY <1>1, <1>2, GiveBackEffect
<1>4. step = N /\ Res(step) \in Resources /\ Res(step) # "checked"
  BY <1>2, InitSteps DEF Types
<1>5. ~Overlooked => Res(step) \in held
  <2> SUFFICES ASSUME ~Overlooked PROVE Res(step) \in held
    OBVIOUS
  <2>1. PICK j \in 1..(N - 1) : Res(j) = Res(step)
    BY <1>2, <1>4, InitSteps DEF Types
  <2> QED
    BY <1>1, <1>2, <1>4, <2>1 DEF Lower
<1>6. Types'
  BY <1>1, <1>2, <1>3, <1>4 DEF Types
<1>7. StepInv'
  BY <1>1, <1>2 DEF StepInv
<1>8. Upper'
  BY Same, InitSteps, <1>1, <1>2, <1>3, <1>4 DEF Upper, Types
<1>9. Lower'
  BY Same, <1>1, <1>2, <1>3, <1>4 DEF Lower
<1>10. FailureInv'
  BY <1>1, <1>2, <1>3, <1>5 DEF FailureInv, ReleasesWhatItHolds
<1>11. UserInv'
  BY <1>1, <1>2, <1>3 DEF UserInv, Inside
<1> QED
  BY <1>6, <1>7, <1>8, <1>9, <1>10, <1>11

LEMMA InitDoneStep ==
    ASSUME IInv, InitDone
    PROVE  IInv'
<1> USE DEF IInv
<1>1. /\ driver' = driver /\ D' = D /\ N' = N /\ M' = M /\ Resources' = Resources
      /\ N \in Nat /\ M \in Nat
      /\ failed' = failed /\ (Overlooked' <=> Overlooked) /\ (Unbound' <=> Unbound)
  BY Lengths, Same, SameFailures DEF InitDone, Types
<1>2. /\ phase = "init" /\ step = N + 1 /\ phase' = "live" /\ step' = 0
      /\ UNCHANGED <<ret, shut, held, astray, user, owner>>
  BY <1>1 DEF InitDone, N, StepInv
<1>3. Types'
  BY <1>1, <1>2 DEF Types
<1>4. StepInv'
  BY <1>1, <1>2 DEF StepInv
<1>5. Upper'
  <2>1. ASSUME NEW x \in held, x # "node" PROVE \E k \in 1..M : D.exit[k] = x
    <3>1. PICK i \in 1..N : Res(i) = x
      BY <1>1, <1>2, <2>1 DEF Upper
    <3>2. ~(Given(N) /\ Res(N) = x) /\ x # "checked"
      BY <1>1, <1>2, <2>1, <3>1 DEF Upper
    <3> QED
      BY <2>1, <3>1, <3>2, ExitSteps DEF Types
  <2>2. ~Unbound
    BY <1>2 DEF FailureInv
  <2> QED
    BY <1>1, <1>2, <2>1, <2>2 DEF Upper
<1>6. Lower'
  <2>1. ~Unbound
    BY <1>2 DEF FailureInv
  <2> QED
    BY ExitSteps, <1>1, <1>2, <2>1 DEF Lower, Types
<1>7. FailureInv'
  BY <1>1, <1>2 DEF FailureInv, ReleasesWhatItHolds
<1>8. UserInv'
  BY <1>1, <1>2 DEF UserInv
<1> QED
  BY <1>3, <1>4, <1>5, <1>6, <1>7, <1>8

LEMMA UnwindStep ==
    ASSUME IInv, Unwind
    PROVE  IInv'
<1> USE DEF IInv
<1>1. /\ driver' = driver /\ D' = D /\ N' = N /\ M' = M /\ Resources' = Resources
      /\ N \in Nat /\ M \in Nat
      /\ failed' = failed /\ (Overlooked' <=> Overlooked) /\ (Unbound' <=> Unbound)
  BY Lengths, Same, SameFailures DEF Unwind, Types
<1>2. /\ phase = "unwind" /\ step \in 1..(N - 1) /\ step' = step - 1 /\ phase' = phase
      /\ UNCHANGED <<ret, user, owner>>
      /\ \/ Res(step) \in {"node", "checked", "driver"} /\ UNCHANGED <<shut, held, astray>>
         \/ Res(step) \notin {"node", "checked", "driver"} /\ GiveBack(Res(step))
  BY <1>1 DEF Unwind, Unlabelled, Res, StepInv
<1>3. \/ Res(step) \in {"node", "checked", "driver"} /\ held' = held /\ astray' = astray
      \/ /\ Res(step) \notin {"node", "checked", "driver"} /\ held' = held \ {Res(step)}
         /\ astray' = astray \/ (Res(step) \notin held /\ astray' = astray \cup {Res(step)})
         /\ Res(step) = D.entry /\ D.hold = "call" /\ Res(step) \in held => Inside = {}
  BY <1>1, <1>2, GiveBackEffect
<1>4. Res(step) \in Resources /\ \A i \in 1..(step - 1) : Res(i) # Res(step)
  BY <1>1, <1>2, InitSteps DEF Types
<1>5. Types'
  BY <1>1, <1>2, <1>3, <1>4 DEF Types
<1>6. StepInv'
  BY <1>1, <1>2 DEF StepInv
<1>7. Upper'
  BY Same, <1>1, <1>2, <1>3 DEF Upper, FailureInv
<1>8. Lower'
  BY Same, <1>1, <1>2, <1>3, <1>4 DEF Lower
<1>9. FailureInv'
  BY Same, <1>1, <1>2, <1>3 DEF FailureInv, ReleasesWhatItHolds, Lower
<1>10. UserInv'
  BY <1>1, <1>2, <1>3 DEF UserInv, Inside
<1> QED
  BY <1>5, <1>6, <1>7, <1>8, <1>9, <1>10

LEMMA UnwoundStep ==
    ASSUME IInv, Unwound
    PROVE  IInv'
<1> USE DEF IInv
<1>1. /\ driver' = driver /\ D' = D /\ N' = N /\ M' = M /\ Resources' = Resources
      /\ N \in Nat /\ M \in Nat
      /\ failed' = failed /\ (Overlooked' <=> Overlooked) /\ (Unbound' <=> Unbound)
  BY Lengths, Same, SameFailures DEF Unwound, Types
<1>2. /\ phase = "unwind" /\ step = 0 /\ step' = 0
      /\ phase' = IF ret = "ok" THEN "live" ELSE "absent"
      /\ UNCHANGED <<ret, shut, held, astray, user, owner>>
  BY DEF Unwound
<1>3. Types'
  BY <1>1, <1>2 DEF Types
<1>4. StepInv' /\ Upper'
  <2>1. held \subseteq {"node", "driver"} /\ ("driver" \in held => Unbound)
    BY <1>2 DEF Upper
  <2>2. Unbound => ret = "ok" /\ \E k \in 1..M : D.exit[k] = "driver"
    BY <1>2, UnboundIs DEF FailureInv, Types
  <2> QED
    BY <1>1, <1>2, <2>1, <2>2 DEF StepInv, Upper
<1>5. Lower'
  BY <1>1, <1>2 DEF Lower, FailureInv
<1>6. FailureInv'
  BY <1>1, <1>2 DEF FailureInv, ReleasesWhatItHolds
<1>7. UserInv'
  BY <1>1, <1>2 DEF UserInv, Types
<1> QED
  BY <1>3, <1>4, <1>5, <1>6, <1>7

LEMMA RmmodStep ==
    ASSUME IInv, Rmmod
    PROVE  IInv'
<1> USE DEF IInv
<1>1. /\ driver' = driver /\ D' = D /\ N' = N /\ M' = M /\ Resources' = Resources
      /\ N \in Nat /\ M \in Nat
      /\ failed' = failed /\ (Overlooked' <=> Overlooked) /\ (Unbound' <=> Unbound)
  BY Lengths, Same, SameFailures DEF Rmmod, Types
<1>2. /\ phase = "live" /\ phase' = "exit" /\ step' = 1
      /\ D.hold = "open" => Opened = {}
      /\ UNCHANGED <<ret, shut, held, astray, user, owner>>
  BY DEF Rmmod
<1>3. Types'
  BY <1>1, <1>2 DEF Types
<1>4. StepInv' /\ Upper'
  BY <1>1, <1>2 DEF StepInv, Upper
<1>5. Lower'
  BY <1>1, <1>2 DEF Lower
<1>6. FailureInv'
  BY <1>1, <1>2 DEF FailureInv, ReleasesWhatItHolds
<1>7. UserInv'
  BY <1>1, <1>2 DEF UserInv, Opened
<1> QED
  BY <1>3, <1>4, <1>5, <1>6, <1>7

LEMMA ReleaseStep ==
    ASSUME IInv, Release
    PROVE  IInv'
<1> USE DEF IInv
<1> DEFINE res == D.exit[step]
<1>1. /\ driver' = driver /\ D' = D /\ N' = N /\ M' = M /\ Resources' = Resources
      /\ N \in Nat /\ M \in Nat
      /\ failed' = failed /\ (Overlooked' <=> Overlooked) /\ (Unbound' <=> Unbound)
  BY Lengths, Same, SameFailures DEF Release, Types
<1>2. /\ phase = "exit" /\ step \in 1..M /\ step' = step + 1
      /\ \/ /\ Unbound /\ res # "driver"
            /\ UNCHANGED <<phase, shut, held, astray>>
         \/ /\ ~Unbound \/ res = "driver"
            /\ GiveBack(res) /\ phase' \in Outcome(res)
      /\ UNCHANGED <<ret, user, owner>>
  BY <1>1 DEF Release, StepInv, M
<1>3. \/ /\ Unbound /\ res # "driver"
         /\ phase' = "exit" /\ held' = held /\ astray' = astray
      \/ /\ ~Unbound \/ res = "driver"
         /\ phase' \in {"exit", "oops"} /\ (res \in {"regs", "drvdata"} \ held => phase' = "oops")
         /\ held' = held \ {res}
         /\ astray' = astray \/ (res \notin held /\ astray' = astray \cup {res})
         /\ res = D.entry /\ D.hold = "call" /\ res \in held => Inside = {}
  BY <1>1, <1>2, GiveBackEffect DEF Outcome
<1>4. /\ res \in Resources \cup {"drvdata"} /\ (res = "drvdata" => driver = "mynetwork")
      /\ driver # "my_device" => \A k \in (step + 1)..M : D.exit[k] # res
  <2>1. driver \in Drivers
    BY DEF Types
  <2>2. res \in Resources \cup {"drvdata"} /\ (res = "drvdata" => driver = "mynetwork" \/ "drvdata" \in Resources)
    BY <1>2, <2>1, ExitSteps
  <2>3. "drvdata" \notin Resources
    BY <2>1, InitSteps, Table DEF Resources, Res, N, Sound, Lists
  <2>4. driver # "my_device" => \A k \in (step + 1)..M : D.exit[k] # res
    <3> SUFFICES ASSUME driver # "my_device", NEW k \in (step + 1)..M PROVE D.exit[k] # res
      OBVIOUS
    <3>1. k \in 1..M /\ step < k
      BY <1>1, <1>2
    <3> QED
      BY <1>2, <2>1, <3>1, ExitSteps
  <2> QED
    BY <2>2, <2>3, <2>4
<1> HIDE DEF res
<1>5. Types'
  BY <1>1, <1>2, <1>3, <1>4 DEF Types
<1>6. StepInv'
  BY <1>1, <1>2, <1>3 DEF StepInv
<1>7. Unbound => driver # "my_device" /\ driver = "mynetwork"
  BY UnboundIs DEF Types
<1>8. Upper'
  BY <1>1, <1>2, <1>3 DEF Upper, res
<1>9. D.hold = "call" /\ ~Overlooked /\ ~Unbound /\ D.needs # {} => res = "drvdata" /\ D.needs \subseteq held
  <2> SUFFICES ASSUME D.hold = "call", ~Overlooked, ~Unbound, D.needs # {}
               PROVE  res = "drvdata" /\ D.needs \subseteq held
    OBVIOUS
  <2>1. step = 1 /\ res = "drvdata" /\ driver # "my_device"
    BY <1>1, <1>2, AccessIs DEF UserInv, Types, res
  <2>2. ASSUME NEW x \in D.needs PROVE x \in held
    <3>1. PICK k \in 1..M : D.exit[k] = x
      BY AccessIs DEF Types
    <3> QED
      BY <1>2, <2>1, <3>1, AccessIs DEF Types, Lower
  <2> QED
    BY <2>1, <2>2
<1>10. "drvdata" \notin D.needs /\ (driver = "my_device" => D.hold = "none")
  BY AccessIs DEF Types
<1>11. ~Overlooked /\ driver # "my_device" /\ (~Unbound \/ res = "driver") => res \in held \cup {"drvdata"}
  <2>1. step \in step..M /\ res = D.exit[step]
    BY <1>1, <1>2 DEF res
  <2> QED
    BY <1>2, <2>1 DEF Lower
<1>12. Lower'
  <2> SUFFICES ASSUME ~Overlooked' PROVE Lower'
    BY DEF Lower
  <2>1. ~Overlooked
    BY <1>1
  <2>2. ASSUME phase' = "exit", ~Unbound, driver # "my_device"
        PROVE  \A k \in step'..M : D.exit[k] \in held' \cup {"drvdata"}
    BY <1>1, <1>2, <1>3, <1>4, <2>1, <2>2 DEF Lower
  <2>3. ASSUME phase' = "exit", Unbound PROVE "driver" \in held' \/ \A k \in step'..M : D.exit[k] # "driver"
    <3>1. CASE res = "driver"
      BY <1>2, <1>4, <1>7, <2>3, <3>1
    <3>2. CASE res # "driver"
      BY <1>1, <1>2, <1>3, <2>1, <2>3, <3>2 DEF Lower
    <3> QED
      BY <3>1, <3>2
  <2>4. ASSUME phase' = "oops", ~Unbound, D.hold = "call" PROVE D.needs \subseteq held'
    BY <1>3, <1>9, <1>10, <2>1, <2>4
  <2>5. phase' \in {"exit", "oops"}
    BY <1>3
  <2> QED
    BY <1>1, <2>2, <2>3, <2>4, <2>5 DEF Lower
<1>13. FailureInv'
  BY <1>1, <1>2, <1>3, <1>11 DEF FailureInv, ReleasesWhatItHolds
<1>14. D.hold = "call" /\ D.needs # {} /\ ~Unbound => phase' = "oops"
  <2>1. "drvdata" \notin held
    BY <1>1, InitSteps DEF Types, Resources, Res, N
  <2>2. ASSUME D.hold = "call", D.needs # {}, ~Unbound PROVE res = "drvdata"
    BY <1>1, <1>2, <2>2, AccessIs DEF UserInv, Types, res
  <2> QED
    BY <1>3, <2>1, <2>2
<1>15. UserInv'
  BY <1>1, <1>2, <1>3, <1>14 DEF UserInv, Opened, Inside
<1> QED
  BY <1>5, <1>6, <1>8, <1>12, <1>13, <1>15

LEMMA ExitDoneStep ==
    ASSUME IInv, ExitDone
    PROVE  IInv'
<1> USE DEF IInv
<1>1. /\ driver' = driver /\ D' = D /\ N' = N /\ M' = M /\ Resources' = Resources
      /\ N \in Nat /\ M \in Nat
      /\ failed' = failed /\ (Overlooked' <=> Overlooked) /\ (Unbound' <=> Unbound)
  BY Lengths, Same, SameFailures DEF ExitDone, Types
<1>2. /\ phase = "exit" /\ step = M + 1 /\ phase' = "absent" /\ step' = 0
      /\ UNCHANGED <<ret, shut, held, astray, user, owner>>
  BY <1>1 DEF ExitDone, M, StepInv
<1>3. Types'
  BY <1>1, <1>2 DEF Types
<1>4. StepInv' /\ Upper'
  BY <1>1, <1>2 DEF StepInv, Upper
<1>5. Lower'
  BY <1>1, <1>2 DEF Lower
<1>6. FailureInv'
  BY <1>1, <1>2 DEF FailureInv, ReleasesWhatItHolds
<1>7. UserInv'
  BY <1>1, <1>2 DEF UserInv, Opened
<1> QED
  BY <1>3, <1>4, <1>5, <1>6, <1>7

LEMMA ShutStep ==
    ASSUME IInv, Shut \/ UNCHANGED vars
    PROVE  IInv'
<1> USE DEF IInv
<1>1. UNCHANGED <<driver, phase, step, ret, held, failed, astray, user, owner>>
  BY DEF Shut, vars, load
<1>2. /\ D' = D /\ N' = N /\ M' = M /\ Resources' = Resources /\ (Overlooked' <=> Overlooked) /\ (Unbound' <=> Unbound)
  BY <1>1, Same, SameFailures
<1>3. Types' /\ StepInv' /\ Lower'
  BY <1>1, <1>2 DEF Types, StepInv, Lower, Res, Given
<1>4. Upper' /\ FailureInv' /\ UserInv'
  BY <1>1, <1>2 DEF Upper, FailureInv, ReleasesWhatItHolds, UserInv, Opened, Res, Given
<1> QED
  BY <1>3, <1>4
---------------------------------------------------------------------------
(* What a user does: it gets in, calls, waits for the mutex, returns and   *)
(* closes, and touches nothing that insmod and rmmod look after.           *)
LEMMA UserStep ==
    ASSUME IInv, NEW u \in Users, Open(u) \/ Call(u) \/ Operation(u) \/ Close(u)
    PROVE  IInv'
<1> USE DEF IInv
<1>1. UNCHANGED <<driver, phase, step, ret, held, failed, astray>>
  BY DEF Open, Call, Operation, Lock, Return, Close, load
<1>2. /\ D' = D /\ N' = N /\ M' = M /\ Resources' = Resources /\ (Overlooked' <=> Overlooked) /\ (Unbound' <=> Unbound)
  BY <1>1, Same, SameFailures
<1>3. /\ user' \in [Users -> {"closed", "open", "lock", "inside"}] /\ owner' \subseteq Users
      /\ \A v \in Users : v # u => user'[v] = user[v]
  BY DEF Types, Open, Call, Operation, Lock, Return, Close
<1>4. Types' /\ StepInv' /\ Lower'
  BY <1>1, <1>2, <1>3 DEF Types, StepInv, Lower, Res, Given
<1>5. Upper' /\ FailureInv'
  BY <1>1, <1>2 DEF Upper, FailureInv, ReleasesWhatItHolds, Res, Given
<1>6. UserInv'
  <2>1. ASSUME D.hold = "open", phase \in {"exit", "oops"} \/ (phase = "absent" /\ ret = "ok")
        PROVE  Opened' = {}
    <3>1. Opened = {}
      BY <2>1 DEF UserInv
    <3>2. user[u] = "closed"
      BY <3>1 DEF Opened, Types
    <3>3. phase = "absent"
      BY <2>1, <3>2 DEF Open, Call, Operation, Lock, Return, Close
    <3>4. D.entry \notin held
      BY <3>3, AccessIs DEF Upper, Types
    <3> QED
      BY <3>2, <3>4 DEF Open, Call, Operation, Lock, Return, Close
  <2>2. ASSUME D.hold = "call"
        PROVE  user'[u] # "lock" /\ (user'[u] = "inside" => D.entry \in held)
    <3>1. ~D.locks /\ user[u] # "lock" /\ user \in [Users -> {"closed", "open", "lock", "inside"}]
      BY <2>2, AccessIs DEF Types, UserInv
    <3> QED
      BY <2>2, <3>1 DEF Open, Call, Operation, Lock, Return, Close
  <2> QED
    BY <1>1, <1>2, <1>3, <2>1, <2>2 DEF UserInv
<1> QED
  BY <1>4, <1>5, <1>6
---------------------------------------------------------------------------
LEMMA NextIInv == IInv /\ [Next]_vars => IInv'
BY InsmodStep, AcquireStep, FailStep, GiveInInitStep, InitDoneStep, UnwindStep, UnwoundStep,
   RmmodStep, ReleaseStep, ExitDoneStep, ShutStep, UserStep
   DEF Next, Loading, Unloading

(* newchrdevbase.c and the others: the invariant the theorems rest on.     *)
THEOREM Invariance == Spec => []IInv
BY InitIInv, NextIInv, PTL DEF Spec

(* newchrdevbase.c:212-236, dtsofled.c, mynetwork.c and the others: wherever *)
(* init stops, and after every exit, only the reference to the device tree *)
(* node stays behind, for any number of users and of loads and removals.   *)
THEOREM NothingStaysBehind == Spec => []NothingLeftBehind
<1>1. IInv => NothingLeftBehind
  BY DEF IInv, Upper, NothingLeftBehind
<1> QED
  BY <1>1, Invariance, PTL

(* The labels and exit functions of the drivers: only what is held is given *)
(* back, unless init overlooked a failure, in all drivers but my_device;   *)
(* mynetwork's driver data, which it never had, is left out.               *)
THEOREM GivesBackOnce == Spec => []ReleasesWhatItHolds
<1>1. IInv => ReleasesWhatItHolds
  BY DEF IInv, FailureInv
<1> QED
  BY <1>1, Invariance, PTL

(* The fops of the drivers: no operation runs in a module that is gone, or *)
(* without what it uses, but in the cases the property names.              *)
THEOREM OperationsAreSafe == Spec => []OperationsFindWhatTheyNeed
<1>1. ASSUME IInv, Inside # {} PROVE phase = "absent" => D.hold = "none" \/ ret # "ok"
  <2> SUFFICES ASSUME phase = "absent", D.hold # "none", ret = "ok" PROVE FALSE
    OBVIOUS
  <2>1. CASE D.hold = "open"
    BY <1>1, <2>1 DEF IInv, UserInv, Opened, Inside
  <2>2. CASE D.hold = "call"
    BY <1>1, <2>2, AccessIs DEF IInv, UserInv, Upper, Inside, Types
  <2> QED
    BY <1>1, <2>1, <2>2, AccessIs DEF IInv, Types
<1>2. ASSUME IInv, Inside # {}, ~(D.needs \subseteq held) PROVE phase = "init" \/ failed # {}
  <2> SUFFICES ASSUME phase # "init", failed = {} PROVE FALSE
    OBVIOUS
  <2>1. /\ ~Overlooked /\ ~Unbound /\ phase \in {"absent", "live", "exit", "oops"} /\ ret = "ok"
        /\ D.hold \in {"open", "call"} /\ driver # "my_device"
    BY <1>2, AccessIs DEF IInv, Types, FailureInv, Overlooked, Unbound
  <2>2. D.needs \subseteq held
    <3>1. CASE phase = "live"
      BY <1>2, <2>1, <3>1, AccessIs DEF IInv, Types, Lower
    <3>2. CASE phase = "exit" /\ D.hold = "call"
      <4>1. step = 1
        BY <1>2, <2>1, <3>2 DEF IInv, UserInv
      <4> QED
        BY <1>2, <2>1, <3>2, <4>1, AccessIs DEF IInv, Types, Lower
    <3>3. CASE phase = "oops" /\ D.hold = "call"
      BY <1>2, <2>1, <3>3 DEF IInv, Lower
    <3> QED
      BY <1>1, <1>2, <2>1, <3>1, <3>2, <3>3 DEF IInv, UserInv, Opened, Inside
  <2> QED
    BY <1>2, <2>2
<1>3. IInv => OperationsFindWhatTheyNeed
  BY <1>1, <1>2 DEF OperationsFindWhatTheyNeed
<1> QED
  BY <1>3, Invariance, PTL

(* The init and exit functions: the variables keep their types.            *)
THEOREM TypesKept == Spec => []TypeOK
<1>1. Init => shut \in BOOLEAN
  BY DEF Init
<1>2. shut \in BOOLEAN /\ [Next]_vars => (shut \in BOOLEAN)'
  BY DEF Next, Loading, Unloading, Insmod, Acquire, Fail, GiveInInit, InitDone, Unwind, Unwound,
         Rmmod, Release, ExitDone, Shut, Open, Call, Operation, Lock, Return, Close, GiveBack,
         vars, load
<1>3. IInv /\ shut \in BOOLEAN => TypeOK
  BY DEF IInv, Types, TypeOK, N, M
<1> QED
  BY <1>1, <1>2, <1>3, Invariance, PTL DEF Spec
=============================================================================
