--------------------------- MODULE Provision_proofs ---------------------------
(***************************************************************************)
(* Proofs about installing a plan command by command, for any catalog, any  *)
(* machines and plans, and any number of runs and mishaps.                  *)
(***************************************************************************)
EXTENDS Coverage, CatalogDev, TLAPS

-----------------------------------------------------------------------------
(* Types                                                                   *)

(* The module whose turn it is has an install, of so many steps.           *)
LEMMA TurnSteps ==
  ASSUME machine \in Machines, plan \in Plans[machine.os], at \in Nat, Running
  PROVE  /\ at \in 1..Len(plan) /\ Len(plan) \in Nat /\ plan[at] \in Planned
         /\ Len(Turn.steps) \in Nat /\ DOMAIN Turn.steps = 1..Len(Turn.steps)
         /\ \A i \in DOMAIN Turn.steps :
              Turn.steps[i].over \in Nat \ {0} /\ i + Turn.steps[i].over <= Len(Turn.steps) + 1
<1>1. plan \in Seq(DOMAIN Recipe[machine.os])
  BY PlansAssumption
<1>2. at \in 1..Len(plan) /\ Len(plan) \in Nat /\ at \in DOMAIN plan
  BY <1>1 DEF Running
<1>3. plan[at] \in DOMAIN Recipe[machine.os]
  BY <1>1, <1>2
<1>. QED
  BY <1>2, <1>3, RecipesAssumption DEF Turn, Entry, Planned

LEMMA InitTypes == Init => TypeOK
<1>. SUFFICES ASSUME Init
              PROVE  TypeOK
  OBVIOUS
<1>1. plan \in Seq(DOMAIN Recipe[machine.os])
  BY PlansAssumption DEF Init
<1>2. at \in 0..(Len(plan) + 1) /\ ~Running
  BY <1>1 DEF Init, Running
<1>3. step \in 0..(IF Running THEN Len(Turn.steps) + 1 ELSE 0)
  BY <1>2 DEF Init
<1>4. runs \in 0..MaxRuns /\ mishaps \in [faults: 0..MaxMishaps, kills: 0..MaxMishaps]
  BY BoundsAssumption DEF Init, NoMishap
<1>. QED
  BY <1>2, <1>3, <1>4 DEF Init, TypeOK

(* Another module's turn starts before its first step.                     *)
LEMMA GoOnTypes ==
  ASSUME TypeOK, Running, GoOn, UNCHANGED <<machine, plan>>
  PROVE  /\ at' \in 0..(Len(plan') + 1)
         /\ step' \in 0..(IF Running' THEN Len(Turn'.steps) + 1 ELSE 0)
<1>1. /\ machine \in Machines /\ plan \in Plans[machine.os] /\ at \in Nat
      /\ at' = at + 1 /\ step' = 0
  <2>1. plan \in Seq(DOMAIN Recipe[machine.os])
    BY PlansAssumption DEF TypeOK
  <2>. QED
    BY <2>1 DEF TypeOK, GoOn
<1>2. at' \in 0..(Len(plan') + 1)
  BY <1>1, TurnSteps
<1>3. Running' => Len(Turn'.steps) \in Nat
  BY <1>1, RecipesAssumption, PlansAssumption DEF Running, Turn, Entry
<1>. QED
  BY <1>1, <1>2, <1>3

(* A step of the install leads to a later one, or past the last.           *)
LEMMA StepTypes ==
  ASSUME TypeOK, Running, UNCHANGED <<machine, plan, at>>,
         step' \in 0..(Len(Turn.steps) + 1)
  PROVE  /\ at' \in 0..(Len(plan') + 1)
         /\ step' \in 0..(IF Running' THEN Len(Turn'.steps) + 1 ELSE 0)
BY DEF TypeOK, Running, Turn, Entry

(* A run that is not under way is at no step.                              *)
LEMMA RestTypes ==
  ASSUME TypeOK, at' = 0, step' = 0, UNCHANGED plan
  PROVE  /\ at' \in 0..(Len(plan') + 1)
         /\ step' \in 0..(IF Running' THEN Len(Turn'.steps) + 1 ELSE 0)
BY DEF TypeOK, Running

LEMMA NextTypes == TypeOK /\ [Next]_vars => TypeOK'
<1>. SUFFICES ASSUME TypeOK, [Next]_vars
              PROVE  TypeOK'
  OBVIOUS
<1>a. /\ machine \in Machines /\ plan \in Plans[machine.os] /\ Len(plan) \in Nat /\ at \in Nat
      /\ step \in Nat /\ failed \subseteq Planned /\ runs \in 0..MaxRuns
      /\ mishaps \in [faults: 0..MaxMishaps, kills: 0..MaxMishaps] /\ clean \in BOOLEAN
  <2>1. plan \in Seq(DOMAIN Recipe[machine.os])
    BY PlansAssumption DEF TypeOK
  <2>2. Running => Len(Turn.steps) \in Nat
    <3>1. at \in Nat
      BY <2>1 DEF TypeOK
    <3>. QED
      BY <3>1, TurnSteps DEF TypeOK
  <2>. QED
    BY <2>1, <2>2 DEF TypeOK
<1>b. Running => /\ plan[at] \in Planned /\ step \in 0..(Len(Turn.steps) + 1)
                 /\ Len(Turn.steps) \in Nat /\ DOMAIN Turn.steps = 1..Len(Turn.steps)
                 /\ \A i \in DOMAIN Turn.steps :
                      /\ Turn.steps[i].over \in Nat \ {0}
                      /\ i + Turn.steps[i].over <= Len(Turn.steps) + 1
  BY <1>a, TurnSteps DEF TypeOK
<1>. DEFINE AtTypes == /\ at \in 0..(Len(plan) + 1)
                       /\ step \in 0..(IF Running THEN Len(Turn.steps) + 1 ELSE 0)
            Counters == /\ runs \in 0..MaxRuns /\ clean \in BOOLEAN
                        /\ mishaps \in [faults: 0..MaxMishaps, kills: 0..MaxMishaps]
<1>c. UNCHANGED <<machine, plan>>
  BY DEF Next, Begin, Skip, Cascade, AlreadyInstalled, Install, StepLeftOut, StepWorks,
         StepLacks, StepFails, Verify, Kill, Finish, Supply, vars
<1>d. AtTypes' /\ failed' \subseteq Planned /\ Counters' => TypeOK'
  BY <1>a, <1>c DEF TypeOK, Planned
<1>e. Running /\ Fail => AtTypes' /\ failed' \subseteq Planned
  BY <1>a, <1>b, <1>c, GoOnTypes DEF Fail
<1>f. Running /\ GoOn => AtTypes'
  BY <1>c, GoOnTypes
<1>1. CASE Begin
  <2>1. at' = 1 /\ step' = 0 /\ AtTypes'
    <3>1. Running' => Len(Turn'.steps) \in Nat
      BY <1>a, <1>c, <1>1, TurnSteps DEF Begin
    <3>. QED
      BY <1>a, <1>c, <1>1, <3>1 DEF Begin
  <2>2. failed' \subseteq Planned /\ Counters'
    BY <1>a, <1>1, BoundsAssumption DEF Begin
  <2>. QED
    BY <1>d, <2>1, <2>2
<1>2. CASE Skip \/ AlreadyInstalled
  <2>1. Running /\ GoOn /\ UNCHANGED failed /\ Counters'
    BY <1>a, <1>2 DEF Skip, AlreadyInstalled, Ready
  <2>. QED
    BY <1>a, <1>d, <1>f, <2>1
<1>3. CASE Cascade
  <2>1. Running /\ Fail /\ Counters'
    BY <1>a, <1>3 DEF Cascade
  <2>. QED
    BY <1>d, <1>e, <2>1
<1>4. CASE Install
  <2>1. Running /\ step' = 1 /\ UNCHANGED <<at, failed>> /\ Counters'
    BY <1>a, <1>4 DEF Install, Ready
  <2>2. AtTypes'
    BY <1>b, <1>c, <2>1, StepTypes
  <2>. QED
    BY <1>a, <1>d, <2>1, <2>2
<1>5. CASE StepLeftOut \/ StepWorks
  <2>1. Stepping /\ UNCHANGED <<at, failed>> /\ Counters'
        /\ (step' = step + 1 \/ step' = step + Turn.steps[step].over)
    BY <1>a, <1>5 DEF StepLeftOut, StepWorks, Executing, Now
  <2>2. Running /\ step' \in 0..(Len(Turn.steps) + 1)
    <3>. DEFINE over == Turn.steps[step].over
                last == Len(Turn.steps)
    <3>1. /\ Running /\ last \in Nat /\ step \in 1..last
          /\ over \in Nat /\ step + over <= last + 1
      BY <1>b, <2>1 DEF Stepping
    <3>2. step' = step + 1 \/ step' = step + over
      BY <2>1
    <3>. HIDE DEF over, last
    <3>3. step' \in 0..(last + 1)
      BY <3>1, <3>2
    <3>. QED
      BY <3>1, <3>3 DEF last
  <2>3. AtTypes'
    BY <1>c, <2>1, <2>2, StepTypes
  <2>. QED
    BY <1>a, <1>d, <2>1, <2>3
<1>6. CASE StepLacks \/ StepFails
  <2>1. Stepping /\ Running
    BY <1>6 DEF StepLacks, StepFails, Executing, Stepping
  <2>2. \/ Fail
        \/ step' \in {step + 1, Len(Turn.steps) + 1} /\ UNCHANGED <<at, failed>>
    BY <1>6 DEF StepLacks, StepFails, GoesWrong
  <2>3. Counters'
    <3>1. CASE StepLacks
      BY <1>a, <3>1 DEF StepLacks
    <3>2. CASE StepFails
      <4>1. mishaps.faults + mishaps.kills < MaxMishaps
            /\ mishaps' = [mishaps EXCEPT !.faults = mishaps.faults + 1]
        BY <3>2 DEF StepFails, MishapLeft
      <4>2. mishaps' \in [faults: 0..MaxMishaps, kills: 0..MaxMishaps]
        BY <1>a, <4>1, BoundsAssumption
      <4>3. runs' \in 0..MaxRuns /\ clean' \in BOOLEAN
        BY <1>a, <3>2 DEF StepFails
      <4>. QED
        BY <4>2, <4>3
    <3>. QED
      BY <1>6, <3>1, <3>2
  <2>4. CASE Fail
    BY <1>d, <1>e, <2>1, <2>3, <2>4
  <2>5. CASE step' \in {step + 1, Len(Turn.steps) + 1} /\ UNCHANGED <<at, failed>>
    <3>1. step' \in 0..(Len(Turn.steps) + 1)
      BY <1>a, <1>b, <2>1, <2>5 DEF Stepping
    <3>2. AtTypes'
      BY <1>c, <2>1, <2>5, <3>1, StepTypes
    <3>. QED
      BY <1>a, <1>d, <2>3, <2>5, <3>2
  <2>. QED
    BY <2>2, <2>4, <2>5
<1>7. CASE Verify
  <2>1. Running /\ Counters' /\ (Fail \/ (GoOn /\ UNCHANGED failed))
    BY <1>a, <1>7 DEF Verify
  <2>. QED
    BY <1>a, <1>d, <1>e, <1>f, <2>1
<1>8. CASE Kill
  <2>1. mishaps.faults + mishaps.kills < MaxMishaps
        /\ mishaps' = [mishaps EXCEPT !.kills = mishaps.kills + 1]
    BY <1>8 DEF Kill, MishapLeft
  <2>2. mishaps' \in [faults: 0..MaxMishaps, kills: 0..MaxMishaps]
    BY <1>a, <2>1, BoundsAssumption
  <2>3. at' = 0 /\ step' = 0 /\ UNCHANGED <<failed, runs>> /\ clean' = FALSE
    BY <1>8 DEF Kill
  <2>. QED
    BY <1>a, <1>c, <1>d, <2>2, <2>3, RestTypes
<1>9. CASE Finish
  <2>1. at' = 0 /\ step' = 0 /\ UNCHANGED failed /\ Counters'
    BY <1>a, <1>9 DEF Finish
  <2>. QED
    BY <1>a, <1>c, <1>d, <2>1, RestTypes
<1>10. CASE Supply \/ UNCHANGED vars
  <2>1. UNCHANGED <<machine, plan, at, step, failed>> /\ Counters'
    BY <1>a, <1>10 DEF Supply, vars
  <2>2. AtTypes'
    BY <2>1 DEF TypeOK, Running, Turn, Entry
  <2>. QED
    BY <1>a, <1>d, <2>1, <2>2
<1>. QED
  BY <1>1, <1>2, <1>3, <1>4, <1>5, <1>6, <1>7, <1>8, <1>9, <1>10 DEF Next

(* Every variable has its type, and no install goes on past its last step. *)
THEOREM TypeCorrect == Spec => []TypeOK
BY InitTypes, NextTypes, PTL DEF Spec

-----------------------------------------------------------------------------
(* The firewall                                                            *)

(* Step j of an install lets ssh in before step i shuts the rest out: it is *)
(* never left out, needs no more than that one, and if it lacked something *)
(* nothing in between has brought it.                                      *)
LetsInFirst(steps, j, i) ==
  /\ j < i /\ "ufw.allow-ssh" \in steps[j].gives
  /\ \A h \in 1..j : steps[h].unless = {}
  /\ steps[j].needs \subseteq steps[i].needs
  /\ \A h \in (j + 1)..(i - 1) : steps[h].gives \cap steps[j].needs = {}

(* In every install of the catalog that turns the firewall on; none takes  *)
(* the rule away, and no machine or user brings the one without the other. *)
OpensFirst ==
  /\ \A mach \in Machines : \A name \in DOMAIN Recipe[mach.os] :
       LET steps == Recipe[mach.os][name].steps
       IN \A i \in DOMAIN steps :
            /\ "ufw.allow-ssh" \notin steps[i].takes \cup steps[i].torn
            /\ "ufw.active" \in steps[i].gives =>
                 \E j \in DOMAIN steps : LetsInFirst(steps, j, i)
  /\ \A mach \in Machines :
       "ufw.active" \in Shipped[mach] => "ufw.allow-ssh" \in Shipped[mach]
  /\ "ufw.active" \in UserFacts => "ufw.allow-ssh" \in UserFacts

(* The catalog's one install that turns it on does: the fourth step lets    *)
(* ssh in, the sixth turns the firewall on, and both need ufw.             *)
LEMMA ServerFirewallOpensFirst ==
  ASSUME NEW os
  PROVE  LET steps == ServerFirewall(os).steps
         IN /\ "ufw.active" \in steps[6].gives /\ LetsInFirst(steps, 4, 6)
            /\ \A i \in 1..8 : "ufw.active" \in steps[i].gives => i = 6
<1>. DEFINE steps == ServerFirewall(os).steps
<1>1. steps = << Do({}, {"ufw"}),
                 Try({"ufw"}, {"ufw.deny-incoming"}), Try({"ufw"}, {"ufw.allow-outgoing"}),
                 Try({"ufw"}, {"ufw.allow-ssh"}), Try({"ufw"}, {"ufw.allow-tailnet"}),
                 Try({"ufw"}, {"ufw.active"}),
                 Try({}, {"rpcbind.disabled"}), Try({}, {"rpcbind.masked"}) >>
  BY DEF ServerFirewall, Only, Mod
<1>2. \A needs, gives :
        /\ Do(needs, gives).needs = needs /\ Do(needs, gives).gives = gives
        /\ Do(needs, gives).unless = {}
        /\ Try(needs, gives).needs = needs /\ Try(needs, gives).gives = gives
        /\ Try(needs, gives).unless = {}
  BY DEF Do, Try, Step
<1>. HIDE DEF steps
<1>4. /\ steps[1] = Do({}, {"ufw"})
      /\ steps[2] = Try({"ufw"}, {"ufw.deny-incoming"})
      /\ steps[3] = Try({"ufw"}, {"ufw.allow-outgoing"})
      /\ steps[4] = Try({"ufw"}, {"ufw.allow-ssh"})
      /\ steps[5] = Try({"ufw"}, {"ufw.allow-tailnet"})
      /\ steps[6] = Try({"ufw"}, {"ufw.active"})
      /\ steps[7] = Try({}, {"rpcbind.disabled"}) /\ steps[8] = Try({}, {"rpcbind.masked"})
  BY <1>1
<1>5. /\ steps[4].gives = {"ufw.allow-ssh"} /\ steps[4].needs = {"ufw"}
      /\ steps[5].gives = {"ufw.allow-tailnet"}
      /\ steps[6].gives = {"ufw.active"} /\ steps[6].needs = {"ufw"}
  BY <1>2, <1>4
<1>6. \A h \in 1..4 : steps[h].unless = {}
  BY <1>2, <1>4
<1>7. LetsInFirst(steps, 4, 6)
  BY <1>5, <1>6 DEF LetsInFirst
<1>8. \A i \in 1..8 : "ufw.active" \in steps[i].gives => i = 6
  BY <1>2, <1>4
<1>. QED
  BY <1>5, <1>7, <1>8 DEF steps

(* Between the two: ssh is let in, or what both need is missing.           *)
BetweenInv ==
  mishaps.faults = 0 /\ Running /\ step > 0 =>
    \A j, i \in DOMAIN Turn.steps :
      LetsInFirst(Turn.steps, j, i) /\ j < step /\ step <= i =>
        "ufw.allow-ssh" \in facts \/ ~(Turn.steps[j].needs \subseteq facts)

FirewallInv == TypeOK /\ SshStaysOpen /\ BetweenInv

(* What the steps of an install do to the facts.                           *)
LEMMA StepKeepsOpen ==
  ASSUME OpensFirst, FirewallInv, StepWorks
  PROVE  SshStaysOpen' /\ BetweenInv'
<1>. DEFINE steps == Turn.steps
<1>1. Running /\ step \in DOMAIN steps /\ Now = steps[step] /\ Now.needs \subseteq facts
  BY DEF StepWorks, Executing, Stepping, Now, Able
<1>2. /\ facts' = (facts \cup Now.gives) \ Now.takes
      /\ step' = step + 1 /\ UNCHANGED <<machine, plan, at, mishaps>>
  BY DEF StepWorks
<1>3. /\ machine \in Machines /\ plan[at] \in DOMAIN Recipe[machine.os]
      /\ step \in Nat /\ DOMAIN steps \subseteq Nat
  <2>1. machine \in Machines /\ plan \in Seq(DOMAIN Recipe[machine.os])
    BY PlansAssumption DEF FirewallInv, TypeOK
  <2>2. at \in Nat
    BY <2>1 DEF FirewallInv, TypeOK
  <2>3. DOMAIN steps = 1..Len(steps) /\ Len(steps) \in Nat
    BY <1>1, <2>2, TurnSteps DEF FirewallInv, TypeOK
  <2>. QED
    BY <1>1, <2>1, <2>2, <2>3 DEF Running
<1>4. /\ "ufw.allow-ssh" \notin Now.takes
      /\ "ufw.active" \in Now.gives => \E j \in DOMAIN steps : LetsInFirst(steps, j, step)
  BY <1>1, <1>3 DEF OpensFirst, Turn, Entry
<1>5. ASSUME mishaps.faults = 0
      PROVE  "ufw.active" \in facts' => "ufw.allow-ssh" \in facts'
  <2>1. CASE "ufw.active" \in facts
    BY <1>2, <1>4, <1>5, <2>1 DEF FirewallInv, SshStaysOpen
  <2>2. CASE "ufw.active" \in Now.gives
    <3>1. PICK j \in DOMAIN steps : LetsInFirst(steps, j, step)
      BY <1>4, <2>2
    <3>2. j < step /\ steps[j].needs \subseteq facts
      BY <1>1, <3>1 DEF LetsInFirst
    <3>3. "ufw.allow-ssh" \in facts
      BY <1>1, <1>3, <1>5, <3>1, <3>2 DEF FirewallInv, BetweenInv
    <3>. QED
      BY <1>2, <1>4, <3>3
  <2>. QED
    BY <1>2, <2>1, <2>2
<1>6. ASSUME mishaps.faults = 0,
             NEW j \in DOMAIN steps, NEW i \in DOMAIN steps,
             LetsInFirst(steps, j, i), j < step + 1, step + 1 <= i
      PROVE  "ufw.allow-ssh" \in facts' \/ ~(steps[j].needs \subseteq facts')
  <2>1. j \in Nat /\ i \in Nat
    BY <1>3
  <2>2. CASE j = step
    BY <1>1, <1>2, <1>4, <1>6, <2>2 DEF LetsInFirst
  <2>3. CASE j < step
    <3>1. "ufw.allow-ssh" \in facts \/ ~(steps[j].needs \subseteq facts)
      BY <1>1, <1>3, <1>6, <2>1, <2>3 DEF FirewallInv, BetweenInv
    <3>2. step \in (j + 1)..(i - 1)
      BY <1>3, <1>6, <2>1, <2>3
    <3>3. Now.gives \cap steps[j].needs = {}
      BY <1>1, <1>6, <3>2 DEF LetsInFirst
    <3>. QED
      BY <1>2, <1>4, <3>1, <3>3
  <2>. QED
    BY <1>3, <1>6, <2>1, <2>2, <2>3
<1>7. SshStaysOpen'
  BY <1>2, <1>5 DEF SshStaysOpen
<1>8. BetweenInv'
  <2>1. Turn' = Turn /\ mishaps' = mishaps
    BY <1>2 DEF Turn, Entry
  <2>. QED
    BY <1>2, <1>6, <2>1 DEF BetweenInv
<1>. QED
  BY <1>7, <1>8

(* A step that is passed over: nothing is let in, and nothing shut out.    *)
LEMMA PassedOver ==
  ASSUME FirewallInv, StepLeftOut \/ StepLacks
  PROVE  BetweenInv'
<1>. DEFINE steps == Turn.steps
<1>1. Running /\ step \in DOMAIN steps /\ Now = steps[step]
  BY DEF StepLeftOut, StepLacks, Stepping, Now
<1>2. UNCHANGED <<machine, plan, facts, mishaps>>
  BY DEF StepLeftOut, StepLacks
<1>3. /\ step \in Nat /\ Len(steps) \in Nat /\ DOMAIN steps = 1..Len(steps)
      /\ Now.over \in Nat
  <2>1. at \in Nat
    BY PlansAssumption DEF FirewallInv, TypeOK
  <2>. QED
    BY <1>1, <2>1, TurnSteps DEF FirewallInv, TypeOK
<1>4. CASE step' = 0
  BY <1>4 DEF BetweenInv
<1>5. CASE UNCHANGED at
  <2>1. Turn' = Turn /\ Running' = Running
    BY <1>2, <1>5 DEF Turn, Entry, Running
  <2>next. step' \in Nat /\ step <= step'
    <3>1. CASE StepLeftOut
      BY <1>3, <3>1 DEF StepLeftOut
    <3>2. CASE StepLacks
      <4>1. at \in Nat
        BY DEF FirewallInv, TypeOK
      <4>2. step' = step + 1 \/ step' = Len(steps) + 1
        BY <1>5, <3>2, <4>1 DEF StepLacks, GoesWrong, Fail, GoOn
      <4>3. step <= Len(steps)
        BY <1>1, <1>3
      <4>. QED
        BY <1>3, <4>2, <4>3
    <3>. QED
      BY <3>1, <3>2
  <2>2. ASSUME mishaps.faults = 0,
               NEW j \in DOMAIN steps, NEW i \in DOMAIN steps,
               LetsInFirst(steps, j, i), j < step', step' <= i
        PROVE  "ufw.allow-ssh" \in facts \/ ~(steps[j].needs \subseteq facts)
    <3>0. j \in Nat /\ i \in Nat /\ i <= Len(steps) /\ j >= 1 /\ step >= 1
      BY <1>1, <1>3
    <3>1. CASE j < step
      <4>1. step' \in Nat /\ step <= step'
        BY <2>next
      <4>2. j < step /\ step <= i /\ step > 0
        BY <1>3, <2>2, <3>0, <3>1, <4>1
      <4>. QED
        BY <1>1, <2>2, <4>2 DEF FirewallInv, BetweenInv
    <3>2. CASE step <= j
      <4>1. ~LeftOut(Now)
        <5>1. step \in 1..j
          BY <1>3, <3>0, <3>2
        <5>. QED
          BY <1>1, <2>2, <5>1 DEF LetsInFirst, LeftOut
      <4>2. StepLacks /\ ~Able(Now)
        BY <4>1 DEF StepLeftOut, StepLacks
      <4>3. step' = step + 1 \/ step' = Len(steps) + 1
        <5>1. at' # at + 1
          BY <1>5, PlansAssumption DEF FirewallInv, TypeOK
        <5>. QED
          BY <4>2, <5>1 DEF StepLacks, GoesWrong, Fail, GoOn
      <4>4. j = step
        BY <1>3, <2>2, <3>0, <3>2, <4>3
      <4>. QED
        BY <1>1, <4>2, <4>4 DEF Able
    <3>. QED
      BY <1>3, <3>0, <3>1, <3>2
  <2>. QED
    BY <1>2, <2>1, <2>2 DEF BetweenInv
<1>. QED
  BY <1>4, <1>5 DEF StepLeftOut, StepLacks, GoesWrong, Fail, GoOn

LEMMA FirewallNext ==
  ASSUME OpensFirst, FirewallInv, [Next]_vars
  PROVE  FirewallInv'
<1>1. TypeOK'
  BY NextTypes DEF FirewallInv
<1>2. CASE StepWorks
  BY <1>1, <1>2, StepKeepsOpen DEF FirewallInv
<1>3. CASE StepLeftOut \/ StepLacks
  <2>1. UNCHANGED <<facts, mishaps>>
    BY <1>3 DEF StepLeftOut, StepLacks
  <2>2. SshStaysOpen'
    BY <2>1 DEF FirewallInv, SshStaysOpen
  <2>. QED
    BY <1>1, <1>3, <2>2, PassedOver DEF FirewallInv
<1>4. CASE StepFails
  <2>1. mishaps'.faults # 0
    <3>1. /\ mishaps' = [mishaps EXCEPT !.faults = mishaps.faults + 1]
          /\ mishaps.faults \in Nat /\ mishaps \in [faults: 0..MaxMishaps, kills: 0..MaxMishaps]
      BY <1>4, BoundsAssumption DEF StepFails, FirewallInv, TypeOK
    <3>2. mishaps'.faults = mishaps.faults + 1
      BY <3>1
    <3>. QED
      BY <3>1, <3>2
  <2>. QED
    BY <1>1, <2>1 DEF FirewallInv, SshStaysOpen, BetweenInv
<1>5. CASE Kill
  <2>1. /\ step' = 0 /\ mishaps'.faults = mishaps.faults
        /\ facts' = facts \/ facts' = facts \ Now.torn
    BY <1>5 DEF Kill, FirewallInv, TypeOK
  <2>2. "ufw.allow-ssh" \notin Now.torn
    <3>1. /\ machine \in Machines /\ plan \in Seq(DOMAIN Recipe[machine.os])
          /\ Running /\ step \in DOMAIN Turn.steps
      BY <1>5, PlansAssumption DEF Kill, Executing, Stepping, FirewallInv, TypeOK
    <3>2. plan[at] \in DOMAIN Recipe[machine.os]
      BY <3>1 DEF Running, FirewallInv, TypeOK
    <3>. QED
      BY <3>1, <3>2 DEF OpensFirst, Now, Turn, Entry
  <2>3. SshStaysOpen'
    BY <2>1, <2>2 DEF FirewallInv, SshStaysOpen
  <2>. QED
    BY <1>1, <2>1, <2>3 DEF FirewallInv, BetweenInv
<1>6. CASE Begin \/ Skip \/ Cascade \/ AlreadyInstalled \/ Install \/ Verify \/ Finish
  <2>1. UNCHANGED <<facts, mishaps>>
    BY <1>6 DEF Begin, Skip, Cascade, AlreadyInstalled, Install, Verify, Finish
  <2>2. step' \in {0, 1}
    BY <1>6 DEF Begin, Skip, Cascade, AlreadyInstalled, Install, Verify, Finish, Fail, GoOn
  <2>3. BetweenInv'
    <3>1. CASE step' = 0
      BY <3>1 DEF BetweenInv
    <3>2. CASE step' = 1
      <4>1. ASSUME Running', NEW j \in DOMAIN Turn'.steps
            PROVE  ~(j < 1)
        <5>1. /\ machine' \in Machines /\ plan' \in Seq(DOMAIN Recipe[machine'.os])
              /\ at' \in 1..Len(plan')
          BY <1>1, <4>1, PlansAssumption DEF TypeOK, Running
        <5>2. plan'[at'] \in DOMAIN Recipe[machine'.os]
          BY <5>1
        <5>3. DOMAIN Turn'.steps = 1..Len(Turn'.steps) /\ Len(Turn'.steps) \in Nat
          BY <5>1, <5>2, RecipesAssumption DEF Turn, Entry
        <5>. QED
          BY <4>1, <5>3
      <4>. QED
        BY <3>2, <4>1 DEF BetweenInv
    <3>. QED
      BY <2>2, <3>1, <3>2
  <2>4. SshStaysOpen'
    BY <2>1 DEF FirewallInv, SshStaysOpen
  <2>. QED
    BY <1>1, <2>3, <2>4 DEF FirewallInv
<1>7. CASE Supply
  <2>1. facts' = facts \cup UserFacts /\ mishaps' = mishaps /\ at' = 0
    BY <1>7 DEF Supply
  <2>2. SshStaysOpen'
    BY <2>1 DEF OpensFirst, FirewallInv, SshStaysOpen
  <2>3. BetweenInv'
    BY <2>1 DEF BetweenInv, Running
  <2>. QED
    BY <1>1, <2>2, <2>3 DEF FirewallInv
<1>8. CASE UNCHANGED vars
  <2>1. SshStaysOpen'
    BY <1>8 DEF FirewallInv, SshStaysOpen, vars
  <2>2. BetweenInv'
    BY <1>8 DEF FirewallInv, BetweenInv, Running, Turn, Entry, vars
  <2>. QED
    BY <1>1, <2>1, <2>2 DEF FirewallInv
<1>. QED
  BY <1>2, <1>3, <1>4, <1>5, <1>6, <1>7, <1>8 DEF Next

(* "A baseline that CANNOT lock you out" (server.py:250): with a catalog    *)
(* whose every install lets ssh in before it turns the firewall on, an     *)
(* active firewall lets ssh in, wherever runs of whatever plans are killed, *)
(* as long as no command fails.                                            *)
THEOREM KillsLockNobodyOut ==
  ASSUME OpensFirst
  PROVE  Spec => []SshStaysOpen
<1>1. Init => FirewallInv
  <2>. SUFFICES ASSUME Init
                PROVE  FirewallInv
    OBVIOUS
  <2>1. TypeOK
    BY InitTypes
  <2>2. SshStaysOpen /\ BetweenInv
    BY DEF Init, OpensFirst, SshStaysOpen, BetweenInv, Running
  <2>. QED
    BY <2>1, <2>2 DEF FirewallInv
<1>2. FirewallInv /\ [Next]_vars => FirewallInv'
  BY FirewallNext
<1>. QED
  BY <1>1, <1>2, PTL DEF Spec, FirewallInv

-----------------------------------------------------------------------------
(* What a plan can be judged by                                            *)

LEMMA LostFacts ==
  ASSUME NEW mach \in Machines, NEW calm \in BOOLEAN,
         NEW n \in DOMAIN Recipe[mach.os], NEW k \in DOMAIN Recipe[mach.os][n].steps
  PROVE  /\ Recipe[mach.os][n].steps[k].takes \subseteq Lost(mach, calm)
         /\ ~calm => Recipe[mach.os][n].steps[k].torn \subseteq Lost(mach, calm)
<1>. DEFINE recipe == Recipe[mach.os]
            of(m, i) == recipe[m].steps[i].takes \cup (IF calm THEN {} ELSE recipe[m].steps[i].torn)
            all == UNION {UNION {of(m, i) : i \in DOMAIN recipe[m].steps} : m \in DOMAIN recipe}
<1>1. Lost(mach, calm) = all
  BY DEF Lost, LostTable
<1>2. of(n, k) \subseteq all
  OBVIOUS
<1>. QED
  BY <1>1, <1>2

LEMMA TieFacts ==
  ASSUME NEW mach \in Machines, NEW calm \in BOOLEAN,
         NEW g \in DOMAIN TieTable[mach][calm], NEW f \in TieTable[mach][calm][g]
  PROVE  /\ g \in Shipped[mach] => f \in Shipped[mach]
         /\ g \in UserFacts => f \in UserFacts
         /\ \A n \in DOMAIN Recipe[mach.os] : \A k \in DOMAIN Recipe[mach.os][n].steps :
              g \in Recipe[mach.os][n].steps[k].gives =>
                f \in Backs(Recipe[mach.os][n].steps, k, calm, Lost(mach, calm))
         /\ f \notin Lost(mach, calm)
<1>. DEFINE recipe == Recipe[mach.os]
            backing == UNION {{Backs(recipe[n].steps, k, calm, Lost(mach, calm)) :
                                 k \in {k \in DOMAIN recipe[n].steps : g \in recipe[n].steps[k].gives}} :
                              n \in DOMAIN recipe}
            all == UNION {Given(recipe[n].steps) : n \in DOMAIN recipe}
<1>1. /\ DOMAIN TieTable[mach][calm] = all
      /\ TieTable[mach][calm][g] = {x \in UNION backing :
            /\ \A B \in backing : x \in B
            /\ g \in Shipped[mach] => x \in Shipped[mach]
            /\ g \in UserFacts => x \in UserFacts}
  BY DEF TieTable
<1>2. /\ f \in UNION backing /\ \A B \in backing : f \in B
      /\ g \in Shipped[mach] => f \in Shipped[mach]
      /\ g \in UserFacts => f \in UserFacts
  BY <1>1
<1>3. ASSUME NEW n \in DOMAIN recipe, NEW k \in DOMAIN recipe[n].steps, g \in recipe[n].steps[k].gives
      PROVE  f \in Backs(recipe[n].steps, k, calm, Lost(mach, calm))
  <2>1. Backs(recipe[n].steps, k, calm, Lost(mach, calm)) \in backing
    BY <1>3
  <2>. QED
    BY <1>2, <2>1
<1>4. f \notin Lost(mach, calm)
  <2>1. PICK B \in backing : f \in B
    BY <1>2
  <2>2. B \cap Lost(mach, calm) = {}
    BY <2>1 DEF Backs
  <2>. QED
    BY <2>1, <2>2
<1>. QED
  BY <1>2, <1>3, <1>4

LEMMA GrownWithin ==
  ASSUME NEW mach, NEW calm, NEW X, NEW F, X \subseteq F,
         \A g \in X \cap DOMAIN TieTable[mach][calm] : TieTable[mach][calm][g] \subseteq F
  PROVE  Grown(mach, calm, X) \subseteq F
BY DEF Grown

LEMMA GrownStays ==
  ASSUME NEW mach \in Machines, NEW calm \in BOOLEAN, NEW X, X \cap Lost(mach, calm) = {}
  PROVE  Grown(mach, calm, X) \cap Lost(mach, calm) = {}
<1>1. \A g \in X \cap DOMAIN TieTable[mach][calm] :
        TieTable[mach][calm][g] \cap Lost(mach, calm) = {}
  BY TieFacts
<1>. QED
  BY <1>1 DEF Grown

-----------------------------------------------------------------------------
(* What holds while plans are run                                          *)

(* The claim about calm runs says nothing once there was a mishap.         *)
Sane(calm) == calm => mishaps = NoMishap

(* What the machine comes with is there, and in a clean run so is what its *)
(* user supplies: no step takes it away.                                   *)
ShippedInv(calm) ==
  /\ Shipped[machine] \ Lost(machine, calm) \subseteq facts
  /\ clean => UserFacts \ Lost(machine, calm) \subseteq facts

NextBrings(calm, f) ==
  calm /\ Stepping /\ Now.unless = {} /\ Now.needs \subseteq facts /\ f \in Now.gives

(* A fact is there with those it is tied to, or they come with the next    *)
(* step.                                                                   *)
TieInv(calm) ==
  \A g \in facts \cap DOMAIN TieTable[machine][calm] : \A f \in TieTable[machine][calm][g] :
    f \in facts \/ NextBrings(calm, f)

(* install came by a checked step: what it gives is there.                 *)
PastInv(calm) ==
  Stepping => \A j \in DOMAIN Turn.steps :
                Turn.steps[j].checked /\ ComesBy(Turn.steps, j, step) =>
                  Turn.steps[j].gives \ Lost(machine, calm) \subseteq facts

(* A module whose turn is over, and that did not fail, still verifies.     *)
BehindInv(calm) ==
  \A j \in DOMAIN plan :
    j < at /\ plan[j] \notin failed /\ ~SkippedOn(machine, ModuleAt(machine, plan, j)) =>
      ModuleAt(machine, plan, j).reads \ Lost(machine, calm) \subseteq facts

TurnInv == Running /\ step > 0 => ~Skipped(Turn) /\ ~RequiredFailed

(* An install under way was not content before it started; of whatever set *)
(* of steps it can do, it has done those it came to; at its end, or after a *)
(* return, its verify is content.                                          *)
InstallInv(calm) ==
  clean /\ Running /\ step > 0 =>
    LET have == Have(machine, plan, at, calm)
    IN /\ ~(Turn.reads \subseteq have)
       /\ \A T \in SUBSET DOMAIN Turn.steps :
            /\ Stepping /\ Sound(machine, calm, Turn.steps, have, T) =>
                 Sure(machine, calm, Turn.steps, have, T, step) \subseteq facts
            /\ ~Stepping /\ Through(machine, calm, Turn, have, T) => Turn.reads \subseteq facts

GoodInv(calm) ==
  /\ TypeOK /\ TurnInv
  /\ Sane(calm) => /\ ShippedInv(calm) /\ TieInv(calm) /\ PastInv(calm)
                   /\ BehindInv(calm) /\ InstallInv(calm)

(* In a clean run only the listed modules fail of themselves.              *)
BlameInv(calm) == Sane(calm) /\ clean => OnlyFailed(Excused(machine, calm))

-----------------------------------------------------------------------------
(* A step of a run                                                         *)

(* The module whose turn it is.                                            *)
LEMMA TurnFacts ==
  ASSUME TypeOK, Running
  PROVE  /\ machine \in Machines /\ plan[at] \in DOMAIN Recipe[machine.os]
         /\ at \in DOMAIN plan /\ at \in Nat /\ Len(plan) \in Nat
         /\ Turn = Recipe[machine.os][plan[at]] /\ Turn = ModuleAt(machine, plan, at)
         /\ Len(Turn.steps) \in Nat /\ DOMAIN Turn.steps = 1..Len(Turn.steps)
         /\ step \in 0..(Len(Turn.steps) + 1)
         /\ \A i \in DOMAIN Turn.steps :
              Turn.steps[i].over \in Nat \ {0} /\ i + Turn.steps[i].over <= Len(Turn.steps) + 1
<1>1. plan \in Seq(DOMAIN Recipe[machine.os]) /\ machine \in Machines
  BY PlansAssumption DEF TypeOK
<1>2. at \in DOMAIN plan /\ at \in Nat /\ Len(plan) \in Nat
  BY <1>1 DEF TypeOK, Running
<1>3. step \in 0..(Len(Turn.steps) + 1)
  BY DEF TypeOK
<1>4. plan[at] \in DOMAIN Recipe[machine.os]
  BY <1>1, <1>2
<1>. QED
  BY <1>1, <1>2, <1>3, <1>4, TurnSteps DEF Turn, Entry, ModuleAt, TypeOK

LEMMA PlanStays == [Next]_vars => UNCHANGED <<machine, plan>>
BY DEF Next, Begin, Skip, Cascade, AlreadyInstalled, Install, StepLeftOut, StepWorks,
       StepLacks, StepFails, Verify, Kill, Finish, Supply, vars

(* A mishap is never forgotten.                                            *)
LEMMA SaneBefore ==
  ASSUME NEW calm \in BOOLEAN, TypeOK, [Next]_vars, Sane(calm)'
  PROVE  /\ Sane(calm)
         /\ StepFails \/ Kill => ~calm
<1>1. CASE StepFails \/ Kill
  <2>1. /\ mishaps \in [faults: 0..MaxMishaps, kills: 0..MaxMishaps] /\ MaxMishaps \in Nat
        /\ \/ mishaps' = [mishaps EXCEPT !.faults = mishaps.faults + 1]
           \/ mishaps' = [mishaps EXCEPT !.kills = mishaps.kills + 1]
    BY <1>1, BoundsAssumption DEF StepFails, Kill, TypeOK
  <2>2. mishaps'.faults # 0 \/ mishaps'.kills # 0
    BY <2>1
  <2>3. mishaps' # NoMishap
    BY <2>2 DEF NoMishap
  <2>. QED
    BY <2>3 DEF Sane
<1>2. CASE ~(StepFails \/ Kill)
  <2>1. UNCHANGED mishaps
    BY <1>2 DEF Next, Begin, Skip, Cascade, AlreadyInstalled, Install, StepLeftOut, StepWorks,
                StepLacks, Verify, Finish, Supply, vars
  <2>. QED
    BY <1>2, <2>1 DEF Sane
<1>. QED
  BY <1>1, <1>2

(* Facts that no step takes away stay.                                     *)
LEMMA FactsStay ==
  ASSUME NEW calm \in BOOLEAN, TypeOK, [Next]_vars, Sane(calm)'
  PROVE  facts \ Lost(machine, calm) \subseteq facts'
<1>1. CASE StepWorks \/ Kill
  <2>1. Running /\ step \in DOMAIN Turn.steps /\ Now = Turn.steps[step]
    BY <1>1 DEF StepWorks, Kill, Executing, Stepping, Now
  <2>2. Now.takes \subseteq Lost(machine, calm) /\ (~calm => Now.torn \subseteq Lost(machine, calm))
    BY <2>1, TurnFacts, LostFacts
  <2>3. CASE StepWorks
    BY <2>2, <2>3 DEF StepWorks
  <2>4. CASE Kill
    <3>1. ~calm
      BY <2>4, SaneBefore
    <3>2. facts' = facts \/ facts' = facts \ Now.torn
      BY <2>4 DEF Kill
    <3>. QED
      BY <2>2, <3>1, <3>2
  <2>. QED
    BY <1>1, <2>3, <2>4
<1>2. CASE ~(StepWorks \/ Kill)
  <2>1. facts' = facts \/ facts' = facts \cup UserFacts
    BY <1>2 DEF Next, Begin, Skip, Cascade, AlreadyInstalled, Install, StepLeftOut, StepFails,
                StepLacks, Verify, Finish, Supply, vars
  <2>. QED
    BY <2>1
<1>. QED
  BY <1>1, <1>2

LEMMA SameTurn ==
  ASSUME UNCHANGED <<machine, plan, at>>
  PROVE  Turn' = Turn /\ Running' = Running
BY DEF Turn, Entry, Running

LEMMA NotStepping ==
  ASSUME TypeOK', step' = 0, UNCHANGED <<machine, plan>>
  PROVE  ~Stepping'
<1>. SUFFICES ASSUME Running'
              PROVE  0 \notin DOMAIN Turn'.steps
  BY DEF Stepping
<1>1. plan \in Seq(DOMAIN Recipe[machine.os]) /\ machine \in Machines
  BY PlansAssumption DEF TypeOK
<1>2. at' \in DOMAIN plan
  BY <1>1 DEF TypeOK, Running
<1>3. plan[at'] \in DOMAIN Recipe[machine.os] /\ Turn' = Recipe[machine.os][plan[at']]
  BY <1>1, <1>2 DEF Turn, Entry
<1>4. DOMAIN Recipe[machine.os][plan[at']].steps = 1..Len(Recipe[machine.os][plan[at']].steps)
  BY <1>1, <1>3, RecipesAssumption
<1>5. 0 \notin 1..Len(Recipe[machine.os][plan[at']].steps)
  OBVIOUS
<1>. QED
  BY <1>3, <1>4, <1>5

(* How an install gets from one step to another.                           *)
LEMMA Moves ==
  ASSUME TypeOK, [Next]_vars
  PROVE  \/ step' = 0
         \/ Install
         \/ StepLeftOut
         \/ StepWorks
         \/ /\ StepLacks /\ Now.stops
            /\ step' = Len(Turn.steps) + 1 /\ UNCHANGED <<at, failed>>
         \/ /\ (StepLacks /\ ~Now.stops) \/ StepFails
            /\ ~Now.checked
            /\ step' = step + 1 /\ UNCHANGED <<at, failed>>
         \/ UNCHANGED vars
<1>1. CASE StepLacks \/ StepFails
  BY <1>1 DEF StepLacks, StepFails, GoesWrong, Fail, GoOn
<1>2. CASE Supply
  <2>1. at = 0 /\ step' = step
    BY <1>2 DEF Supply
  <2>. QED
    BY <2>1 DEF TypeOK, Running
<1>3. CASE Begin \/ Skip \/ Cascade \/ AlreadyInstalled \/ Verify \/ Kill \/ Finish
  BY <1>3 DEF Begin, Skip, Cascade, AlreadyInstalled, Verify, Kill, Finish, Fail, GoOn
<1>. QED
  BY <1>1, <1>2, <1>3 DEF Next

LEMMA ShippedNext ==
  ASSUME NEW calm \in BOOLEAN, TypeOK, [Next]_vars, Sane(calm)', ShippedInv(calm)
  PROVE  ShippedInv(calm)'
<1>1. facts \ Lost(machine, calm) \subseteq facts' /\ UNCHANGED <<machine, plan>>
  BY FactsStay, PlanStays
<1>2. clean' => UserFacts \subseteq facts \/ clean
  BY DEF Next, Begin, Skip, Cascade, AlreadyInstalled, Install, StepLeftOut, StepWorks,
         StepLacks, StepFails, Verify, Kill, Finish, Supply, vars
<1>. QED
  BY <1>1, <1>2 DEF ShippedInv

LEMMA TurnNext ==
  ASSUME TypeOK, [Next]_vars, TurnInv
  PROVE  TurnInv'
<1>. SUFFICES ASSUME Running', step' > 0
              PROVE  ~Skipped(Turn)' /\ ~RequiredFailed'
  BY DEF TurnInv
<1>0. UNCHANGED <<machine, plan>> /\ step' # 0
  BY PlanStays
<1>1. CASE Install
  <2>1. ~Skipped(Turn) /\ ~RequiredFailed /\ UNCHANGED <<at, failed>>
    BY <1>1 DEF Install, Ready
  <2>. QED
    BY <1>0, <2>1 DEF Skipped, RequiredFailed, Turn, Entry
<1>2. CASE ~Install
  <2>1. Running /\ step > 0 /\ UNCHANGED <<at, failed>>
    <3>1. (Stepping /\ UNCHANGED <<at, failed>>) \/ UNCHANGED vars
      BY <1>0, <1>2, Moves DEF StepLeftOut, StepWorks, StepLacks, StepFails, Executing
    <3>2. CASE Stepping /\ UNCHANGED <<at, failed>>
      BY <3>2, TurnFacts DEF Stepping
    <3>3. CASE UNCHANGED vars
      BY <3>3 DEF vars, Running
    <3>. QED
      BY <3>1, <3>2, <3>3
  <2>. QED
    BY <1>0, <2>1 DEF TurnInv, Skipped, RequiredFailed, Turn, Entry
<1>. QED
  BY <1>1, <1>2

LEMMA BehindNext ==
  ASSUME NEW calm \in BOOLEAN, TypeOK, TypeOK', [Next]_vars, Sane(calm)', BehindInv(calm)
  PROVE  BehindInv(calm)'
<1>0. facts \ Lost(machine, calm) \subseteq facts' /\ UNCHANGED <<machine, plan>>
  BY FactsStay, PlanStays
<1>. SUFFICES ASSUME NEW j \in DOMAIN plan, j < at', plan[j] \notin failed',
                     ~SkippedOn(machine, ModuleAt(machine, plan, j))
              PROVE  ModuleAt(machine, plan, j).reads \ Lost(machine, calm) \subseteq facts'
  BY <1>0 DEF BehindInv
<1>a. plan \in Seq(DOMAIN Recipe[machine.os]) /\ at \in Nat /\ j \in Nat /\ j >= 1
  <2>1. machine \in Machines /\ plan \in Plans[machine.os] /\ at \in 0..(Len(plan) + 1)
    BY DEF TypeOK
  <2>2. plan \in Seq(DOMAIN Recipe[machine.os])
    BY <2>1, PlansAssumption
  <2>3. DOMAIN plan = 1..Len(plan) /\ Len(plan) \in Nat
    BY <2>2
  <2>. QED
    BY <2>1, <2>2, <2>3
<1>1. CASE j < at /\ plan[j] \notin failed
  BY <1>0, <1>1 DEF BehindInv
<1>2. CASE j = at /\ (Skip \/ AlreadyInstalled \/ (Verify /\ Verified(Turn)))
  <2>1. Turn = ModuleAt(machine, plan, j)
    BY <1>2 DEF Turn, Entry, ModuleAt
  <2>2. Turn.reads \subseteq facts
    BY <1>2, <2>1 DEF Skip, Skipped, AlreadyInstalled, Verified
  <2>. QED
    BY <1>0, <2>1, <2>2
<1>3. CASE ~(j < at /\ plan[j] \notin failed)
  <2>1. \/ at' \in {0, 1}
        \/ at' = at /\ failed' = failed
        \/ at' = at + 1 /\ failed' = failed \cup {plan[at]}
        \/ (Skip \/ AlreadyInstalled \/ (Verify /\ Verified(Turn))) /\ at' = at + 1 /\ failed' = failed
    BY DEF Next, Begin, Skip, Cascade, AlreadyInstalled, Install, StepLeftOut, StepWorks,
           StepLacks, StepFails, GoesWrong, Verify, Kill, Finish, Supply, Fail, GoOn, vars
  <2>2. ~(at' \in {0, 1})
    BY <1>a
  <2>3. ~(at' = at /\ failed' = failed)
    BY <1>3
  <2>4. ~(at' = at + 1 /\ failed' = failed \cup {plan[at]})
    <3>. SUFFICES ASSUME at' = at + 1, failed' = failed \cup {plan[at]}
                  PROVE  FALSE
      OBVIOUS
    <3>1. j < at \/ j = at
      BY <1>a
    <3>. QED
      BY <1>3, <3>1
  <2>5. CASE (Skip \/ AlreadyInstalled \/ (Verify /\ Verified(Turn))) /\ at' = at + 1 /\ failed' = failed
    <3>1. j = at
      BY <1>3, <1>a, <2>5
    <3>. QED
      BY <1>2, <2>5, <3>1
  <2>. QED
    BY <2>1, <2>2, <2>3, <2>4, <2>5
<1>. QED
  BY <1>1, <1>3

LEMMA PastNext ==
  ASSUME NEW calm \in BOOLEAN, TypeOK, TypeOK', [Next]_vars, Sane(calm)', PastInv(calm)
  PROVE  PastInv(calm)'
<1>0. facts \ Lost(machine, calm) \subseteq facts' /\ UNCHANGED <<machine, plan>>
  BY FactsStay, PlanStays
<1>. SUFFICES ASSUME Stepping', NEW j \in DOMAIN Turn'.steps, Turn'.steps[j].checked,
                     ComesBy(Turn'.steps, j, step')
              PROVE  Turn'.steps[j].gives \ Lost(machine, calm) \subseteq facts'
  BY <1>0 DEF PastInv
<1>1. step' # 0
  BY <1>0, NotStepping
<1>2. CASE Install
  <2>1. UNCHANGED at /\ step' = 1 /\ Running
    BY <1>2 DEF Install, Ready
  <2>2. j \in 1..Len(Turn.steps) /\ Len(Turn.steps) \in Nat
    BY <1>0, <2>1, SameTurn, TurnFacts
  <2>. QED
    BY <2>1, <2>2 DEF ComesBy
<1>3. CASE UNCHANGED vars
  BY <1>3 DEF PastInv, Stepping, Turn, Entry, Running, vars
<1>4. CASE Stepping /\ UNCHANGED at /\ ~(UNCHANGED vars) /\ ~Install
  <2>. DEFINE steps == Turn.steps
  <2>1. Turn' = Turn /\ Running /\ step \in DOMAIN steps /\ Now = steps[step]
    BY <1>0, <1>4, SameTurn DEF Stepping, Now
  <2>2. /\ step \in Nat /\ j \in Nat /\ j >= 1 /\ step >= 1 /\ Len(steps) \in Nat
        /\ DOMAIN steps = 1..Len(steps)
        /\ \A h \in DOMAIN steps : steps[h].over \in Nat \ {0}
    BY <2>1, TurnFacts
  <2>. HIDE DEF steps
  <2>3. \/ step' = Len(steps) + 1
        \/ step' = step + Now.over /\ LeftOut(Now)
        \/ step' = step + 1 /\ (StepWorks \/ ~Now.checked)
    BY <1>1, <1>4, Moves DEF StepLeftOut, StepWorks, steps
  <2>4. step' \in DOMAIN steps
    BY <2>1 DEF Stepping, steps
  <2>5. step' \in Nat /\ step < step' /\ step' # Len(steps) + 1
    BY <2>1, <2>2, <2>3, <2>4
  <2>6. CASE j < step
    <3>1. ComesBy(steps, j, step)
      <4>1. JumpsOver(steps, j, step) \subseteq JumpsOver(steps, j, step')
        <5>. SUFFICES ASSUME NEW h \in 1..j, h + steps[h].over <= step
                      PROVE  h + steps[h].over <= step'
          BY DEF JumpsOver
        <5>1. h \in DOMAIN steps
          BY <2>1, <2>2, <2>6
        <5>2. h + steps[h].over \in Nat
          BY <2>2, <5>1
        <5>. QED
          BY <2>2, <2>5, <5>2
      <4>. QED
        BY <2>1, <2>6, <4>1 DEF ComesBy, steps
    <3>2. steps[j].gives \ Lost(machine, calm) \subseteq facts
      BY <1>4, <2>1, <3>1 DEF PastInv, steps
    <3>. QED
      BY <1>0, <2>1, <3>2 DEF steps
  <2>7. CASE j >= step
    <3>1. CASE step' = step + Now.over /\ LeftOut(Now)
      <4>1. step \in JumpsOver(steps, j, step')
        <5>1. j < step'
          BY <2>1 DEF ComesBy, steps
        <5>. QED
          BY <2>1, <2>2, <2>7, <3>1, <5>1 DEF JumpsOver, LeftOut
      <4>. QED
        BY <2>1, <4>1 DEF ComesBy, steps
    <3>2. CASE step' = step + 1 /\ (StepWorks \/ ~Now.checked)
      <4>1. j = step
        BY <2>2, <2>7, <3>2 DEF ComesBy
      <4>2. StepWorks
        BY <2>1, <3>2, <4>1 DEF steps
      <4>3. Now.takes \subseteq Lost(machine, calm)
        BY <2>1, TurnFacts, LostFacts DEF steps
      <4>. QED
        BY <2>1, <4>1, <4>2, <4>3 DEF StepWorks, steps
    <3>. QED
      BY <2>3, <2>5, <3>1, <3>2
  <2>. QED
    BY <2>2, <2>6, <2>7
<1>. QED
  BY <1>1, <1>2, <1>3, <1>4, Moves DEF StepLeftOut, StepWorks, StepLacks, StepFails, Executing

(* What is to come with the next step does come.                           *)
LEMMA NextBringsIt ==
  ASSUME NEW calm \in BOOLEAN, TypeOK, TurnInv, [Next]_vars, Sane(calm)',
         NEW f, NextBrings(calm, f), f \notin Lost(machine, calm)
  PROVE  f \in facts' \/ UNCHANGED vars
<1>1. calm /\ Stepping /\ ~LeftOut(Now) /\ Able(Now) /\ f \in Now.gives
  BY DEF NextBrings, LeftOut, Able
<1>2. ~(StepFails \/ Kill)
  BY <1>1, SaneBefore
<1>3. Running /\ step > 0 /\ step <= Len(Turn.steps) /\ at > 0 /\ at # Len(plan) + 1
  <2>1. Running /\ step \in DOMAIN Turn.steps
    BY <1>1 DEF Stepping
  <2>. QED
    BY <2>1, TurnFacts DEF Running
<1>4. ~(StepLeftOut \/ StepLacks)
  BY <1>1 DEF StepLeftOut, StepLacks
<1>5. ~(Begin \/ Skip \/ Cascade \/ AlreadyInstalled \/ Install \/ Finish \/ Supply)
  BY <1>3 DEF Begin, Skip, Cascade, AlreadyInstalled, Install, Ready, Finish, Supply
<1>6. ~Verify
  <2>1. step \in Nat /\ Len(Turn.steps) \in Nat
    BY <1>3, TurnFacts
  <2>. QED
    BY <1>3, <2>1 DEF Verify
<1>7. CASE StepWorks
  <2>1. step \in DOMAIN Turn.steps /\ Now = Turn.steps[step]
    BY <1>1 DEF Stepping, Now
  <2>2. Now.takes \subseteq Lost(machine, calm)
    BY <1>3, <2>1, TurnFacts, LostFacts
  <2>. QED
    BY <1>1, <1>7, <2>2 DEF StepWorks
<1>. QED
  BY <1>2, <1>4, <1>5, <1>6, <1>7 DEF Next

LEMMA TieNext ==
  ASSUME NEW calm \in BOOLEAN, TypeOK, TypeOK', TurnInv, [Next]_vars, Sane(calm)',
         PastInv(calm), TieInv(calm)
  PROVE  TieInv(calm)'
<1>0. facts \ Lost(machine, calm) \subseteq facts' /\ UNCHANGED <<machine, plan>>
      /\ machine \in Machines
  BY FactsStay, PlanStays DEF TypeOK
<1>. DEFINE ties == TieTable[machine][calm]
<1>1. CASE UNCHANGED vars
  <2>1. \A f : NextBrings(calm, f)' = NextBrings(calm, f)
    BY <1>1 DEF NextBrings, Stepping, Now, Turn, Entry, Running, vars
  <2>. QED
    BY <1>1, <2>1 DEF TieInv, vars
<1>. SUFFICES ASSUME ~UNCHANGED vars, NEW g \in facts', g \in DOMAIN ties, NEW f \in ties[g]
              PROVE  f \in facts' \/ NextBrings(calm, f)'
  BY <1>0, <1>1 DEF TieInv
<1>2. f \notin Lost(machine, calm)
  BY <1>0, TieFacts
<1>3. CASE g \in facts
  <2>1. f \in facts \/ NextBrings(calm, f)
    BY <1>3 DEF TieInv
  <2>. QED
    BY <1>0, <1>2, <2>1, NextBringsIt
<1>4. CASE g \notin facts
  <2>1. CASE Supply
    <3>1. g \in UserFacts
      BY <1>4, <2>1 DEF Supply
    <3>2. f \in UserFacts
      BY <1>0, <3>1, TieFacts
    <3>. QED
      BY <2>1, <3>2 DEF Supply
  <2>2. CASE StepWorks
    <3>. DEFINE steps == Turn.steps
                lost == Lost(machine, calm)
    <3>1. /\ Running /\ step \in DOMAIN steps /\ Now = steps[step] /\ Now.needs \subseteq facts
          /\ facts' = (facts \cup Now.gives) \ Now.takes /\ step' = step + 1 /\ UNCHANGED at
      BY <2>2 DEF StepWorks, Executing, Stepping, Now, Able
    <3>2. /\ plan[at] \in DOMAIN Recipe[machine.os] /\ Turn = Recipe[machine.os][plan[at]]
          /\ step \in Nat /\ DOMAIN steps \subseteq Nat
      BY <3>1, TurnFacts
    <3>3. f \in Backs(steps, step, calm, lost)
      <4>1. g \in Now.gives
        BY <1>4, <3>1
      <4>. QED
        BY <1>0, <3>1, <3>2, <4>1, TieFacts
    <3>4. Now.takes \subseteq lost
      BY <1>0, <3>1, <3>2, LostFacts
    <3>5. Turn' = Turn /\ Running'
      BY <1>0, <3>1, SameTurn
    <3>. HIDE DEF steps, lost
    <3>6. CASE f \in Now.needs \cup Now.gives
      BY <1>2, <3>1, <3>4, <3>6 DEF lost
    <3>7. CASE f \in UNION {steps[j].gives : j \in {j \in 1..step : ComesBy(steps, j, step) /\ steps[j].checked}}
      <4>1. PICK j \in 1..step : ComesBy(steps, j, step) /\ steps[j].checked /\ f \in steps[j].gives
        BY <3>7
      <4>2. j \in DOMAIN steps
        <5>1. DOMAIN steps = 1..Len(steps) /\ Len(steps) \in Nat
          BY <3>1, TurnFacts DEF steps
        <5>. QED
          BY <3>1, <3>2, <5>1
      <4>3. f \in facts
        BY <1>2, <3>1, <4>1, <4>2 DEF PastInv, Stepping, steps
      <4>. QED
        BY <1>0, <1>2, <4>3
    <3>8. CASE calm /\ Follows(steps, step, lost) /\ f \in steps[step + 1].gives
      <4>1. Stepping' /\ Now' = steps[step + 1]
        BY <3>1, <3>5, <3>8 DEF Stepping, Now, Follows, steps
      <4>2. Now'.unless = {} /\ Now'.needs \subseteq facts'
        BY <3>1, <3>4, <3>8, <4>1 DEF Follows
      <4>. QED
        BY <3>8, <4>1, <4>2 DEF NextBrings
    <3>9. \/ f \in Now.needs \cup Now.gives
          \/ f \in UNION {steps[j].gives : j \in {j \in 1..step : ComesBy(steps, j, step) /\ steps[j].checked}}
          \/ f \in IF calm /\ Follows(steps, step, lost) THEN steps[step + 1].gives ELSE {}
      <4>. DEFINE passed == UNION {steps[j].gives : j \in {j \in 1..step : ComesBy(steps, j, step) /\ steps[j].checked}}
                  next == IF calm /\ Follows(steps, step, lost) THEN steps[step + 1].gives ELSE {}
      <4>1. f \in (steps[step].needs \cup steps[step].gives \cup passed \cup next) \ lost
        BY <3>3 DEF Backs
      <4>. HIDE DEF passed, next
      <4>2. f \in Now.needs \cup Now.gives \/ f \in passed \/ f \in next
        BY <3>1, <4>1
      <4>. QED
        BY <4>2 DEF passed, next
    <3>10. CASE f \in IF calm /\ Follows(steps, step, lost) THEN steps[step + 1].gives ELSE {}
      BY <3>8, <3>10
    <3>. QED
      BY <3>6, <3>7, <3>9, <3>10
  <2>3. CASE ~(Supply \/ StepWorks)
    BY <1>4, <2>3 DEF Next, Begin, Skip, Cascade, AlreadyInstalled, Install, StepLeftOut,
                      StepLacks, StepFails, Verify, Kill, Finish
  <2>. QED
    BY <2>1, <2>2, <2>3
<1>. QED
  BY <1>3, <1>4

(* What an install is sure of at a later step: what it was sure of before, *)
(* or what a step in between gives.                                        *)
LEMMA SureLater ==
  ASSUME NEW mach, NEW calm, NEW steps, NEW have, NEW T \in SUBSET DOMAIN steps,
         NEW i \in Nat, NEW k \in Nat, i <= k,
         DOMAIN steps \subseteq Nat, \A h \in DOMAIN steps : steps[h].over \in Nat,
         \A j \in DOMAIN steps : 1..j \subseteq DOMAIN steps,
         NEW f \in Sure(mach, calm, steps, have, T, k)
  PROVE  \/ f \in Sure(mach, calm, steps, have, T, i)
         \/ \E j \in T : /\ i <= j /\ j < k /\ f \in steps[j].gives \ Lost(mach, calm)
                        /\ \A h \in JumpsOver(steps, j, k) : f \in Grown(mach, calm, steps[h].unless)
<1>1. CASE f \in have
  BY <1>1 DEF Sure
<1>2. CASE f \notin have
  <2>1. PICK j \in T : /\ j < k /\ f \in steps[j].gives \ Lost(mach, calm)
                       /\ \A h \in JumpsOver(steps, j, k) : f \in Grown(mach, calm, steps[h].unless)
    BY <1>2 DEF Sure
  <2>2. CASE j < i
    <3>1. JumpsOver(steps, j, i) \subseteq JumpsOver(steps, j, k)
      <4>. SUFFICES ASSUME NEW h \in 1..j, h + steps[h].over <= i
                    PROVE  h + steps[h].over <= k
        BY DEF JumpsOver
      <4>1. h \in Nat /\ steps[h].over \in Nat
        BY <2>1
      <4>. QED
        BY <4>1
    <3>. QED
      BY <2>1, <2>2, <3>1 DEF Sure
  <2>. QED
    BY <2>1, <2>2
<1>. QED
  BY <1>1, <1>2

(* What a module can count on is there when its turn comes.                *)
LEMMA HaveThere ==
  ASSUME NEW calm \in BOOLEAN, TypeOK, ShippedInv(calm), TieInv(calm), BehindInv(calm),
         Ready, clean
  PROVE  Have(machine, plan, at, calm) \subseteq facts
<1>. DEFINE mod == ModuleAt(machine, plan, at)
            required == {j \in DOMAIN plan : /\ j < at
                                             /\ plan[j] \in mod.requires
                                             /\ ~SkippedOn(machine, ModuleAt(machine, plan, j))}
            brought == UNION {ModuleAt(machine, plan, j).reads : j \in required}
            base == (Shipped[machine] \cup UserFacts \cup brought) \ Lost(machine, calm)
            once == Grown(machine, calm, base)
<1>1. Running /\ ~Stepping /\ ~RequiredFailed
  <2>1. Running /\ step = 0 /\ ~RequiredFailed
    BY DEF Ready
  <2>2. 0 \notin DOMAIN Turn.steps
    BY <2>1, TurnFacts
  <2>. QED
    BY <2>1, <2>2 DEF Stepping
<1>2. Turn = mod
  BY <1>1, TurnFacts
<1>3. brought \ Lost(machine, calm) \subseteq facts
  <2>. SUFFICES ASSUME NEW j \in required
                PROVE  ModuleAt(machine, plan, j).reads \ Lost(machine, calm) \subseteq facts
    OBVIOUS
  <2>1. plan[j] \notin failed
    BY <1>1, <1>2 DEF RequiredFailed
  <2>. QED
    BY <2>1 DEF BehindInv
<1>4. base \subseteq facts
  BY <1>3 DEF ShippedInv
<1>5. \A g \in facts \cap DOMAIN TieTable[machine][calm] : TieTable[machine][calm][g] \subseteq facts
  BY <1>1 DEF TieInv, NextBrings
<1>. HIDE DEF base
<1>6. once \subseteq facts
  BY <1>4, <1>5, GrownWithin
<1>. HIDE DEF once
<1>7. Grown(machine, calm, once) \subseteq facts
  BY <1>5, <1>6, GrownWithin
<1>8. Have(machine, plan, at, calm) = Grown(machine, calm, once)
  BY DEF Have, once, base
<1>. QED
  BY <1>7, <1>8

LEMMA HaveStays ==
  ASSUME NEW calm \in BOOLEAN, NEW mach \in Machines, NEW p, NEW i
  PROVE  Have(mach, p, i, calm) \cap Lost(mach, calm) = {}
<1>. DEFINE required == {j \in DOMAIN p : /\ j < i
                                          /\ p[j] \in ModuleAt(mach, p, i).requires
                                          /\ ~SkippedOn(mach, ModuleAt(mach, p, j))}
            brought == UNION {ModuleAt(mach, p, j).reads : j \in required}
            base == (Shipped[mach] \cup UserFacts \cup brought) \ Lost(mach, calm)
            once == Grown(mach, calm, base)
<1>1. base \cap Lost(mach, calm) = {}
  OBVIOUS
<1>. HIDE DEF base
<1>2. once \cap Lost(mach, calm) = {}
  BY <1>1, GrownStays
<1>. HIDE DEF once
<1>3. Grown(mach, calm, once) \cap Lost(mach, calm) = {}
  BY <1>2, GrownStays
<1>4. Have(mach, p, i, calm) = Grown(mach, calm, once)
  BY DEF Have, once, base
<1>. QED
  BY <1>3, <1>4

LEMMA SureStays ==
  ASSUME NEW calm \in BOOLEAN, NEW mach \in Machines, NEW p, NEW i, NEW steps, NEW T, NEW k
  PROVE  Sure(mach, calm, steps, Have(mach, p, i, calm), T, k) \cap Lost(mach, calm) = {}
BY HaveStays DEF Sure

(* A step that is come past leaves what the install was sure to have then. *)
LEMMA SureThere ==
  ASSUME NEW calm \in BOOLEAN, TypeOK, [Next]_vars, Sane(calm)', TieInv(calm),
         Stepping, clean', UNCHANGED at, step' # 0, ~UNCHANGED vars,
         NEW T \in SUBSET DOMAIN Turn.steps,
         Sound(machine, calm, Turn.steps, Have(machine, plan, at, calm), T),
         Sure(machine, calm, Turn.steps, Have(machine, plan, at, calm), T, step) \subseteq facts,
         ~(StepLacks /\ Now.stops)
  PROVE  Sure(machine, calm, Turn.steps, Have(machine, plan, at, calm), T, step') \subseteq facts'
<1>. DEFINE steps == Turn.steps
            have == Have(machine, plan, at, calm)
            lost == Lost(machine, calm)
<1>0. facts \ lost \subseteq facts' /\ machine \in Machines
  BY FactsStay DEF TypeOK
<1>1. Running /\ step \in DOMAIN steps /\ Now = steps[step]
  BY DEF Stepping, Now
<1>2. /\ step \in Nat /\ Len(steps) \in Nat /\ DOMAIN steps = 1..Len(steps)
      /\ \A h \in DOMAIN steps : steps[h].over \in Nat \ {0}
  BY <1>1, TurnFacts
<1>3. \/ StepLeftOut /\ step' = step + Now.over
      \/ StepWorks /\ step' = step + 1
      \/ StepLacks /\ step' = step + 1
  <2>0. step # 0
    BY <1>1, <1>2
  <2>1. ~Install
    BY <2>0 DEF Install, Ready
  <2>2. ~StepFails
    BY DEF StepFails
  <2>. QED
    BY <2>1, <2>2, Moves DEF StepLeftOut, StepWorks
<1>4. Turn.steps = steps /\ Sound(machine, calm, steps, have, T)
      /\ Sure(machine, calm, steps, have, T, step) \subseteq facts
      /\ T \subseteq DOMAIN steps
  OBVIOUS
<1>5. \A x \in Sure(machine, calm, steps, have, T, step) : x \notin lost
  BY <1>0, SureStays
<1>6. Now.takes \subseteq lost
  BY <1>0, <1>1, TurnFacts, LostFacts
<1>. HIDE DEF steps, have, lost
<1>. SUFFICES ASSUME NEW f \in Sure(machine, calm, steps, have, T, step')
              PROVE  f \in facts'
  BY DEF steps, have
<1>7. step' \in Nat /\ step <= step'
  BY <1>1, <1>2, <1>3
<1>8. \/ f \in Sure(machine, calm, steps, have, T, step)
      \/ \E j \in T : /\ step <= j /\ j < step' /\ f \in steps[j].gives \ lost
                     /\ \A h \in JumpsOver(steps, j, step') : f \in Grown(machine, calm, steps[h].unless)
  <2>1. DOMAIN steps \subseteq Nat /\ (\A h \in DOMAIN steps : steps[h].over \in Nat)
        /\ (\A j \in DOMAIN steps : 1..j \subseteq DOMAIN steps)
    BY <1>2
  <2>2. T \in SUBSET DOMAIN steps
    BY <1>4
  <2>3. \/ f \in Sure(machine, calm, steps, have, T, step)
        \/ \E j \in T : /\ step <= j /\ j < step' /\ f \in steps[j].gives \ Lost(machine, calm)
                       /\ \A h \in JumpsOver(steps, j, step') : f \in Grown(machine, calm, steps[h].unless)
    <3>1. ASSUME NEW i \in Nat, NEW k \in Nat, i <= k, NEW x \in Sure(machine, calm, steps, have, T, k)
          PROVE  \/ x \in Sure(machine, calm, steps, have, T, i)
                 \/ \E j \in T : /\ i <= j /\ j < k /\ x \in steps[j].gives \ Lost(machine, calm)
                                /\ \A h \in JumpsOver(steps, j, k) : x \in Grown(machine, calm, steps[h].unless)
      BY <2>1, <2>2, <3>1, SureLater
    <3>. QED
      BY <1>2, <1>7, <3>1
  <2>. QED
    BY <2>3 DEF lost
<1>9. CASE f \in Sure(machine, calm, steps, have, T, step)
  BY <1>0, <1>4, <1>5, <1>9
<1>10. ASSUME NEW j \in T, step <= j, j < step', f \in steps[j].gives \ lost,
              \A h \in JumpsOver(steps, j, step') : f \in Grown(machine, calm, steps[h].unless)
       PROVE  f \in facts'
  <2>0. j \in Nat /\ j >= 1 /\ step >= 1
    BY <1>1, <1>2, <1>4
  <2>1. CASE StepLeftOut /\ step' = step + Now.over
    <3>1. Now.unless # {} /\ Now.unless \subseteq facts /\ facts' = facts
      BY <2>1 DEF StepLeftOut, LeftOut
    <3>2. step \in JumpsOver(steps, j, step')
      BY <1>1, <1>2, <1>7, <1>10, <2>0, <2>1, <3>1 DEF JumpsOver
    <3>3. Grown(machine, calm, Now.unless) \subseteq facts
      <4>1. \A g \in facts \cap DOMAIN TieTable[machine][calm] : TieTable[machine][calm][g] \subseteq facts
        BY <3>1 DEF TieInv, NextBrings
      <4>. QED
        BY <3>1, <4>1, GrownWithin
    <3>. QED
      BY <1>1, <1>10, <3>1, <3>2, <3>3
  <2>2. CASE StepWorks /\ step' = step + 1
    <3>1. j = step
      BY <1>2, <1>10, <2>0, <2>2
    <3>. QED
      BY <1>1, <1>6, <1>10, <2>2, <3>1 DEF StepWorks
  <2>3. CASE StepLacks /\ step' = step + 1
    <3>1. j = step
      BY <1>2, <1>10, <2>0, <2>3
    <3>2. Now.needs \subseteq Sure(machine, calm, steps, have, T, step)
      BY <1>1, <1>4, <3>1 DEF Sound
    <3>. QED
      BY <1>4, <2>3, <3>2 DEF StepLacks, Able
  <2>. QED
    BY <1>3, <2>1, <2>2, <2>3
<1>. QED
  BY <1>8, <1>9, <1>10

LEMMA InstallNext ==
  ASSUME NEW calm \in BOOLEAN, TypeOK, TypeOK', [Next]_vars, Sane(calm)',
         ShippedInv(calm), TieInv(calm), BehindInv(calm), InstallInv(calm)
  PROVE  InstallInv(calm)'
<1>. DEFINE have == Have(machine, plan, at, calm)
<1>0. facts \ Lost(machine, calm) \subseteq facts' /\ UNCHANGED <<machine, plan>>
      /\ machine \in Machines
  BY FactsStay, PlanStays DEF TypeOK
<1>1. CASE UNCHANGED vars
  BY <1>1 DEF InstallInv, Stepping, Turn, Entry, Running, vars
<1>. SUFFICES ASSUME clean', Running', step' > 0, ~UNCHANGED vars
              PROVE  LET have1 == Have(machine, plan, at', calm)
                     IN /\ ~(Turn'.reads \subseteq have1)
                        /\ \A T \in SUBSET DOMAIN Turn'.steps :
                             /\ Stepping' /\ Sound(machine, calm, Turn'.steps, have1, T) =>
                                  Sure(machine, calm, Turn'.steps, have1, T, step') \subseteq facts'
                             /\ ~Stepping' /\ Through(machine, calm, Turn', have1, T) =>
                                  Turn'.reads \subseteq facts'
  BY <1>0, <1>1 DEF InstallInv
<1>2. step' # 0
  OBVIOUS
<1>3. ASSUME UNCHANGED at, Running, step' \in Nat
      PROVE  /\ Turn' = Turn /\ have = Have(machine, plan, at', calm)
             /\ ~Stepping' => step' = Len(Turn.steps) + 1
  <2>1. Turn' = Turn /\ have = Have(machine, plan, at', calm)
    BY <1>0, <1>3, SameTurn
  <2>2. /\ DOMAIN Turn.steps = 1..Len(Turn.steps) /\ Len(Turn.steps) \in Nat
        /\ step' \in 0..(Len(Turn.steps) + 1)
    <3>1. step' \in 0..(Len(Turn'.steps) + 1)
      BY DEF TypeOK
    <3>. QED
      BY <1>3, <2>1, <3>1, TurnFacts
  <2>. QED
    BY <1>2, <2>1, <2>2 DEF Stepping
<1>4. CASE Install
  <2>1. Ready /\ ~(Turn.reads \subseteq facts) /\ step' = 1 /\ UNCHANGED <<at, facts>> /\ clean /\ Running
    BY <1>4 DEF Install, Verified, Ready
  <2>2. have \subseteq facts
    BY <2>1, HaveThere
  <2>3. /\ Turn' = Turn /\ have = Have(machine, plan, at', calm)
        /\ ~Stepping' => step' = Len(Turn.steps) + 1
    BY <1>3, <2>1
  <2>4. ASSUME NEW T \in SUBSET DOMAIN Turn.steps
        PROVE  Sure(machine, calm, Turn.steps, have, T, 1) = have
    <3>1. \A j \in T : ~(j < 1)
      BY <2>1, TurnFacts
    <3>. QED
      BY <3>1 DEF Sure
  <2>. HIDE DEF have
  <2>5. ASSUME NEW T \in SUBSET DOMAIN Turn.steps, ~Stepping', Through(machine, calm, Turn, have, T)
        PROVE  Turn.reads \subseteq have
    <3>1. Turn.reads \subseteq Sure(machine, calm, Turn.steps, have, T, Len(Turn.steps) + 1)
      BY <2>5 DEF Through
    <3>. QED
      BY <2>1, <2>3, <2>4, <2>5, <3>1
  <2>. QED
    BY <2>1, <2>2, <2>3, <2>4, <2>5
<1>5. CASE Stepping /\ UNCHANGED at /\ clean
  <2>. DEFINE steps == Turn.steps
  <2>1. Running /\ step \in DOMAIN steps /\ Now = steps[step] /\ step > 0 /\ step' \in Nat
    <3>1. Running /\ step \in DOMAIN steps /\ Now = steps[step]
      BY <1>5 DEF Stepping, Now
    <3>2. step' \in Nat
      <4>1. step' \in 0..(Len(Turn'.steps) + 1)
        BY DEF TypeOK
      <4>. QED
        BY <4>1
    <3>. QED
      BY <3>1, <3>2, TurnFacts
  <2>2. /\ Turn' = Turn /\ have = Have(machine, plan, at', calm)
        /\ ~Stepping' => step' = Len(Turn.steps) + 1
    BY <1>3, <1>5, <2>1
  <2>3. /\ ~(Turn.reads \subseteq have)
        /\ \A T \in SUBSET DOMAIN steps :
             Sound(machine, calm, steps, have, T) =>
               Sure(machine, calm, steps, have, T, step) \subseteq facts
    BY <1>5, <2>1 DEF InstallInv
  <2>4. CASE ~(StepLacks /\ Now.stops)
    <3>1. ASSUME NEW T \in SUBSET DOMAIN steps, Sound(machine, calm, steps, have, T)
          PROVE  Sure(machine, calm, steps, have, T, step') \subseteq facts'
      BY <1>2, <1>5, <2>3, <2>4, <3>1, SureThere
    <3>2. ASSUME NEW T \in SUBSET DOMAIN steps, ~Stepping', Through(machine, calm, Turn, have, T)
          PROVE  Turn.reads \subseteq facts'
      <4>1. /\ Sound(machine, calm, steps, have, T)
            /\ Turn.reads \subseteq Sure(machine, calm, steps, have, T, Len(steps) + 1)
        BY <3>2 DEF Through
      <4>. QED
        BY <2>2, <3>1, <3>2, <4>1
    <3>. QED
      BY <2>2, <2>3, <3>1, <3>2
  <2>5. CASE StepLacks /\ Now.stops
    <3>1. ~LeftOut(Now) /\ ~Able(Now) /\ step' = Len(steps) + 1 /\ facts' = facts
      BY <2>5 DEF StepLacks
    <3>2. ~Stepping'
      <4>1. Len(steps) + 1 \notin DOMAIN steps
        BY <2>1, TurnFacts
      <4>. QED
        BY <2>2, <3>1, <4>1 DEF Stepping
    <3>3. ASSUME NEW T \in SUBSET DOMAIN steps, Through(machine, calm, Turn, have, T)
          PROVE  Turn.reads \subseteq facts'
      <4>1. Sure(machine, calm, steps, have, T, step) \subseteq facts
            /\ Sound(machine, calm, steps, have, T)
        BY <2>3, <3>3 DEF Through
      <4>2. step \notin T
        BY <2>1, <3>1, <4>1 DEF Sound, Able
      <4>3. \/ Now.unless # {} /\ Now.unless \subseteq Sure(machine, calm, steps, have, T, step)
            \/ Now.stops /\ Turn.reads \subseteq Sure(machine, calm, steps, have, T, step)
            \/ ~Now.stops
        BY <2>1, <3>3, <4>2 DEF Through
      <4>. QED
        BY <2>5, <3>1, <4>1, <4>3 DEF LeftOut
    <3>. QED
      BY <2>2, <2>3, <3>2, <3>3
  <2>. QED
    BY <2>4, <2>5
<1>6. Install \/ (Stepping /\ UNCHANGED at /\ clean)
  <2>1. ~StepFails
    BY DEF StepFails
  <2>. QED
    BY <1>2, <2>1, Moves DEF StepLeftOut, StepWorks, StepLacks, Executing
<1>. QED
  BY <1>4, <1>5, <1>6

(* A module that nothing goes wrong with but itself is not good enough.    *)
LEMMA FailsOnlyExcused ==
  ASSUME NEW calm \in BOOLEAN, TypeOK, TurnInv, InstallInv(calm),
         Suffices(machine, plan, calm), clean, Running, step > 0,
         \/ StepLacks /\ ~Now.stops /\ Now.checked
         \/ Verify /\ ~Verified(Turn)
  PROVE  plan[at] \in Excused(machine, calm)
<1>. DEFINE have == Have(machine, plan, at, calm)
            steps == Turn.steps
<1>1. at \in DOMAIN plan /\ Turn = ModuleAt(machine, plan, at) /\ ~SkippedOn(machine, Turn)
  BY TurnFacts DEF TurnInv, Skipped
<1>2. ~(Turn.reads \subseteq have)
  BY DEF InstallInv
<1>3. ASSUME NEW T \in SUBSET DOMAIN steps, Through(machine, calm, Turn, have, T)
      PROVE  FALSE
  <2>0. Sound(machine, calm, steps, have, T)
    BY <1>3 DEF Through
  <2>1. CASE Verify /\ ~Verified(Turn)
    <3>1. ~Stepping
      <4>1. step > Len(steps) /\ DOMAIN steps = 1..Len(steps) /\ Len(steps) \in Nat
        BY <2>1, TurnFacts DEF Verify
      <4>2. step \notin DOMAIN steps
        BY <4>1
      <4>. QED
        BY <4>2 DEF Stepping
    <3>2. Turn.reads \subseteq facts
      BY <1>3, <3>1 DEF InstallInv
    <3>. QED
      BY <2>1, <3>2 DEF Verified
  <2>2. CASE StepLacks /\ ~Now.stops /\ Now.checked
    <3>1. Stepping /\ ~LeftOut(Now) /\ ~Able(Now) /\ step \in DOMAIN steps /\ Now = steps[step]
      BY <2>2 DEF StepLacks, Stepping, Now
    <3>2. Sure(machine, calm, steps, have, T, step) \subseteq facts
      BY <2>0, <3>1 DEF InstallInv
    <3>3. step \notin T
      BY <2>0, <3>1, <3>2 DEF Sound, Able
    <3>4. Now.unless # {} /\ Now.unless \subseteq Sure(machine, calm, steps, have, T, step)
      BY <1>3, <2>2, <3>1, <3>3 DEF Through
    <3>. QED
      BY <3>1, <3>2, <3>4 DEF LeftOut
  <2>. QED
    BY <2>1, <2>2
<1>4. ~Covered(machine, plan, at, calm)
  <2>. SUFFICES ASSUME Covered(machine, plan, at, calm)
                PROVE  FALSE
    OBVIOUS
  <2>1. PICK U \in SUBSET DOMAIN steps : Through(machine, calm, Turn, have, DOMAIN steps \ U)
    BY <1>1, <1>2 DEF Covered
  <2>2. DOMAIN steps \ U \in SUBSET DOMAIN steps
    OBVIOUS
  <2>. QED
    BY <1>3, <2>1, <2>2
<1>. QED
  BY <1>1, <1>4 DEF Suffices

LEMMA BlameNext ==
  ASSUME NEW calm \in BOOLEAN, TypeOK, TurnInv, InstallInv(calm), BlameInv(calm),
         Suffices(machine, plan, calm), [Next]_vars, Sane(calm)'
  PROVE  BlameInv(calm)'
<1>0. UNCHANGED <<machine, plan>> /\ Sane(calm)
  BY PlanStays, SaneBefore
<1>. SUFFICES ASSUME clean'
              PROVE  \A m \in failed' : \/ m \in Excused(machine, calm)
                                       \/ Entry(m).requires \cap failed' # {}
  BY <1>0 DEF BlameInv, OnlyFailed, Entry
<1>1. CASE failed' = {}
  BY <1>1
<1>2. CASE failed' = failed /\ clean
  BY <1>0, <1>2 DEF BlameInv, OnlyFailed
<1>3. CASE failed' = failed \cup {plan[at]} /\ clean /\ RequiredFailed
  BY <1>0, <1>3 DEF BlameInv, OnlyFailed, RequiredFailed, Turn
<1>4. CASE /\ failed' = failed \cup {plan[at]} /\ clean /\ Running /\ step > 0
           /\ \/ StepLacks /\ ~Now.stops /\ Now.checked
              \/ Verify /\ ~Verified(Turn)
  <2>1. plan[at] \in Excused(machine, calm)
    BY <1>4, FailsOnlyExcused
  <2>. QED
    BY <1>0, <1>4, <2>1 DEF BlameInv, OnlyFailed
<1>5. ASSUME Stepping
      PROVE  Running /\ step > 0
  <2>1. Running /\ step \in DOMAIN Turn.steps
    BY <1>5 DEF Stepping
  <2>. QED
    BY <2>1, TurnFacts
<1>6. CASE StepLacks
  BY <1>2, <1>4, <1>5, <1>6 DEF StepLacks, GoesWrong, Fail
<1>7. CASE Verify
  <2>1. Running /\ step > 0 /\ clean
    <3>1. Running /\ step > Len(Turn.steps) /\ clean
      BY <1>7 DEF Verify
    <3>. QED
      BY <3>1, TurnFacts
  <2>. QED
    BY <1>2, <1>4, <1>7, <2>1 DEF Verify, Fail
<1>8. CASE Cascade
  BY <1>3, <1>8 DEF Cascade, Fail
<1>9. CASE Begin
  BY <1>1, <1>9 DEF Begin
<1>10. CASE ~(StepLacks \/ Verify \/ Cascade \/ Begin)
  <2>1. failed' = failed /\ clean
    BY <1>10 DEF Next, Skip, AlreadyInstalled, Install, StepLeftOut, StepWorks, StepFails,
                 Kill, Finish, Supply, vars
  <2>. QED
    BY <1>2, <2>1
<1>. QED
  BY <1>6, <1>7, <1>8, <1>9, <1>10

LEMMA GoodNext ==
  ASSUME NEW calm \in BOOLEAN, GoodInv(calm), [Next]_vars
  PROVE  GoodInv(calm)'
<1>1. TypeOK' /\ TurnInv'
  BY NextTypes, TurnNext DEF GoodInv
<1>2. ASSUME Sane(calm)'
      PROVE  /\ ShippedInv(calm)' /\ TieInv(calm)' /\ PastInv(calm)'
             /\ BehindInv(calm)' /\ InstallInv(calm)'
  <2>1. /\ TypeOK /\ TurnInv /\ ShippedInv(calm) /\ TieInv(calm) /\ PastInv(calm)
        /\ BehindInv(calm) /\ InstallInv(calm)
    BY <1>2, SaneBefore DEF GoodInv
  <2>2. ShippedInv(calm)'
    BY <1>2, <2>1, ShippedNext
  <2>3. TieInv(calm)'
    BY <1>1, <1>2, <2>1, TieNext
  <2>4. PastInv(calm)'
    BY <1>1, <1>2, <2>1, PastNext
  <2>5. BehindInv(calm)'
    BY <1>1, <1>2, <2>1, BehindNext
  <2>6. InstallInv(calm)'
    BY <1>1, <1>2, <2>1, InstallNext
  <2>. QED
    BY <2>2, <2>3, <2>4, <2>5, <2>6
<1>. QED
  BY <1>1, <1>2 DEF GoodInv

LEMMA GoodInit ==
  ASSUME NEW calm \in BOOLEAN, Init
  PROVE  GoodInv(calm) /\ BlameInv(calm)
<1>1. TypeOK /\ ~Running /\ machine \in Machines
  BY InitTypes DEF Init, Running
<1>2. TurnInv /\ ShippedInv(calm) /\ PastInv(calm) /\ InstallInv(calm) /\ BlameInv(calm)
  BY <1>1 DEF Init, TurnInv, ShippedInv, PastInv, InstallInv, BlameInv, Stepping
<1>3. TieInv(calm)
  BY <1>1, TieFacts DEF Init, TieInv
<1>4. BehindInv(calm)
  <2>1. DOMAIN plan \subseteq Nat /\ 0 \notin DOMAIN plan /\ at = 0
    BY PlansAssumption DEF Init
  <2>2. \A j \in DOMAIN plan : ~(j < at)
    BY <2>1
  <2>. QED
    BY <2>2 DEF BehindInv
<1>. QED
  BY <1>1, <1>2, <1>3, <1>4 DEF GoodInv

(* No plan has a module that is blamed and not listed.                      *)
LEMMA Blamed ==
  ASSUME NEW calm \in BOOLEAN, AllSuffice(calm), GoodInv(calm), BlameInv(calm), [Next]_vars
  PROVE  GoodInv(calm)' /\ BlameInv(calm)'
<1>1. GoodInv(calm)'
  BY GoodNext
<1>2. BlameInv(calm)'
  <2>1. CASE Sane(calm)'
    <3>1. Sane(calm) /\ TypeOK
      BY <2>1, SaneBefore DEF GoodInv
    <3>2. Suffices(machine, plan, calm)
      BY <3>1 DEF AllSuffice, TypeOK
    <3>. QED
      BY <2>1, <3>1, <3>2, BlameNext DEF GoodInv
  <2>2. CASE ~Sane(calm)'
    BY <2>2 DEF BlameInv
  <2>. QED
    BY <2>1, <2>2
<1>. QED
  BY <1>1, <1>2

(* A plan in which every module's install is covered by what its module    *)
(* requires is complete: whatever the catalog, the machine and the number  *)
(* of runs, a run without a mishap fails nothing but the listed gaps and   *)
(* what requires them (build_plan closes a plan under requires, and the    *)
(* runner installs in its order).                                          *)
THEOREM PlansAreComplete ==
  ASSUME AllSuffice(TRUE)
  PROVE  Spec => []Complete
<1>. DEFINE Inv == GoodInv(TRUE) /\ BlameInv(TRUE)
<1>1. Init => Inv
  BY GoodInit
<1>2. Inv /\ [Next]_vars => Inv'
  BY Blamed
<1>3. Inv => Complete
  BY DEF BlameInv, Sane, Complete, Settled, Excused
<1>. HIDE DEF Inv
<1>. QED
  BY <1>1, <1>2, <1>3, PTL DEF Spec

(* And if it is covered without what a command that failed or a kill can   *)
(* leave torn, then after any number of mishaps, in any runs, one clean run *)
(* of the plan fails nothing but the listed gaps, the listed fragile       *)
(* modules, and what requires them: install is repaired by running it again.*)
THEOREM PlansConverge ==
  ASSUME AllSuffice(FALSE)
  PROVE  Spec => []Converges
<1>. DEFINE Inv == GoodInv(FALSE) /\ BlameInv(FALSE)
<1>1. Init => Inv
  BY GoodInit
<1>2. Inv /\ [Next]_vars => Inv'
  BY Blamed
<1>3. Inv => Converges
  BY DEF BlameInv, Sane, Converges, Settled, Excused
<1>. HIDE DEF Inv
<1>. QED
  BY <1>1, <1>2, <1>3, PTL DEF Spec

-----------------------------------------------------------------------------
(* The first run of a plan                                                 *)

(* What became of step j of p[i], and with the facts F stays so: it brought *)
(* what it gives, was left out, or it or a return before it lacked         *)
(* something that does not come later.                                     *)
Final(mach, p, F, i, j) ==
  LET steps == ModuleAt(mach, p, i).steps
  IN \/ steps[j].gives \subseteq F
     \/ \E h \in 1..j : steps[h].unless # {} /\ steps[h].unless \subseteq F /\ j < h + steps[h].over
     \/ \E h \in 1..j : /\ h = j \/ steps[h].stops
                        /\ \E x \in steps[h].needs \ F : x \notin GivenAfter(mach, p, i, h)

FirstRun == runs = 1 /\ clean

(* The first run is over with its first mishap.                            *)
RunInv ==
  /\ runs = 0 => at = 0 /\ mishaps = NoMishap
  /\ FirstRun => mishaps = NoMishap

(* Facts come from the machine, the user and the modules so far.           *)
OriginInv ==
  /\ runs = 0 => facts \subseteq Shipped[machine] \cup UserFacts
  /\ FirstRun => facts \subseteq Before(machine, plan, Len(plan) + 1)
  /\ FirstRun /\ at > 0 =>
       facts \subseteq Before(machine, plan, at) \cup (IF step = 0 THEN {} ELSE Given(Turn.steps))

(* What a module's verify reads and only its own steps bring is not there  *)
(* without what all of those need.                                         *)
VitalInv ==
  FirstRun /\ Running =>
    \A g \in facts \ Before(machine, plan, at) : \A x :
      (/\ x \notin Lost(machine, TRUE)
       /\ \A k \in DOMAIN Turn.steps : g \in Turn.steps[k].gives => x \in Turn.steps[k].needs)
      => x \in facts

(* The module whose turn it is cannot verify: what is vital to it is not   *)
(* there.                                                                  *)
Doomed == \E x : x \notin facts /\ Vital(machine, plan, at, x)

(* Each step the install came past is final, unless the module fails.      *)
SoFarInv ==
  FirstRun /\ Running /\ step > 0 =>
    \/ Doomed
    \/ \A j \in DOMAIN Turn.steps : j < step => Final(machine, plan, facts, at, j)

(* So is each step of every module that was found installed, or installed. *)
DoneInv ==
  FirstRun =>
    \A i \in DOMAIN plan :
      (/\ i < at \/ at = 0
       /\ plan[i] \notin failed /\ ~SkippedOn(machine, ModuleAt(machine, plan, i)))
      => \A j \in DOMAIN ModuleAt(machine, plan, i).steps : Final(machine, plan, facts, i, j)

-----------------------------------------------------------------------------
LEMMA FinalStays ==
  ASSUME NEW mach, NEW p, NEW F, NEW i \in DOMAIN p, NEW j \in DOMAIN ModuleAt(mach, p, i).steps,
         NEW m \in DOMAIN p, NEW k \in DOMAIN ModuleAt(mach, p, m).steps,
         i \in Nat, m \in Nat, j \in Nat, k \in Nat,
         1..j \subseteq DOMAIN ModuleAt(mach, p, i).steps,
         i < m \/ (i = m /\ j < k), Stays(mach, p, i), Final(mach, p, F, i, j)
  PROVE  Final(mach, p, (F \cup ModuleAt(mach, p, m).steps[k].gives) \ ModuleAt(mach, p, m).steps[k].takes, i, j)
<1>. DEFINE steps == ModuleAt(mach, p, i).steps
            s == ModuleAt(mach, p, m).steps[k]
            G == (F \cup s.gives) \ s.takes
<1>1. \A h \in 1..j : IsAfter(m, k, i, h)
  <2>. SUFFICES ASSUME NEW h \in 1..j
                PROVE  i < m \/ (i = m /\ h < k)
    BY DEF IsAfter
  <2>1. h \in Nat /\ h <= j
    OBVIOUS
  <2>. QED
    BY <2>1
<1>2. IsAfter(m, k, i, j)
  BY DEF IsAfter
<1>3. ASSUME NEW h \in DOMAIN steps, IsAfter(m, k, i, h)
      PROVE  s.takes \cap (steps[h].gives \cup steps[h].unless) = {}
  BY <1>3 DEF Stays
<1>4. ASSUME NEW h \in DOMAIN steps, IsAfter(m, k, i, h), NEW x, x \notin GivenAfter(mach, p, i, h)
      PROVE  x \notin s.gives
  BY <1>4 DEF GivenAfter
<1>5. CASE steps[j].gives \subseteq F
  BY <1>2, <1>3, <1>5 DEF Final
<1>6. CASE \E h \in 1..j : steps[h].unless # {} /\ steps[h].unless \subseteq F /\ j < h + steps[h].over
  <2>1. PICK h \in 1..j : steps[h].unless # {} /\ steps[h].unless \subseteq F /\ j < h + steps[h].over
    BY <1>6
  <2>2. h \in DOMAIN steps /\ IsAfter(m, k, i, h)
    BY <1>1
  <2>3. steps[h].unless \subseteq G
    BY <1>3, <2>1, <2>2
  <2>. QED
    BY <2>1, <2>3 DEF Final
<1>7. CASE \E h \in 1..j : /\ h = j \/ steps[h].stops
                           /\ \E x \in steps[h].needs \ F : x \notin GivenAfter(mach, p, i, h)
  <2>1. PICK h \in 1..j : /\ h = j \/ steps[h].stops
                          /\ \E x \in steps[h].needs \ F : x \notin GivenAfter(mach, p, i, h)
    BY <1>7
  <2>2. PICK x \in steps[h].needs \ F : x \notin GivenAfter(mach, p, i, h)
    BY <2>1
  <2>3. x \notin s.gives
    BY <1>1, <1>4, <2>2
  <2>4. x \in steps[h].needs \ G
    BY <2>2, <2>3
  <2>. QED
    BY <2>1, <2>2, <2>4 DEF Final
<1>. QED
  BY <1>5, <1>6, <1>7 DEF Final

LEMMA BeforeGrows ==
  ASSUME NEW mach, NEW p, NEW i \in DOMAIN p, DOMAIN p \subseteq Nat
  PROVE  /\ Before(mach, p, i) \cup Given(ModuleAt(mach, p, i).steps) = Before(mach, p, i + 1)
         /\ Shipped[mach] \cup UserFacts \subseteq Before(mach, p, i)
<1>1. {m \in DOMAIN p : m < i + 1} = {m \in DOMAIN p : m < i} \cup {i}
  <2>1. \A m \in DOMAIN p : m < i + 1 <=> m < i \/ m = i
    OBVIOUS
  <2>. QED
    BY <2>1
<1>. DEFINE of(m) == Given(ModuleAt(mach, p, m).steps)
<1>2. UNION {of(m) : m \in {m \in DOMAIN p : m < i + 1}}
        = (UNION {of(m) : m \in {m \in DOMAIN p : m < i}}) \cup of(i)
  <2>. HIDE DEF of
  <2>. QED
    BY <1>1
<1>. QED
  BY <1>2 DEF Before

LEMMA AllBefore ==
  ASSUME NEW mach, NEW p, NEW i \in DOMAIN p, DOMAIN p = 1..Len(p), Len(p) \in Nat
  PROVE  /\ Before(mach, p, i) \cup Given(ModuleAt(mach, p, i).steps) \subseteq Before(mach, p, Len(p) + 1)
<1>1. \A m \in DOMAIN p : m < Len(p) + 1
  OBVIOUS
<1>2. Before(mach, p, i) \subseteq Before(mach, p, Len(p) + 1)
  BY <1>1 DEF Before
<1>3. Given(ModuleAt(mach, p, i).steps) \subseteq Before(mach, p, Len(p) + 1)
  BY <1>1 DEF Before
<1>. QED
  BY <1>2, <1>3

LEMMA PlanFacts ==
  ASSUME TypeOK
  PROVE  /\ DOMAIN plan = 1..Len(plan) /\ Len(plan) \in Nat /\ DOMAIN plan \subseteq Nat
         /\ machine \in Machines /\ at \in 0..(Len(plan) + 1)
         /\ ~Running => step = 0
         /\ \A i \in DOMAIN plan :
              /\ plan[i] \in DOMAIN Recipe[machine.os]
              /\ DOMAIN ModuleAt(machine, plan, i).steps = 1..Len(ModuleAt(machine, plan, i).steps)
              /\ Len(ModuleAt(machine, plan, i).steps) \in Nat
<1>1. plan \in Seq(DOMAIN Recipe[machine.os]) /\ machine \in Machines
  BY PlansAssumption DEF TypeOK
<1>2. /\ DOMAIN plan = 1..Len(plan) /\ Len(plan) \in Nat /\ DOMAIN plan \subseteq Nat
      /\ at \in 0..(Len(plan) + 1)
  BY <1>1 DEF TypeOK
<1>3. ~Running => step = 0
  BY DEF TypeOK
<1>4. \A i \in DOMAIN plan : plan[i] \in DOMAIN Recipe[machine.os]
  BY <1>1
<1>. QED
  BY <1>1, <1>2, <1>3, <1>4, RecipesAssumption DEF ModuleAt

LEMMA RunNext ==
  ASSUME TypeOK, RunInv, [Next]_vars
  PROVE  RunInv'
<1>1. CASE Begin
  <2>1. runs \in Nat /\ runs' = runs + 1 /\ mishaps' = mishaps
    BY <1>1, BoundsAssumption DEF Begin, TypeOK
  <2>. QED
    BY <2>1 DEF RunInv, FirstRun
<1>2. CASE StepFails \/ Kill
  <2>1. runs' = runs /\ clean' = FALSE /\ Running
    BY <1>2 DEF StepFails, Kill, Executing, Stepping
  <2>2. runs # 0
    BY <2>1 DEF RunInv, Running
  <2>. QED
    BY <2>1, <2>2 DEF RunInv, FirstRun
<1>3. CASE ~(Begin \/ StepFails \/ Kill)
  <2>1. UNCHANGED <<runs, mishaps>> /\ (clean' => clean) /\ (at = 0 => at' = 0)
    BY <1>3, PlanFacts DEF Next, Skip, Cascade, AlreadyInstalled, Install, StepLeftOut, StepWorks,
                StepLacks, Verify, Finish, Supply, vars, Running, Ready, Executing, Stepping
  <2>. QED
    BY <2>1 DEF RunInv, FirstRun
<1>. QED
  BY <1>1, <1>2, <1>3

(* What may happen in the first run.                                       *)
LEMMA FirstMoves ==
  ASSUME TypeOK, RunInv, [Next]_vars, FirstRun'
  PROVE  \/ Begin /\ runs = 0
         \/ UNCHANGED vars
         \/ FirstRun /\ Running /\ GoOn /\ UNCHANGED facts
         \/ FirstRun /\ Install
         \/ FirstRun /\ Stepping /\ UNCHANGED <<at, failed>> /\ step' # 0 /\ (StepLeftOut \/ StepWorks \/ StepLacks)
         \/ FirstRun /\ Finish
<1>1. CASE Begin
  <2>1. runs \in Nat /\ runs' = runs + 1
    BY <1>1, BoundsAssumption DEF Begin, TypeOK
  <2>. QED
    BY <1>1, <2>1 DEF FirstRun
<1>2. CASE StepFails \/ Kill \/ Supply
  BY <1>2 DEF StepFails, Kill, Supply, FirstRun
<1>3. CASE Skip \/ Cascade \/ AlreadyInstalled \/ Verify
  BY <1>3 DEF Skip, Cascade, AlreadyInstalled, Verify, Ready, Fail, FirstRun
<1>4. CASE Install \/ Finish
  BY <1>4 DEF Install, Finish, FirstRun
<1>5. CASE StepLeftOut \/ StepWorks \/ StepLacks
  <2>1. FirstRun /\ Stepping /\ Running /\ step \in DOMAIN Turn.steps /\ Now = Turn.steps[step]
    BY <1>5 DEF StepLeftOut, StepWorks, StepLacks, Executing, Stepping, FirstRun, Now
  <2>2. /\ step \in Nat /\ Now.over \in Nat /\ Len(Turn.steps) \in Nat
        /\ step + 1 # 0 /\ step + Now.over # 0 /\ Len(Turn.steps) + 1 # 0
    <3>1. step \in 1..Len(Turn.steps) /\ Now.over \in Nat /\ Len(Turn.steps) \in Nat
      BY <2>1, TurnFacts
    <3>. HIDE DEF Now
    <3>. QED
      BY <3>1
  <2>3. CASE StepLeftOut \/ StepWorks
    BY <2>1, <2>2, <2>3 DEF StepLeftOut, StepWorks
  <2>4. CASE StepLacks
    BY <2>1, <2>2, <2>4 DEF StepLacks, GoesWrong, Fail
  <2>. QED
    BY <1>5, <2>3, <2>4
<1>. QED
  BY <1>1, <1>2, <1>3, <1>4, <1>5 DEF Next

LEMMA OriginNext ==
  ASSUME TypeOK, RunInv, OriginInv, [Next]_vars
  PROVE  OriginInv'
<1>0. UNCHANGED <<machine, plan>>
  BY PlanStays
<1>1. runs' = 0 => facts' \subseteq Shipped[machine] \cup UserFacts
  <2>. SUFFICES ASSUME runs' = 0
                PROVE  facts' \subseteq Shipped[machine] \cup UserFacts
    OBVIOUS
  <2>1. runs = 0
    BY BoundsAssumption DEF Next, Begin, Skip, Cascade, AlreadyInstalled, Install, StepLeftOut, StepWorks,
       StepLacks, StepFails, Verify, Kill, Finish, Supply, vars, TypeOK
  <2>2. at = 0
    BY <2>1 DEF RunInv
  <2>3. ~Running
    BY <2>2 DEF Running
  <2>4. facts' = facts \/ facts' = facts \cup UserFacts
    BY <2>3 DEF Next, Begin, Skip, Cascade, AlreadyInstalled, Install, Ready, StepLeftOut, StepWorks,
       StepLacks, StepFails, Verify, Kill, Finish, Supply, Executing, Stepping, vars
  <2>. QED
    BY <2>1, <2>4 DEF OriginInv
<1>. DEFINE all == Before(machine, plan, Len(plan) + 1)
            now == Before(machine, plan, at) \cup (IF step = 0 THEN {} ELSE Given(Turn.steps))
<1>2. ASSUME FirstRun'
      PROVE  /\ facts' \subseteq all
             /\ at' > 0 => facts' \subseteq Before(machine, plan, at')
                                            \cup (IF step' = 0 THEN {} ELSE Given(Turn'.steps))
  <2>1. CASE Begin /\ runs = 0
    <3>1. facts' \subseteq Shipped[machine] \cup UserFacts
      BY <2>1 DEF Begin, OriginInv
    <3>. QED
      BY <3>1 DEF Before
  <2>2. CASE UNCHANGED vars
    BY <1>2, <2>2 DEF OriginInv, FirstRun, Turn, Entry, vars
  <2>3. CASE FirstRun /\ Running /\ GoOn /\ UNCHANGED facts
    <3>1. facts \subseteq now /\ facts \subseteq all /\ at' = at + 1 /\ step' = 0 /\ facts' = facts
      BY <2>3 DEF OriginInv, Running, GoOn
    <3>2. at \in DOMAIN plan /\ Turn = ModuleAt(machine, plan, at)
      BY <2>3, TurnFacts
    <3>3. now \subseteq Before(machine, plan, at + 1)
      BY <3>2, BeforeGrows, PlanFacts
    <3>. QED
      BY <3>1, <3>3
  <2>4. CASE FirstRun /\ Install
    <3>1. facts \subseteq now /\ facts \subseteq all /\ at' = at /\ step = 0 /\ facts' = facts
      BY <2>4 DEF OriginInv, Install, Ready, Running
    <3>. QED
      BY <3>1
  <2>5. CASE /\ FirstRun /\ Stepping /\ UNCHANGED <<at, failed>> /\ step' # 0
             /\ StepLeftOut \/ StepWorks \/ StepLacks
    <3>1. Running /\ step \in DOMAIN Turn.steps /\ Now = Turn.steps[step]
      BY <2>5 DEF Stepping, Now
    <3>2. /\ facts \subseteq Before(machine, plan, at) \cup Given(Turn.steps) /\ facts \subseteq all
          /\ Given(Turn.steps) \subseteq all
      <4>1. facts \subseteq now /\ facts \subseteq all
        BY <2>5, <3>1 DEF OriginInv, Running
      <4>2. Given(Turn.steps) \subseteq all
        BY <3>1, TurnFacts, AllBefore, PlanFacts
      <4>. QED
        BY <4>1, <4>2
    <3>3. Now.gives \subseteq Given(Turn.steps)
      BY <3>1 DEF Given
    <3>4. facts' \subseteq facts \cup Now.gives
      BY <2>5 DEF StepLeftOut, StepWorks, StepLacks
    <3>5. Turn' = Turn
      BY <1>0, <2>5, SameTurn
    <3>. QED
      BY <2>5, <3>2, <3>3, <3>4, <3>5
  <2>6. CASE FirstRun /\ Finish
    BY <2>6 DEF Finish, OriginInv
  <2>. QED
    BY <1>2, <2>1, <2>2, <2>3, <2>4, <2>5, <2>6, FirstMoves
<1>. QED
  BY <1>0, <1>1, <1>2 DEF OriginInv

LEMMA VitalNext ==
  ASSUME TypeOK, RunInv, OriginInv, OriginInv', VitalInv, [Next]_vars
  PROVE  VitalInv'
<1>0. UNCHANGED <<machine, plan>> /\ machine \in Machines
  BY PlanStays DEF TypeOK
<1>. SUFFICES ASSUME FirstRun', Running', NEW g \in facts', g \notin Before(machine, plan, at'),
                     NEW x, x \notin Lost(machine, TRUE),
                     \A k \in DOMAIN Turn'.steps : g \in Turn'.steps[k].gives => x \in Turn'.steps[k].needs
              PROVE  x \in facts'
  BY <1>0 DEF VitalInv
<1>1. step' # 0
  BY <1>0 DEF OriginInv, Running
<1>2. CASE UNCHANGED vars
  BY <1>2 DEF VitalInv, FirstRun, Running, Turn, Entry, vars
<1>3. CASE FirstRun /\ Install
  <2>1. facts \subseteq Before(machine, plan, at) /\ at' = at /\ facts' = facts
    BY <1>3 DEF OriginInv, Install, Ready, Running
  <2>. QED
    BY <2>1
<1>4. CASE FirstRun /\ Stepping /\ UNCHANGED at /\ (StepLeftOut \/ StepWorks \/ StepLacks)
  <2>1. Running /\ step \in DOMAIN Turn.steps /\ Now = Turn.steps[step]
    BY <1>4 DEF Stepping, Now
  <2>2. Turn' = Turn
    BY <1>0, <1>4, SameTurn
  <2>3. Now.takes \subseteq Lost(machine, TRUE)
    BY <1>0, <2>1, TurnFacts, LostFacts
  <2>4. CASE g \in facts
    <3>1. x \in facts
      BY <1>4, <2>1, <2>2, <2>4 DEF VitalInv
    <3>. QED
      BY <1>4, <2>3, <3>1 DEF StepLeftOut, StepWorks, StepLacks
  <2>5. CASE g \notin facts
    <3>1. StepWorks /\ g \in Now.gives
      BY <1>4, <2>5 DEF StepLeftOut, StepWorks, StepLacks
    <3>2. x \in Now.needs
      BY <2>1, <2>2, <3>1
    <3>. QED
      BY <2>3, <3>1, <3>2 DEF StepWorks, Executing, Able
  <2>. QED
    BY <2>4, <2>5
<1>5. ~(Begin \/ GoOn \/ Finish)
  BY <1>1 DEF Begin, GoOn, Finish
<1>. QED
  BY <1>2, <1>3, <1>4, <1>5, FirstMoves

(* Nothing is taken away from what is passed in the first run, and nothing *)
(* it lacked is brought.                                                   *)
LEMMA PassedStays ==
  ASSUME TypeOK, Stepping, StepLeftOut \/ StepWorks \/ StepLacks,
         NEW i \in DOMAIN plan, NEW j \in DOMAIN ModuleAt(machine, plan, i).steps,
         i < at \/ (i = at /\ j < step), Stays(machine, plan, i),
         Final(machine, plan, facts, i, j)
  PROVE  Final(machine, plan, facts', i, j)
<1>1. CASE ~StepWorks
  BY <1>1 DEF StepLeftOut, StepLacks
<1>2. CASE StepWorks
  <2>1. /\ Running /\ step \in DOMAIN Turn.steps
        /\ facts' = (facts \cup Turn.steps[step].gives) \ Turn.steps[step].takes
    BY <1>2 DEF StepWorks, Executing, Stepping, Now
  <2>2. /\ at \in DOMAIN plan /\ Turn = ModuleAt(machine, plan, at)
        /\ DOMAIN Turn.steps = 1..Len(Turn.steps) /\ Len(Turn.steps) \in Nat /\ at \in Nat
    BY <2>1, TurnFacts
  <2>3. /\ i \in Nat /\ step \in Nat /\ j \in Nat
        /\ 1..j \subseteq DOMAIN ModuleAt(machine, plan, i).steps
    <3>1. /\ DOMAIN ModuleAt(machine, plan, i).steps = 1..Len(ModuleAt(machine, plan, i).steps)
          /\ Len(ModuleAt(machine, plan, i).steps) \in Nat /\ i \in Nat
      BY PlanFacts
    <3>. QED
      BY <2>1, <2>2, <3>1
  <2>. QED
    BY <2>1, <2>2, <2>3, FinalStays
<1>. QED
  BY <1>1, <1>2

LEMMA SoFarNext ==
  ASSUME TypeOK, TypeOK', RunInv, TurnInv, InstallInv(TRUE), SoFarInv,
         Ordered(machine, plan), [Next]_vars
  PROVE  SoFarInv'
<1>0. UNCHANGED <<machine, plan>> /\ machine \in Machines
  BY PlanStays DEF TypeOK
<1>. SUFFICES ASSUME FirstRun', Running', step' > 0
              PROVE  \/ Doomed'
                     \/ \A j \in DOMAIN Turn'.steps : j < step' => Final(machine, plan, facts', at', j)
  BY <1>0 DEF SoFarInv
<1>2. CASE UNCHANGED vars
  BY <1>2 DEF SoFarInv, Doomed, FirstRun, Running, Turn, Entry, vars
<1>3. CASE FirstRun /\ Install
  <2>1. Running /\ at' = at /\ step' = 1
    BY <1>3 DEF Install, Ready
  <2>2. Turn' = Turn
    BY <1>0, <2>1, SameTurn
  <2>3. \A j \in DOMAIN Turn.steps : ~(j < 1)
    BY <2>1, TurnFacts
  <2>. QED
    BY <2>1, <2>2, <2>3
<1>4. CASE /\ FirstRun /\ Stepping /\ UNCHANGED <<at, failed>> /\ step' # 0
           /\ StepLeftOut \/ StepWorks \/ StepLacks
  <2>. DEFINE steps == Turn.steps
              have == Have(machine, plan, at, TRUE)
  <2>1. Running /\ step \in DOMAIN steps /\ Now = steps[step] /\ Turn' = Turn
    BY <1>0, <1>4, SameTurn DEF Stepping, Now
  <2>2. /\ at \in DOMAIN plan /\ Turn = ModuleAt(machine, plan, at)
        /\ DOMAIN steps = 1..Len(steps) /\ Len(steps) \in Nat
        /\ step \in Nat /\ step > 0 /\ ~SkippedOn(machine, Turn)
        /\ \A h \in DOMAIN steps : steps[h].over \in Nat
    BY <2>1, TurnFacts DEF TurnInv, Skipped
  <2>3. Stays(machine, plan, at)
    BY <2>2 DEF Ordered
  <2>4. PICK T \in SUBSET DOMAIN steps : InTime(machine, plan, at, have, T)
    <3>1. PICK U \in SUBSET DOMAIN steps : InTime(machine, plan, at, have, DOMAIN steps \ U)
      BY <2>2 DEF Ordered
    <3>2. DOMAIN steps \ U \in SUBSET DOMAIN steps
      OBVIOUS
    <3>. QED
      BY <3>1, <3>2
  <2>5. Sure(machine, TRUE, steps, have, T, step) \subseteq facts
    <3>1. Sound(machine, TRUE, steps, have, T)
      BY <2>2, <2>4 DEF InTime
    <3>. QED
      BY <1>4, <2>1, <2>2, <3>1 DEF InstallInv, FirstRun
  <2>6. CASE Doomed
    <3>1. PICK x : x \notin facts /\ Vital(machine, plan, at, x)
      BY <2>6 DEF Doomed
    <3>2. x \notin Now.gives
      BY <2>1, <2>2, <3>1 DEF Vital, Given
    <3>3. x \notin facts'
      BY <1>4, <3>1, <3>2 DEF StepLeftOut, StepWorks, StepLacks
    <3>. QED
      BY <1>0, <1>4, <3>1, <3>3 DEF Doomed
  <2>7. ASSUME NEW j \in DOMAIN steps, j < step, ~Doomed
        PROVE  Final(machine, plan, facts', at, j)
    <3>1. Final(machine, plan, facts, at, j)
      BY <1>4, <2>1, <2>2, <2>7 DEF SoFarInv
    <3>. QED
      BY <1>4, <2>2, <2>3, <2>7, <3>1, PassedStays
  <2>8. ASSUME NEW j \in DOMAIN steps, step <= j, j < step', ~(Doomed')
        PROVE  Final(machine, plan, facts', at, j)
    <3>0. j \in Nat /\ step \in 1..j
      BY <2>1, <2>2, <2>8
    <3>1. CASE StepWorks
      <4>1. step' = step + 1 /\ facts' = (facts \cup Now.gives) \ Now.takes
        BY <3>1 DEF StepWorks
      <4>2. j = step
        BY <2>2, <2>8, <3>0, <4>1
      <4>3. Now.takes \cap Now.gives = {}
        BY <2>1, <2>2, <2>3 DEF Stays
      <4>4. steps[j].gives \subseteq facts'
        BY <2>1, <4>1, <4>2, <4>3
      <4>. QED
        BY <2>2, <4>4 DEF Final
    <3>2. CASE StepLeftOut
      <4>1. step' = step + Now.over /\ Now.unless # {} /\ Now.unless \subseteq facts /\ facts' = facts
        BY <3>2 DEF StepLeftOut, LeftOut
      <4>2. j < step + steps[step].over
        BY <2>1, <2>8, <4>1
      <4>. QED
        BY <2>1, <2>2, <3>0, <4>1, <4>2 DEF Final
    <3>3. CASE StepLacks
      <4>1. facts' = facts /\ ~(Now.needs \subseteq facts)
        BY <3>3 DEF StepLacks, Able
      <4>2. j = step \/ steps[step].stops
        <5>1. CASE Now.stops
          BY <2>1, <5>1
        <5>2. CASE ~Now.stops
          <6>1. step' = step + 1
            <7>1. at' # at + 1
              BY <1>4, <2>2, PlanFacts
            <7>. QED
              BY <3>3, <5>2, <7>1 DEF StepLacks, GoesWrong, Fail, GoOn
          <6>. QED
            BY <2>2, <2>8, <3>0, <6>1
        <5>. QED
          BY <5>1, <5>2
      <4>3. PICK x \in steps[step].needs : x \notin facts
        BY <2>1, <4>1
      <4>4. ~Vital(machine, plan, at, x)
        BY <1>0, <1>4, <2>8, <4>1, <4>3 DEF Doomed
      <4>5. x \notin GivenAfter(machine, plan, at, step)
        <5>1. x \notin Sure(machine, TRUE, steps, have, T, step)
          BY <2>5, <4>3
        <5>. QED
          BY <2>1, <2>2, <2>4, <4>3, <4>4, <5>1 DEF InTime
      <4>. QED
        BY <2>2, <3>0, <4>1, <4>2, <4>3, <4>5 DEF Final
    <3>. QED
      BY <1>4, <3>1, <3>2, <3>3
  <2>9. \A j \in DOMAIN steps : j < step \/ step <= j
    BY <2>2
  <2>. QED
    BY <1>4, <2>1, <2>6, <2>7, <2>8, <2>9
<1>5. Running'
  OBVIOUS
<1>6. ~(Begin \/ GoOn \/ Finish)
  BY DEF Begin, GoOn, Finish
<1>. QED
  BY <1>2, <1>3, <1>4, <1>6, FirstMoves

(* A module that is found installed needs nothing done.                    *)
LEMMA FoundWhole ==
  ASSUME TypeOK, ShippedInv(TRUE), TieInv(TRUE), BehindInv(TRUE), OriginInv,
         Ordered(machine, plan), FirstRun, Ready, Verified(Turn),
         NEW j \in DOMAIN Turn.steps
  PROVE  Final(machine, plan, facts, at, j)
<1>. DEFINE have == Have(machine, plan, at, TRUE)
            base == have \cup (Turn.reads \ Lost(machine, TRUE))
            known == Grown(machine, TRUE, base)
            all == Before(machine, plan, Len(plan) + 1)
<1>1. Running /\ step = 0 /\ ~Stepping /\ ~SkippedOn(machine, Turn)
  <2>1. Running /\ step = 0 /\ ~Skipped(Turn)
    BY DEF Ready
  <2>2. 0 \notin DOMAIN Turn.steps
    BY <2>1, TurnFacts
  <2>. QED
    BY <2>1, <2>2 DEF Stepping, Skipped
<1>2. at \in DOMAIN plan /\ Turn = ModuleAt(machine, plan, at) /\ at > 0
  BY <1>1, TurnFacts DEF Running
<1>3. Turn.reads \subseteq facts /\ have \subseteq facts
  BY HaveThere DEF Verified, FirstRun
<1>4. ~New(machine, plan, at)
  <2>1. facts \subseteq Before(machine, plan, at)
    BY <1>1, <1>2 DEF OriginInv
  <2>. QED
    BY <1>2, <1>3, <2>1 DEF New
<1>5. Whole(machine, plan, at, have)
  BY <1>1, <1>2, <1>4 DEF Ordered
<1>6. known \subseteq facts
  <2>1. base \subseteq facts
    BY <1>3
  <2>2. \A g \in facts \cap DOMAIN TieTable[machine][TRUE] : TieTable[machine][TRUE][g] \subseteq facts
    BY <1>1 DEF TieInv, NextBrings
  <2>. HIDE DEF base
  <2>. QED
    BY <2>1, <2>2, GrownWithin
<1>7. facts \subseteq all
  BY DEF OriginInv
<1>8. ASSUME NEW h \in 1..j, NEW x, x \notin all
      PROVE  x \notin facts /\ x \notin GivenAfter(machine, plan, at, h)
  <2>1. \A m \in DOMAIN plan : m < Len(plan) + 1
    BY PlanFacts
  <2>2. GivenAfter(machine, plan, at, h) \subseteq all
    BY <2>1 DEF GivenAfter, Before, Given
  <2>. QED
    BY <1>7, <1>8, <2>2
<1>9. \/ Turn.steps[j].gives \subseteq known
      \/ \E h \in 1..j : \/ /\ Turn.steps[h].unless # {} /\ Turn.steps[h].unless \subseteq known
                            /\ j < h + Turn.steps[h].over
                         \/ Turn.steps[h].stops /\ ~(Turn.steps[h].needs \subseteq all)
  BY <1>2, <1>5 DEF Whole
<1>. HIDE DEF known, all
<1>10. CASE Turn.steps[j].gives \subseteq known
  BY <1>2, <1>6, <1>10 DEF Final
<1>11. CASE \E h \in 1..j : /\ Turn.steps[h].unless # {} /\ Turn.steps[h].unless \subseteq known
                            /\ j < h + Turn.steps[h].over
  BY <1>2, <1>6, <1>11 DEF Final
<1>12. CASE \E h \in 1..j : Turn.steps[h].stops /\ ~(Turn.steps[h].needs \subseteq all)
  <2>1. PICK h \in 1..j : Turn.steps[h].stops /\ ~(Turn.steps[h].needs \subseteq all)
    BY <1>12
  <2>2. PICK x \in Turn.steps[h].needs : x \notin all
    BY <2>1
  <2>3. x \notin facts /\ x \notin GivenAfter(machine, plan, at, h)
    BY <1>8, <2>2
  <2>. QED
    BY <1>2, <2>1, <2>2, <2>3 DEF Final
<1>. QED
  BY <1>9, <1>10, <1>11, <1>12

LEMMA DoneNext ==
  ASSUME TypeOK, TypeOK', RunInv, GoodInv(TRUE), OriginInv, VitalInv, SoFarInv, DoneInv,
         Ordered(machine, plan), [Next]_vars
  PROVE  DoneInv'
<1>0. UNCHANGED <<machine, plan>> /\ machine \in Machines
  BY PlanStays DEF TypeOK
<1>. SUFFICES ASSUME FirstRun', NEW i \in DOMAIN plan, i < at' \/ at' = 0, plan[i] \notin failed',
                     ~SkippedOn(machine, ModuleAt(machine, plan, i)),
                     NEW j \in DOMAIN ModuleAt(machine, plan, i).steps
              PROVE  Final(machine, plan, facts', i, j)
  BY <1>0 DEF DoneInv
<1>1. i \in Nat /\ i >= 1 /\ at \in Nat /\ i <= Len(plan) /\ Len(plan) \in Nat
  BY PlanFacts
<1>2. CASE Begin
  BY <1>1, <1>2 DEF Begin
<1>3. CASE UNCHANGED vars
  BY <1>3 DEF DoneInv, FirstRun, vars
<1>4. CASE FirstRun /\ Running /\ GoOn /\ UNCHANGED facts
  <2>1. at' = at + 1 /\ at > 0
    BY <1>4 DEF GoOn, Running
  <2>2. \/ Skip
        \/ AlreadyInstalled
        \/ Verify /\ Verified(Turn) /\ failed' = failed
        \/ failed' = failed \cup {plan[at]}
    <3>1. ~(Begin \/ Install \/ StepLeftOut \/ StepWorks \/ Kill \/ Finish \/ Supply \/ UNCHANGED vars)
      <4>1. at' # at /\ at' # 0
        BY <1>1, <2>1
      <4>2. at # 0
        BY <2>1
      <4>. QED
        BY <4>1, <4>2 DEF Begin, Install, StepLeftOut, StepWorks, Kill, Finish, Supply, vars
    <3>2. CASE StepLacks \/ StepFails
      <4>1. at' # at
        BY <1>1, <2>1
      <4>. QED
        BY <3>2, <4>1 DEF StepLacks, StepFails, GoesWrong, Fail
    <3>. QED
      BY <3>1, <3>2 DEF Next, Verify, Cascade, Fail
  <2>3. failed \subseteq failed' /\ (i < at => Final(machine, plan, facts, i, j))
    <3>1. failed \subseteq failed'
      BY <2>2 DEF Skip, AlreadyInstalled
    <3>. QED
      BY <1>4, <3>1 DEF DoneInv
  <2>4. CASE i = at
    <3>1. Turn = ModuleAt(machine, plan, i) /\ ~Skipped(Turn)
      BY <2>4 DEF Turn, Entry, ModuleAt, Skipped
    <3>2. /\ Sane(TRUE) /\ ShippedInv(TRUE) /\ TieInv(TRUE) /\ BehindInv(TRUE)
      BY <1>4 DEF RunInv, Sane, GoodInv
    <3>3. CASE AlreadyInstalled
      <4>1. Ready /\ Verified(Turn)
        BY <3>3 DEF AlreadyInstalled
      <4>. QED
        BY <1>4, <2>4, <3>1, <3>2, <4>1, FoundWhole
    <3>4. CASE Verify /\ Verified(Turn)
      <4>1. ~Doomed
        <5>. SUFFICES ASSUME NEW x, x \notin facts, Vital(machine, plan, at, x)
                      PROVE  FALSE
          BY DEF Doomed
        <5>1. PICK g \in Turn.reads \ Before(machine, plan, at) :
                \A k \in DOMAIN Turn.steps : g \in Turn.steps[k].gives => x \in Turn.steps[k].needs
          BY <2>4, <3>1 DEF Vital
        <5>2. g \in facts /\ x \notin Lost(machine, TRUE)
          BY <3>4 DEF Verified, Vital
        <5>. QED
          BY <1>4, <5>1, <5>2 DEF VitalInv
      <4>2. /\ step > Len(Turn.steps) /\ Len(Turn.steps) \in Nat /\ step \in Nat
            /\ DOMAIN Turn.steps = 1..Len(Turn.steps)
        BY <1>4, <3>4, TurnFacts DEF Verify
      <4>3. step > 0 /\ j < step
        BY <3>1, <4>2
      <4>. QED
        BY <1>4, <2>4, <3>1, <4>1, <4>3 DEF SoFarInv
    <3>. QED
      BY <2>2, <2>4, <3>1, <3>3, <3>4 DEF Skip
  <2>. QED
    BY <1>1, <1>4, <2>1, <2>3, <2>4
<1>5. CASE FirstRun /\ Install
  BY <1>5 DEF DoneInv, Install, FirstRun
<1>6. CASE /\ FirstRun /\ Stepping /\ UNCHANGED <<at, failed>> /\ step' # 0
           /\ StepLeftOut \/ StepWorks \/ StepLacks
  <2>1. at > 0
    BY <1>6 DEF Stepping, Running
  <2>2. i < at /\ Final(machine, plan, facts, i, j)
    BY <1>6, <2>1 DEF DoneInv
  <2>3. Stays(machine, plan, i)
    BY DEF Ordered
  <2>. QED
    BY <1>6, <2>2, <2>3, PassedStays
<1>7. CASE FirstRun /\ Finish
  <2>1. at = Len(plan) + 1 /\ UNCHANGED <<facts, failed>>
    BY <1>7 DEF Finish
  <2>2. i < at
    BY <1>1, <2>1
  <2>. QED
    BY <1>7, <2>1, <2>2 DEF DoneInv
<1>. QED
  BY <1>2, <1>3, <1>4, <1>5, <1>6, <1>7, FirstMoves

FirstInv == GoodInv(TRUE) /\ RunInv /\ OriginInv /\ VitalInv /\ SoFarInv /\ DoneInv

LEMMA FirstNext ==
  ASSUME FirstInv, Ordered(machine, plan), [Next]_vars
  PROVE  FirstInv'
<1>1. TypeOK /\ TurnInv /\ GoodInv(TRUE)' /\ TypeOK' /\ RunInv' /\ OriginInv'
  <2>1. TypeOK /\ TurnInv
    BY DEF FirstInv, GoodInv
  <2>2. GoodInv(TRUE)'
    BY GoodNext DEF FirstInv
  <2>3. RunInv'
    BY <2>1, RunNext DEF FirstInv
  <2>4. OriginInv'
    BY <2>1, OriginNext DEF FirstInv
  <2>. QED
    BY <2>1, <2>2, <2>3, <2>4 DEF GoodInv
<1>2. VitalInv'
  BY <1>1, VitalNext DEF FirstInv
<1>3. SoFarInv'
  <2>1. CASE Sane(TRUE)
    <3>1. InstallInv(TRUE)
      BY <2>1 DEF FirstInv, GoodInv
    <3>. QED
      BY <1>1, <3>1, SoFarNext DEF FirstInv
  <2>2. CASE ~Sane(TRUE)
    <3>1. ~(FirstRun')
      <4>1. ~(Sane(TRUE)')
        BY <1>1, <2>2, SaneBefore
      <4>. QED
        BY <1>1, <4>1 DEF RunInv, Sane
    <3>. QED
      BY <3>1 DEF SoFarInv
  <2>. QED
    BY <2>1, <2>2
<1>4. DoneInv'
  BY <1>1, DoneNext DEF FirstInv
<1>. QED
  BY <1>1, <1>2, <1>3, <1>4 DEF FirstInv

LEMMA FirstInit == Init => FirstInv
<1>. SUFFICES ASSUME Init
              PROVE  FirstInv
  OBVIOUS
<1>1. GoodInv(TRUE)
  BY GoodInit
<1>2. RunInv /\ OriginInv /\ VitalInv /\ SoFarInv /\ DoneInv
  BY DEF Init, RunInv, OriginInv, VitalInv, SoFarInv, DoneInv, FirstRun
<1>. QED
  BY <1>1, <1>2 DEF FirstInv

(* A module whose every step is final has nothing left to do.              *)
LEMMA NothingUndone ==
  ASSUME TypeOK, NEW i \in DOMAIN plan,
         \A j \in DOMAIN ModuleAt(machine, plan, i).steps : Final(machine, plan, facts, i, j)
  PROVE  ~Undone(ModuleAt(machine, plan, i))
<1>. DEFINE mod == ModuleAt(machine, plan, i)
<1>. SUFFICES ASSUME NEW j \in DOMAIN mod.steps, Able(mod.steps[j]), ~NotReached(mod, j),
                     ~(mod.steps[j].gives \subseteq facts)
              PROVE  FALSE
  BY DEF Undone
<1>1. /\ DOMAIN mod.steps = 1..Len(mod.steps) /\ Len(mod.steps) \in Nat
      /\ \A h \in DOMAIN mod.steps : mod.steps[h].over \in Nat
  <2>1. machine \in Machines /\ plan[i] \in DOMAIN Recipe[machine.os]
    BY PlanFacts
  <2>. QED
    BY <2>1, RecipesAssumption DEF ModuleAt
<1>2. \A h \in 1..j : /\ ~(LeftOut(mod.steps[h]) /\ h + mod.steps[h].over > j)
                      /\ mod.steps[h].stops => Able(mod.steps[h])
  BY DEF NotReached
<1>3. Final(machine, plan, facts, i, j)
  OBVIOUS
<1>4. CASE \E h \in 1..j : mod.steps[h].unless # {} /\ mod.steps[h].unless \subseteq facts
                           /\ j < h + mod.steps[h].over
  <2>1. PICK h \in 1..j : mod.steps[h].unless # {} /\ mod.steps[h].unless \subseteq facts
                          /\ j < h + mod.steps[h].over
    BY <1>4
  <2>2. j \in Nat /\ h \in Nat /\ mod.steps[h].over \in Nat
    BY <1>1
  <2>. QED
    BY <1>2, <2>1, <2>2 DEF LeftOut
<1>5. CASE \E h \in 1..j : /\ h = j \/ mod.steps[h].stops
                           /\ \E x \in mod.steps[h].needs \ facts : x \notin GivenAfter(machine, plan, i, h)
  BY <1>2, <1>5 DEF Able
<1>. QED
  BY <1>3, <1>4, <1>5 DEF Final

(* If every plan is ordered, the first run of one leaves nothing undone    *)
(* that install could do: no best-effort step was passed over because what *)
(* it needs came later in the plan ("after" and "requires" are enough for  *)
(* toposort, in every order it may choose).                                *)
THEOREM PlansAreWellOrdered ==
  ASSUME AllOrdered
  PROVE  Spec => []WellOrdered
<1>1. FirstInv /\ [Next]_vars => FirstInv'
  <2>1. FirstInv => Ordered(machine, plan)
    BY DEF FirstInv, GoodInv, TypeOK, AllOrdered
  <2>. QED
    BY <2>1, FirstNext
<1>2. FirstInv => WellOrdered
  <2>. SUFFICES ASSUME FirstInv, Settled, runs = 1, NEW m \in Planned \ failed, ~Skipped(Entry(m))
                PROVE  ~Undone(Entry(m))
    BY DEF WellOrdered, AllDone
  <2>1. PICK i \in DOMAIN plan : m = plan[i]
    BY DEF Planned
  <2>2. Entry(m) = ModuleAt(machine, plan, i) /\ ~SkippedOn(machine, ModuleAt(machine, plan, i))
    BY <2>1 DEF Entry, ModuleAt, Skipped
  <2>3. \A j \in DOMAIN ModuleAt(machine, plan, i).steps : Final(machine, plan, facts, i, j)
    BY <2>1, <2>2 DEF FirstInv, DoneInv, FirstRun, Settled
  <2>. QED
    BY <2>2, <2>3, NothingUndone DEF FirstInv, GoodInv
<1>. QED
  BY <1>1, <1>2, FirstInit, PTL DEF Spec
=============================================================================
