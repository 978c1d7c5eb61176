-------------------------- MODULE InstallRun_proofs --------------------------
(* Proofs about install runs, for every catalog without cycles, every      *)
(* machine and every sequence of runs: types, how far a failure reaches,   *)
(* that a run asks for the password up front, that nothing is installed    *)
(* again unasked, and that permissions are those of the app as it is.      *)
EXTENDS InstallRun, FiniteSetTheorems, TLAPS

USE ConstantsAssumption

RunType ==
  [pc: {"idle", "running"}, plan: Seq(Module), at: Nat, wanted: SUBSET Module, mode: Mode,
   forced: SUBSET Module, skip: SUBSET Module, dry: BOOLEAN, asked: BOOLEAN, root: BOOLEAN,
   tried: SUBSET Module, late: SUBSET Module]

Types ==
  /\ host \in Hosts
  /\ installed \in SUBSET Module
  /\ probe \in [OwnProbe -> Need]
  /\ build \in [Module -> 0..MaxBuilds]
  /\ confirmed \in [Module -> {None} \cup 0..MaxBuilds]
  /\ run \in RunType
  /\ run.at \in 1..(Len(run.plan) + 1)
  /\ result \in [Module -> Status]

(* The plan lists a module once, and after what it requires.               *)
PlanInv ==
  /\ \A i, j \in DOMAIN run.plan : i < j => run.plan[i] # run.plan[j]
  /\ \A j \in DOMAIN run.plan : \A d \in host.requires[run.plan[j]] \cap Planned :
       \E i \in DOMAIN run.plan : i < j /\ run.plan[i] = d

DoneInv ==
  /\ \A m \in Module : result[m] # "none" <=> m \in Done
  /\ \A m \in Module : result[m] = "skip" => m \in run.skip

(* What went well, was refused or broke had its direct requires go well.   *)
PassedInv ==
  \A m \in Runs : result[m] \notin {"none", "required-failed"} =>
    \A d \in host.requires[m] \cap Runs : result[d] \in Passed

(* While a module waits for its turn, the password it needs was asked for, *)
(* or an install of this run made it need one.                             *)
SudoInv ==
  /\ run.pc = "running" /\ ~run.root => host.mac
  /\ \A m \in Runs : host.mac /\ ~run.dry /\ result[m] = "none" /\ SudoNeeded(m, run.forced)
       => run.asked \/ m \in run.late
  /\ PasswordUpFront

ForceInv ==
  /\ run.mode = "install" => run.forced = {}
  /\ run.mode = "force" => run.forced = run.wanted
  /\ run.mode = "update" => Planned \subseteq Updating

IdleInv == run.pc = "idle" => run = Idle /\ result = NoResults

RunInv == Types /\ PlanInv /\ DoneInv /\ PassedInv /\ SudoInv /\ ForceInv /\ IdleInv

-----------------------------------------------------------------------------
(* Plans                                                                   *)

LEMMA RequiresBefore ==
  ASSUME NEW h \in Hosts, NEW S \in SUBSET Module, NEW m \in Module
  PROVE  h.requires[m] \in SUBSET Module /\ h.requires[m] \subseteq Before(h, S, m)
<1>1. h \in Host
  OBVIOUS
<1>2. h.requires[m] \in SUBSET Module
  BY <1>1 DEF Host
<1>. QED BY <1>2 DEF Before, Precede

(* A module does not require itself: the catalog has no cycle.             *)
LEMMA NoSelfRequire ==
  ASSUME NEW h \in Hosts, NEW m \in Module
  PROVE  m \notin h.requires[m]
BY RequiresBefore, AcyclicAssumption DEF Acyclic

LEMMA OrdersType ==
  ASSUME NEW h \in Hosts, NEW S \in SUBSET Module, NEW K \in SUBSET Module,
         NEW s \in Orders(h, S, K)
  PROVE  /\ s \in Seq(Module)
         /\ \A i \in DOMAIN s : s[i] \in K
<1>1. Cardinality(K) \in Nat
  BY FS_Subset, FS_CardinalityType
<1>2. s \in [1..Cardinality(K) -> K]
  BY DEF Orders
<1>. QED BY <1>1, <1>2

(* A sorted plan lists what a module requires before the module.           *)
Sorted(h, K, s) ==
  /\ \A i, j \in DOMAIN s : i < j => s[i] # s[j]
  /\ \A j \in DOMAIN s : \A d \in h.requires[s[j]] \cap K :
       \E i \in DOMAIN s : i < j /\ s[i] = d

LEMMA OrdersSorted ==
  ASSUME NEW h \in Hosts, NEW S \in SUBSET Module, NEW K \in SUBSET Module,
         NEW s \in Orders(h, S, K)
  PROVE  Sorted(h, K, s)
<1>1. \A i, j \in DOMAIN s : i < j => s[i] # s[j] /\ s[j] \notin Before(h, S, s[i])
  BY DEF Orders
<1>2. \A k \in K : \E i \in DOMAIN s : s[i] = k
  BY DEF Orders
<1>3. DOMAIN s \subseteq Nat /\ \A i \in DOMAIN s : s[i] \in Module
  BY OrdersType
<1>4. ASSUME NEW j \in DOMAIN s, NEW d \in h.requires[s[j]] \cap K
      PROVE  \E i \in DOMAIN s : i < j /\ s[i] = d
  <2>1. PICK i \in DOMAIN s : s[i] = d
    BY <1>2
  <2>2. s[i] \in Before(h, S, s[j])
    BY <2>1, <1>3, RequiresBefore
  <2>3. i # j
    BY <2>1, <1>3, NoSelfRequire
  <2>4. ~(j < i)
    BY <2>2, <1>1
  <2>. QED BY <2>1, <2>3, <2>4, <1>3
<1>. QED BY <1>1, <1>4 DEF Sorted

-----------------------------------------------------------------------------
(* A turn: the module whose turn it is gets its result, and the modules    *)
(* that need root because of it count as late.                             *)

LEMMA TurnFacts ==
  ASSUME Types, PlanInv, Running
  PROVE  /\ run.at \in DOMAIN run.plan
         /\ Turn \in Module /\ Turn \in Planned /\ Turn \notin Done
         /\ \A d \in host.requires[Turn] \cap Planned : d \in Done
<1>1. run.plan \in Seq(Module) /\ run.at \in Nat
  BY DEF Types, RunType
<1>2. run.at \in DOMAIN run.plan
  BY <1>1 DEF Running, Types
<1>3. Turn \in Module /\ Turn \in Planned
  BY <1>1, <1>2 DEF Turn, Planned
<1>4. Turn \notin Done
  BY <1>1, <1>2 DEF PlanInv, Done, Turn
<1>5. \A d \in host.requires[Turn] \cap Planned : d \in Done
  BY <1>1, <1>2 DEF PlanInv, Done, Turn
<1>. QED BY <1>2, <1>3, <1>4, <1>5

Advanced == (GoOn /\ UNCHANGED machine) \/ Tried

TurnStep(status) == Running /\ Advanced /\ Report(status)

LEMMA TurnRun ==
  ASSUME Types, PlanInv, NEW status, TurnStep(status)
  PROVE  /\ run' \in RunType
         /\ run'.at = run.at + 1 /\ run'.at \in 1..(Len(run'.plan) + 1)
         /\ run'.plan = run.plan /\ run'.skip = run.skip /\ run'.forced = run.forced
         /\ run'.wanted = run.wanted /\ run'.mode = run.mode /\ run'.dry = run.dry
         /\ run'.asked = run.asked /\ run'.root = run.root /\ run'.pc = "running"
         /\ run.late \subseteq run'.late
         /\ \A m \in Module : SudoNeeded(m, run.forced)' =>
              SudoNeeded(m, run.forced) \/ m \in run'.late
         /\ host' = host
         /\ Planned' = Planned /\ Runs' = Runs /\ Done' = Done \cup {Turn}
<1>1. Turn \in Module /\ run \in RunType /\ run.at \in DOMAIN run.plan
  BY TurnFacts DEF TurnStep, Types
<1>2. /\ run'.at = run.at + 1
      /\ run'.plan = run.plan /\ run'.skip = run.skip /\ run'.forced = run.forced
      /\ run'.wanted = run.wanted /\ run'.mode = run.mode /\ run'.dry = run.dry
      /\ run'.asked = run.asked /\ run'.root = run.root /\ run'.pc = "running"
      /\ run' \in RunType
      /\ run.late \subseteq run'.late
      /\ UNCHANGED machine \/ run'.late = run.late \cup Raised
  <2>1. run.pc = "running" /\ Turn \in Module /\ run \in RunType
    BY <1>1 DEF TurnStep, Running
  <2>2. CASE GoOn /\ UNCHANGED machine
    BY <2>1, <2>2 DEF RunType, GoOn
  <2>3. CASE Tried
    <3>1. run.tried \cup {Turn} \in SUBSET Module /\ run.late \cup Raised \in SUBSET Module
      BY <2>1 DEF RunType, Raised
    <3>. DEFINE tried == run.tried \cup {Turn}
                late == run.late \cup Raised
    <3>2. tried \in SUBSET Module /\ late \in SUBSET Module
      BY <3>1
    <3>3. run' = [run EXCEPT !.at = run.at + 1, !.tried = tried, !.late = late]
      BY <2>1, <2>3 DEF Tried, RunType
    <3>. HIDE DEF tried, late
    <3>4. run' \in RunType
      <4>. DEFINE first == [run EXCEPT !.at = run.at + 1]
                  second == [first EXCEPT !.tried = tried]
      <4>1. first \in RunType
        BY <2>1 DEF RunType
      <4>. HIDE DEF first
      <4>2. second \in RunType
        BY <3>2, <4>1 DEF RunType
      <4>. HIDE DEF second
      <4>3. [second EXCEPT !.late = late] \in RunType
        BY <3>2, <4>2 DEF RunType
      <4>4. run' = [second EXCEPT !.late = late]
        BY <2>1, <3>3 DEF RunType, first, second
      <4>. QED BY <4>3, <4>4
    <3>5. /\ run'.at = run.at + 1
          /\ run'.plan = run.plan /\ run'.skip = run.skip /\ run'.forced = run.forced
          /\ run'.wanted = run.wanted /\ run'.mode = run.mode /\ run'.dry = run.dry
          /\ run'.asked = run.asked /\ run'.root = run.root /\ run'.pc = run.pc
          /\ run'.late = late
      BY <2>1, <3>3 DEF RunType
    <3>. QED BY <2>1, <3>4, <3>5 DEF late
  <2>. QED BY <2>2, <2>3 DEF TurnStep, Advanced
<1>3. run.plan \in Seq(Module) /\ run.at \in Nat
  BY <1>1 DEF RunType
<1>4. run'.at \in 1..(Len(run'.plan) + 1)
  BY <1>1, <1>2, <1>3
<1>5. Planned' = Planned /\ Runs' = Runs
  BY <1>2 DEF Planned, Runs
<1>6. Done' = Done \cup {Turn}
  <2>1. \A j \in DOMAIN run.plan : j < run.at + 1 <=> j < run.at \/ j = run.at
    BY <1>3
  <2>. QED BY <2>1, <1>1, <1>2 DEF Done, Turn
<1>7. ASSUME NEW m \in Module, SudoNeeded(m, run.forced)'
      PROVE  SudoNeeded(m, run.forced) \/ m \in run'.late
  <2>1. NeedsSudo(m, run.forced, installed', probe')
    BY <1>2, <1>7 DEF SudoNeeded
  <2>2. CASE UNCHANGED machine
    <3>1. installed' = installed /\ probe' = probe
      BY <2>2 DEF machine
    <3>. QED BY <2>1, <3>1 DEF SudoNeeded
  <2>3. CASE run'.late = run.late \cup Raised
    BY <2>1, <2>3 DEF Raised
  <2>. QED BY <1>2, <2>2, <2>3
<1>. QED BY <1>2, <1>4, <1>5, <1>6, <1>7 DEF TurnStep, Report

(* The result of a turn that is justified keeps what the runs keep.        *)
Justified(status) ==
  /\ status \in Status \ {"none"}
  /\ status = "skip" => Turn \in run.skip
  /\ status \notin {"skip", "required-failed"} => ~RequiredFailed(Turn)
  /\ status = "no-sudo" => run.asked \/ Turn \in run.late

LEMMA TurnInv ==
  ASSUME RunInv, NEW status, TurnStep(status), Justified(status),
         installed' \subseteq Module, probe' \in [OwnProbe -> Need],
         build' \in [Module -> 0..MaxBuilds]
  PROVE  RunInv'
<1>. USE DEF RunInv
<1>1. /\ Turn \in Module /\ Turn \in Planned /\ Turn \notin Done
      /\ \A d \in host.requires[Turn] \cap Planned : d \in Done
  BY TurnFacts DEF TurnStep
<1>2. /\ run' \in RunType
      /\ run'.at \in 1..(Len(run'.plan) + 1)
      /\ run'.plan = run.plan /\ run'.skip = run.skip /\ run'.forced = run.forced
      /\ run'.wanted = run.wanted /\ run'.mode = run.mode /\ run'.dry = run.dry
      /\ run'.asked = run.asked /\ run'.root = run.root /\ run'.pc = "running"
      /\ run.late \subseteq run'.late
      /\ \A m \in Module : SudoNeeded(m, run.forced)' =>
           SudoNeeded(m, run.forced) \/ m \in run'.late
      /\ host' = host
      /\ Planned' = Planned /\ Runs' = Runs /\ Done' = Done \cup {Turn}
  BY TurnRun
<1>3. /\ result \in [Module -> Status]
      /\ result' = [result EXCEPT ![Turn] = status]
      /\ confirmed' = confirmed
  BY DEF TurnStep, Report, Types
<1>4. Types'
  BY <1>2, <1>3 DEF Types, Justified
<1>5. PlanInv'
  BY <1>2 DEF PlanInv
<1>6. DoneInv'
  BY <1>1, <1>2, <1>3 DEF DoneInv, Justified
<1>7. PassedInv'
  <2>1. SUFFICES ASSUME NEW m \in Runs, result'[m] \notin {"none", "required-failed"},
                        NEW d \in host.requires[m] \cap Runs
                 PROVE  result'[d] \in Passed
    BY <1>2 DEF PassedInv
  <2>2. m \in Module /\ d \in Module /\ m \in Planned /\ d \in Planned
        /\ m \notin run.skip /\ d \notin run.skip
    BY DEF Runs, Planned, Types, RunType
  <2>3. CASE m = Turn
    <3>1. d \in Done /\ d # Turn
      BY <2>2, <2>3, <1>1
    <3>2. status \notin {"skip", "required-failed"}
      BY <2>1, <2>2, <2>3, <1>3 DEF Justified
    <3>3. d \notin Failed
      BY <2>3, <3>2 DEF Justified, RequiredFailed
    <3>4. result[d] \notin Blocking /\ result[d] # "none" /\ result[d] # "skip"
      BY <2>2, <3>1, <3>3 DEF Failed, DoneInv
    <3>5. result[d] \in Passed
      BY <2>2, <3>4, <1>3 DEF Status
    <3>. QED BY <3>1, <3>5, <1>3, <2>2
  <2>4. CASE m # Turn
    <3>1. result[m] = result'[m]
      BY <2>2, <2>4, <1>3
    <3>2. result[d] \in Passed
      BY <2>1, <3>1 DEF PassedInv
    <3>3. d # Turn
      BY <3>2, <2>2, <1>1 DEF DoneInv, Passed
    <3>. QED BY <3>2, <3>3, <2>2, <1>3
  <2>. QED BY <2>3, <2>4
<1>8. SudoInv'
  <2>1. \A m \in Module : result'[m] = "no-sudo" => run'.asked \/ m \in run'.late
    BY <1>1, <1>2, <1>3 DEF SudoInv, PasswordUpFront, Justified
  <2>2. ASSUME NEW m \in Runs, host.mac, ~run.dry, result'[m] = "none",
               SudoNeeded(m, run.forced)'
        PROVE  run.asked \/ m \in run'.late
    <3>1. m \in Module
      BY DEF Runs, Planned, Types, RunType
    <3>2. m # Turn /\ result[m] = "none"
      BY <3>1, <2>2, <1>1, <1>3 DEF Justified
    <3>3. SudoNeeded(m, run.forced) \/ m \in run'.late
      BY <3>1, <2>2, <1>2
    <3>. QED BY <1>2, <2>2, <3>2, <3>3 DEF SudoInv
  <2>3. run'.pc = "running" /\ ~run'.root => host'.mac
    BY <1>2 DEF SudoInv, TurnStep, Running
  <2>. QED BY <2>1, <2>2, <2>3, <1>2 DEF SudoInv, PasswordUpFront
<1>9. ForceInv'
  BY <1>2 DEF ForceInv
<1>10. IdleInv'
  BY <1>2 DEF IdleInv
<1>. QED BY <1>4, <1>5, <1>6, <1>7, <1>8, <1>9, <1>10

(* What a turn installs concerns the module whose turn it is.              *)
LEMMA NextBuildsType ==
  ASSUME Types, NEW m \in Module, NEW b \in NextBuilds(m)
  PROVE  b \in 0..MaxBuilds /\ [build EXCEPT ![m] = b] \in [Module -> 0..MaxBuilds]
BY DEF Types, NextBuilds

LEMMA GateResult ==
  ASSUME NEW m, NEW b, NEW status
  PROVE  Gate(m, b, status) \in {"tcc", status}
BY DEF Gate

LEMMA TurnsInv ==
  ASSUME RunInv,
         \/ Skip \/ Cascade \/ WouldInstall \/ AlreadyInstalled \/ NoSudo
         \/ InstallWorks \/ VerifyFails \/ InstallRaises
  PROVE  RunInv'
<1>1. Types /\ PlanInv
  BY DEF RunInv
<1>2. Running => Turn \in Module
  BY <1>1, TurnFacts
<1>3. /\ installed \subseteq Module /\ probe \in [OwnProbe -> Need]
      /\ build \in [Module -> 0..MaxBuilds]
  BY <1>1 DEF Types
<1>4. UNCHANGED machine => /\ installed' \subseteq Module /\ probe' \in [OwnProbe -> Need]
                           /\ build' \in [Module -> 0..MaxBuilds]
  BY <1>3 DEF machine
<1>5. Running /\ NewBuild /\ Changed =>
        /\ installed' \subseteq Module /\ probe' \in [OwnProbe -> Need]
        /\ build' \in [Module -> 0..MaxBuilds]
  BY <1>1, <1>2, NextBuildsType DEF NewBuild, Changed
<1>6. CASE Skip
  <2>1. TurnStep("skip") /\ Justified("skip")
    BY <1>6 DEF Skip, TurnStep, Advanced, Justified, Status
  <2>. QED BY <1>6, <2>1, <1>4, TurnInv DEF Skip
<1>7. CASE Cascade
  <2>1. TurnStep("required-failed") /\ Justified("required-failed")
    BY <1>7 DEF Cascade, TurnStep, Advanced, Justified, Status, Blocking
  <2>. QED BY <1>7, <2>1, <1>4, TurnInv DEF Cascade
<1>8. CASE WouldInstall
  <2>1. TurnStep("dry") /\ Justified("dry")
    BY <1>8 DEF WouldInstall, Ready, TurnStep, Advanced, Justified, Status, Passed
  <2>. QED BY <1>8, <2>1, <1>4, TurnInv DEF WouldInstall
<1>9. CASE AlreadyInstalled
  <2>. DEFINE s == Gate(Turn, build[Turn], "present")
  <2>1. s \in {"tcc", "present"}
    BY GateResult
  <2>. HIDE DEF s
  <2>2. TurnStep(s)
    BY <1>9 DEF AlreadyInstalled, Ready, TurnStep, Advanced, s
  <2>3. Justified(s)
    BY <1>9, <2>1 DEF AlreadyInstalled, Ready, Justified, Status, Passed
  <2>. QED BY <1>9, <2>2, <2>3, <1>4, TurnInv DEF AlreadyInstalled
<1>10. CASE NoSudo
  <2>1. PICK s \in {"no-sudo", "no-probe"} :
          Report(s) /\ (s = "no-sudo" => SudoNeeded(Turn, run.forced))
    BY <1>10 DEF NoSudo
  <2>2. TurnStep(s)
    BY <1>10, <2>1 DEF NoSudo, ToInstall, Ready, TurnStep, Advanced
  <2>3. Turn \in Module /\ Turn \in Runs /\ result[Turn] = "none"
    BY <1>10, <1>1, TurnFacts DEF NoSudo, ToInstall, Ready, Runs, RunInv, DoneInv
  <2>4. s = "no-sudo" => run.asked \/ Turn \in run.late
    BY <1>10, <2>1, <2>3 DEF NoSudo, ToInstall, Ready, Running, RunInv, SudoInv
  <2>5. Justified(s)
    BY <1>10, <2>1, <2>4 DEF NoSudo, ToInstall, Ready, Justified, Status, Blocking
  <2>. QED BY <1>10, <2>2, <2>5, <1>4, TurnInv DEF NoSudo
<1>11. CASE InstallWorks
  <2>. DEFINE s == Gate(Turn, build'[Turn], "ok")
  <2>1. s \in {"tcc", "ok"}
    BY GateResult
  <2>2. Report(s)
    BY <1>11 DEF InstallWorks
  <2>. HIDE DEF s
  <2>3. Running /\ ~RequiredFailed(Turn)
    BY <1>11 DEF InstallWorks, Installing, ToInstall, Ready
  <2>4. TurnStep(s)
    BY <1>11, <2>2, <2>3 DEF InstallWorks, TurnStep, Advanced
  <2>5. Justified(s)
    BY <2>1, <2>3 DEF Justified, Status, Passed
  <2>. QED BY <1>11, <2>3, <2>4, <2>5, <1>5, TurnInv DEF InstallWorks
<1>12. CASE VerifyFails
  <2>1. Running /\ ~RequiredFailed(Turn)
    BY <1>12 DEF VerifyFails, Installing, ToInstall, Ready
  <2>2. TurnStep("fail") /\ Justified("fail")
    BY <1>12, <2>1 DEF VerifyFails, TurnStep, Advanced, Justified, Status, Blocking
  <2>. QED BY <1>12, <2>1, <2>2, <1>5, TurnInv DEF VerifyFails
<1>13. CASE InstallRaises
  <2>1. Running /\ ~RequiredFailed(Turn)
    BY <1>13 DEF InstallRaises, Installing, ToInstall, Ready
  <2>2. PICK s \in {"fail", "needs-user", "unmanaged"} : Report(s)
    BY <1>13 DEF InstallRaises
  <2>3. TurnStep(s)
    BY <1>13, <2>1, <2>2 DEF InstallRaises, TurnStep, Advanced
  <2>4. Justified(s)
    BY <2>1 DEF Justified, Status, Passed, Blocking
  <2>. QED BY <1>13, <2>1, <2>3, <2>4, <1>5, TurnInv DEF InstallRaises
<1>. QED BY <1>6, <1>7, <1>8, <1>9, <1>10, <1>11, <1>12, <1>13

-----------------------------------------------------------------------------
(* Between runs                                                            *)

LEMMA IdleFacts ==
  /\ Idle \in RunType
  /\ Idle.at \in 1..(Len(Idle.plan) + 1)
  /\ Idle.plan = <<>> /\ DOMAIN Idle.plan = {}
  /\ NoResults \in [Module -> Status]
<1>1. <<>> \in Seq(Module) /\ Len(<<>>) = 0 /\ DOMAIN <<>> = {}
  OBVIOUS
<1>2. NoResults \in [Module -> Status]
  BY DEF NoResults, Status
<1>. QED BY <1>1, <1>2 DEF Idle, RunType, Mode

LEMMA ResetInv ==
  ASSUME RunInv, run' = Idle, result' = NoResults, host' = host,
         installed' \in SUBSET Module, probe' \in [OwnProbe -> Need],
         build' = build, confirmed' = confirmed
  PROVE  RunInv'
<1>1. Types'
  BY IdleFacts DEF RunInv, Types
<1>2. DOMAIN run'.plan = {} /\ Planned' = {} /\ Runs' = {} /\ Done' = {}
  BY IdleFacts DEF Planned, Runs, Done
<1>3. \A m \in Module : result'[m] = "none"
  BY DEF NoResults
<1>4. PlanInv' /\ PassedInv'
  BY <1>2 DEF PlanInv, PassedInv
<1>5. DoneInv'
  BY <1>2, <1>3 DEF DoneInv
<1>6. run'.pc = "idle" /\ run'.mode = "install" /\ run'.forced = {}
  BY DEF Idle
<1>. QED BY <1>1, <1>2, <1>3, <1>4, <1>5, <1>6
  DEF RunInv, SudoInv, PasswordUpFront, ForceInv, IdleInv

LEMMA BeginInv ==
  ASSUME RunInv, NEW wanted \in SUBSET Module, NEW mode \in Mode, NEW dry \in BOOLEAN,
         NEW offline \in BOOLEAN, Begin(wanted, mode, dry, offline)
  PROVE  RunInv'
<1>. DEFINE all == Selection(host, wanted \cup (IF host.nvidia THEN Nvidia ELSE {}))
            kept == {m \in all \ host.drop : mode = "update" => m \in Updating}
            skipped == {m \in kept : m \in host.skip \/ (offline /\ m \in Online)}
            force == Forced(mode, wanted, all)
            asks == IF host.mac /\ ~dry THEN Asks(wanted, kept \ skipped, force) ELSE {FALSE}
<1>1. PICK plan \in Orders(host, all, kept), ask \in asks, granted \in BOOLEAN :
        run' = [pc |-> "running", plan |-> plan, at |-> 1, wanted |-> wanted, mode |-> mode,
                forced |-> force, skip |-> skipped, dry |-> dry, asked |-> ask,
                root |-> host.mac => ask /\ granted, tried |-> {}, late |-> {}]
  BY DEF Begin
<1>2. UNCHANGED <<host, installed, probe, build, confirmed, result>>
  BY DEF Begin
<1>3. result = NoResults
  BY DEF Begin, RunInv, IdleInv
<1>4. all \in SUBSET Module /\ kept \in SUBSET Module /\ skipped \in SUBSET Module
  BY DEF Selection
<1>5. host \in Hosts /\ host.mac \in BOOLEAN
  BY DEF RunInv, Types, Host
<1>6. force \in SUBSET Module
  BY <1>4 DEF Forced, Mode
<1>7. /\ ask \in BOOLEAN
      /\ host.mac /\ ~dry /\ (\E m \in kept \ skipped : SudoNeeded(m, force)) => ask
  <2>1. asks \subseteq BOOLEAN
    BY DEF Asks, PasswordNeeded
  <2>2. host.mac /\ ~dry /\ (\E m \in kept \ skipped : SudoNeeded(m, force)) => asks \subseteq {TRUE}
    BY DEF Asks, PasswordNeeded
  <2>. QED BY <2>1, <2>2
<1>8. mode = "update" => kept \subseteq Updating
  OBVIOUS
<1>9. /\ mode = "install" => force = {}
      /\ mode = "force" => force = wanted
  BY DEF Forced
<1>. HIDE DEF all, kept, skipped, force, asks
<1>11. plan \in Seq(Module) /\ \A i \in DOMAIN plan : plan[i] \in kept
  BY <1>4, <1>5, OrdersType
<1>12. /\ \A i, j \in DOMAIN plan : i < j => plan[i] # plan[j]
       /\ \A j \in DOMAIN plan : \A d \in host.requires[plan[j]] \cap kept :
            \E i \in DOMAIN plan : i < j /\ plan[i] = d
  <2>1. Sorted(host, kept, plan)
    BY <1>4, <1>5, OrdersSorted
  <2>. QED BY <2>1 DEF Sorted
<1>13. /\ run'.pc = "running" /\ run'.plan = plan /\ run'.at = 1 /\ run'.wanted = wanted
       /\ run'.mode = mode /\ run'.forced = force /\ run'.skip = skipped /\ run'.dry = dry
       /\ run'.asked = ask /\ (run'.root <=> (host.mac => ask /\ granted))
  BY <1>1
<1>14. run' \in RunType
  <2>1. (host.mac => ask /\ granted) \in BOOLEAN
    OBVIOUS
  <2>. QED BY <1>1, <2>1, <1>4, <1>6, <1>7, <1>11 DEF RunType
<1>15. Types'
  BY <1>2, <1>11, <1>13, <1>14 DEF RunInv, Types
<1>16. Planned' \subseteq kept /\ Runs' \subseteq kept \ skipped
  BY <1>11, <1>13 DEF Planned, Runs
<1>17. Done' = {}
  BY <1>11, <1>13 DEF Done
<1>18. \A m \in Module : result'[m] = "none"
  BY <1>2, <1>3 DEF NoResults
<1>19. PlanInv'
  BY <1>2, <1>12, <1>13, <1>16 DEF PlanInv
<1>20. DoneInv'
  BY <1>17, <1>18 DEF DoneInv
<1>21. PassedInv'
  BY <1>4, <1>16, <1>18 DEF PassedInv
<1>22. SudoInv'
  <2>1. ~run'.root => host'.mac
    BY <1>2, <1>5, <1>13
  <2>2. ASSUME NEW m \in Runs', host'.mac, ~run'.dry, SudoNeeded(m, run.forced)'
        PROVE  run'.asked
    <3>1. SudoNeeded(m, force)
      BY <2>2, <1>2, <1>13 DEF SudoNeeded
    <3>. QED BY <2>2, <3>1, <1>2, <1>7, <1>13, <1>16
  <2>. QED BY <2>1, <2>2, <1>18 DEF SudoInv, PasswordUpFront
<1>23. ForceInv'
  BY <1>8, <1>9, <1>13, <1>16 DEF ForceInv
<1>24. IdleInv'
  BY <1>13 DEF IdleInv
<1>. QED BY <1>15, <1>19, <1>20, <1>21, <1>22, <1>23, <1>24 DEF RunInv

(* Neither the user's confirmations nor an app's updates touch the run.    *)
LEMMA QuietInv ==
  ASSUME RunInv, UNCHANGED <<host, installed, probe, run, result>>,
         build' \in [Module -> 0..MaxBuilds],
         confirmed' \in [Module -> {None} \cup 0..MaxBuilds]
  PROVE  RunInv'
<1>1. Types'
  BY DEF RunInv, Types
<1>2. Planned' = Planned /\ Runs' = Runs /\ Done' = Done
  BY DEF Planned, Runs, Done
<1>3. PlanInv' /\ DoneInv' /\ PassedInv'
  BY <1>2 DEF RunInv, PlanInv, DoneInv, PassedInv
<1>4. SudoInv'
  BY <1>2 DEF RunInv, SudoInv, PasswordUpFront, SudoNeeded
<1>5. ForceInv' /\ IdleInv'
  BY <1>2 DEF RunInv, ForceInv, IdleInv
<1>. QED BY <1>1, <1>3, <1>4, <1>5 DEF RunInv

LEMMA InitInv == Init => RunInv
<1>1. SUFFICES ASSUME Init PROVE RunInv
  OBVIOUS
<1>2. DOMAIN run.plan = {} /\ Planned = {} /\ Runs = {} /\ Done = {}
  BY <1>1, IdleFacts DEF Init, Planned, Runs, Done
<1>3. Types
  BY <1>1, IdleFacts DEF Init, Types
<1>4. \A m \in Module : result[m] = "none"
  BY <1>1 DEF Init, NoResults
<1>5. run.pc = "idle" /\ run.mode = "install" /\ run.forced = {}
  BY <1>1 DEF Init, Idle
<1>. QED BY <1>1, <1>2, <1>3, <1>4, <1>5
  DEF Init, RunInv, PlanInv, DoneInv, PassedInv, SudoInv, PasswordUpFront, ForceInv, IdleInv

LEMMA NextInv == RunInv /\ [Next]_vars => RunInv'
<1>1. SUFFICES ASSUME RunInv, [Next]_vars PROVE RunInv'
  OBVIOUS
<1>2. Types
  BY <1>1 DEF RunInv
<1>3. ASSUME NEW wanted \in SUBSET Module, NEW mode \in Mode, NEW dry \in BOOLEAN,
             NEW offline \in BOOLEAN, Begin(wanted, mode, dry, offline)
      PROVE  RunInv'
  BY <1>1, <1>3, BeginInv
<1>4. CASE \/ Skip \/ Cascade \/ WouldInstall \/ AlreadyInstalled \/ NoSudo
           \/ InstallWorks \/ VerifyFails \/ InstallRaises
  BY <1>1, <1>4, TurnsInv
<1>5. CASE Finish
  BY <1>1, <1>2, <1>5, ResetInv DEF Finish, machine, Types
<1>6. CASE Abort
  <2>2. installed' \in SUBSET Module /\ probe' \in [OwnProbe -> Need]
    BY <1>2, <1>6 DEF Abort, Changed, Types
  <2>. QED BY <1>1, <1>6, <2>2, ResetInv DEF Abort
<1>7. ASSUME NEW m \in Gated, Confirm(m) PROVE RunInv'
  <2>1. confirmed' \in [Module -> {None} \cup 0..MaxBuilds] /\ build' = build
    BY <1>2, <1>7 DEF Confirm, machine, Types
  <2>. QED BY <1>1, <1>2, <1>7, <2>1, QuietInv DEF Confirm, machine, Types
<1>8. ASSUME NEW m \in Gated, Resign(m) PROVE RunInv'
  <2>1. build' \in [Module -> 0..MaxBuilds] /\ confirmed' = confirmed
    BY <1>2, <1>8 DEF Resign, Types
  <2>. QED BY <1>1, <1>2, <1>8, <2>1, QuietInv DEF Resign, Types
<1>9. CASE UNCHANGED vars
  BY <1>1, <1>2, <1>9, QuietInv DEF vars, Types
<1>. QED BY <1>1, <1>3, <1>4, <1>5, <1>6, <1>7, <1>8, <1>9 DEF Next, RunStep

LEMMA Invariance == Spec => []RunInv
BY InitInv, NextInv, PTL DEF Spec

-----------------------------------------------------------------------------
(* What follows                                                            *)

(* Every variable has its type, and exactly the modules whose turn is over *)
(* have a result.                                                          *)
THEOREM TypeCorrect == Spec => []TypeOK
<1>1. RunInv => TypeOK
  <2>1. SUFFICES ASSUME RunInv PROVE TypeOK
    OBVIOUS
  <2>2. \A S \in {run.wanted, run.forced, run.skip, run.tried, run.late} : S \subseteq Module
    BY <2>1 DEF RunInv, Types, RunType
  <2>3. {run.dry, run.asked, run.root} \subseteq BOOLEAN
    BY <2>1 DEF RunInv, Types, RunType
  <2>. QED BY <2>1, <2>2, <2>3 DEF RunInv, Types, RunType, TypeOK, DoneInv
<1>. QED BY <1>1, Invariance, PTL

(* A module's result follows that of everything it requires, through       *)
(* modules the plan does not skip: the modules that went well, and this    *)
(* one, are closed under requires.                                         *)
THEOREM CascadeCorrect == Spec => []CascadeHolds
<1>1. RunInv => CascadeHolds
  <2>1. SUFFICES ASSUME RunInv, NEW m \in Runs, result[m] \notin {"none", "required-failed"},
                        NEW d \in Upstream(m) \ {m}
                 PROVE  result[d] \in Passed
    BY DEF CascadeHolds
  <2>. DEFINE T == {t \in Runs : result[t] \in Passed} \cup {m}
  <2>2. Runs \subseteq Module
    BY <2>1 DEF Runs, Planned, RunInv, Types, RunType
  <2>3. \A t \in T : host.requires[t] \cap Runs \subseteq T
    <3>1. \A t \in T : t \in Runs /\ result[t] \notin {"none", "required-failed"}
      BY <2>1 DEF Passed
    <3>. QED BY <2>1, <3>1 DEF RunInv, PassedInv
  <2>4. d \in T
    BY <2>1, <2>2, <2>3 DEF Upstream
  <2>. QED BY <2>1, <2>4
<1>. QED BY <1>1, Invariance, PTL

(* Nobody is stopped for a password they were never asked for, but where   *)
(* an install of this run is what made it necessary.                       *)
THEOREM PasswordAskedUpFront == Spec => []PasswordUpFront
<1>1. RunInv => PasswordUpFront
  BY DEF RunInv, SudoInv
<1>. QED BY <1>1, Invariance, PTL

(* Only the steps that install a module add to the tried ones, and they    *)
(* are not part of a dry run.                                              *)
LEMMA TriedStep ==
  ASSUME RunInv, Next
  PROVE  /\ run'.tried \ run.tried # {} =>
               Installing /\ run'.tried \ run.tried \subseteq {Turn}
         /\ run.dry => installed' = installed
<1>1. run \in RunType /\ Idle.tried = {}
  BY DEF RunInv, Types, Idle
<1>2. Installing => ~run.dry
  BY DEF Installing, ToInstall
<1>3. ASSUME NEW wanted \in SUBSET Module, NEW mode \in Mode, NEW dry \in BOOLEAN,
             NEW offline \in BOOLEAN, Begin(wanted, mode, dry, offline)
      PROVE  run'.tried = {} /\ installed' = installed
  BY <1>3 DEF Begin
<1>4. CASE Skip \/ Cascade \/ WouldInstall \/ AlreadyInstalled \/ NoSudo
  <2>1. run'.tried = run.tried
    BY <1>1, <1>4 DEF Skip, Cascade, WouldInstall, AlreadyInstalled, NoSudo, GoOn, RunType
  <2>. QED BY <2>1, <1>4 DEF Skip, Cascade, WouldInstall, AlreadyInstalled, NoSudo, machine
<1>5. CASE InstallWorks \/ VerifyFails \/ InstallRaises
  <2>1. Installing /\ Tried
    BY <1>5 DEF InstallWorks, VerifyFails, InstallRaises
  <2>2. run'.tried = run.tried \cup {Turn}
    BY <1>1, <2>1 DEF Tried, RunType
  <2>. QED BY <1>2, <2>1, <2>2
<1>6. CASE Finish
  BY <1>1, <1>6 DEF Finish, machine
<1>7. CASE Abort
  BY <1>1, <1>2, <1>7 DEF Abort
<1>8. ASSUME NEW m \in Gated, Confirm(m) \/ Resign(m)
      PROVE  run'.tried = run.tried /\ installed' = installed
  BY <1>8 DEF Confirm, Resign, machine
<1>. QED BY <1>3, <1>4, <1>5, <1>6, <1>7, <1>8 DEF Next, RunStep

(* Nothing that is there is installed again unasked, and a dry run leaves  *)
(* the machine as it was.                                                  *)
THEOREM ForceStaysHome == Spec => NothingUnasked
<1>. DEFINE A == /\ \A m \in run'.tried \ run.tried :
                      m \in installed => \/ run.mode = "force" /\ m \in run.wanted
                                         \/ run.mode = "update" /\ m \in Updating
                 /\ run.dry => installed' = installed
<1>1. RunInv /\ [Next]_vars => [A]_vars
  <2>1. SUFFICES ASSUME RunInv, Next PROVE A
    OBVIOUS
  <2>2. run.dry => installed' = installed
    BY <2>1, TriedStep
  <2>3. ASSUME NEW m \in run'.tried \ run.tried, m \in installed
        PROVE  \/ run.mode = "force" /\ m \in run.wanted
               \/ run.mode = "update" /\ m \in Updating
    <3>1. Installing /\ m = Turn
      BY <2>1, <2>3, TriedStep
    <3>2. m \in run.forced /\ m \in Planned
      BY <2>1, <2>3, <3>1, TurnFacts DEF Installing, ToInstall, Ready, RunInv
    <3>3. run.mode \in Mode
      BY <2>1 DEF RunInv, Types, RunType
    <3>. QED BY <2>1, <3>2, <3>3 DEF RunInv, ForceInv, Mode
  <2>. QED BY <2>2, <2>3
<1>. QED BY <1>1, Invariance, PTL DEF Spec, NothingUnasked

(* A module that is reported done has its permissions confirmed for the    *)
(* app the run leaves.                                                     *)
THEOREM GrantsAreCurrent == Spec => GrantsCurrent
<1>. DEFINE B(m) == host.mac /\ result[m] = "none" /\ result'[m] \in {"ok", "present"} =>
                      confirmed'[m] # None /\ (build'[m] # 0 => confirmed'[m] = build'[m])
            A == \A m \in Gated : B(m)
<1>1. RunInv /\ [Next]_vars => [A]_vars
  <2>1. SUFFICES ASSUME RunInv, Next, NEW m \in Gated PROVE B(m)
    OBVIOUS
  <2>2. m \in Module /\ result \in [Module -> Status] /\ build \in [Module -> 0..MaxBuilds]
    BY <2>1 DEF RunInv, Types
  <2>3. Running => Turn \in Module
    BY <2>1, TurnFacts DEF RunInv
  <2>4. CASE Skip \/ Cascade \/ WouldInstall \/ NoSudo \/ VerifyFails \/ InstallRaises
    <3>1. PICK s \in Status \ {"ok", "present"} : Running /\ Report(s)
      BY <2>4 DEF Skip, Cascade, WouldInstall, NoSudo, VerifyFails, InstallRaises,
                  Installing, ToInstall, Ready, Status, Passed, Blocking
    <3>. QED BY <2>2, <2>3, <3>1 DEF Report
  <2>5. CASE AlreadyInstalled
    <3>1. Running /\ Report(Gate(Turn, build[Turn], "present")) /\ build' = build
      BY <2>5 DEF AlreadyInstalled, Ready, machine
    <3>. QED BY <2>2, <2>3, <3>1 DEF Report, Gate, GrantPending
  <2>6. CASE InstallWorks
    <3>1. Running
      BY <2>6 DEF InstallWorks, Installing, ToInstall, Ready
    <3>2. Report(Gate(Turn, build'[Turn], "ok"))
      BY <2>6 DEF InstallWorks
    <3>. QED BY <2>2, <2>3, <3>1, <3>2 DEF Report, Gate, GrantPending
  <2>7. CASE Finish \/ Abort
    BY <2>2, <2>7 DEF Finish, Abort, NoResults
  <2>8. ASSUME NEW wanted \in SUBSET Module, NEW mode \in Mode, NEW dry \in BOOLEAN,
               NEW offline \in BOOLEAN, Begin(wanted, mode, dry, offline)
        PROVE  result' = result
    BY <2>8 DEF Begin
  <2>9. ASSUME NEW n \in Gated, Confirm(n) \/ Resign(n)
        PROVE  result' = result
    BY <2>9 DEF Confirm, Resign
  <2>. QED BY <2>1, <2>4, <2>5, <2>6, <2>7, <2>8, <2>9 DEF Next, RunStep
<1>. QED BY <1>1, Invariance, PTL DEF Spec, GrantsCurrent

=============================================================================
