----------------------------- MODULE InstallRun -----------------------------
(***************************************************************************)
(* `devboost install` and `devboost update`: from the modules the user     *)
(* wants to a plan, and through the plan module by module. A module's own  *)
(* code is external: verify answers whether it is installed, install may   *)
(* work, raise, ask for the user, or stop half way, and whatever it did    *)
(* may change what the verify and the sudo probe of any other module see.  *)
(* The catalog (what requires what) and the machine are chosen at the      *)
(* start; runs follow one another, may be killed, and meet an app that was *)
(* rebuilt or permissions that were confirmed in the meantime (macOS).     *)
(***************************************************************************)
EXTENDS Naturals, Sequences, FiniteSets

CONSTANTS
  Module,      \* the modules of the catalog
  Hosts,       \* the machines and catalogs considered, a subset of Host
  Nvidia,      \* modules of the hardware-nvidia category
  Updating,    \* self-updating modules: the ones `update` refreshes
  Online,      \* modules that need the network themselves
  NeedsRoot,   \* needs_sudo_on_macos
  OwnProbe,    \* those that override sudo_needed
  Gated,       \* modules whose app needs macOS privacy permissions
  None,        \* no record
  MaxBuilds    \* bound: builds of an app

(* What the machine decides about the catalog: modules it drops (another   *)
(* OS family) or skips (unsupported here, provided by the platform, a GUI  *)
(* on a server), and whether the gpu-vendor marker says NVIDIA.            *)
Host == [requires: [Module -> SUBSET Module], after: [Module -> SUBSET Module],
         drop: SUBSET Module, skip: SUBSET Module, mac: BOOLEAN, nvidia: BOOLEAN]

-----------------------------------------------------------------------------
(* The plan                                                                *)

(* Everything a set of modules requires, directly or not.                  *)
Selection(h, wanted) ==
  {m \in Module : \A T \in SUBSET Module :
     wanted \subseteq T /\ (\A t \in T : h.requires[t] \subseteq T) => m \in T}

(* What toposort puts before m: its requires, and its after if selected.   *)
Precede(h, S, m) == h.requires[m] \cup (h.after[m] \cap S)

Before(h, S, m) ==
  {d \in Module : \A T \in SUBSET Module :
     Precede(h, S, m) \subseteq T /\ (\A t \in T : Precede(h, S, t) \subseteq T) => d \in T}

(* The sequences of K that toposort of S may leave once it is filtered.    *)
Orders(h, S, K) ==
  {s \in [1..Cardinality(K) -> K] :
     /\ \A k \in K : \E i \in DOMAIN s : s[i] = k
     /\ \A i, j \in DOMAIN s : i < j => s[i] # s[j] /\ s[j] \notin Before(h, S, s[i])}

ASSUME ConstantsAssumption ==
  /\ IsFiniteSet(Module)
  /\ Hosts \subseteq Host
  /\ Nvidia \subseteq Module /\ Updating \subseteq Module /\ Online \subseteq Module
  /\ OwnProbe \subseteq NeedsRoot /\ NeedsRoot \subseteq Module /\ Gated \subseteq Module
  /\ MaxBuilds \in Nat
  /\ \A n \in 0..MaxBuilds : None # n

(* registry._check_cycles: no module precedes itself.                      *)
Acyclic(h) == \A m \in Module : m \notin Before(h, Module, m)

ASSUME AcyclicAssumption == \A h \in Hosts : Acyclic(h)

VARIABLES
  host,       \* the machine and the catalog; never changes
  installed,  \* modules whose verify answers yes
  probe,      \* when a module with a probe of its own needs root
  build,      \* signature of a module's app; 0 when it cannot be read
  confirmed,  \* tcc.json: the signature a permission was confirmed for
  run,        \* the run that is going on
  result      \* its results so far

machine == <<installed, probe, build>>
vars == <<host, installed, probe, build, confirmed, run, result>>

Mode == {"install", "force", "update"}
Passed == {"ok", "present", "tcc", "unmanaged", "dry"}
Blocking == {"fail", "required-failed", "needs-user", "no-sudo", "no-probe"}
Need == {"never", "forced", "always"}
Status == {"none", "skip"} \cup Passed \cup Blocking

Idle == [pc |-> "idle", plan |-> <<>>, at |-> 1, wanted |-> {}, mode |-> "install",
         forced |-> {}, skip |-> {}, dry |-> FALSE, asked |-> FALSE, root |-> FALSE,
         tried |-> {}, late |-> {}]
NoResults == [m \in Module |-> "none"]

Init ==
  /\ host \in Hosts
  /\ installed \in SUBSET Module
  /\ probe \in [OwnProbe -> Need]
  /\ build = [m \in Module |-> 0]
  /\ confirmed = [m \in Module |-> None]
  /\ run = Idle
  /\ result = NoResults

-----------------------------------------------------------------------------
(* Mutant of Forced: --force reaches the dependencies too.                 *)
ForcedDeep(mode, wanted, selected) == IF mode = "install" THEN {} ELSE selected

(* module_ctx: --force reaches what the user named, update everything.     *)
Forced(mode, wanted, selected) ==
  CASE mode = "install" -> {}
    [] mode = "force" -> wanted
    [] mode = "update" -> selected

(* Model.sudo_needed: not installed, or forced. Homebrew, the command line *)
(* tools, Rosetta, Docker and Tailscale probe something of their own, which*)
(* under --force needs root no less.                                       *)
NeedsSudo(m, forced, there, own) ==
  /\ m \in NeedsRoot
  /\ IF m \in OwnProbe THEN own[m] = "always" \/ (own[m] = "forced" /\ m \in forced)
                        ELSE m \notin there \/ m \in forced

SudoNeeded(m, forced) == NeedsSudo(m, forced, installed, probe)

(* Mutant of PasswordNeeded: the dependencies are not probed.              *)
PasswordForWanted(wanted, runs, forced) == \E m \in runs \cap wanted : SudoNeeded(m, forced)

(* _needs_sudo: something that will run needs root ...                     *)
PasswordNeeded(wanted, runs, forced) == \E m \in runs : SudoNeeded(m, forced)

(* ... or its probe raises.                                                *)
Asks(wanted, runs, forced) ==
  {PasswordNeeded(wanted, runs, forced)} \cup {TRUE : m \in runs \cap NeedsRoot}

(* _run up to the first module: select, sort, filter, ask for a password.  *)
Begin(wanted, mode, dry, offline) ==
  LET all == Selection(host, wanted \cup (IF host.nvidia THEN Nvidia ELSE {}))
      kept == {m \in all \ host.drop : mode = "update" => m \in Updating}
      skipped == {m \in kept : m \in host.skip \/ (offline /\ m \in Online)}
      force == Forced(mode, wanted, all)
      asks == IF host.mac /\ ~dry THEN Asks(wanted, kept \ skipped, force) ELSE {FALSE}
  IN /\ run.pc = "idle"
     /\ \E plan \in Orders(host, all, kept), ask \in asks, granted \in BOOLEAN :
          run' = [pc |-> "running", plan |-> plan, at |-> 1, wanted |-> wanted, mode |-> mode,
                  forced |-> force, skip |-> skipped, dry |-> dry, asked |-> ask,
                  root |-> host.mac => ask /\ granted, tried |-> {}, late |-> {}]
     /\ UNCHANGED <<host, installed, probe, build, confirmed, result>>

-----------------------------------------------------------------------------
(* _run_one, for the module whose turn it is                               *)

Running == run.pc = "running" /\ run.at <= Len(run.plan)
Turn == run.plan[run.at]

Report(status) ==
  /\ result' = [result EXCEPT ![Turn] = status]
  /\ UNCHANGED <<host, confirmed>>

GoOn == run' = [run EXCEPT !.at = @ + 1]

(* Modules that need root now because of the step, and did not before.     *)
Raised == {m \in Module : /\ NeedsSudo(m, run.forced, installed', probe')
                          /\ ~SudoNeeded(m, run.forced)}
Tried == run' = [run EXCEPT !.at = @ + 1, !.tried = @ \cup {Turn}, !.late = @ \cup Raised]

(* Mutant of Failed: a blocked module does not block the next one.         *)
FailedOnly == {m \in Module : result[m] = "fail"}

Failed == {m \in Module : result[m] \in Blocking}
RequiredFailed(m) == host.requires[m] \cap Failed # {}

Skip ==
  /\ Running
  /\ Turn \in run.skip
  /\ GoOn /\ Report("skip")
  /\ UNCHANGED machine

Cascade ==
  /\ Running
  /\ Turn \notin run.skip
  /\ RequiredFailed(Turn)
  /\ GoOn /\ Report("required-failed")
  /\ UNCHANGED machine

Ready == Running /\ Turn \notin run.skip /\ ~RequiredFailed(Turn)

WouldInstall ==
  /\ Ready
  /\ run.dry
  /\ GoOn /\ Report("dry")
  /\ UNCHANGED machine

(* tcc.pending: never confirmed, or for another build; a signature that    *)
(* cannot be read is no reason to ask again.                               *)
GrantPending(m, b) == confirmed[m] = None \/ (b # 0 /\ confirmed[m] # b)

(* _tcc_gate: done only with the permissions of the app as it is now.      *)
Gate(m, now, status) ==
  IF host.mac /\ m \in Gated /\ GrantPending(m, now) THEN "tcc" ELSE status

AlreadyInstalled ==
  /\ Ready
  /\ ~run.dry
  /\ Turn \notin run.forced /\ Turn \in installed
  /\ GoOn /\ Report(Gate(Turn, build[Turn], "present"))
  /\ UNCHANGED machine

ToInstall == Ready /\ ~run.dry /\ (Turn \in run.forced \/ Turn \notin installed)

(* _sudo_blocked: the step needs root, or its probe raises, and the run    *)
(* holds none.                                                             *)
NoSudo ==
  /\ ToInstall
  /\ ~run.root /\ Turn \in NeedsRoot
  /\ GoOn
  /\ \/ SudoNeeded(Turn, run.forced) /\ Report("no-sudo")
     \/ Report("no-probe")
  /\ UNCHANGED machine

Installing == ToInstall /\ (SudoNeeded(Turn, run.forced) => run.root)

(* An install builds or updates an app, or leaves the one that is there.   *)
NextBuilds(m) == {build[m]} \cup (IF m \in Gated THEN {build[m] + 1} \cap 0..MaxBuilds ELSE {})
NewBuild == \E b \in NextBuilds(Turn) : build' = [build EXCEPT ![Turn] = b]

(* What install did may change what any verify and any probe sees.         *)
Changed == installed' \in SUBSET Module /\ probe' \in [OwnProbe -> Need]

(* Mutant of InstallWorks: permissions are looked up before the install.   *)
InstallAfterGate ==
  /\ Installing
  /\ Changed /\ Turn \in installed'
  /\ NewBuild
  /\ Report(Gate(Turn, build[Turn], "ok"))
  /\ Tried

InstallWorks ==
  /\ Installing
  /\ Changed /\ Turn \in installed'
  /\ NewBuild
  /\ Report(Gate(Turn, build'[Turn], "ok"))
  /\ Tried

VerifyFails ==
  /\ Installing
  /\ Changed /\ Turn \notin installed'
  /\ NewBuild
  /\ Tried /\ Report("fail")

(* Raised on the way: NeedsUser, PresentUnmanaged or any other exception.  *)
InstallRaises ==
  /\ Installing
  /\ Changed
  /\ NewBuild
  /\ Tried /\ \E status \in {"fail", "needs-user", "unmanaged"} : Report(status)

(* Mutant of Finish: the results of the run are kept for the next.         *)
FinishKeepsResults ==
  /\ run.pc = "running"
  /\ run.at > Len(run.plan)
  /\ run' = Idle
  /\ UNCHANGED <<host, machine, confirmed, result>>

Finish ==
  /\ run.pc = "running"
  /\ run.at > Len(run.plan)
  /\ run' = Idle
  /\ result' = NoResults
  /\ UNCHANGED <<host, machine, confirmed>>

(* The run is killed, or a verify raises: nothing after it is done.        *)
Abort ==
  /\ Running
  /\ IF Installing THEN Changed ELSE UNCHANGED <<installed, probe>>
  /\ run' = Idle
  /\ result' = NoResults
  /\ UNCHANGED <<host, build, confirmed>>

(* `devboost permissions`, or its --confirm: recorded for the build there  *)
(* is now.                                                                 *)
Confirm(m) ==
  /\ host.mac
  /\ m \in Gated
  /\ confirmed' = [confirmed EXCEPT ![m] = build[m]]
  /\ UNCHANGED <<host, machine, run, result>>

(* An app updates or re-signs itself.                                      *)
Resign(m) ==
  /\ host.mac
  /\ m \in Gated \cap installed
  /\ build[m] < MaxBuilds
  /\ build' = [build EXCEPT ![m] = @ + 1]
  /\ UNCHANGED <<host, installed, probe, confirmed, run, result>>

RunStep ==
  \/ Skip \/ Cascade \/ WouldInstall \/ AlreadyInstalled \/ NoSudo
  \/ InstallWorks \/ VerifyFails \/ InstallRaises
  \/ Finish \/ Abort

Next ==
  \/ \E wanted \in SUBSET Module, mode \in Mode, dry, offline \in BOOLEAN :
       Begin(wanted, mode, dry, offline)
  \/ RunStep
  \/ \E m \in Gated : Confirm(m) \/ Resign(m)

Spec == Init /\ [][Next]_vars

-----------------------------------------------------------------------------
(* Properties                                                              *)

Done == {run.plan[i] : i \in {j \in DOMAIN run.plan : j < run.at}}
Planned == {run.plan[i] : i \in DOMAIN run.plan}
Runs == Planned \ run.skip

(* Every variable has its type, and exactly the modules whose turn is over *)
(* have a result.                                                          *)
TypeOK ==
  /\ host \in Hosts
  /\ installed \subseteq Module
  /\ probe \in [OwnProbe -> Need]
  /\ build \in [Module -> 0..MaxBuilds]
  /\ confirmed \in [Module -> {None} \cup 0..MaxBuilds]
  /\ run.pc \in {"idle", "running"}
  /\ run.plan \in Seq(Module)
  /\ run.at \in 1..(Len(run.plan) + 1)
  /\ run.mode \in Mode
  /\ \A S \in {run.wanted, run.forced, run.skip, run.tried, run.late} : S \subseteq Module
  /\ {run.dry, run.asked, run.root} \subseteq BOOLEAN
  /\ result \in [Module -> Status]
  /\ \A m \in Module : result[m] # "none" <=> m \in Done

(* What m requires through modules this run does not skip.                 *)
Upstream(m) ==
  {d \in Module : \A T \in SUBSET Module :
     m \in T /\ (\A t \in T : host.requires[t] \cap Runs \subseteq T) => d \in T}

(* No module is tried, found present or reported for a dry run unless      *)
(* everything it requires, through modules the plan does not skip, went    *)
(* well before it in this run, however far up the failure was.             *)
CascadeHolds ==
  \A m \in Runs : result[m] \notin {"none", "required-failed"} =>
    \A d \in Upstream(m) \ {m} : result[d] \in Passed

(* "Checking direct requires is sufficient to propagate cascade failures   *)
(* transitively": nothing is tried when something it requires, directly or *)
(* not, failed in this run.                                                *)
CascadeIsTransitive ==
  \A m \in run.tried : \A d \in Selection(host, {m}) \ {m} : result[d] \notin Blocking

(* A module that was there is installed again only when the user named it  *)
(* with --force, or for an update of a module that may be updated; a dry   *)
(* run changes nothing.                                                    *)
NothingUnasked ==
  [][/\ \A m \in run'.tried \ run.tried :
          m \in installed => \/ run.mode = "force" /\ m \in run.wanted
                             \/ run.mode = "update" /\ m \in Updating
     /\ run.dry => installed' = installed]_vars

(* A module waits for a password only if the user was asked for one when   *)
(* the run began, or if it is an install of this very run that made it     *)
(* need one: the check before the run misses no need that is there by then,*)
(* whatever earlier runs left. A probe that raises only at the module's    *)
(* turn blocks it too, and is not meant (runner.py:86-88).                 *)
PasswordUpFront ==
  \A m \in Module : result[m] = "no-sudo" => run.asked \/ m \in run.late

(* On macOS a module is reported done only when its permissions were       *)
(* confirmed for the app as this run leaves it, not as it found it.        *)
GrantsCurrent ==
  [][\A m \in Gated : host.mac /\ result[m] = "none" /\ result'[m] \in {"ok", "present"} =>
       confirmed'[m] # None /\ (build'[m] # 0 => confirmed'[m] = build'[m])]_vars

=============================================================================
