----------------------------- MODULE Provision -----------------------------
(***************************************************************************)
(* Installing a plan on a machine, command by command.  InstallRun takes a  *)
(* module's install for one external step; here it is the sequence of steps *)
(* its recipe gives (see Recipes), each of which needs and makes facts *)
(* on the machine.  A command may fail, the run may be killed, and the user *)
(* supplies what a module asked for; then the same plan is run again.       *)
(***************************************************************************)
EXTENDS Naturals, Sequences, FiniteSets

CONSTANTS
  Machines,    \* [os, headless]
  Recipe,      \* the catalog: [platform -> [name -> module]], modules as in Recipes
  Plans,       \* per platform, what is to be installed: sequences of names
  Shipped,     \* per machine, the facts it comes with
  UserFacts,   \* the facts only the user can supply
  Gaps,        \* per platform, modules that need what nothing they require brings
  Fragile,     \* modules a mishap can leave in a state no further run repairs
  Unresumed,   \* modules whose verify is content before their install is through
  MaxRuns,     \* bound: runs of a plan
  MaxMishaps,  \* bound: commands that fail and runs that are killed
  LongPlan     \* bound: a plan of more modules than this meets no mishap

ASSUME BoundsAssumption == MaxRuns \in Nat /\ MaxMishaps \in Nat

ASSUME PlansAssumption ==
  \A mach \in Machines : \A p \in Plans[mach.os] : p \in Seq(DOMAIN Recipe[mach.os])

(* Of an install's steps, those that are left out together are there.       *)
ASSUME RecipesAssumption ==
  \A mach \in Machines : \A name \in DOMAIN Recipe[mach.os] :
    LET steps == Recipe[mach.os][name].steps
    IN /\ Len(steps) \in Nat /\ DOMAIN steps = 1..Len(steps)
       /\ \A i \in DOMAIN steps :
            steps[i].over \in Nat \ {0} /\ i + steps[i].over <= Len(steps) + 1

VARIABLES
  machine,  \* which machine this is; never changes
  plan,     \* its plan, in toposort's order; never changes
  facts,    \* what holds on it
  at,       \* the module whose turn it is; 0 between runs
  step,     \* 0 before its verify, then the step of its install, then past the last
  failed,   \* run_plan's failed_or_blocked
  runs,     \* runs begun
  mishaps,  \* commands that failed, and kills
  clean     \* the last run met no mishap, and the user had supplied everything

vars == <<machine, plan, facts, at, step, failed, runs, mishaps, clean>>

NoMishap == [faults |-> 0, kills |-> 0]

Init ==
  /\ machine \in Machines
  /\ plan \in Plans[machine.os]
  /\ facts = Shipped[machine]
  /\ at = 0 /\ step = 0
  /\ failed = {}
  /\ runs = 0
  /\ mishaps = NoMishap
  /\ clean = FALSE

-----------------------------------------------------------------------------
Entry(name) == Recipe[machine.os][name]

(* build_plan's skips: brought by the platform, or a GUI on a server.       *)
SkippedOn(mach, mod) == mach.os \in mod.provided \/ (mod.gui /\ mach.headless)
Skipped(mod) == SkippedOn(machine, mod)

Verified(mod) == mod.reads \subseteq facts

Running == at > 0 /\ at <= Len(plan)
Turn    == Entry(plan[at])

(* The user starts, or starts again, `devboost install`.                    *)
Begin ==
  /\ at = 0
  /\ runs < MaxRuns
  /\ at' = 1 /\ step' = 0
  /\ failed' = {}
  /\ runs' = runs + 1
  /\ clean' = (UserFacts \subseteq facts)
  /\ UNCHANGED <<machine, plan, facts, mishaps>>

(* Mutant of GoOn: the step of the last module is not forgotten.            *)
GoOnMidway == at' = at + 1 /\ UNCHANGED step

GoOn == at' = at + 1 /\ step' = 0
Fail == GoOn /\ failed' = failed \cup {plan[at]}

Skip ==
  /\ Running /\ step = 0
  /\ Skipped(Turn)
  /\ GoOn
  /\ UNCHANGED <<machine, plan, facts, failed, runs, mishaps, clean>>

RequiredFailed == Turn.requires \cap failed # {}

Cascade ==
  /\ Running /\ step = 0
  /\ ~Skipped(Turn) /\ RequiredFailed
  /\ Fail
  /\ UNCHANGED <<machine, plan, facts, runs, mishaps, clean>>

Ready == Running /\ step = 0 /\ ~Skipped(Turn) /\ ~RequiredFailed

AlreadyInstalled ==
  /\ Ready
  /\ Verified(Turn)
  /\ GoOn
  /\ UNCHANGED <<machine, plan, facts, failed, runs, mishaps, clean>>

Install ==
  /\ Ready
  /\ ~Verified(Turn)
  /\ step' = 1
  /\ UNCHANGED <<machine, plan, facts, at, failed, runs, mishaps, clean>>

-----------------------------------------------------------------------------
(* The steps of the module's install                                        *)

Stepping == Running /\ step \in DOMAIN Turn.steps
Now      == Turn.steps[step]

LeftOut(s) == s.unless # {} /\ s.unless \subseteq facts
Able(s)    == s.needs \subseteq facts

StepLeftOut ==
  /\ Stepping
  /\ LeftOut(Now)
  /\ step' = step + Now.over
  /\ UNCHANGED <<machine, plan, facts, at, failed, runs, mishaps, clean>>

Executing == Stepping /\ ~LeftOut(Now) /\ Able(Now)

StepWorks ==
  /\ Executing
  /\ facts' = (facts \cup Now.gives) \ Now.takes
  /\ step' = step + 1
  /\ UNCHANGED <<machine, plan, at, failed, runs, mishaps, clean>>

(* A command that fails raises where the code checks it; elsewhere the      *)
(* install goes on.                                                         *)
GoesWrong(s) ==
  IF s.checked THEN Fail ELSE step' = step + 1 /\ UNCHANGED <<at, failed>>

(* A need is missing: NeedsUser, an early return, or a command that fails.  *)
StepLacks ==
  /\ Stepping
  /\ ~LeftOut(Now) /\ ~Able(Now)
  /\ IF Now.stops THEN step' = Len(Turn.steps) + 1 /\ UNCHANGED <<at, failed>>
                  ELSE GoesWrong(Now)
  /\ UNCHANGED <<machine, plan, facts, runs, mishaps, clean>>

MishapLeft == Len(plan) <= LongPlan /\ mishaps.faults + mishaps.kills < MaxMishaps

(* The network is down, a server answers with an error, a disk is full.     *)
StepFails ==
  /\ Executing
  /\ Now.gives # {}
  /\ MishapLeft
  /\ mishaps' = [mishaps EXCEPT !.faults = @ + 1]
  /\ GoesWrong(Now)
  /\ clean' = FALSE
  /\ UNCHANGED <<machine, plan, facts, runs>>

(* verify, after the last step.                                             *)
Verify ==
  /\ Running /\ step > Len(Turn.steps)
  /\ IF Verified(Turn) THEN GoOn /\ UNCHANGED failed ELSE Fail
  /\ UNCHANGED <<machine, plan, facts, runs, mishaps, clean>>

(* The run is killed, or the machine goes down, before the step that is to  *)
(* be executed or in the middle of it.                                      *)
Kill ==
  /\ Executing
  /\ MishapLeft
  /\ mishaps' = [mishaps EXCEPT !.kills = @ + 1]
  /\ facts' \in {facts, facts \ Now.torn}
  /\ at' = 0 /\ step' = 0
  /\ clean' = FALSE
  /\ UNCHANGED <<machine, plan, failed, runs>>

Finish ==
  /\ at = Len(plan) + 1
  /\ at' = 0 /\ step' = 0
  /\ UNCHANGED <<machine, plan, facts, failed, runs, mishaps, clean>>

(* The user does what modules ask for: answers, credentials, a terminal, a  *)
(* reboot.                                                                  *)
Supply ==
  /\ at = 0
  /\ ~(UserFacts \subseteq facts)
  /\ facts' = facts \cup UserFacts
  /\ clean' = FALSE
  /\ UNCHANGED <<machine, plan, at, step, failed, runs, mishaps>>

Next ==
  \/ Begin \/ Skip \/ Cascade \/ AlreadyInstalled \/ Install
  \/ StepLeftOut \/ StepWorks \/ StepLacks \/ StepFails
  \/ Verify \/ Kill \/ Finish \/ Supply

Spec == Init /\ [][Next]_vars

-----------------------------------------------------------------------------
(* Properties                                                               *)

Planned == {plan[i] : i \in DOMAIN plan}

(* Every variable has its type, and the step counter stays within the       *)
(* install of the module whose turn it is.                                  *)
TypeOK ==
  /\ machine \in Machines
  /\ plan \in Plans[machine.os]
  /\ at \in 0..(Len(plan) + 1)
  /\ step \in 0..(IF Running THEN Len(Turn.steps) + 1 ELSE 0)
  /\ failed \subseteq Planned
  /\ runs \in 0..MaxRuns
  /\ mishaps \in [faults: 0..MaxMishaps, kills: 0..MaxMishaps]
  /\ clean \in BOOLEAN

(* A run is over that met no mishap, on a machine whose user did everything *)
(* that was asked for.                                                      *)
Settled == at = 0 /\ clean

(* Nothing failed of itself but modules of S.                               *)
OnlyFailed(S) == \A m \in failed : m \in S \/ Entry(m).requires \cap failed # {}

(* "requires" is complete: alone with what it requires, on every platform,  *)
(* in every order toposort allows, each module installs and verifies.       *)
Complete == Settled /\ mishaps = NoMishap => OnlyFailed(Gaps[machine.os])

(* A second run repairs what a command that failed, or a kill, left behind. *)
Converges == Settled => OnlyFailed(Gaps[machine.os] \cup Fragile)

(* Steps that install does not come to: left out, or after a return.        *)
NotReached(mod, i) ==
  \E j \in 1..i : LET s == mod.steps[j]
                IN (LeftOut(s) /\ j + s.over > i) \/ ((s.stops \/ s.asks) /\ ~Able(s))

(* install would still have something to do, and could.                     *)
Undone(mod) ==
  \E i \in DOMAIN mod.steps :
    Able(mod.steps[i]) /\ ~NotReached(mod, i) /\ ~(mod.steps[i].gives \subseteq facts)

AllDone(S) == \A m \in S : Skipped(Entry(m)) \/ ~Undone(Entry(m))

(* Steps that are left out together because of what the first of them made, *)
(* and of which only some were done.                                        *)
HalfDone(mod) ==
  \E i \in DOMAIN mod.steps :
    LET group == {mod.steps[k] : k \in i..(i + mod.steps[i].over - 1)} IN
    /\ LeftOut(mod.steps[i])
    /\ \E s \in group : s.gives # {} /\ s.gives \subseteq facts
    /\ \E s \in group : Able(s) /\ ~(s.gives \subseteq facts)

NoneHalfDone(S) == \A m \in S : Skipped(Entry(m)) \/ ~HalfDone(Entry(m))

(* "after" is complete: no best-effort step was passed over because what it *)
(* needs came later in the same plan.                                       *)
WellOrdered == Settled /\ runs = 1 => AllDone(Planned \ failed)

(* "Resumable": a run that was killed, or waited for the user, leaves       *)
(* nothing undone once another has gone through; no verify is content with  *)
(* half an install, and no install takes its own half for the whole.        *)
Resumes ==
  Settled /\ mishaps.faults = 0 =>
    LET through == Planned \ (failed \cup Unresumed)
    IN AllDone(through) /\ NoneHalfDone(through)

(* "A baseline that CANNOT lock you out": wherever the run is killed, an    *)
(* active firewall lets ssh in.                                             *)
SshStaysOpen == mishaps.faults = 0 => ("ufw.active" \in facts => "ufw.allow-ssh" \in facts)

(* "Idempotent + resumable", of every module: after a run without a mishap  *)
(* nothing has failed and nothing is left to do.                            *)
Resumable == Settled => failed = {} /\ AllDone(Planned) /\ NoneHalfDone(Planned)
=============================================================================
