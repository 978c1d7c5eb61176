------------------------------ MODULE Accounts ------------------------------
(* A managed user of `devboost accounts`: what is declared of it in          *)
(* users.toml, the account on the machine, and the commands that converge    *)
(* one to the other, step by step.  A command may fail or be killed at any   *)
(* step, or go on where a failure is not looked at, and the user logs in     *)
(* whenever the account lets them.                                           *)
EXTENDS Naturals, Sequences, FiniteSets

CONSTANT MaxOrders  \* bound: commands

Privileges == {"none", "full", "nopasswd", "allowlist"}
Users      == [enabled : BOOLEAN, privilege : Privileges, capped : BOOLEAN]
Unmanaged  == [enabled |-> FALSE, privilege |-> "none", capped |-> FALSE]

VARIABLES
  listed,    \* the user has an entry in users.toml
  declared,  \* that entry
  present,   \* the account exists
  locked,    \* it is locked and expired
  live,      \* it has sessions or processes
  admin,     \* it is in the admin group
  sudoers,   \* its drop-in: "none", "allowlist" or "nopasswd"
  limited,   \* its slice has the drop-in with the caps
  steps,     \* what the command has still to do
  entry,     \* the entry it is about
  owed,      \* history: the rights of entries not yet replaced on the machine
  ended,     \* history: the last command did all its steps
  unheard,   \* history: it went on after a step that failed
  slipped,   \* history: a login fell between a command's steps
  shut,      \* history: an account was left locked that only `enable` opens
  orders

account == <<present, locked, live, admin, sudoers, limited>>
vars == <<listed, declared, account, steps, entry, owed, ended, unheard, slipped, shut, orders>>

(* The rights an entry's privilege stands for, and those the account has.   *)
Granted(privilege) ==
  (IF privilege \in {"full", "nopasswd"} THEN {"admin"} ELSE {})
  \cup (IF privilege \in {"nopasswd", "allowlist"} THEN {privilege} ELSE {})

Rights == (IF admin THEN {"admin"} ELSE {}) \cup ({sudoers} \ {"none"})

Init ==
  /\ listed = FALSE /\ declared = Unmanaged
  /\ present \in BOOLEAN /\ locked = FALSE /\ live = FALSE  \* one to be adopted, or none
  /\ admin \in {FALSE, present} /\ sudoers = "none" /\ limited = FALSE
  /\ steps = <<>> /\ entry = Unmanaged
  /\ owed = Rights /\ ended = FALSE /\ unheard = FALSE /\ slipped = FALSE /\ shut = FALSE
  /\ orders = 0

-----------------------------------------------------------------------------
DisableSteps == <<"terminate", "lock">>

ApplySteps(user) ==
  IF user.enabled THEN <<"ensure_user", "group", "sudoers", "slice", "applied">>
  ELSE DisableSteps

(* Mutant of EnableSteps: the account as it is, unlocked.                   *)
EnableStepsOnly(user) == <<"save", "unlock">>

EnableSteps(user) == <<"save", "unlock">> \o ApplySteps(user)

DeleteSteps ==
  <<"terminate", "remove_sudoers", "remove_group", "clear_slice", "userdel", "drop">>

Order(user, todo) ==
  /\ steps = <<>> /\ orders < MaxOrders
  /\ orders' = orders + 1
  /\ entry' = user /\ steps' = todo
  /\ ended' = FALSE /\ unheard' = FALSE
  /\ UNCHANGED <<listed, declared, account, owed, slipped, shut>>

(* create (with --adopt, where the account exists) and edit: the entry is   *)
(* saved, then applied; create --no-apply is cut off after the save.        *)
Create == \E user \in Users :
  ~listed /\ user.enabled /\ Order(user, <<"save">> \o ApplySteps(user))
Edit == \E user \in Users :
  listed /\ user.enabled = declared.enabled /\ Order(user, <<"save">> \o ApplySteps(user))

With(enabled) == [declared EXCEPT !.enabled = enabled]

Disable == listed /\ Order(With(FALSE), <<"save">> \o DisableSteps)
Enable  == listed /\ Order(With(TRUE), EnableSteps(With(TRUE)))
Apply   == listed /\ Order(declared, ApplySteps(declared))
Delete  == listed /\ Order(declared, DeleteSteps)

(* The step now due, and what is left after it.                             *)
Due(what) == steps # <<>> /\ Head(steps) = what /\ steps' = Tail(steps)
Goes == ended' = (steps' = <<>>) /\ UNCHANGED <<entry, orders>>
Done == Goes /\ UNCHANGED unheard

Save ==
  /\ Due("save") /\ Done
  /\ listed' = TRUE /\ declared' = entry
  /\ owed' = owed \cup Granted(declared.privilege)
  /\ UNCHANGED <<account, slipped, shut>>

Terminate ==
  /\ Due("terminate") /\ Done
  /\ live' = FALSE /\ slipped' = FALSE
  /\ UNCHANGED <<listed, declared, present, locked, admin, sudoers, limited, owed,
                 shut>>

Lock ==
  /\ Due("lock") /\ Done
  /\ locked' = present
  /\ UNCHANGED <<listed, declared, present, live, admin, sudoers, limited, owed,
                 slipped, shut>>

Unlock ==
  /\ Due("unlock") /\ Done
  /\ locked' = FALSE /\ shut' = FALSE
  /\ UNCHANGED <<listed, declared, present, live, admin, sudoers, limited, owed,
                 slipped>>

(* An account that exists is left as it is.                                 *)
EnsureUser ==
  /\ Due("ensure_user") /\ Done
  /\ present' = TRUE
  /\ UNCHANGED <<listed, declared, locked, live, admin, sudoers, limited, owed, slipped,
                 shut>>

SetGroup ==
  /\ Due("group") /\ Done
  /\ admin' = ("admin" \in Granted(entry.privilege))
  /\ UNCHANGED <<listed, declared, present, locked, live, sudoers, limited, owed,
                 slipped, shut>>

(* Mutant of SudoersContent: a tier without a drop-in leaves the old one.   *)
SudoersContentKept(privilege) ==
  IF privilege \in {"nopasswd", "allowlist"} THEN privilege ELSE sudoers

(* Mutant of SudoersContent: every tier has a drop-in of its own.           *)
SudoersContentOfAll(privilege) == privilege

SudoersContent(privilege) ==
  IF privilege \in {"nopasswd", "allowlist"} THEN privilege ELSE "none"

SetSudoers ==
  /\ Due("sudoers") /\ Done
  /\ sudoers' = SudoersContent(entry.privilege)
  /\ UNCHANGED <<listed, declared, present, locked, live, admin, limited, owed, slipped,
                 shut>>

(* No caps: set_slice returns, and a drop-in that is there stays.           *)
SetSlice ==
  /\ Due("slice") /\ Done
  /\ limited' = (limited \/ entry.capped)
  /\ UNCHANGED <<listed, declared, present, locked, live, admin, sudoers, owed, slipped,
                 shut>>

(* An apply is through: the machine has this entry's rights and no others,  *)
(* unless one could not be taken away.                                      *)
Applied ==
  /\ Due("applied") /\ Done
  /\ owed' = IF unheard THEN owed ELSE {}
  /\ UNCHANGED <<listed, declared, account, slipped, shut>>

RemoveSudoers ==
  /\ Due("remove_sudoers") /\ Done
  /\ sudoers' = "none"
  /\ UNCHANGED <<listed, declared, present, locked, live, admin, limited, owed, slipped,
                 shut>>

RemoveGroup ==
  /\ Due("remove_group") /\ Done
  /\ admin' = FALSE
  /\ UNCHANGED <<listed, declared, present, locked, live, sudoers, limited, owed,
                 slipped, shut>>

ClearSlice ==
  /\ Due("clear_slice") /\ Done
  /\ limited' = (limited /\ ~present)
  /\ UNCHANGED <<listed, declared, present, locked, live, admin, sudoers, owed, slipped,
                 shut>>

(* userdel refuses an account with processes; nobody looks at its result.   *)
Userdel ==
  /\ Due("userdel") /\ Done
  /\ present' = live /\ locked' = (locked /\ live)
  /\ UNCHANGED <<listed, declared, live, admin, sudoers, limited, owed, slipped, shut>>

Drop ==
  /\ Due("drop") /\ Done
  /\ listed' = FALSE /\ declared' = Unmanaged
  /\ owed' = IF unheard THEN owed \cup Granted(declared.privilege) ELSE {}
  /\ shut' = (present /\ locked)
  /\ UNCHANGED <<account, slipped>>

(* The commands whose results are dropped.                                  *)
Unchecked ==
  {"save", "terminate", "lock", "unlock", "sudoers", "remove_sudoers", "remove_group",
   "clear_slice", "userdel", "drop"}
  \cup (IF "admin" \in Granted(entry.privilege) THEN {} ELSE {"group"})

InVain ==
  /\ steps # <<>> /\ Head(steps) \in Unchecked
  /\ steps' = Tail(steps) /\ Goes
  /\ unheard' = TRUE
  /\ shut' = (shut \/ Head(steps) = "unlock" \/ (Head(steps) = "save" /\ ~entry.enabled))
  /\ owed' = IF Head(steps) = "save" THEN owed \cup Granted(entry.privilege) ELSE owed
  /\ UNCHANGED <<listed, declared, account, slipped>>

(* A step fails and the command aborts, or it is killed.                    *)
Abort ==
  /\ steps # <<>> /\ steps' = <<>>
  /\ shut' = (shut \/ Head(steps) = "unlock")
  /\ UNCHANGED <<listed, declared, account, entry, owed, ended, unheard, slipped, orders>>

Login ==
  /\ present /\ ~locked /\ ~live
  /\ live' = TRUE
  /\ slipped' = (slipped \/ steps # <<>>)
  /\ UNCHANGED <<listed, declared, present, locked, admin, sudoers, limited, steps,
                 entry, owed, ended, unheard, shut, orders>>

Next ==
  \/ Create \/ Edit \/ Disable \/ Enable \/ Apply \/ Delete
  \/ Save \/ Terminate \/ Lock \/ Unlock
  \/ EnsureUser \/ SetGroup \/ SetSudoers \/ SetSlice \/ Applied
  \/ RemoveSudoers \/ RemoveGroup \/ ClearSlice \/ Userdel \/ Drop
  \/ InVain \/ Abort \/ Login

Spec == Init /\ [][Next]_vars

-----------------------------------------------------------------------------
(* Every variable stays in its range.                                       *)
TypeOK ==
  /\ declared \in Users /\ entry \in Users
  /\ {listed, present, locked, live, admin, limited, ended, unheard, slipped,
     shut} \subseteq BOOLEAN
  /\ sudoers \in {"none", "allowlist", "nopasswd"}
  /\ owed \subseteq {"admin", "allowlist", "nopasswd"}
  /\ orders \in 0..MaxOrders

(* Whichever commands fail half way, an account never has a right that      *)
(* neither its entry grants nor one did that no apply has replaced since    *)
(* (reconcile.py:20-29); one that is deleted has none - save those that a   *)
(* command failed to take away, or to write down, and went on.              *)
LeastPrivilege == Rights \subseteq owed \cup Granted(declared.privilege)

(* After a command that did all its steps the account is as declared        *)
(* (docs/accounts.md:234): it exists, has exactly the rights and at least   *)
(* the caps of its entry and is open, or it is shut and nobody is in it, or *)
(* it is gone - save for a step that failed unheard, a login between two,   *)
(* and a lock left by an `enable` cut off, which apply does not undo.       *)
Converged ==
  ended /\ ~unheard =>
    /\ listed /\ declared.enabled =>
         /\ present /\ (locked => shut)
         /\ Rights = Granted(declared.privilege) /\ (declared.capped => limited)
    /\ listed /\ ~declared.enabled => (present => locked) /\ (live => slipped)
    /\ ~listed => Rights = {} /\ (present => slipped)

=============================================================================
