----------------------------- MODULE MCMachine -----------------------------
(* Small instances of the parts of dev-boost that share no state with each  *)
(* other, for TLC to check in one run: each behaviour is about one of them, *)
(* and the others stay as they began.                                       *)
EXTENDS Naturals

CONSTANTS
  NSettings, UserValues, MaxEdits, MaxCommands,               \* MacDefaults
  MaxDrives, MaxEvents,                                       \* DockerSwitch
  RcFile, Templated, Own, Line, MaxReleases, MaxApplies,      \* RcFiles
  MaxVersion, MaxUpdates, MaxMoves,                           \* SelfUpdate
  MaxOrders,                                                  \* Accounts
  Image, MaxBuilds, MaxChanges                                \* MediaBuild

ASSUME BoundsAssumption ==
  {NSettings, MaxEdits, MaxCommands, MaxDrives, MaxEvents, MaxReleases, MaxApplies, MaxVersion,
   MaxUpdates, MaxMoves, MaxOrders, MaxBuilds, MaxChanges} \subseteq Nat

ASSUME ImagesAssumption == "none" \notin Image

(* There are dotfiles installed from the start.                             *)
ASSUME FilesAssumption ==
  Templated \subseteq RcFile /\ Own \subseteq RcFile /\ MaxReleases >= 1

VARIABLES
  active,
  value, file, job, left, current, done, own, taken, edits, commands,
  installed, up, login, daemon, linked, context, saved, capped, loaded, drive, target, phase,
  stale, settled, deaf, torn, drives, events,
  content, backups, digest, stamp, release, apply, source, targets, queue, written, exposed,
  applies,
  latest, binary, archive, running, stage, named, sums, fetchedBinary, fetchedArchive, cut,
  moved, updates, moves,
  listed, declared, present, locked, live, admin, sudoers, limited, steps, entry, owed, ended,
  unheard, slipped, shut, orders,
  ventoy, marked, boots, isos, pin, cached, local, build, mode, refresh, useLocal, finished,
  lacking, swapped, builds, changes

defaultsVars == <<value, file, job, left, current, done, own, taken, edits, commands>>
dockerVars   == <<installed, up, login, daemon, linked, context, saved, capped, loaded, drive,
                  target, phase, stale, settled, deaf, torn, drives, events>>
rcVars       == <<content, backups, digest, stamp, release, apply, source, targets, queue,
                  written, exposed, applies>>
updateVars   == <<latest, binary, archive, running, stage, named, sums, fetchedBinary,
                  fetchedArchive, cut, moved, updates, moves>>
usersVars    == <<listed, declared, present, locked, live, admin, sudoers, limited, steps,
                  entry, owed, ended, unheard, slipped, shut, orders>>
mediaVars    == <<ventoy, marked, boots, isos, pin, cached, local, build, mode, refresh,
                  useLocal, finished, lacking, swapped, builds, changes>>
vars == <<active, defaultsVars, dockerVars, rcVars, updateVars, usersVars, mediaVars>>

Defaults == INSTANCE MacDefaults
Docker   == INSTANCE DockerSwitch
Rc       == INSTANCE RcFiles
Update   == INSTANCE SelfUpdate
Users    == INSTANCE Accounts
Media    == INSTANCE MediaBuild

(* A part that is not looked at begins in one of its initial states only.   *)
Init ==
  /\ active \in {"defaults", "docker", "rc", "update", "users", "media"}
  /\ Defaults!Init /\ (active = "defaults" \/ \A k \in 1..NSettings : value[k] = "absent")
  /\ Docker!Init
  /\ Rc!Init /\ (active = "rc" \/ written = {})
  /\ Update!Init /\ (active = "update" \/ latest = 1)
  /\ Users!Init /\ (active = "users" \/ ~present)
  /\ Media!Init
  /\ (active = "media" \/ (~ventoy /\ local = "good" /\ pin = CHOOSE i \in Image : TRUE))

DefaultsStep ==
  /\ active = "defaults" /\ Defaults!Next
  /\ UNCHANGED <<active, dockerVars, rcVars, updateVars, usersVars, mediaVars>>

DockerStep ==
  /\ active = "docker" /\ Docker!Next
  /\ UNCHANGED <<active, defaultsVars, rcVars, updateVars, usersVars, mediaVars>>

RcStep ==
  /\ active = "rc" /\ Rc!Next
  /\ UNCHANGED <<active, defaultsVars, dockerVars, updateVars, usersVars, mediaVars>>

UpdateStep ==
  /\ active = "update" /\ Update!Next
  /\ UNCHANGED <<active, defaultsVars, dockerVars, rcVars, usersVars, mediaVars>>

UsersStep ==
  /\ active = "users" /\ Users!Next
  /\ UNCHANGED <<active, defaultsVars, dockerVars, rcVars, updateVars, mediaVars>>

MediaStep ==
  /\ active = "media" /\ Media!Next
  /\ UNCHANGED <<active, defaultsVars, dockerVars, rcVars, updateVars, usersVars>>

Next == DefaultsStep \/ DockerStep \/ RcStep \/ UpdateStep \/ UsersStep \/ MediaStep

Spec == Init /\ [][Next]_vars

-----------------------------------------------------------------------------
(* Every variable of every part stays in its range.                         *)
TypeOK ==
  /\ Defaults!TypeOK /\ Docker!TypeOK /\ Rc!TypeOK
  /\ Update!TypeOK /\ Users!TypeOK /\ Media!TypeOK

(* A macOS setting that holds our value can still be given back.            *)
Recoverable == Defaults!Recoverable

(* Applies and reverts of the macOS settings do what their snapshot is for. *)
ImplementsSnapshot == Defaults!ImplementsSnapshot

(* After a finished switch the chosen Docker runtime runs, and no other     *)
(* that `installed` counts and that did not fail, unheard, to be stopped.   *)
OnlyChosen == Docker!OnlyChosen

(* After a finished switch the engine that runs has the cap of its config.  *)
CapInForce == Docker!CapInForce

(* No line added to a taken-over file is lost to an apply.                  *)
NothingLost == Rc!NothingLost

(* The binary and its archive are of one release, or an update was cut off. *)
Matched == Update!Matched

(* The binary is not replaced by an older one.                              *)
NeverOlder == Update!NeverOlder

(* A managed user has no right its entry, or an unfinished command, lacks.  *)
LeastPrivilege == Users!LeastPrivilege

(* After a finished command a managed user's account is as its entry says.  *)
Converged == Users!Converged

(* Only an image's pinned bytes are put on a stick whole.                   *)
VerifiedOnly == Media!VerifiedOnly

(* A finished run leaves a stick with the image it boots.                   *)
Bootable == Media!Bootable

=============================================================================
