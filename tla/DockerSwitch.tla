---------------------------- MODULE DockerSwitch ----------------------------
(* A Mac's Docker runtimes: `devboost docker use`, which moves it from one   *)
(* to another, and the docker and docker-build-gc modules, which bring up    *)
(* the selected one and may be pointed at another by an environment          *)
(* variable.  Either may fail or be killed at any step; the Mac restarts,    *)
(* and its user starts runtimes by hand.                                     *)
EXTENDS Naturals, FiniteSets

CONSTANTS
  MaxDrives,  \* bound: commands
  MaxEvents   \* bound: restarts, hand starts, and commands that fail unheard

Colima  == "colima"
Runtime == {Colima, "orbstack", "docker-desktop"}
None    == "none"

VARIABLES
  installed,  \* the runtimes `installed` counts: Colima with all four formulae only
  up,         \* those whose engine runs
  login,      \* those that start at login
  daemon,     \* Colima's socket LaunchDaemon is installed
  linked,     \* /var/run/docker.sock leads to Colima
  context,    \* the docker CLI's current context
  saved,      \* docker_runtime in config.toml
  capped,     \* those whose daemon config has the build cache's cap
  loaded,     \* those whose engine runs with the cap
  drive,      \* the command: "none", "use" or "install"
  target,     \* the runtime it is about
  phase,      \* its next step
  stale,      \* use: the runtimes still to be stopped
  settled,    \* history: the last command was a finished switch to this one
  deaf,       \* history: runtimes of which the last switch away failed, unheard, to
              \*   stop the engine, to take back the start at login or to unlink the socket
  torn,       \* history: capped, and not restarted since
  drives, events

machine == <<installed, up, login, daemon, linked, context, capped, loaded>>
command == <<drive, target, phase, stale>>
history == <<settled, deaf, torn>>
vars == <<machine, saved, command, history, drives, events>>

Init ==
  /\ installed = {} /\ up = {} /\ login = {}
  /\ daemon = FALSE /\ linked = FALSE
  /\ context = None /\ saved = Colima
  /\ capped = {} /\ loaded = {}
  /\ drive = "none" /\ target = Colima /\ phase = "idle" /\ stale = {}
  /\ settled = None /\ deaf = {} /\ torn = {}
  /\ drives = 0 /\ events = 0

-----------------------------------------------------------------------------
Begin(what, rt, first, others) ==
  /\ drive = "none" /\ drives < MaxDrives
  /\ drive' = what /\ target' = rt /\ phase' = first /\ stale' = others
  /\ drives' = drives + 1
  /\ settled' = None
  /\ UNCHANGED <<machine, saved, deaf, torn, events>>

(* Mutant of ToStop: only the runtime config.toml names.                    *)
ToStopSaved(rt) == {saved} \cap (installed \ {rt})

(* to_stop: every installed runtime but the target.                         *)
ToStop(rt) == installed \ {rt}

(* `devboost docker use`, once the ddev databases are in their snapshots.   *)
Use == \E rt \in Runtime : LET others == ToStop(rt) IN
         Begin("use", rt, IF others = {} THEN "install" ELSE "stop", others)

(* The docker module on the runtime that the environment or config.toml     *)
(* selects: verified, or brought up; then docker-build-gc on the same one.  *)
Install == \E rt \in Runtime :
  Begin("install", rt, IF rt \in installed \cap up /\ context = rt THEN "merge" ELSE "install", {})

(* It ends, without its last step: a step failed, or it was killed.         *)
Abort ==
  /\ drive # "none"
  /\ drive' = "none" /\ phase' = "idle" /\ stale' = {}
  /\ torn' = IF phase = "restart" THEN torn \cup {target} ELSE torn
  /\ UNCHANGED <<machine, saved, target, settled, deaf, drives, events>>

(* The runtime to stop next: the saved one first.                           *)
Stale == IF saved \in stale THEN saved ELSE CHOOSE rt \in stale : TRUE

(* Colima's is two commands: its service, which may not be one of brew's    *)
(* or fail to stop, and the VM.                                             *)
StopEngine ==
  /\ phase = "stop" /\ phase' = "disable"
  /\ up' = up \ {Stale} /\ loaded' = loaded \ {Stale}
  /\ login' \in {login, login \ ({Stale} \cap {Colima})}
  /\ deaf' = deaf \ {Stale}
  /\ UNCHANGED <<installed, daemon, linked, context, capped, saved, drive, target, stale,
                 settled, torn, drives, events>>

(* A command whose result is dropped fails: nothing is done, nothing said.  *)
Unheard == events < MaxEvents /\ events' = events + 1 /\ deaf' = deaf \cup {Stale}

StopInVain ==
  /\ phase = "stop" /\ phase' = "disable"
  /\ Stale \in up /\ Unheard
  /\ UNCHANGED <<machine, saved, drive, target, stale, settled, torn, drives>>

DisableAutostart ==
  /\ phase = "disable" /\ phase' = "release"
  /\ login' = login \ {Stale}
  /\ UNCHANGED <<installed, up, daemon, linked, context, capped, loaded, saved, drive,
                 target, stale, history, drives, events>>

(* Docker Desktop's is a write of its settings, which is heard to fail.     *)
DisableInVain ==
  /\ phase = "disable" /\ phase' = "release"
  /\ Stale \in login \ {"docker-desktop"} /\ Unheard
  /\ UNCHANGED <<machine, saved, drive, target, stale, settled, torn, drives>>

(* One more runtime is done with.                                           *)
Stopped ==
  /\ phase = "release"
  /\ stale' = stale \ {Stale}
  /\ phase' = IF stale = {Stale} THEN "install" ELSE "stop"
  /\ daemon' = (daemon /\ Stale # Colima)

ReleaseSocket ==
  /\ Stopped
  /\ linked' = (linked /\ Stale # Colima)
  /\ UNCHANGED <<installed, up, login, context, capped, loaded, saved, drive, target,
                 history, drives, events>>

(* The daemon is gone, but the link it made stays.                          *)
ReleaseInVain ==
  /\ Stopped
  /\ Stale = Colima /\ linked /\ Unheard
  /\ UNCHANGED <<installed, up, login, linked, context, capped, loaded, saved, drive,
                 target, settled, torn, drives>>

(* brew, or there already by the user's own hand.                           *)
InstallRuntime ==
  /\ phase = "install" /\ phase' = "configure"
  /\ installed' = installed \cup {target}
  /\ UNCHANGED <<up, login, daemon, linked, context, capped, loaded, saved, drive, target,
                 stale, history, drives, events>>

(* Colima: the VM, and the daemon that links its socket now and at boot.    *)
(* The others: the size, and the start at login; Docker Desktop restarts,   *)
(* where that is a change and it is up.                                     *)
Configure ==
  /\ phase = "configure" /\ phase' = "start"
  /\ daemon' = (daemon \/ target = Colima)
  /\ linked' = (linked \/ target = Colima)
  /\ login' = login \cup ({target} \ {Colima})
  /\ loaded' = IF target = "docker-desktop" /\ target \in up \ login
               THEN loaded \cup ({target} \cap capped) ELSE loaded
  /\ UNCHANGED <<installed, up, context, capped, saved, drive, target, stale, history,
                 drives, events>>

(* An engine that is started reads its config; the others' own socket link  *)
(* may replace Colima's.                                                    *)
Start(rt) ==
  /\ up' = up \cup {rt}
  /\ loaded' = IF rt \in up THEN loaded ELSE loaded \cup ({rt} \cap capped)
  /\ torn' = IF rt \in up THEN torn ELSE torn \ {rt}
  /\ linked' \in {linked, linked /\ rt = Colima}

StartEngine ==
  /\ phase = "start" /\ phase' = "point"
  /\ Start(target)
  /\ login' = login \cup {target}
  /\ deaf' = deaf \ {target}
  /\ UNCHANGED <<installed, daemon, context, capped, saved, drive, target, stale, settled,
                 drives, events>>

(* _point_cli_at, no DOCKER_CONTEXT being set.                              *)
PointCli ==
  /\ phase = "point" /\ phase' = "merge"
  /\ context' = target
  /\ UNCHANGED <<installed, up, login, daemon, linked, capped, loaded, saved, drive, target,
                 stale, history, drives, events>>

(* What is left of the command when the cap is in force.                    *)
AfterCap == phase' = IF drive = "use" THEN "save" ELSE "done"

MergeDaemonConfig ==
  /\ phase = "merge"
  /\ capped' = capped \cup {target}
  /\ IF target \in capped THEN AfterCap ELSE phase' = "restart"
  /\ UNCHANGED <<installed, up, login, daemon, linked, context, loaded, saved, drive, target,
                 stale, history, drives, events>>

(* Mutant of Restart: the engine that runs is taken to read its new config. *)
RestartUnneeded == UNCHANGED <<loaded, torn>>

(* A Colima that was not started as a service is left as it runs.           *)
Restart ==
  IF target = Colima /\ Colima \notin login
    THEN torn' = torn \cup {target} /\ UNCHANGED loaded
    ELSE loaded' = loaded \cup {target} /\ UNCHANGED torn

RestartEngine ==
  /\ phase = "restart" /\ AfterCap
  /\ Restart
  /\ UNCHANGED <<installed, up, login, daemon, linked, context, capped, saved, drive, target,
                 stale, settled, deaf, drives, events>>

(* A switch saves the choice; the module has nothing to save.               *)
Finish ==
  /\ phase \in {"save", "done"}
  /\ saved' = IF phase = "save" THEN target ELSE saved
  /\ settled' = IF phase = "save" THEN target ELSE None
  /\ drive' = "none" /\ phase' = "idle"
  /\ UNCHANGED <<machine, target, stale, deaf, torn, drives, events>>

-----------------------------------------------------------------------------
(* Between commands the Mac restarts: what starts at login is up, /var/run  *)
(* is empty but for what the daemon puts there.                             *)
Reboot ==
  /\ drive = "none" /\ events < MaxEvents /\ events' = events + 1
  /\ up' = login /\ loaded' = login \cap capped
  /\ linked' = daemon
  /\ torn' = torn \ login /\ deaf' = deaf \cap login
  /\ UNCHANGED <<installed, login, daemon, context, capped, saved, command, settled,
                 drives>>

(* The user starts a runtime, from the vendor's own download perhaps, which *)
(* may make itself the one at login and the CLI's.  A Colima without        *)
(* compose, buildx or the CLI runs, and is none that `installed` counts.    *)
ByHand ==
  /\ drive = "none" /\ events < MaxEvents /\ events' = events + 1
  /\ \E rt \in Runtime \ (up \cap installed) :
       /\ Start(rt)
       /\ installed' \in {installed \cup {rt}, installed \cup ({rt} \ {Colima})}
       /\ login' \in {login, login \cup {rt}}
       /\ context' \in {context, rt}
  /\ settled' = None
  /\ UNCHANGED <<daemon, capped, saved, command, deaf, drives>>

Next ==
  \/ Use \/ Install \/ Abort
  \/ StopEngine \/ StopInVain \/ DisableAutostart \/ DisableInVain
  \/ ReleaseSocket \/ ReleaseInVain
  \/ InstallRuntime \/ Configure \/ StartEngine \/ PointCli
  \/ MergeDaemonConfig \/ RestartEngine \/ Finish
  \/ Reboot \/ ByHand

Spec == Init /\ [][Next]_vars

-----------------------------------------------------------------------------
(* Every variable stays in its range.                                       *)
TypeOK ==
  /\ UNION {installed, up, login, capped, loaded, stale, deaf, torn} \subseteq Runtime
  /\ daemon \in BOOLEAN /\ linked \in BOOLEAN
  /\ context \in Runtime \cup {None} /\ settled \in Runtime \cup {None}
  /\ saved \in Runtime /\ target \in Runtime
  /\ drive \in {"none", "use", "install"}
  /\ drives \in 0..MaxDrives /\ events \in 0..MaxEvents

(* After a finished switch, and through restarts until the next command,    *)
(* the chosen runtime runs, starts at login and is the CLI's, and no other  *)
(* that `installed` counts does or holds the socket - also one that a       *)
(* failed switch, the module or the user had started                        *)
(* (_docker_switch.py:58-67).  Excepted by name are the runtimes of which   *)
(* this switch failed unheard to stop the engine, take back the start at    *)
(* login or unlink the socket (_docker_orbstack.py:65-69,                   *)
(* _docker_colima.py:224-237, _docker_desktop.py:123-124), and a Colima     *)
(* that lacks one of its formulae (_docker_colima.py:150-151).              *)
OnlyChosen ==
  settled # None =>
    /\ (up \cap installed) \ deaf = {settled}
    /\ (login \cap installed) \ deaf = {settled}
    /\ context = settled
    /\ daemon => settled = Colima
    /\ linked => Colima \in {settled} \cup deaf

(* After a finished switch the engine that runs has the build cache's cap,  *)
(* not merely its config (_docker_switch.py:147-148) - save one that was    *)
(* cut off between the two, or not restarted because the user had started   *)
(* it outside brew's services, and has not been started since.              *)
CapInForce == settled # None => settled \in loaded \cup torn

=============================================================================
