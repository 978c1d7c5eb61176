------------------------ MODULE DockerSwitch_proofs ------------------------
(* Proofs about the Docker runtimes of a Mac: what a switch has stopped stays *)
(* stopped until it ends, whatever went wrong in commands before it.          *)
EXTENDS DockerSwitch, TLAPS

(* The bounds are numbers.                                                   *)
Bounds == MaxDrives \in Nat /\ MaxEvents \in Nat

-----------------------------------------------------------------------------
(* The inductive invariant                                                   *)

Stopping == {"stop", "disable", "release"}
Phases ==
  {"idle", "install", "configure", "start", "point", "merge", "restart", "save", "done"}
    \cup Stopping

(* The phase tells the command it is of, and whether runtimes are to stop.   *)
PhaseInv ==
  /\ phase \in Phases
  /\ drive = "none" <=> phase = "idle"
  /\ phase \in Stopping \cup {"save"} => drive = "use"
  /\ drive # "none" => settled = None
  /\ stale # {} <=> phase \in Stopping
  /\ stale \subseteq installed \ {target}

(* Nothing runs or starts at login that is not installed, but for a Colima   *)
(* without all its formulae, and only an installed one holds the socket: a   *)
(* switch that stops what is installed stops all there is but for that.      *)
InstalledInv ==
  /\ up \cup login \subseteq installed \cup {Colima}
  /\ daemon \/ linked => Colima \in installed
  /\ phase \in Phases \ (Stopping \cup {"idle", "install"}) => target \in installed

(* A switch leaves behind it only runtimes of which it failed unheard.       *)
Quiet(rt) ==
  /\ rt \in up \cup login => rt \in deaf
  /\ rt = Colima => ~daemon /\ (linked => rt \in deaf)

StoppedInv ==
  drive = "use" =>
    /\ \A rt \in installed \ ({target} \cup stale) : Quiet(rt)
    /\ phase \in {"disable", "release"} => (Stale \in up => Stale \in deaf)
    /\ phase = "release" => (Stale \in login => Stale \in deaf)

(* Its target runs from its start on, and is the CLI's once it is pointed.   *)
StartedInv ==
  drive = "use" =>
    /\ phase \in {"point", "merge", "restart", "save"} => target \in (up \cap login) \ deaf
    /\ phase \in {"merge", "restart", "save"} => context = target
    /\ phase \in {"restart", "save"} => target \in capped

(* An engine that runs with the cap in its config has read it, but for one   *)
(* that is about to restart or of which that is noted.                       *)
CapInv ==
  /\ \A rt \in up \cap capped : rt \in loaded \cup torn \/ (phase = "restart" /\ rt = target)
  /\ settled # None => settled \in capped

DockerInv ==
  /\ TypeOK /\ PhaseInv /\ InstalledInv /\ StoppedInv /\ StartedInv /\ CapInv
  /\ OnlyChosen /\ CapInForce

(* The type invariant, set by set.                                           *)
Sets ==
  /\ installed \subseteq Runtime /\ up \subseteq Runtime /\ login \subseteq Runtime
  /\ capped \subseteq Runtime /\ loaded \subseteq Runtime /\ stale \subseteq Runtime
  /\ deaf \subseteq Runtime /\ torn \subseteq Runtime

Others ==
  /\ daemon \in BOOLEAN /\ linked \in BOOLEAN
  /\ context \in Runtime \cup {None} /\ settled \in Runtime \cup {None}
  /\ saved \in Runtime /\ target \in Runtime
  /\ drive \in {"none", "use", "install"}
  /\ drives \in 0..MaxDrives /\ events \in 0..MaxEvents

LEMMA Types == TypeOK <=> Sets /\ Others
BY Zenon DEF TypeOK, Sets, Others

LEMMA StaleIsStale == stale # {} => Stale \in stale
BY DEF Stale

LEMMA InitInv == Bounds /\ Init => DockerInv
<1>. SUFFICES ASSUME Bounds, Init
              PROVE  DockerInv
  OBVIOUS
<1>1. TypeOK
  <2>1. Sets
    BY DEF Init, Sets
  <2>2. drives \in 0..MaxDrives /\ events \in 0..MaxEvents
    BY DEF Init, Bounds
  <2>3. Others
    BY <2>2 DEF Init, Others, Runtime
  <2>. QED
    BY <2>1, <2>3, Types
<1>2. PhaseInv /\ InstalledInv /\ StoppedInv /\ StartedInv /\ CapInv
  BY DEF Init, PhaseInv, InstalledInv, StoppedInv, StartedInv, CapInv, Phases, Stopping
<1>3. OnlyChosen /\ CapInForce
  BY DEF Init, OnlyChosen, CapInForce
<1>. QED
  BY <1>1, <1>2, <1>3 DEF DockerInv

LEMMA NextInv == Bounds /\ DockerInv /\ [Next]_vars => DockerInv'
<1>. SUFFICES ASSUME Bounds, DockerInv, [Next]_vars
              PROVE  DockerInv'
  OBVIOUS
<1>a. Sets /\ Others
  BY Types DEF DockerInv
<1>t. Sets' /\ Others' => TypeOK'
  BY Zenon DEF TypeOK, Sets, Others
<1>. USE DEF DockerInv, machine, command, history, Phases, Stopping
<1>1. CASE Use
  <2>. USE <1>1, StaleIsStale DEF Use, Begin, ToStop
  <2>1. TypeOK'
    BY <1>a, <1>t DEF Sets, Others, Bounds
  <2>2. PhaseInv'
    BY <1>a DEF Sets, PhaseInv
  <2>3. InstalledInv'
    BY DEF InstalledInv, PhaseInv
  <2>4. StoppedInv'
    BY <1>a DEF Sets, StoppedInv, PhaseInv, InstalledInv, Quiet, Stale
  <2>5. StartedInv'
    BY DEF StartedInv, PhaseInv
  <2>6. CapInv'
    BY DEF CapInv, PhaseInv
  <2>7. OnlyChosen' /\ CapInForce'
    BY DEF OnlyChosen, CapInForce, PhaseInv
  <2>. QED
    BY <2>1, <2>2, <2>3, <2>4, <2>5, <2>6, <2>7
<1>2. CASE Install
  <2>. USE <1>2, StaleIsStale DEF Install, Begin
  <2>1. TypeOK'
    BY <1>a, <1>t DEF Sets, Others, Bounds
  <2>2. PhaseInv'
    BY <1>a DEF Sets, PhaseInv
  <2>3. InstalledInv'
    BY DEF InstalledInv, PhaseInv
  <2>4. StoppedInv'
    BY <1>a DEF Sets, StoppedInv, PhaseInv, InstalledInv, Quiet, Stale
  <2>5. StartedInv'
    BY DEF StartedInv, PhaseInv
  <2>6. CapInv'
    BY DEF CapInv, PhaseInv
  <2>7. OnlyChosen' /\ CapInForce'
    BY DEF OnlyChosen, CapInForce, PhaseInv
  <2>. QED
    BY <2>1, <2>2, <2>3, <2>4, <2>5, <2>6, <2>7
<1>3. CASE Abort
  <2>. USE <1>3, StaleIsStale DEF Abort
  <2>1. TypeOK'
    BY <1>a, <1>t DEF Sets, Others, Bounds
  <2>2. PhaseInv'
    BY <1>a DEF Sets, PhaseInv
  <2>3. InstalledInv'
    BY DEF InstalledInv, PhaseInv
  <2>4. StoppedInv'
    BY <1>a DEF Sets, StoppedInv, PhaseInv, InstalledInv, Quiet, Stale
  <2>5. StartedInv'
    BY DEF StartedInv, PhaseInv
  <2>6. CapInv'
    BY DEF CapInv, PhaseInv
  <2>7. OnlyChosen' /\ CapInForce'
    BY DEF OnlyChosen, CapInForce, PhaseInv
  <2>. QED
    BY <2>1, <2>2, <2>3, <2>4, <2>5, <2>6, <2>7
<1>4. CASE StopEngine
  <2>. USE <1>4, StaleIsStale DEF StopEngine
  <2>1. TypeOK'
    BY <1>a, <1>t DEF Sets, Others, Bounds
  <2>2. PhaseInv'
    BY <1>a DEF Sets, PhaseInv
  <2>3. InstalledInv'
    BY DEF InstalledInv, PhaseInv
  <2>4. StoppedInv'
    BY <1>a DEF Sets, StoppedInv, PhaseInv, InstalledInv, Quiet, Stale
  <2>5. StartedInv'
    BY DEF StartedInv, PhaseInv
  <2>6. CapInv'
    BY DEF CapInv, PhaseInv
  <2>7. OnlyChosen' /\ CapInForce'
    BY DEF OnlyChosen, CapInForce, PhaseInv
  <2>. QED
    BY <2>1, <2>2, <2>3, <2>4, <2>5, <2>6, <2>7
<1>5. CASE StopInVain
  <2>. USE <1>5, StaleIsStale DEF StopInVain, Unheard
  <2>1. TypeOK'
    <3>1. drives' \in 0..MaxDrives /\ events' \in 0..MaxEvents
      BY <1>a DEF Others, Bounds
    <3>2. Sets'
      BY <1>a DEF Sets, PhaseInv
    <3>3. Others'
      BY <1>a, <3>1 DEF Others
    <3>. QED
      BY <1>t, <3>2, <3>3
  <2>2. PhaseInv'
    BY <1>a DEF Sets, PhaseInv
  <2>3. InstalledInv'
    BY DEF InstalledInv, PhaseInv
  <2>4. StoppedInv'
    BY <1>a DEF Sets, StoppedInv, PhaseInv, InstalledInv, Quiet, Stale
  <2>5. StartedInv'
    BY DEF StartedInv, PhaseInv
  <2>6. CapInv'
    BY DEF CapInv, PhaseInv
  <2>7. OnlyChosen' /\ CapInForce'
    BY DEF OnlyChosen, CapInForce, PhaseInv
  <2>. QED
    BY <2>1, <2>2, <2>3, <2>4, <2>5, <2>6, <2>7
<1>6. CASE DisableAutostart
  <2>. USE <1>6, StaleIsStale DEF DisableAutostart
  <2>1. TypeOK'
    BY <1>a, <1>t DEF Sets, Others, Bounds
  <2>2. PhaseInv'
    BY <1>a DEF Sets, PhaseInv
  <2>3. InstalledInv'
    BY DEF InstalledInv, PhaseInv
  <2>4. StoppedInv'
    BY <1>a DEF Sets, StoppedInv, PhaseInv, InstalledInv, Quiet, Stale
  <2>5. StartedInv'
    BY DEF StartedInv, PhaseInv
  <2>6. CapInv'
    BY DEF CapInv, PhaseInv
  <2>7. OnlyChosen' /\ CapInForce'
    BY DEF OnlyChosen, CapInForce, PhaseInv
  <2>. QED
    BY <2>1, <2>2, <2>3, <2>4, <2>5, <2>6, <2>7
<1>7. CASE ReleaseSocket
  <2>. USE <1>7, StaleIsStale DEF ReleaseSocket, Stopped
  <2>1. TypeOK'
    BY <1>a, <1>t DEF Sets, Others, Bounds
  <2>2. PhaseInv'
    BY <1>a DEF Sets, PhaseInv
  <2>3. InstalledInv'
    BY DEF InstalledInv, PhaseInv
  <2>4. StoppedInv'
    BY <1>a DEF Sets, StoppedInv, PhaseInv, InstalledInv, Quiet, Stale
  <2>5. StartedInv'
    BY DEF StartedInv, PhaseInv
  <2>6. CapInv'
    BY DEF CapInv, PhaseInv
  <2>7. OnlyChosen' /\ CapInForce'
    BY DEF OnlyChosen, CapInForce, PhaseInv
  <2>. QED
    BY <2>1, <2>2, <2>3, <2>4, <2>5, <2>6, <2>7
<1>8. CASE InstallRuntime
  <2>. USE <1>8, StaleIsStale DEF InstallRuntime
  <2>1. TypeOK'
    BY <1>a, <1>t DEF Sets, Others, Bounds
  <2>2. PhaseInv'
    BY <1>a DEF Sets, PhaseInv
  <2>3. InstalledInv'
    BY DEF InstalledInv, PhaseInv
  <2>4. StoppedInv'
    BY <1>a DEF Sets, StoppedInv, PhaseInv, InstalledInv, Quiet, Stale
  <2>5. StartedInv'
    BY DEF StartedInv, PhaseInv
  <2>6. CapInv'
    BY DEF CapInv, PhaseInv
  <2>7. OnlyChosen' /\ CapInForce'
    BY DEF OnlyChosen, CapInForce, PhaseInv
  <2>. QED
    BY <2>1, <2>2, <2>3, <2>4, <2>5, <2>6, <2>7
<1>9. CASE Configure
  <2>. USE <1>9, StaleIsStale DEF Configure
  <2>1. TypeOK'
    BY <1>a, <1>t DEF Sets, Others, Bounds
  <2>2. PhaseInv'
    BY <1>a DEF Sets, PhaseInv
  <2>3. InstalledInv'
    BY DEF InstalledInv, PhaseInv
  <2>4. StoppedInv'
    BY <1>a DEF Sets, StoppedInv, PhaseInv, InstalledInv, Quiet, Stale
  <2>5. StartedInv'
    BY DEF StartedInv, PhaseInv
  <2>6. CapInv'
    BY DEF CapInv, PhaseInv
  <2>7. OnlyChosen' /\ CapInForce'
    BY DEF OnlyChosen, CapInForce, PhaseInv
  <2>. QED
    BY <2>1, <2>2, <2>3, <2>4, <2>5, <2>6, <2>7
<1>10. CASE StartEngine
  <2>. USE <1>10, StaleIsStale DEF StartEngine, Start
  <2>1. TypeOK'
    BY <1>a, <1>t DEF Sets, Others, Bounds
  <2>2. PhaseInv'
    BY <1>a DEF Sets, PhaseInv
  <2>3. InstalledInv'
    BY DEF InstalledInv, PhaseInv
  <2>4. StoppedInv'
    BY <1>a DEF Sets, StoppedInv, PhaseInv, InstalledInv, Quiet, Stale
  <2>5. StartedInv'
    BY DEF StartedInv, PhaseInv
  <2>6. CapInv'
    BY DEF CapInv, PhaseInv
  <2>7. OnlyChosen' /\ CapInForce'
    BY DEF OnlyChosen, CapInForce, PhaseInv
  <2>. QED
    BY <2>1, <2>2, <2>3, <2>4, <2>5, <2>6, <2>7
<1>11. CASE PointCli
  <2>. USE <1>11, StaleIsStale DEF PointCli
  <2>1. TypeOK'
    BY <1>a, <1>t DEF Sets, Others, Bounds
  <2>2. PhaseInv'
    BY <1>a DEF Sets, PhaseInv
  <2>3. InstalledInv'
    BY DEF InstalledInv, PhaseInv
  <2>4. StoppedInv'
    BY <1>a DEF Sets, StoppedInv, PhaseInv, InstalledInv, Quiet, Stale
  <2>5. StartedInv'
    BY DEF StartedInv, PhaseInv
  <2>6. CapInv'
    BY DEF CapInv, PhaseInv
  <2>7. OnlyChosen' /\ CapInForce'
    BY DEF OnlyChosen, CapInForce, PhaseInv
  <2>. QED
    BY <2>1, <2>2, <2>3, <2>4, <2>5, <2>6, <2>7
<1>12. CASE MergeDaemonConfig
  <2>. USE <1>12, StaleIsStale DEF MergeDaemonConfig, AfterCap
  <2>1. TypeOK'
    BY <1>a, <1>t DEF Sets, Others, Bounds
  <2>2. PhaseInv'
    BY <1>a DEF Sets, PhaseInv
  <2>3. InstalledInv'
    BY DEF InstalledInv, PhaseInv
  <2>4. StoppedInv'
    BY <1>a DEF Sets, StoppedInv, PhaseInv, InstalledInv, Quiet, Stale
  <2>5. StartedInv'
    BY DEF StartedInv, PhaseInv
  <2>6. CapInv'
    BY DEF CapInv, PhaseInv
  <2>7. OnlyChosen' /\ CapInForce'
    BY DEF OnlyChosen, CapInForce, PhaseInv
  <2>. QED
    BY <2>1, <2>2, <2>3, <2>4, <2>5, <2>6, <2>7
<1>13. CASE RestartEngine
  <2>. USE <1>13, StaleIsStale DEF RestartEngine, AfterCap, Restart
  <2>1. TypeOK'
    BY <1>a, <1>t DEF Sets, Others, Bounds
  <2>2. PhaseInv'
    BY <1>a DEF Sets, PhaseInv
  <2>3. InstalledInv'
    BY DEF InstalledInv, PhaseInv
  <2>4. StoppedInv'
    BY <1>a DEF Sets, StoppedInv, PhaseInv, InstalledInv, Quiet, Stale
  <2>5. StartedInv'
    BY DEF StartedInv, PhaseInv
  <2>6. CapInv'
    BY DEF CapInv, PhaseInv
  <2>7. OnlyChosen' /\ CapInForce'
    BY DEF OnlyChosen, CapInForce, PhaseInv
  <2>. QED
    BY <2>1, <2>2, <2>3, <2>4, <2>5, <2>6, <2>7
<1>14. CASE Finish
  <2>. USE <1>14, StaleIsStale DEF Finish
  <2>1. TypeOK'
    BY <1>a, <1>t DEF Sets, Others, Bounds
  <2>2. PhaseInv'
    BY <1>a DEF Sets, PhaseInv
  <2>3. InstalledInv'
    BY DEF InstalledInv, PhaseInv
  <2>4. StoppedInv'
    BY <1>a DEF Sets, StoppedInv, PhaseInv, InstalledInv, Quiet, Stale
  <2>5. StartedInv'
    BY DEF StartedInv, PhaseInv
  <2>6. CapInv'
    BY <1>a DEF CapInv, PhaseInv, StartedInv, Sets
  <2>7. OnlyChosen'
    <3>. SUFFICES ASSUME phase = "save"
                  PROVE  OnlyChosen'
      BY DEF OnlyChosen
    <3>1. /\ drive = "use" /\ stale = {} /\ settled' = target /\ context = target
          /\ target \in (up \cap login) \ deaf
      BY DEF PhaseInv, StartedInv
    <3>2. \A rt \in installed \ {target} : Quiet(rt)
      BY <3>1 DEF StoppedInv
    <3>3. target \in installed
      BY <3>1 DEF InstalledInv
    <3>4. (up \cap installed) \ deaf = {target} /\ (login \cap installed) \ deaf = {target}
      BY <3>1, <3>2, <3>3 DEF Quiet
    <3>5. (daemon => target = Colima) /\ (linked => Colima \in {target} \cup deaf)
      BY <3>2 DEF Quiet, InstalledInv
    <3>. QED
      BY <3>1, <3>4, <3>5 DEF OnlyChosen
  <2>8. CapInForce'
    BY DEF CapInForce, CapInv, PhaseInv, StartedInv
  <2>. QED
    BY <2>1, <2>2, <2>3, <2>4, <2>5, <2>6, <2>7, <2>8
<1>15. CASE Reboot
  <2>. USE <1>15, StaleIsStale DEF Reboot
  <2>1. TypeOK'
    BY <1>a, <1>t DEF Sets, Others, Bounds
  <2>2. PhaseInv'
    BY <1>a DEF Sets, PhaseInv
  <2>3. InstalledInv'
    BY DEF InstalledInv, PhaseInv
  <2>4. StoppedInv'
    BY <1>a DEF Sets, StoppedInv, PhaseInv, InstalledInv, Quiet, Stale
  <2>5. StartedInv'
    BY DEF StartedInv, PhaseInv
  <2>6. CapInv'
    BY DEF CapInv, PhaseInv
  <2>7. OnlyChosen'
    BY <1>a DEF OnlyChosen, Sets
  <2>8. CapInForce'
    BY DEF OnlyChosen, CapInForce, CapInv
  <2>. QED
    BY <2>1, <2>2, <2>3, <2>4, <2>5, <2>6, <2>7, <2>8
<1>16. CASE ByHand
  <2>. USE <1>16, StaleIsStale DEF ByHand, Start
  <2>1. TypeOK'
    <3>1. drives' \in 0..MaxDrives /\ events' \in 0..MaxEvents
      BY <1>a DEF Others, Bounds
    <3>2. Sets'
      BY <1>a DEF Sets
    <3>3. Others'
      BY <1>a, <3>1 DEF Others
    <3>. QED
      BY <1>t, <3>2, <3>3
  <2>2. PhaseInv'
    BY <1>a DEF Sets, PhaseInv
  <2>3. InstalledInv'
    BY DEF InstalledInv, PhaseInv
  <2>4. StoppedInv'
    BY <1>a DEF Sets, StoppedInv, PhaseInv, InstalledInv, Quiet, Stale
  <2>5. StartedInv'
    BY DEF StartedInv, PhaseInv
  <2>6. CapInv'
    BY DEF CapInv, PhaseInv
  <2>7. OnlyChosen' /\ CapInForce'
    BY DEF OnlyChosen, CapInForce, PhaseInv
  <2>. QED
    BY <2>1, <2>2, <2>3, <2>4, <2>5, <2>6, <2>7
<1>18. CASE DisableInVain
  <2>. USE <1>18, StaleIsStale DEF DisableInVain, Unheard
  <2>1. TypeOK'
    <3>1. drives' \in 0..MaxDrives /\ events' \in 0..MaxEvents
      BY <1>a DEF Others, Bounds
    <3>2. Sets'
      BY <1>a DEF Sets, PhaseInv
    <3>3. Others'
      BY <1>a, <3>1 DEF Others
    <3>. QED
      BY <1>t, <3>2, <3>3
  <2>2. PhaseInv'
    BY <1>a DEF Sets, PhaseInv
  <2>3. InstalledInv'
    BY DEF InstalledInv, PhaseInv
  <2>4. StoppedInv'
    BY <1>a DEF Sets, StoppedInv, PhaseInv, InstalledInv, Quiet, Stale
  <2>5. StartedInv'
    BY DEF StartedInv, PhaseInv
  <2>6. CapInv'
    BY DEF CapInv, PhaseInv
  <2>7. OnlyChosen' /\ CapInForce'
    BY DEF OnlyChosen, CapInForce, PhaseInv
  <2>. QED
    BY <2>1, <2>2, <2>3, <2>4, <2>5, <2>6, <2>7
<1>19. CASE ReleaseInVain
  <2>. USE <1>19, StaleIsStale DEF ReleaseInVain, Stopped, Unheard
  <2>1. TypeOK'
    <3>1. drives' \in 0..MaxDrives /\ events' \in 0..MaxEvents
      BY <1>a DEF Others, Bounds
    <3>2. Sets'
      BY <1>a DEF Sets, PhaseInv
    <3>3. Others'
      BY <1>a, <3>1 DEF Others
    <3>. QED
      BY <1>t, <3>2, <3>3
  <2>2. PhaseInv'
    BY <1>a DEF Sets, PhaseInv
  <2>3. InstalledInv'
    BY DEF InstalledInv, PhaseInv
  <2>4. StoppedInv'
    BY <1>a DEF Sets, StoppedInv, PhaseInv, InstalledInv, Quiet, Stale
  <2>5. StartedInv'
    BY DEF StartedInv, PhaseInv
  <2>6. CapInv'
    BY DEF CapInv, PhaseInv
  <2>7. OnlyChosen' /\ CapInForce'
    BY DEF OnlyChosen, CapInForce, PhaseInv
  <2>. QED
    BY <2>1, <2>2, <2>3, <2>4, <2>5, <2>6, <2>7
<1>17. CASE UNCHANGED vars
  BY <1>17 DEF vars, TypeOK, PhaseInv, InstalledInv, StoppedInv, Quiet, Stale, StartedInv, CapInv,
                     OnlyChosen, CapInForce
<1>. QED
  BY <1>1, <1>2, <1>3, <1>4, <1>5, <1>6, <1>7, <1>8, <1>9, <1>10, <1>11, <1>12, <1>13, <1>14,
     <1>15, <1>16, <1>17, <1>18, <1>19 DEF Next

LEMMA Invariance ==
  ASSUME Bounds
  PROVE  Spec => []DockerInv
<1>1. Init => DockerInv
  BY InitInv
<1>2. DockerInv /\ [Next]_vars => DockerInv'
  BY NextInv
<1>. QED
  BY <1>1, <1>2, PTL DEF Spec

(* Every variable stays in its range.                                        *)
THEOREM TypeCorrect ==
  ASSUME Bounds
  PROVE  Spec => []TypeOK
BY Invariance, PTL DEF DockerInv

(* After a finished switch, and through restarts, the chosen runtime runs    *)
(* and no other that `installed` counts does or holds the socket, whatever   *)
(* commands were cut off, and runtimes started by hand, before it: but for   *)
(* those of which this very switch failed unheard to stop the engine, take   *)
(* back the start at login or unlink the socket.                             *)
THEOREM SwitchChoosesOne ==
  ASSUME Bounds
  PROVE  Spec => []OnlyChosen
BY Invariance, PTL DEF DockerInv

(* After a finished switch the engine that runs has the build cache's cap.   *)
THEOREM EngineHasCap ==
  ASSUME Bounds
  PROVE  Spec => []CapInForce
BY Invariance, PTL DEF DockerInv

=============================================================================
