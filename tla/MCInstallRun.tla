---------------------------- MODULE MCInstallRun ----------------------------
(* Small instances of InstallRun for TLC.                                  *)
EXTENDS InstallRun

CONSTANTS base, tool, app

Edges(tools, apps) == [m \in Module |-> CASE m = base -> {} [] m = tool -> tools [] m = app -> apps]
Nothing == Edges({}, {})

Machine(requires, after, drop, skip, mac, nvidia) ==
  [requires |-> requires, after |-> after, drop |-> drop, skip |-> skip, mac |-> mac,
   nvidia |-> nvidia]

(* On a Mac: a chain; the same without its bottom module; a fork with a    *)
(* soft edge against the alphabet whose one arm is skipped, and an NVIDIA  *)
(* GPU that asks for that arm. On Linux: a soft edge beside a hard one.    *)
Chain == <<Edges({base}, {tool}), Nothing>>
Fork == <<Edges({base}, {}), Edges({}, {base})>>
Soft == <<Edges({}, {base}), Edges({}, {tool})>>
AllHosts ==
  {Machine(Chain[1], Chain[2], drop, {}, TRUE, FALSE) : drop \in {{}, {base}}}
  \cup {Machine(Fork[1], Fork[2], {}, {tool}, TRUE, TRUE)}
  \cup {Machine(Soft[1], Soft[2], {}, {}, FALSE, FALSE)}

(* The chain with its middle module skipped.                               *)
GapHosts == {Machine(Edges({base}, {tool}), Nothing, {}, {tool}, FALSE, FALSE)}

=============================================================================
