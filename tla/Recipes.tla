------------------------------ MODULE Recipes ------------------------------
(***************************************************************************)
(* The vocabulary the module catalog (engine/src/devboost/modules) is       *)
(* written in.  A module is cut down to what a run can tell apart: what it  *)
(* requires, where it is planned, the facts its `verify` reads, and the     *)
(* steps of its `install` in order.                                         *)
(*                                                                          *)
(* A fact is something on the machine that commands need, make or take      *)
(* away: a command on PATH, a package, a file with our content, a running   *)
(* service.  A step needs facts, gives facts and may take facts away.       *)
(***************************************************************************)
EXTENDS Sequences

(* The platforms: a distribution, or macOS. Omarchy is an Arch that brings  *)
(* its own desktop.                                                         *)
Family(os) == IF os = "omarchy" THEN "arch" ELSE os
Mac(os)    == os = "macos"
Linux(os)  == os # "macos"

(* A step. `checked`: a failure raises (InstallError); otherwise            *)
(* Executor.run's result is dropped and install goes on.  `unless`: when    *)
(* these facts hold already, this step is left out and the `over` - 1 after *)
(* it.  `asks`: a missing need is for the user to supply (NeedsUser).       *)
(* `stops`: a missing need ends install early without an error.  `torn`:    *)
(* what a kill in the middle of the step destroys.                          *)
Step(needs, gives) ==
    [needs |-> needs, gives |-> gives, takes |-> {}, torn |-> {}, unless |-> {}, over |-> 1,
     checked |-> TRUE, asks |-> FALSE, stops |-> FALSE]

Do(needs, gives)     == Step(needs, gives)
Try(needs, gives)    == [Step(needs, gives) EXCEPT !.checked = FALSE]
Ask(needs)           == [Step(needs, {}) EXCEPT !.asks = TRUE]
OnlyIf(needs)        == [Step(needs, {}) EXCEPT !.stops = TRUE]
Unless(have, s)      == [s EXCEPT !.unless = have]
UnlessAll(have, steps) ==
    <<[Head(steps) EXCEPT !.unless = have, !.over = Len(steps)]>> \o Tail(steps)
Taking(s, gone)      == [s EXCEPT !.takes = gone]

(* A file of the user's rewritten in place, not through a temporary one:    *)
(* cut off half way it no longer parses.                                    *)
Rewriting(file, s)   == [s EXCEPT !.torn = {file \o ".valid"}]

(* A module. `soft` is `after`; `families` empty means every family;        *)
(* `provided` are the platforms that bring it themselves.                   *)
Mod(requires, reads, steps) ==
    [requires |-> requires, soft |-> {}, reads |-> reads, steps |-> steps,
     families |-> {}, provided |-> {}, gui |-> FALSE]

Gui(mod)                 == [mod EXCEPT !.gui = TRUE]
Only(families, mod)      == [mod EXCEPT !.families = families]
ProvidedBy(where, mod)   == [mod EXCEPT !.provided = where]
After(soft, mod)         == [mod EXCEPT !.soft = soft]

LinuxFamilies == {"fedora", "debian", "arch"}

-----------------------------------------------------------------------------
(* Installing a package with the platform's manager (primitives/pkg.py).    *)
(* Homebrew is itself a module; dnf, apt and pacman come with the system.   *)
Pkg(os, f) == Do(IF Mac(os) THEN {"brew"} ELSE {}, {f})

(* From the AUR: through omarchy-pkg-aur-add, or yay or paru if there.      *)
Aur(f) == Do({"aur-helper"}, {f})

(* A package repository added first: dnf .repo, or apt list and key.        *)
FromRepo(f) == <<Do({}, {f \o ".repo"}), Do({f \o ".repo"}, {f})>>

(* copr.enable drops its result, so only the install after it can fail.     *)
FromCopr(f) == <<Try({"dnf"}, {f \o ".copr"}), Do({f \o ".copr"}, {f})>>

(* A download-and-unpack script run with `sh -c`, its result dropped.       *)
Script(f) == Try({}, {f})

(* A module whose macOS side is one formula or cask and whose Linux side is *)
(* its own.                                                                 *)
BrewOr(os, f, steps) ==
    Mod({"homebrew"}, {f}, IF Mac(os) THEN <<Pkg(os, f)>> ELSE steps)

(* The package under the same fact on every platform.                       *)
PackageModule(os, f) == BrewOr(os, f, <<Pkg(os, f)>>)

(* A package but on Debian, where apt has none or an old one.               *)
ScriptOnDebian(os, f) ==
    BrewOr(os, f, <<IF os = "debian" THEN Script(f) ELSE Pkg(os, f)>>)

(* A package on Arch (and macOS), a script on the other Linuxes.            *)
ScriptOffArch(os, f) ==
    BrewOr(os, f, <<IF Family(os) = "arch" THEN Pkg(os, f) ELSE Script(f)>>)

(* Mutant of SystemService: verify is content with the package.             *)
PackageIsEnough(os, f) ==
    Mod({}, {f}, <<Pkg(os, f), Try({f}, {f \o ".service"})>>)

(* A package and the systemd unit enabled after it, the latter unchecked.   *)
SystemService(os, f) ==
    Mod({}, {f \o ".service"}, <<Pkg(os, f), Try({f}, {f \o ".service"})>>)
=============================================================================
