----------------------------- MODULE MediaBuild -----------------------------
(* `devboost usb`: a stick is probed, then built from nothing or, where it   *)
(* is one of ours already, updated; the installer's image comes from the     *)
(* cache, the network or the user's own file.  Any step may fail and the run *)
(* be killed; releases change the image, and files rot or are replaced.      *)
EXTENDS Naturals, FiniteSets

CONSTANTS
  Image,       \* the images a release may pin
  MaxBuilds,   \* bound: runs
  MaxChanges   \* bound: new pins, files that rot or are replaced

None == "none"

VARIABLES
  ventoy,    \* the stick has a Ventoy partition
  marked,    \* with our marker on it
  boots,     \* the image ventoy.json boots
  isos,      \* its images: "none", "torn", "bad" (not the pinned bytes) or "good"
  pin,       \* the image this release pins
  cached,    \* the cache's files, by the name of the image
  local,     \* the file the user gives as --iso-path
  build,     \* the run's next step
  mode,      \* "build" or "update"
  refresh,   \* --refresh-iso
  useLocal,  \* --iso-path is given, and was checked
  finished,  \* history: the last run did all its steps
  lacking,   \* history: it began with a stick of ours without its image
  swapped,   \* history: the images copied from a local file replaced after its check
  builds, changes

stick == <<ventoy, marked, boots, isos>>
plans == <<mode, refresh, useLocal>>
vars == <<stick, pin, cached, local, build, plans, finished, lacking, swapped, builds, changes>>

Init ==
  /\ ventoy \in BOOLEAN /\ marked = FALSE  \* blank, or somebody's Ventoy stick
  /\ boots = None /\ isos = [i \in Image |-> "none"]
  /\ pin \in Image
  /\ cached = [i \in Image |-> "none"] /\ local \in {"good", "bad"}
  /\ build = "idle" /\ mode = "build" /\ refresh = FALSE /\ useLocal = FALSE
  /\ finished = FALSE /\ lacking = FALSE /\ swapped = {}
  /\ builds = 0 /\ changes = 0

(* Mutant of Ours: any Ventoy stick will do.                                *)
OursIfVentoy == ventoy

Ours == ventoy /\ marked

(* A stick of ours is updated; any other, and on request ours too, is wiped *)
(* once the user agrees, and so is one of ours that could not be probed.    *)
(* A bad file of the user's ends the run here, before anything is done.     *)
Begin ==
  /\ build = "idle" /\ builds < MaxBuilds /\ builds' = builds + 1
  /\ build' = "ventoy"
  /\ mode' \in IF Ours THEN {"build", "update"} ELSE {"build"}
  /\ refresh' \in BOOLEAN
  /\ useLocal' \in {FALSE, local = "good"}
  /\ finished' = FALSE
  /\ lacking' = (marked /\ isos[pin] # "good")
  /\ UNCHANGED <<stick, pin, cached, local, swapped, changes>>

(* Ventoy2Disk.sh: -I wipes the stick, -u leaves its data partition alone.  *)
InstallVentoy ==
  /\ build = "ventoy" /\ build' = "payload"
  /\ ventoy' = TRUE
  /\ IF mode = "build"
     THEN marked' = FALSE /\ boots' = None /\ isos' = [i \in Image |-> "none"]
     ELSE UNCHANGED <<marked, boots, isos>>
  /\ UNCHANGED <<pin, cached, local, plans, finished, lacking, swapped, builds, changes>>

StageConfig ==
  /\ build = "payload" /\ build' = "marker"
  /\ boots' = pin
  /\ UNCHANGED <<ventoy, marked, isos, pin, cached, local, plans, finished, lacking, swapped,
                 builds, changes>>

(* The payload ends with the marker; the images come after it, if at all.   *)
WriteMarker ==
  /\ build = "marker"
  /\ marked' = TRUE
  /\ build' = IF mode = "build" \/ refresh THEN "fetch" ELSE "idle"
  /\ finished' = (build' = "idle")
  /\ UNCHANGED <<ventoy, boots, isos, pin, cached, local, plans, lacking, swapped, builds,
                 changes>>

(* Mutant of Has: a file of that name.                                      *)
HasFile(image) == cached[image] # "none"

(* Cache.has: a file of that name with the pinned digest.                   *)
Has(image) == cached[image] = "good"

(* The user's file, a cache hit, or a download that matches its pin: only   *)
(* then does it get its name in the cache.                                  *)
Fetch ==
  /\ build = "fetch" /\ build' = "copy"
  /\ cached' = IF useLocal \/ Has(pin) THEN cached ELSE [cached EXCEPT ![pin] = "good"]
  /\ UNCHANGED <<stick, pin, local, plans, finished, lacking, swapped, builds, changes>>

StartCopy ==
  /\ build = "copy" /\ build' = "copying"
  /\ isos' = [isos EXCEPT ![pin] = "torn"]
  /\ UNCHANGED <<ventoy, marked, boots, pin, cached, local, plans, finished, lacking, swapped,
                 builds, changes>>

EndCopy ==
  /\ build = "copying" /\ build' = "idle"
  /\ isos' = [isos EXCEPT ![pin] = IF useLocal THEN local ELSE cached[pin]]
  /\ swapped' = IF useLocal /\ local = "bad" THEN swapped \cup {pin} ELSE swapped \ {pin}
  /\ finished' = TRUE
  /\ UNCHANGED <<ventoy, marked, boots, pin, cached, local, plans, lacking, builds, changes>>

(* A step fails, or the run is killed: a download leaves only its .part.    *)
Abort ==
  /\ build # "idle" /\ build' = "idle"
  /\ UNCHANGED <<stick, pin, cached, local, plans, finished, lacking, swapped, builds, changes>>

(* Between runs the release may change, and a cached file rot or be that of *)
(* another pin of the same name; the user's own file changes at any time.   *)
Change ==
  /\ changes < MaxChanges /\ changes' = changes + 1
  /\ \/ build = "idle" /\ pin' \in Image \ {pin} /\ UNCHANGED <<cached, local>>
     \/ /\ build = "idle"
        /\ \E i \in Image : cached[i] = "good" /\ cached' = [cached EXCEPT ![i] = "bad"]
        /\ UNCHANGED <<pin, local>>
     \/ local' \in {"good", "bad"} \ {local} /\ UNCHANGED <<pin, cached>>
  /\ UNCHANGED <<stick, build, plans, finished, lacking, swapped, builds>>

Next ==
  \/ Begin \/ InstallVentoy \/ StageConfig \/ WriteMarker
  \/ Fetch \/ StartCopy \/ EndCopy
  \/ Abort \/ Change

Spec == Init /\ [][Next]_vars

-----------------------------------------------------------------------------
(* Every variable stays in its range.                                       *)
TypeOK ==
  /\ {ventoy, marked, refresh, useLocal, finished, lacking} \subseteq BOOLEAN
  /\ boots \in Image \cup {None} /\ pin \in Image /\ swapped \subseteq Image
  /\ isos \in [Image -> {"none", "torn", "bad", "good"}]
  /\ cached \in [Image -> {"none", "bad", "good"}] /\ local \in {"good", "bad"}
  /\ build \in {"idle", "ventoy", "payload", "marker", "fetch", "copy", "copying"}
  /\ mode \in {"build", "update"}
  /\ builds \in 0..MaxBuilds /\ changes \in 0..MaxChanges

(* Only an image's pinned bytes are put on a stick whole (download.py:25-51, *)
(* cache.py:38-44), whatever the cache holds under its name - save from a   *)
(* file of the user's that is replaced after its one check.                 *)
VerifiedOnly == \A i \in Image : isos[i] = "bad" => i \in swapped

(* A run that did all its steps leaves a stick with the image it boots -    *)
(* save an update, without --refresh-iso, of a stick of ours that had lost  *)
(* it to a run cut off after its marker, or never had the release's new one *)
(* (stages.py:249, 303-306, 334; cli/installer.py:132).                      *)
Bootable ==
  finished =>
    \/ boots # None /\ (isos[boots] = "good" \/ boots \in swapped)
    \/ lacking /\ mode = "update" /\ ~refresh

=============================================================================
