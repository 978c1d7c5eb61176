----------------------------- MODULE SelfUpdate -----------------------------
(* `devboost self-update` on Linux: unless the redirect to the latest        *)
(* release already names the running version, the version is read from it    *)
(* once more, then the checksums, the binary and the Ventoy archive are      *)
(* fetched from it one by one, verified, and put in place one by one.  A new *)
(* release may be published, or the latest withdrawn, between any two of     *)
(* these steps; each may fail, and the update be killed.                     *)
EXTENDS Naturals, FiniteSets

CONSTANTS
  MaxVersion,  \* bound: releases
  MaxUpdates,  \* bound: self-updates
  MaxMoves     \* bound: changes of what is the latest release

Version == 1..MaxVersion
None    == 0

VARIABLES
  latest,   \* the release that /releases/latest leads to
  binary,   \* the release of the binary in place
  archive,  \* the release of the archive beside it
  running,  \* devboost.__version__ of the process that updates
  stage,    \* what the update does next
  named,    \* the version of the redirect
  sums, fetchedBinary, fetchedArchive,  \* the releases of the files fetched
  cut,      \* history: an update ended between its two replacements, and none
            \*   has replaced both since
  moved,    \* history: a release was withdrawn after this update read its version
  updates, moves

fetched == <<sums, fetchedBinary, fetchedArchive>>
vars == <<latest, binary, archive, running, stage, named, fetched, cut, moved,
          updates, moves>>

Init ==
  /\ latest \in Version
  /\ binary \in 1..latest /\ archive = binary
  /\ running = binary
  /\ stage = "idle" /\ named = None
  /\ sums = None /\ fetchedBinary = None /\ fetchedArchive = None
  /\ cut = FALSE /\ moved = FALSE
  /\ updates = 0 /\ moves = 0

(* A release is published, or the latest withdrawn and the one before back. *)
Publish ==
  /\ moves < MaxMoves /\ moves' = moves + 1
  /\ latest' \in {latest - 1, latest + 1} \cap Version
  /\ moved' = (moved \/ (latest' < latest /\ stage \notin {"idle", "look"}))
  /\ UNCHANGED <<binary, archive, running, stage, named, fetched, cut, updates>>

(* A mutant of NotOlder: the redirect is followed wherever it leads.        *)
AnyVersion(version) == TRUE

(* "refusing to downgrade"                                                  *)
NotOlder(version) == version >= running

(* "already on the latest version": nothing is done, whatever the archive.  *)
UpToDate ==
  /\ stage = "idle" /\ updates < MaxUpdates /\ updates' = updates + 1
  /\ running' = binary /\ latest = binary
  /\ UNCHANGED <<latest, binary, archive, stage, named, fetched, cut, moved, moves>>

(* The redirect names another version, or could not be read: it is an       *)
(* update, which reads the redirect for itself.                             *)
Begin ==
  /\ stage = "idle" /\ updates < MaxUpdates /\ updates' = updates + 1
  /\ running' = binary /\ moved' = FALSE
  /\ named' = None /\ stage' = "look"
  /\ UNCHANGED <<latest, binary, archive, fetched, cut, moves>>

Look ==
  /\ stage = "look" /\ stage' = "check"
  /\ named' = latest
  /\ UNCHANGED <<latest, binary, archive, running, fetched, cut, moved, updates, moves>>

Check ==
  /\ stage = "check" /\ NotOlder(named)
  /\ stage' = "checksums"
  /\ UNCHANGED <<latest, binary, archive, running, named, fetched, cut, moved, updates,
                 moves>>

FetchChecksums ==
  /\ stage = "checksums" /\ stage' = "binary"
  /\ sums' = latest
  /\ UNCHANGED <<latest, binary, archive, running, named, fetchedBinary,
                 fetchedArchive, cut, moved, updates, moves>>

FetchBinary ==
  /\ stage = "binary" /\ stage' = "archive"
  /\ fetchedBinary' = latest
  /\ UNCHANGED <<latest, binary, archive, running, named, sums, fetchedArchive, cut,
                 moved, updates, moves>>

FetchArchive ==
  /\ stage = "archive" /\ stage' = "verify"
  /\ fetchedArchive' = latest
  /\ UNCHANGED <<latest, binary, archive, running, named, sums, fetchedBinary, cut,
                 moved, updates, moves>>

(* Mutant of Verified: only the binary is looked at.                        *)
VerifiedBinary == fetchedBinary = sums

(* Every file fetched is the one the checksums name.                        *)
Verified == fetchedBinary = sums /\ fetchedArchive = sums

Verify ==
  /\ stage = "verify" /\ Verified
  /\ stage' = "replace"
  /\ UNCHANGED <<latest, binary, archive, running, named, fetched, cut, moved, updates,
                 moves>>

ReplaceBinary ==
  /\ stage = "replace" /\ stage' = "beside"
  /\ binary' = fetchedBinary
  /\ UNCHANGED <<latest, archive, running, named, fetched, cut, moved, updates, moves>>

ReplaceArchive ==
  /\ stage = "beside" /\ stage' = "idle"
  /\ archive' = fetchedArchive
  /\ cut' = FALSE
  /\ UNCHANGED <<latest, binary, running, named, fetched, moved, updates, moves>>

(* It is refused, a download or a replacement fails, or it is killed.       *)
Stop ==
  /\ stage # "idle" /\ stage' = "idle"
  /\ cut' = (cut \/ stage = "beside")
  /\ UNCHANGED <<latest, binary, archive, running, named, fetched, moved, updates,
                 moves>>

Next ==
  \/ Publish
  \/ UpToDate \/ Begin \/ Look \/ Check \/ FetchChecksums \/ FetchBinary \/ FetchArchive
  \/ Verify \/ ReplaceBinary \/ ReplaceArchive \/ Stop

Spec == Init /\ [][Next]_vars

-----------------------------------------------------------------------------
(* Every variable stays in its range.                                       *)
TypeOK ==
  /\ {latest, binary, archive, running} \subseteq Version
  /\ {named, sums, fetchedBinary, fetchedArchive} \subseteq Version \cup {None}
  /\ cut \in BOOLEAN /\ moved \in BOOLEAN
  /\ updates \in 0..MaxUpdates /\ moves \in 0..MaxMoves

(* Whatever is published meanwhile, the binary and the archive it builds    *)
(* sticks from are of one release, unless an update was cut off between     *)
(* their replacements (selfupdate.py:172-175) and no other has replaced     *)
(* both since: one that finds the new binary up to date does not.           *)
Matched == stage # "beside" => binary = archive \/ cut

(* The binary is never replaced by an older one (selfupdate.py:189-192),    *)
(* save where the release that was checked is withdrawn before the fetch.   *)
NeverOlder == [][binary' >= binary \/ moved]_vars

=============================================================================
