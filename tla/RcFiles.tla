------------------------------ MODULE RcFiles ------------------------------
(* The files in $HOME that dev-boost's dotfiles take over: `chezmoi apply    *)
(* --force` replaces them, so each is first copied to <name>.pre-devboost    *)
(* unless it is exactly what dev-boost wrote.  The dotfiles module applies   *)
(* them all, voxtype-arabic only its own, chezmoi-repo the user's repository *)
(* instead; the user and other tools append lines at any time, and releases  *)
(* change what is applied.                                                   *)
EXTENDS Naturals, Sequences, FiniteSets, SequencesExt

CONSTANTS
  RcFile,       \* the taken-over files
  Templated,    \* those whose source is a template, unlike its result
  Own,          \* those voxtype-arabic applies
  Line,         \* lines a user or another tool may append
  MaxReleases,  \* bound: releases of the dotfiles
  MaxApplies    \* bound: applies begun

Foreign  == 0   \* written by no release: it has no marker of ours
NoDigest == [base |-> Foreign, lines |-> {}]

VARIABLES
  content,  \* per file: the release it was written from, and the lines added since
  backups,  \* per file: the copies <name>.pre-devboost, .1, .2, ...
  digest,   \* rc-digests.json: per file, the content recorded
  stamp,    \* dotfiles.sha256: the release last applied in full
  release,  \* the release installed
  apply,    \* "idle", then "back_up", "write", "record" and "stamp"
  source,   \* what it applies: "devboost" or the user's "repo"
  targets,  \* the files of this apply
  queue,    \* those of them its present phase has still to reach
  written,  \* history: the lines that were ever there, with their files
  exposed,  \* history: those added to a file of an apply between its copy and its record
  applies

vars == <<content, backups, digest, stamp, release, apply, source, targets, queue, written,
          exposed, applies>>

Init ==
  /\ content \in [RcFile -> {[base |-> Foreign, lines |-> theirs] : theirs \in SUBSET Line}]
  /\ backups = [f \in RcFile |-> <<>>]
  /\ digest = [f \in RcFile |-> NoDigest]
  /\ stamp = 0 /\ release = 1
  /\ apply = "idle" /\ source = "devboost" /\ targets = {} /\ queue = {}
  /\ written = {fl \in RcFile \X Line : fl[2] \in content[fl[1]].lines}
  /\ exposed = {}
  /\ applies = 0

AppendLine(f, line) ==
  /\ content' = [content EXCEPT ![f].lines = @ \cup {line}]
  /\ written' = written \cup {<<f, line>>}
  /\ exposed' = IF f \in targets /\ apply # "idle" /\ ~(apply = "back_up" /\ f \in queue)
                THEN exposed \cup {<<f, line>>} ELSE exposed
  /\ UNCHANGED <<backups, digest, stamp, release, apply, source, targets, queue, applies>>

(* The user, or an installer that "adds itself to your shell".              *)
Edit == \E f \in RcFile, line \in Line : <<f, line>> \notin written /\ AppendLine(f, line)

Update ==
  /\ apply = "idle" /\ release < MaxReleases
  /\ release' = release + 1
  /\ UNCHANGED <<content, backups, digest, stamp, apply, source, targets, queue, written,
                 exposed, applies>>

Begin(from, files) ==
  /\ apply = "idle" /\ applies < MaxApplies
  /\ apply' = "back_up" /\ source' = from /\ targets' = files /\ queue' = files
  /\ applies' = applies + 1
  /\ UNCHANGED <<content, backups, digest, stamp, release, written, exposed>>

(* Dotfiles, whose verify compares the stamp, or which is forced.           *)
ApplyAll == Begin("devboost", RcFile)
ApplyOwn == Begin("devboost", Own)

(* ChezmoiRepo, with the same copies and records around it.                 *)
ApplyRepo == Begin("repo", RcFile)

(* Untouched: the bytes of the source, or those recorded as written.        *)
Unchanged(f) ==
  /\ content[f].base # Foreign
  /\ \/ f \notin Templated /\ content[f] = [base |-> release, lines |-> {}]
     \/ content[f] = digest[f]

(* The newest copy is this file already: a retried run.                     *)
Kept(f) == backups[f] # <<>> /\ Last(backups[f]) = content[f]

BackUp(f) ==
  /\ apply = "back_up" /\ f \in queue
  /\ backups' = IF Unchanged(f) \/ Kept(f) THEN backups
                ELSE [backups EXCEPT ![f] = Append(@, content[f])]
  /\ queue' = IF queue = {f} THEN targets ELSE queue \ {f}
  /\ apply' = IF queue = {f} THEN "write" ELSE apply
  /\ UNCHANGED <<content, digest, stamp, release, source, targets, written, exposed, applies>>

(* chezmoi replaces one file after the other; the user's repository may     *)
(* lack the file, have its own, or have ours.                               *)
Write(f) ==
  /\ apply = "write" /\ f \in queue
  /\ \/ \E base \in {release} \cup (IF source = "repo" THEN {Foreign} ELSE {}) :
          content' = [content EXCEPT ![f] = [base |-> base, lines |-> {}]]
     \/ source = "repo" /\ UNCHANGED content
  /\ queue' = queue \ {f}
  /\ apply' = IF queue = {f} THEN "record" ELSE apply
  /\ UNCHANGED <<backups, digest, stamp, release, source, targets, written, exposed, applies>>

Digest(f) == IF content[f].base = Foreign THEN NoDigest ELSE content[f]

(* Mutant of Recorded: a targeted apply records every taken-over file.      *)
RecordedAll == [f \in RcFile |-> Digest(f)]

(* record_rc_digests, and record_rc_digest for one file at a time.          *)
Recorded == [f \in RcFile |-> IF f \in targets THEN Digest(f) ELSE digest[f]]

(* A record that cannot be written is only a warning.                       *)
Record ==
  /\ apply = "record"
  /\ digest' \in {digest, Recorded}
  /\ apply' = "stamp"
  /\ UNCHANGED <<content, backups, stamp, release, source, targets, queue, written, exposed,
                 applies>>

Finished ==
  apply' = "idle" /\ source' = "devboost" /\ targets' = {} /\ queue' = {}

Stamp ==
  /\ apply = "stamp" /\ Finished
  /\ stamp' = IF targets = RcFile /\ source = "devboost" THEN release ELSE stamp
  /\ UNCHANGED <<content, backups, digest, release, written, exposed, applies>>

(* chezmoi fails, or the run is killed.                                     *)
Cut ==
  /\ apply # "idle" /\ Finished
  /\ UNCHANGED <<content, backups, digest, stamp, release, written, exposed, applies>>

Next ==
  \/ Edit \/ Update
  \/ ApplyAll \/ ApplyOwn \/ ApplyRepo
  \/ \E f \in RcFile : BackUp(f) \/ Write(f)
  \/ Record \/ Stamp \/ Cut

Spec == Init /\ [][Next]_vars

-----------------------------------------------------------------------------
Contents == [base : 0..MaxReleases, lines : SUBSET Line]

(* Every variable stays in its range.                                       *)
TypeOK ==
  /\ content \in [RcFile -> Contents] /\ digest \in [RcFile -> Contents]
  /\ \A f \in RcFile : \A i \in 1..Len(backups[f]) : backups[f][i] \in Contents
  /\ stamp \in 0..release /\ release \in 1..MaxReleases
  /\ apply \in {"idle", "back_up", "write", "record", "stamp"}
  /\ source \in {"devboost", "repo"} /\ queue \subseteq targets /\ targets \subseteq RcFile
  /\ exposed \subseteq written /\ written \subseteq RcFile \X Line
  /\ applies \in 0..MaxApplies

(* No line is lost, however applies follow each other or are cut off and    *)
(* whichever release wrote the file (shell.py:126-151): it is in the file   *)
(* or in a copy of it, unless it was added while an apply of that very file *)
(* ran, after its copy was made.                                            *)
NothingLost ==
  \A fl \in written \ exposed :
    \/ fl[2] \in content[fl[1]].lines
    \/ \E i \in 1..Len(backups[fl[1]]) : fl[2] \in backups[fl[1]][i].lines

=============================================================================
