---------------------------- MODULE MacDefaults ----------------------------
(* The macos-defaults module and `devboost revert macos-defaults`: what      *)
(* apply and revert do to the keys of `defaults`, write by write, and to the *)
(* snapshot of their prior values.  A read or a write may fail, the process  *)
(* may be killed, and the user changes settings whenever they like.          *)
EXTENDS Naturals, FiniteSets, FiniteSetsExt

CONSTANTS
  NSettings,    \* SETTINGS are numbered in table order
  UserValues,   \* what a user may set that dev-boost can write back
  MaxEdits,     \* bound: changes by hand
  MaxCommands   \* bound: applies and reverts

Setting == 1..NSettings
Ours    == "ours"     \* the value of the table
Absent  == "absent"   \* no such key
Other   == "other"    \* a kind that dev-boost cannot write
Values  == UserValues \cup {Ours, Absent, Other}

VARIABLES
  value,     \* what `defaults read` finds
  file,      \* macos-defaults.prev.json
  job,       \* "idle", "probe" and "write" of apply, "restore" of revert
  left,      \* the settings the job has still to go through
  current,   \* apply: what _probe found
  done,      \* revert: the ids restored
  own,       \* history: per key, what the user has had there
  taken,     \* history: the keys we have overwritten and not given back
  edits, commands

vars == <<value, file, job, left, current, done, own, taken, edits, commands>>

NoPrior == [k \in {} |-> Ours]

Init ==
  /\ value \in [Setting -> Values]
  /\ file = NoPrior
  /\ job = "idle" /\ left = {} /\ current = NoPrior /\ done = {}
  /\ own = [k \in Setting |-> {value[k]}]
  /\ taken = {}
  /\ edits = 0 /\ commands = 0

User ==
  \E k \in Setting, v \in Values :
    /\ edits < MaxEdits /\ v # value[k]
    /\ edits' = edits + 1
    /\ value' = [value EXCEPT ![k] = v]
    /\ own' = [own EXCEPT ![k] = @ \cup {v}]
    /\ taken' = taken \ {k}
    /\ UNCHANGED <<file, job, left, current, done, commands>>

(* A command begins, with the settings it is about.                         *)
Start(what, keys) ==
  /\ job = "idle" /\ commands < MaxCommands
  /\ job' = what /\ left' = keys
  /\ current' = NoPrior /\ done' = {}
  /\ commands' = commands + 1
  /\ UNCHANGED <<value, file, own, taken, edits>>

(* An install whose verify found a key that is not ours, or unreadable.     *)
Apply == Start("probe", Setting)

(* Every recorded key, or one by name.                                      *)
Revert ==
  \E keys \in {DOMAIN file} \cup {{k} : k \in Setting} :
    /\ file # NoPrior
    /\ Start("restore", keys)

Turn == Min(left)

(* One key is read: its value, that it is absent, or neither.               *)
Probe ==
  /\ job = "probe" /\ left # {}
  /\ left' = left \ {Turn}
  /\ \/ current' = [k \in DOMAIN current \cup {Turn} |->
                      IF k = Turn THEN value[k] ELSE current[k]]
     \/ UNCHANGED current
  /\ UNCHANGED <<value, file, job, done, own, taken, edits, commands>>

(* Mutant of SetDefault: the newest value is the one recorded.              *)
SetLatest(prior, seen) ==
  [k \in DOMAIN prior \cup DOMAIN seen |-> IF k \in DOMAIN seen THEN seen[k] ELSE prior[k]]

(* prior.setdefault(s.id, current[s.id]) for every readable setting.        *)
SetDefault(prior, seen) ==
  [k \in DOMAIN prior \cup DOMAIN seen |-> IF k \in DOMAIN prior THEN prior[k] ELSE seen[k]]

(* All keys are read: the snapshot is saved, before the first write.        *)
Save ==
  /\ job = "probe" /\ left = {}
  /\ file' = SetDefault(file, current)
  /\ job' = "write"
  /\ left' = {k \in DOMAIN current : current[k] # Ours}
  /\ UNCHANGED <<value, current, done, own, taken, edits, commands>>

Write ==
  /\ job = "write" /\ left # {}
  /\ value' = [value EXCEPT ![Turn] = Ours]
  /\ taken' = taken \cup {Turn}
  /\ left' = left \ {Turn}
  /\ UNCHANGED <<file, job, current, done, own, edits, commands>>

(* The command is over: all is written, `defaults write` failed and raised,  *)
(* or the process was killed with no time for revert's `finally`.           *)
Stop ==
  /\ job # "idle"
  /\ job' = "idle"
  /\ left' = {} /\ current' = NoPrior /\ done' = {}
  /\ UNCHANGED <<value, file, own, taken, edits, commands>>

(* Nothing recorded, or a value that cannot be written: left as it is.      *)
PassOver ==
  /\ job = "restore" /\ left # {}
  /\ Turn \in DOMAIN file => file[Turn] = Other
  /\ left' = left \ {Turn}
  /\ UNCHANGED <<value, file, job, current, done, own, taken, edits, commands>>

Restore ==
  /\ job = "restore" /\ left # {}
  /\ Turn \in DOMAIN file /\ file[Turn] # Other
  /\ value' = [value EXCEPT ![Turn] = file[Turn]]
  /\ taken' = taken \ {Turn}
  /\ left' = left \ {Turn} /\ done' = done \cup {Turn}
  /\ UNCHANGED <<file, job, current, own, edits, commands>>

(* A failed `defaults delete` is not noticed.                               *)
DeleteInVain ==
  /\ job = "restore" /\ left # {}
  /\ Turn \in DOMAIN file /\ file[Turn] = Absent
  /\ own' = [own EXCEPT ![Turn] = @ \cup {value[Turn]}]
  /\ taken' = taken \ {Turn}
  /\ left' = left \ {Turn} /\ done' = done \cup {Turn}
  /\ UNCHANGED <<value, file, job, current, edits, commands>>

(* Mutant of Remaining: a revert that stops half way forgets what it had    *)
(* still to restore.                                                        *)
RemainingUnasked == [k \in DOMAIN file \ (done \cup left) |-> file[k]]

Remaining == [k \in DOMAIN file \ done |-> file[k]]

(* revert's `finally`, after the last key or a write that failed.           *)
Finally ==
  /\ job = "restore"
  /\ file' = Remaining
  /\ job' = "idle"
  /\ left' = {} /\ current' = NoPrior /\ done' = {}
  /\ UNCHANGED <<value, own, taken, edits, commands>>

Next ==
  \/ User \/ Apply \/ Revert
  \/ Probe \/ Save \/ Write
  \/ PassOver \/ Restore \/ DeleteInVain \/ Finally
  \/ Stop

Spec == Init /\ [][Next]_vars

-----------------------------------------------------------------------------
PartialValues(f) == DOMAIN f \subseteq Setting /\ \A k \in DOMAIN f : f[k] \in Values

(* Every variable stays in its range.                                       *)
TypeOK ==
  /\ value \in [Setting -> Values]
  /\ PartialValues(file) /\ PartialValues(current)
  /\ job \in {"idle", "probe", "write", "restore"}
  /\ left \subseteq Setting /\ done \subseteq Setting /\ taken \subseteq Setting
  /\ own \in [Setting -> SUBSET Values]
  /\ edits \in 0..MaxEdits /\ commands \in 0..MaxCommands

(* However applies and reverts fail or are cut off, a key that holds our    *)
(* value has on record one that its user had there (macos_defaults.py:3-5,  *)
(* 260): a revert can still give it back, unless the record is of a kind    *)
(* that cannot be written, which revert leaves as it is (311-315).          *)
Recoverable == \A k \in taken : k \in DOMAIN file /\ file[k] \in own[k]

(* Every step is one the promise allows: nothing is overwritten that is not *)
(* on record, and no record changes or is dropped before it is given back.  *)
Promise == INSTANCE Snapshot WITH Keys <- Setting, kept <- file
ImplementsSnapshot == Promise!Spec

=============================================================================
