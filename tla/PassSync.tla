------------------------------- MODULE PassSync -------------------------------
(***************************************************************************)
(* `pass sync` on one device, step by step: what it remembers in           *)
(* pass-sync.json, what it announces, and what happens to both when the    *)
(* process is killed, when `pass approve` runs at the same time, and when  *)
(* pulls and pushes fail. PassStore models the store's content over all    *)
(* devices; here it is cut down to which keys are listed, which requests   *)
(* are pending, and every commit is a number. What an audit of a commit    *)
(* finds is left out: the model follows which commit was audited last.     *)
(*                                                                         *)
(* At most one sync runs: the others find the lock taken and do nothing.   *)
(***************************************************************************)
EXTENDS Naturals

CONSTANTS
  Key,          \* device keys, each standing for its device and its request
  Own,          \* this device's key
  None,         \* no value (None in the code)
  Broken,       \* the state file when it cannot be parsed
  Faults,       \* what may go wrong, one at a time: a "none", "crash", "torn", "race"
  MaxCommits,   \* bound: no approve and no commit elsewhere after this many
  MaxCrashes    \* bound: how often a sync is killed

ASSUME ConstantsAssumption ==
  /\ Own \in Key
  /\ \A S \in SUBSET Key : None # S /\ Broken # S
  /\ \A n \in 0..MaxCommits : None # n
  /\ Faults \subseteq {"none", "crash", "torn", "race"}
  /\ MaxCommits \in Nat
  /\ MaxCrashes \in Nat

VARIABLES
  \* the store
  remote,    \* content at the origin: [listed, pending]
  tip,       \* commit at the origin
  base,      \* content this clone last pulled
  baseTip,   \* commit this clone last pulled
  head,      \* this clone's HEAD
  mine,      \* requests turned into device records here and not pushed yet
  committed, \* those of them that are committed
  commits,   \* commits made so far
  relisted,  \* a list was changed at the origin since this clone last pulled
  touched,   \* what is not pushed rewrote files that a change of a list rewrites too
  \* this device's processes
  disk,      \* pass-sync.json
  run,       \* the sync that is running
  ask,       \* the approve that is running
  crashes,   \* syncs killed so far
  fault,     \* the kind of fault in this behaviour; never changes
  \* history
  told,      \* how often each key was announced as a new device (up to 2)
  asked,     \* requests announced
  baseline,  \* the keys learnt silently by the first sync that was saved
  approved,  \* keys approved on this device, and not revoked before it first looked
  warned     \* failures announced since the operation last worked

store == <<remote, tip, base, baseTip, head, mine, committed, commits, relisted, touched>>
history == <<told, asked, baseline, approved, warned>>
vars == <<store, disk, run, ask, crashes, fault, history>>

-----------------------------------------------------------------------------
Commit == Nat
Content == [listed: SUBSET Key, pending: SUBSET Key]

State == [notified: SUBSET Key, known: {None} \cup SUBSET Key, pushFailed: {None} \cup Commit,
          conflict: {None} \cup Commit, pullFailing: BOOLEAN, audited: {None} \cup Commit]

(* A file that cannot be parsed is none of them.                           *)
ASSUME BrokenAssumption == Broken \notin State

Fresh == [notified |-> {}, known |-> None, pushFailed |-> None, conflict |-> None,
          pullFailing |-> FALSE, audited |-> None]

(* _load: no file and an unreadable file are both the empty state.         *)
Loaded == IF disk = Broken THEN Fresh ELSE disk

SyncStep == {"idle", "pull", "push", "retry", "notify", "tripwire", "audit", "save", "writing"}
AskStep == {"idle", "asking", "listed", "loaded", "publish"}

Listed == base.listed \cup mine
Pending == base.pending \ mine
IsWorkstation == Own \in Listed

Running(s) == run.pc = s
Asking(s) == ask.pc = s

(* Without the fault, approve's steps and a sync take turns.               *)
SyncMayStart == fault = "race" \/ Asking("idle") \/ Asking("asking")
ApproveMayGoOn == fault = "race" \/ Running("idle")

MoreCommits == commits < MaxCommits
NewCommit == commits' = commits + 1

(* An origin without a branch: this device set the store up, and its first *)
(* push failed.                                                            *)
Unborn == tip = 0 /\ remote.listed = {}

Clone ==
  /\ remote \in [listed: {{Own}}, pending: SUBSET (Key \ {Own})]
  /\ head = 0 /\ commits = 0 /\ mine = {}

FirstDevice ==
  /\ remote = [listed |-> {}, pending |-> {}]
  /\ head = 1 /\ commits = 1 /\ mine = {Own}

Init ==
  /\ Clone \/ FirstDevice
  /\ tip = 0
  /\ base = remote
  /\ baseTip = 0
  /\ committed = mine
  /\ relisted = FALSE /\ touched = FALSE
  /\ disk = Fresh
  /\ run = [pc |-> "idle", full |-> FALSE, mem |-> Fresh]
  /\ ask = [pc |-> "idle", key |-> Own, mem |-> Fresh]
  /\ crashes = 0
  /\ fault \in Faults
  /\ told = [k \in Key |-> 0]
  /\ asked = {}
  /\ baseline = None
  /\ approved = {}
  /\ warned = {}

-----------------------------------------------------------------------------
(* Other devices: someone lists a key, revokes one, or files or withdraws  *)
(* a request.                                                              *)

(* A key revoked before this device first looked is new to it ever after,  *)
(* but for one that an approve is just adding.                             *)
Forgotten(new) ==
  IF baseline = None
  THEN (remote.listed \ new.listed) \ (IF Asking("listed") THEN {ask.key} ELSE {})
  ELSE {}

RemoteCommit(new) ==
  /\ new # remote
  /\ ~Unborn
  /\ MoreCommits
  /\ NewCommit
  /\ remote' = new
  /\ tip' = commits + 1
  /\ relisted' = (relisted \/ new.listed # remote.listed)
  /\ approved' = approved \ Forgotten(new)
  /\ UNCHANGED <<base, baseTip, head, mine, committed, touched, disk, run, ask, crashes,
                 fault, told, asked, baseline, warned>>

Elsewhere ==
  \/ \E k \in Key : RemoteCommit([remote EXCEPT !.listed = @ \cup {k}, !.pending = @ \ {k}])
  \/ \E k \in Key : RemoteCommit([remote EXCEPT !.listed = @ \ {k}])
  \/ \E k \in Key \ remote.listed : RemoteCommit([remote EXCEPT !.pending = @ \cup {k}])
  \/ \E k \in Key : RemoteCommit([remote EXCEPT !.pending = @ \ {k}])

-----------------------------------------------------------------------------
(* git                                                                     *)

Ahead == head # baseTip

(* A change of a list rewrites it and encrypts the entries under it again: *)
(* both sides rewrote the same of these files, or moved the same request.  *)
(* A local commit that only adds an entry is replayed.                     *)
Conflicted ==
  /\ Ahead
  /\ tip # baseTip
  /\ \/ touched /\ relisted
     \/ \E k \in mine : k \notin remote.pending

(* A new commit may rewrite such files, or only add new ones.              *)
Rewrites == touched' \in {touched, TRUE}

(* A pull that works: HEAD is the tip, or the local commits on top of it.  *)
Rebase ==
  /\ ~Unborn
  /\ ~Conflicted
  /\ relisted' = FALSE
  /\ base' = remote
  /\ baseTip' = tip
  /\ IF Ahead /\ tip # baseTip
     THEN NewCommit /\ head' = commits + 1
     ELSE head' = (IF Ahead THEN head ELSE tip) /\ UNCHANGED commits
  /\ UNCHANGED <<remote, tip, mine, committed, touched>>

(* A push of commit h that works: only on an unmoved origin.               *)
Land(h, done) ==
  /\ tip = baseTip
  /\ remote' = [remote EXCEPT !.listed = @ \cup done, !.pending = @ \ done]
  /\ tip' = h
  /\ base' = remote'
  /\ baseTip' = h
  /\ mine' = mine \ done
  /\ committed' = {}
  /\ relisted' = FALSE /\ touched' = FALSE

-----------------------------------------------------------------------------
(* The sync                                                                *)

Goto(pc, mem) == run' = [run EXCEPT !.pc = pc, !.mem = mem]
Warn(what, new) == warned' = IF new THEN warned \cup {what} ELSE warned

StartAt(pc, full) ==
  /\ Running("idle")
  /\ SyncMayStart
  /\ run' = [pc |-> pc, full |-> full, mem |-> Loaded]

(* The timer fires and gets the lock.                                      *)
Timer ==
  /\ StartAt("pull", TRUE)
  /\ UNCHANGED <<store, disk, ask, crashes, fault, history>>

(* The user commits a new entry or an edit and the commit hook starts a    *)
(* sync that only pushes; a lock that is taken turns it away.              *)
Hook ==
  /\ MoreCommits
  /\ NewCommit
  /\ head' = commits + 1
  /\ Rewrites
  /\ StartAt("push", FALSE) \/ (~Running("idle") /\ UNCHANGED run)
  /\ UNCHANGED <<remote, tip, base, baseTip, mine, committed, relisted, disk, ask, crashes,
                 fault, history>>

(* Mutant of PullOk: pull_failing is not reset.                            *)
PullOkStaysFailing ==
  /\ Running("pull")
  /\ Rebase
  /\ Goto("push", [run.mem EXCEPT !.conflict = None])
  /\ warned' = warned \ {"pull", "conflict"}
  /\ UNCHANGED <<disk, ask, crashes, fault, told, asked, baseline, approved>>

PullOk ==
  /\ Running("pull")
  /\ Rebase
  /\ Goto("push", [run.mem EXCEPT !.pullFailing = FALSE, !.conflict = None])
  /\ warned' = warned \ {"pull", "conflict"}
  /\ UNCHANGED <<disk, ask, crashes, fault, told, asked, baseline, approved>>

PullConflict ==
  /\ Running("pull")
  /\ Conflicted
  /\ Goto("save", [run.mem EXCEPT !.conflict = head])
  /\ Warn("conflict", run.mem.conflict # head)
  /\ UNCHANGED <<store, disk, ask, crashes, fault, told, asked, baseline, approved>>

(* Mutant of PullFails: without a pull there is no push.                   *)
PullFailsGivesUp ==
  /\ Running("pull")
  /\ Goto("save", [run.mem EXCEPT !.pullFailing = TRUE])
  /\ Warn("pull", ~run.mem.pullFailing)
  /\ UNCHANGED <<store, disk, ask, crashes, fault, told, asked, baseline, approved>>

(* No network, or no branch to pull; the push is tried all the same.       *)
PullFails ==
  /\ Running("pull")
  /\ Goto("retry", [run.mem EXCEPT !.pullFailing = TRUE])
  /\ Warn("pull", ~run.mem.pullFailing)
  /\ UNCHANGED <<store, disk, ask, crashes, fault, told, asked, baseline, approved>>

(* Mutant of AfterPush: a sync with nothing to report is over.             *)
AfterPushOnly == "save"

AfterPush == IF Running("push") /\ run.full THEN "notify" ELSE "save"

NothingToPush ==
  /\ Running("push") \/ Running("retry")
  /\ ~Ahead
  /\ Goto(AfterPush, [run.mem EXCEPT !.pushFailed = None])
  /\ warned' = warned \ {"push"}
  /\ UNCHANGED <<store, disk, ask, crashes, fault, told, asked, baseline, approved>>

PushOk ==
  /\ Running("push") \/ Running("retry")
  /\ Ahead
  /\ Land(head, committed)
  /\ Goto(AfterPush, [run.mem EXCEPT !.pushFailed = None])
  /\ warned' = warned \ {"push"}
  /\ UNCHANGED <<head, commits, disk, ask, crashes, fault, told, asked, baseline, approved>>

PushFails ==
  /\ Running("push") \/ Running("retry")
  /\ Ahead
  /\ Goto("save", [run.mem EXCEPT !.pushFailed = head])
  /\ Warn("push", run.mem.pushFailed # head)
  /\ UNCHANGED <<store, disk, ask, crashes, fault, told, asked, baseline, approved>>

(* Mutants of NotifyPending: a device that cannot approve marks requests   *)
(* as announced; one that has not seen the devices yet announces nothing.  *)
NotifyNobody ==
  LET still == run.mem.notified \cap Pending
  IN /\ Running("notify")
     /\ Goto("tripwire", [run.mem EXCEPT !.notified = Pending])
     /\ asked' = IF IsWorkstation THEN asked \cup (Pending \ still) ELSE asked
     /\ UNCHANGED <<store, disk, ask, crashes, fault, told, baseline, approved, warned>>

NotifyOnceSeeded ==
  LET still == run.mem.notified \cap Pending
      may == IsWorkstation /\ run.mem.known # None
  IN /\ Running("notify")
     /\ Goto("tripwire", [run.mem EXCEPT !.notified = Pending])
     /\ asked' = IF may THEN asked \cup (Pending \ still) ELSE asked
     /\ UNCHANGED <<store, disk, ask, crashes, fault, told, baseline, approved, warned>>

(* _notify_pending: forget requests that are gone; a workstation announces *)
(* the new ones.                                                           *)
NotifyPending ==
  LET still == run.mem.notified \cap Pending
  IN /\ Running("notify")
     /\ Goto("tripwire", [run.mem EXCEPT !.notified = IF IsWorkstation THEN Pending ELSE still])
     /\ asked' = IF IsWorkstation THEN asked \cup (Pending \ still) ELSE asked
     /\ UNCHANGED <<store, disk, ask, crashes, fault, told, baseline, approved, warned>>

(* Mutants of Tripwire: only a workstation is told, and what was announced *)
(* is not added to the known keys.                                         *)
TripwireForWorkstations ==
  LET known == run.mem.known
      new == IF known = None \/ ~IsWorkstation THEN {} ELSE (Listed \ known) \ {Own}
  IN /\ Running("tripwire")
     /\ Goto("audit", [run.mem EXCEPT !.known = IF known = None THEN Listed
                                                 ELSE known \cup Listed])
     /\ told' = [k \in Key |-> IF k \in new /\ told[k] < 2 THEN told[k] + 1 ELSE told[k]]
     /\ UNCHANGED <<store, disk, ask, crashes, fault, asked, baseline, approved, warned>>

TripwireForgets ==
  LET known == run.mem.known
      new == IF known = None THEN {} ELSE (Listed \ known) \ {Own}
  IN /\ Running("tripwire")
     /\ Goto("audit", [run.mem EXCEPT !.known = IF known = None THEN Listed ELSE known])
     /\ told' = [k \in Key |-> IF k \in new /\ told[k] < 2 THEN told[k] + 1 ELSE told[k]]
     /\ UNCHANGED <<store, disk, ask, crashes, fault, asked, baseline, approved, warned>>

(* _tripwire: learn silently the first time, then announce what is new.    *)
Tripwire ==
  LET known == run.mem.known
      new == IF known = None THEN {} ELSE (Listed \ known) \ {Own}
  IN /\ Running("tripwire")
     /\ Goto("audit", [run.mem EXCEPT !.known = IF known = None THEN Listed
                                                 ELSE known \cup Listed])
     /\ told' = [k \in Key |-> IF k \in new /\ told[k] < 2 THEN told[k] + 1 ELSE told[k]]
     /\ UNCHANGED <<store, disk, ask, crashes, fault, asked, baseline, approved, warned>>

(* Mutant of Audit: the audited HEAD is not recorded.                      *)
AuditForgets ==
  /\ Running("audit")
  /\ Goto("save", run.mem)
  /\ UNCHANGED <<store, disk, ask, crashes, fault, history>>

(* _audit: once per HEAD ...                                               *)
Audit ==
  /\ Running("audit")
  /\ Goto("save", [run.mem EXCEPT !.audited = head])
  /\ UNCHANGED <<store, disk, ask, crashes, fault, history>>

(* ... unless gpg fails: then the next sync tries again.                   *)
AuditFails ==
  /\ Running("audit")
  /\ head # run.mem.audited
  /\ Goto("save", run.mem)
  /\ UNCHANGED <<store, disk, ask, crashes, fault, history>>

Learnt(s) ==
  baseline' = IF baseline = None THEN s.known ELSE baseline

(* _save truncates the file and then writes it: two steps when that shows. *)
SaveOpens ==
  /\ Running("save")
  /\ fault = "torn"
  /\ disk' = Broken
  /\ run' = [run EXCEPT !.pc = "writing"]
  /\ UNCHANGED <<store, ask, crashes, fault, history>>

Save ==
  /\ IF fault = "torn" THEN Running("writing") ELSE Running("save")
  /\ disk' = run.mem
  /\ run' = [pc |-> "idle", full |-> FALSE, mem |-> Fresh]
  /\ Learnt(run.mem)
  /\ UNCHANGED <<store, ask, crashes, fault, told, asked, approved, warned>>

(* The process is killed (shutdown, sleep, OOM): the lock goes with it.    *)
Crash ==
  /\ fault = "crash" \/ Running("writing")
  /\ crashes < MaxCrashes
  /\ ~Running("idle")
  /\ crashes' = crashes + 1
  /\ run' = [pc |-> "idle", full |-> FALSE, mem |-> Fresh]
  /\ UNCHANGED <<store, disk, ask, fault, history>>

-----------------------------------------------------------------------------
(* `pass approve` on this device. It takes no lock.                        *)

ApproveStart(k) ==
  /\ Asking("idle")
  /\ ApproveMayGoOn
  /\ Rebase
  /\ Own \in remote.listed \cup mine
  /\ k \in remote.pending \ mine
  /\ ask' = [pc |-> "asking", key |-> k, mem |-> Fresh]
  /\ UNCHANGED <<disk, run, crashes, fault, history>>

Refuse ==
  /\ Asking("asking")
  /\ ask' = [ask EXCEPT !.pc = "idle", !.key = Own]
  /\ UNCHANGED <<store, disk, run, crashes, fault, history>>

(* Yes: pass init commits the new .gpg-id, the record moves to devices/.   *)
Approve ==
  /\ Asking("asking")
  /\ ApproveMayGoOn
  /\ ask.key \in Pending
  /\ MoreCommits
  /\ NewCommit
  /\ head' = commits + 1
  /\ mine' = mine \cup {ask.key}
  /\ approved' = approved \cup {ask.key}
  /\ Rewrites
  /\ ask' = [ask EXCEPT !.pc = "listed"]
  /\ UNCHANGED <<remote, tip, base, baseTip, committed, relisted, disk, run, crashes, fault,
                 told, asked, baseline, warned>>

(* remember_devices reads the state file ...                               *)
RememberLoad ==
  /\ Asking("listed")
  /\ ApproveMayGoOn
  /\ ask' = [ask EXCEPT !.pc = IF Loaded.known = None THEN "publish" ELSE "loaded",
                        !.mem = Loaded]
  /\ UNCHANGED <<store, disk, run, crashes, fault, history>>

(* Mutant of RememberSave: the approved key is not added.                  *)
RememberNothing ==
  /\ Asking("loaded")
  /\ ApproveMayGoOn
  /\ disk' = ask.mem
  /\ ask' = [ask EXCEPT !.pc = "publish", !.mem = Fresh]
  /\ UNCHANGED <<store, run, crashes, fault, history>>

(* ... and writes back all of it.                                          *)
RememberSave ==
  /\ Asking("loaded")
  /\ ApproveMayGoOn
  /\ disk' = [ask.mem EXCEPT !.known = @ \cup {ask.key}]
  /\ ask' = [ask EXCEPT !.pc = "publish", !.mem = Fresh]
  /\ UNCHANGED <<store, run, crashes, fault, history>>

(* Commit the record and try to push.                                      *)
Publish ==
  /\ Asking("publish")
  /\ ApproveMayGoOn
  /\ NewCommit
  /\ head' = commits + 1
  /\ \/ Land(commits + 1, mine)
     \/ committed' = mine /\ UNCHANGED <<remote, tip, base, baseTip, mine, relisted, touched>>
  /\ ask' = [pc |-> "idle", key |-> Own, mem |-> Fresh]
  /\ UNCHANGED <<disk, run, crashes, fault, history>>

Approving ==
  \/ \E k \in Key : ApproveStart(k)
  \/ Refuse \/ Approve \/ RememberLoad \/ RememberSave \/ Publish

SyncGoesOn ==
  \/ PullOk \/ PullConflict \/ PullFails
  \/ NothingToPush \/ PushOk \/ PushFails
  \/ NotifyPending \/ Tripwire \/ Audit \/ AuditFails
  \/ SaveOpens \/ Save

Next == Elsewhere \/ Timer \/ Hook \/ SyncGoesOn \/ Crash \/ Approving

(* The timer fires for ever and every step of a sync ends (a git command   *)
(* succeeds or fails). A network that is up again and again lets a pull    *)
(* and a push through that could always be tried again, the pull to its    *)
(* end or to a conflict, and gpg does not fail every audit. A command past *)
(* its prompt finishes. Nobody has to request, approve or answer, and      *)
(* nothing ends a conflict.                                                *)
Fairness ==
  /\ WF_vars(Timer) /\ WF_vars(SyncGoesOn)
  /\ SF_vars(PullOk \/ PullConflict) /\ SF_vars(PushOk) /\ SF_vars(Audit)
  /\ WF_vars(RememberLoad) /\ WF_vars(RememberSave) /\ WF_vars(Publish)

Spec == Init /\ [][Next]_vars /\ Fairness

-----------------------------------------------------------------------------
(* Properties                                                              *)

(* Every variable has its type; what a process holds in memory is a state  *)
(* the file could hold.                                                    *)
TypeOK ==
  /\ remote \in Content /\ base \in Content
  /\ {tip, baseTip, head, commits} \subseteq Commit
  /\ committed \subseteq mine /\ mine \subseteq Key
  /\ relisted \in BOOLEAN /\ touched \in BOOLEAN
  /\ disk = Broken \/ disk \in State
  /\ run \in [pc: SyncStep, full: BOOLEAN, mem: State]
  /\ ask \in [pc: AskStep, key: Key, mem: State]
  /\ crashes \in 0..MaxCrashes
  /\ fault \in Faults
  /\ told \in [Key -> 0..2]
  /\ asked \subseteq Key /\ approved \subseteq Key
  /\ baseline = None \/ baseline \subseteq Key
  /\ warned \subseteq {"pull", "push", "conflict"}

Seeded == disk # Broken /\ disk.known # None

(* The tripwire hides nothing: a key counts as known in the saved state    *)
(* only if it is this device's own, was approved here, was announced, or   *)
(* was there when the device first looked, however syncs and an approve    *)
(* overlap and wherever a sync is killed.                                  *)
NoSilentDevice ==
  Seeded => /\ baseline # None
            /\ disk.known \subseteq {Own} \cup approved \cup baseline
                                     \cup {k \in Key : told[k] > 0}

(* A request is remembered as announced only if it was.                    *)
NoSilentRequest == disk # Broken => disk.notified \subseteq asked

(* Syncs and approves that take turns and finish announce a new key once.  *)
AnnouncedOnce == fault = "none" => \A k \in Key : told[k] < 2

(* "It did not approve itself": a key approved on this device is never     *)
(* announced on it afterwards, when syncs and approves take turns and      *)
(* finish; a sync that runs beside an approve can announce it (sync.py:194),*)
(* and one that was approved before the first sync, revoked elsewhere and  *)
(* is listed again is announced (sync.py:198).                             *)
OwnApprovalsSilentInTurn ==
  [][fault = "none" => \A k \in approved : told'[k] = told[k]]_vars

(* A failure is kept quiet between syncs only if the user was told of it   *)
(* since the operation last worked.                                        *)
FailureTold ==
  fault = "none" /\ Running("idle") =>
    /\ disk.pullFailing => "pull" \in warned
    /\ disk.conflict # None => "conflict" \in warned
    /\ disk.pushFailed # None => "push" \in warned

(* A conflict stops everything but the local work, and the user knows.     *)
StuckAndTold == Conflicted /\ "conflict" \in warned

(* Every key the origin lists is seen by the tripwire, unless it is        *)
(* removed again or the clone is in a conflict that the user was told of - *)
(* which a clone that is ahead by new entries only is not (sync.py:306).   *)
DeviceNoticed ==
  \A k \in Key : k \in remote.listed
    ~> (k \notin remote.listed \/ StuckAndTold \/ (Seeded /\ k \in disk.known))

(* Every request is announced on a workstation, unless it is withdrawn or  *)
(* approved or the clone is in a conflict that the user was told of.       *)
RequestNoticed ==
  \A k \in Key : k \in remote.pending
    ~> (k \notin remote.pending \/ k \in mine \/ Own \notin remote.listed \/ StuckAndTold
         \/ k \in asked)

(* An approval whose push failed reaches the origin ("the sync timer will  *)
(* retry"), and so does the first push of a store, though every pull fails *)
(* until it does (sync.py:352-355); unless the clone is in a conflict that *)
(* the user was told of.                                                   *)
ApprovalLands == \A k \in Key : k \in mine ~> (k \in remote.listed \/ StuckAndTold)

(* The audit catches up with HEAD again and again, unless the clone is in  *)
(* a conflict that the user was told of: an audit that failed is not taken *)
(* for done.                                                               *)
HeadAudited == []<>(StuckAndTold \/ (disk # Broken /\ disk.audited = head))

=============================================================================
