------------------------------ MODULE PassStore ------------------------------
(***************************************************************************)
(* The shared password store across devices: one git repository (origin), *)
(* one clone per device, and the commands that change who can read it      *)
(* (enroll, approve, revoke), that change entries (pass insert / edit) and *)
(* that move commits between clones (pass sync).                           *)
(*                                                                         *)
(* git is modelled by its three-way merge: a clone keeps the origin tree   *)
(* it last rebased on (base), its own commits (head) and its files (work). *)
(* A pull replays head - base on origin and fails when both sides changed  *)
(* a path differently; a push lands only on an unmoved origin.             *)
(***************************************************************************)
EXTENDS Naturals

CONSTANTS
  Device,         \* devices, each named by its own GPG key
  Folder,         \* sub-folders that may carry a .gpg-id of their own
  Root,           \* the store's root folder
  Entry,          \* password entries
  Home,           \* Home[e]: the folder entry e is filed in
  None,           \* an absent file
  Members,        \* devices already enrolled in the initial origin
  Stored,         \* entries already stored in the initial origin
  MaxCommands,    \* bound: how many approves and revokes are begun
  MaxWrites,      \* bound: how many inserts and edits are made
  Failures,       \* may pass or gpg fail, or the process die, after the typed yes?
  Crashes,        \* may a process die between two file writes of a command?
  Overlap,        \* may the sync timer fire while a command waits on its prompt?
  ManualResolve   \* may the user follow `pass sync --resolve` after a conflict?

ASSUME ConstantsAssumption ==
  /\ Root \notin Folder
  /\ Home \in [Entry -> Folder \cup {Root}]
  /\ Members \subseteq Device
  /\ Stored \subseteq Entry
  /\ None \notin Device
  /\ \A scope \in SUBSET Folder : None # scope
  /\ MaxWrites \in Nat
  /\ MaxCommands \in Nat
  /\ Failures \in BOOLEAN
  /\ Crashes \in BOOLEAN
  /\ Overlap \in BOOLEAN
  /\ ManualResolve \in BOOLEAN

VARIABLES
  origin,     \* the tree at the tip of the remote branch
  base,       \* base[d]: the origin tree d's commits sit on
  head,       \* head[d]: the tree of d's HEAD
  work,       \* work[d]: d's files; differs from head only in uncommitted metadata
  cmd,        \* cmd[d]: the approve or revoke that is running on d
  begun,      \* how many of them were begun, up to MaxCommands
  written,    \* how many entries were inserted or edited, up to MaxWrites
  consented   \* history: keys a user typed yes for, or created the store with

vars == <<origin, base, head, work, cmd, begun, written, consented>>

-----------------------------------------------------------------------------
(* Trees                                                                   *)

Kind == {"devices", "pending", "revoked"}
Folders == Folder \cup {Root}

(* A record holds the scope it was filed with; {} is the whole store.      *)
Record == SUBSET Folder
RotationEntry == [device: Device, entries: SUBSET Entry]
(* A ciphertext: its recipients, and a version no two encryptions share.   *)
Cipher == [to: SUBSET Device, rev: Nat, by: {None} \cup Device]

Tree == [ids:  [Folders -> SUBSET Device],
         rec:  [Kind \X Device -> {None} \cup Record],
         rot:  SUBSET RotationEntry,
         blob: [Entry -> {None} \cup Cipher]]

(* An absent file is no ciphertext.                                         *)
ASSUME CipherAssumption == None \notin Cipher

EmptyTree == [ids  |-> [f \in Folders |-> {}],
              rec  |-> [kd \in Kind \X Device |-> None],
              rot  |-> {},
              blob |-> [e \in Entry |-> None]]

(* The store as a member's genesis, the approval of the others and one     *)
(* insert of each entry in E by a member leave it.                         *)
Founded(D, E) ==
  [EmptyTree EXCEPT !.ids[Root] = D,
                    !.blob = [e \in Entry |-> IF e \in E
                                              THEN [to |-> D, rev |-> 1, by |-> None]
                                              ELSE None],
                    !.rec = [kd \in Kind \X Device |->
                               IF kd[1] = "devices" /\ kd[2] \in D THEN {} ELSE None]]

Has(t, k, d) == t.rec[k, d] # None

(* write_record and move of the store layout.                              *)
WriteRecord(t, k, d, scope) == [t EXCEPT !.rec[<<k, d>>] = scope]
Move(t, src, dst, d) ==
  IF Has(t, src, d)
  THEN [t EXCEPT !.rec = [@ EXCEPT ![<<src, d>>] = None, ![<<dst, d>>] = t.rec[src, d]]]
  ELSE t

Reach(scope) == IF scope = {} THEN {Root} ELSE scope

(* has_access: some .gpg-id of the scope names the key.                    *)
Listed(t, d, scope) == \E f \in Reach(scope) : d \in t.ids[f]

ListedAnywhere(t) == UNION {t.ids[f] : f \in Folders}

Governing(t, e) == IF t.ids[Home[e]] = {} THEN Root ELSE Home[e]
Recipients(t, e) == t.ids[Governing(t, e)]

-----------------------------------------------------------------------------
(* git                                                                     *)

Merge3(b, ours, theirs) == [x \in DOMAIN b |-> IF ours[x] = b[x] THEN theirs[x] ELSE ours[x]]
Clash3(b, ours, theirs) ==
  \E x \in DOMAIN b : ours[x] # b[x] /\ theirs[x] # b[x] /\ ours[x] # theirs[x]

(* One record file renamed to two different kinds is a conflict too.       *)
RenameClash(b, ours, theirs) ==
  \E d \in Device, k \in Kind :
    /\ Has(b, k, d) /\ ~Has(ours, k, d) /\ ~Has(theirs, k, d)
    /\ \E k1, k2 \in Kind :
         /\ k1 # k2
         /\ ~Has(b, k1, d) /\ Has(ours, k1, d)
         /\ ~Has(b, k2, d) /\ Has(theirs, k2, d)

(* Bug: entries are merged with `-X ours`.                                  *)
ClashIgnoringEntries(b, ours, theirs) ==
  \/ Clash3(b.ids, ours.ids, theirs.ids)
  \/ Clash3(b.rec, ours.rec, theirs.rec)
  \/ RenameClash(b, ours, theirs)
  \/ ours.rot # b.rot /\ theirs.rot # b.rot /\ ours.rot # theirs.rot

Clash(b, ours, theirs) ==
  \/ Clash3(b.ids, ours.ids, theirs.ids)
  \/ Clash3(b.rec, ours.rec, theirs.rec)
  \/ RenameClash(b, ours, theirs)
  \/ ours.rot # b.rot /\ theirs.rot # b.rot /\ ours.rot # theirs.rot
  \/ Clash3(b.blob, ours.blob, theirs.blob)

Merge(b, ours, theirs) ==
  [ids  |-> Merge3(b.ids, ours.ids, theirs.ids),
   rec  |-> Merge3(b.rec, ours.rec, theirs.rec),
   rot  |-> IF ours.rot = b.rot THEN theirs.rot ELSE ours.rot,
   blob |-> Merge3(b.blob, ours.blob, theirs.blob)]

Conflicted(d) == Clash(base[d], head[d], origin)

(* What HEAD and the files become when `pull --rebase --autostash` works.  *)
PulledHead(d) == Merge(base[d], head[d], origin)
PulledWork(d) == Merge(head[d], work[d], PulledHead(d))
CanPull(d) == ~Conflicted(d) /\ ~Clash(head[d], work[d], PulledHead(d))

(* Bug: `git push --force`.                                                 *)
ForcedPublish(d, t) ==
  /\ head' = [head EXCEPT ![d] = t]
  /\ work' = [work EXCEPT ![d] = t]
  /\ \/ origin' = t /\ base' = [base EXCEPT ![d] = t]
     \/ UNCHANGED <<origin, base>>

(* Commit t on d and try to push it: an unmoved origin takes it, a moved   *)
(* one or a dead network leaves it to the sync timer.                      *)
Publish(d, t) ==
  /\ head' = [head EXCEPT ![d] = t]
  /\ work' = [work EXCEPT ![d] = t]
  /\ \/ /\ origin = base[d]
        /\ origin' = t
        /\ base' = [base EXCEPT ![d] = t]
     \/ UNCHANGED <<origin, base>>

-----------------------------------------------------------------------------
(* pass and gpg                                                            *)

Seal(c, d, to) == [to |-> to, rev |-> c.rev + 1, by |-> d]

(* `pass init -p f ids` on d: write f's .gpg-id (no id: remove it), then    *)
(* re-encrypt what lies under f and differs from its .gpg-id. pass steps   *)
(* over an entry d cannot decrypt.                                         *)
PassInit(t, d, f, ids) ==
  LET t1 == [t EXCEPT !.ids[f] = ids]
      Reencrypted(e) ==
        /\ f \in {Root, Home[e]}
        /\ t.blob[e] # None
        /\ t.blob[e].to # Recipients(t1, e)
        /\ d \in t.blob[e].to
  IN [t1 EXCEPT !.blob = [e \in Entry |-> IF Reencrypted(e)
                                          THEN Seal(t.blob[e], d, Recipients(t1, e))
                                          ELSE t.blob[e]]]

(* Bug: the .gpg-id is written and nothing is encrypted anew.               *)
ListCommits(d, f, ids) ==
  /\ head' = [head EXCEPT ![d].ids[f] = ids]
  /\ work' = [work EXCEPT ![d].ids[f] = ids]

(* pass commits the files it wrote and leaves other changes uncommitted.    *)
PassCommits(d, f, ids) ==
  /\ head' = [head EXCEPT ![d] = PassInit(head[d], d, f, ids)]
  /\ work' = [work EXCEPT ![d] = PassInit(work[d], d, f, ids)]

RevokedIn(t) == {r \in Device : Has(t, "revoked", r)}

-----------------------------------------------------------------------------
(* This device's access                                                    *)

Initialised(t) == t.ids[Root] # {}
EnrolledByRecord(t, d) == Has(t, "devices", d) /\ Listed(t, d, t.rec["devices", d])
EnrolledByKey(t, d) == ~EnrolledByRecord(t, d) /\ d \in t.ids[Root]
Enrolled(t, d) == EnrolledByRecord(t, d) \/ EnrolledByKey(t, d)

IsWorkstation(t, d) ==
  /\ Initialised(t)
  /\ \/ EnrolledByRecord(t, d) /\ t.rec["devices", d] = {}
     \/ EnrolledByKey(t, d)

(* _name_free: the key (and so its name) was not revoked.                  *)
NameFree(t, d) == ~Has(t, "revoked", d)

-----------------------------------------------------------------------------
(* Commands                                                                *)

Step == {"idle", "approve", "approving", "revoke", "revoking", "record"}
Command == [step: Step, target: {None} \cup Device, scope: SUBSET Folder,
            only: SUBSET Folder, queue: SUBSET Device,     \* --scope, requests to come
            todo: SUBSET Folder, keep: SUBSET Device,
            earlier: SUBSET RotationEntry, entries: SUBSET Entry]

Idle == [step |-> "idle", target |-> None, scope |-> {}, only |-> {}, queue |-> {},
         todo |-> {}, keep |-> {}, earlier |-> {}, entries |-> {}]

At(d, s) == cmd[d].step = s
MayRun(d) == At(d, "idle") \/ (Overlap /\ ~At(d, "record"))

Init ==
  LET t == IF Members = {} THEN EmptyTree ELSE Founded(Members, Stored)
  IN /\ origin = t
     /\ base = [d \in Device |-> t]
     /\ head = [d \in Device |-> t]
     /\ work = [d \in Device |-> t]
     /\ cmd = [d \in Device |-> Idle]
     /\ begun = 0
     /\ written = 0
     /\ consented = Members

(* ensure_access on an empty store: create it for this device's key.       *)
Genesis(d) ==
  LET t == work[d]
      t1 == PassInit(t, d, Root, {d})
  IN /\ At(d, "idle")
     /\ ~Initialised(t)
     /\ \A e \in Entry : t.blob[e] = None
     /\ \A r \in Device : ~Has(t, "devices", r)
     /\ NameFree(t, d)
     /\ consented' = consented \cup {d}
     /\ Publish(d, WriteRecord(t1, "devices", d, {}))
     /\ UNCHANGED <<cmd, begun, written>>

(* ensure_access when a .gpg-id already names this key: register it.       *)
Adopt(d) ==
  /\ At(d, "idle")
  /\ EnrolledByKey(work[d], d)
  /\ NameFree(work[d], d)
  /\ Publish(d, WriteRecord(work[d], "devices", d, {}))
  /\ UNCHANGED <<cmd, begun, written, consented>>

(* ensure_access on a new device: file a request and wait.                 *)
Request(d, scope) ==
  /\ At(d, "idle")
  /\ Initialised(work[d])
  /\ ~Enrolled(work[d], d)
  /\ ~Has(work[d], "pending", d)
  /\ NameFree(work[d], d)
  /\ Publish(d, WriteRecord(work[d], "pending", d, scope))
  /\ UNCHANGED <<cmd, begun, written, consented>>

(* approve and revoke both begin with a pull that must succeed, on a       *)
(* workstation, and import every enrolled device's key.                    *)
Begin(d, t) ==
  /\ At(d, "idle")
  /\ begun < MaxCommands
  /\ CanPull(d)
  /\ t = PulledWork(d)
  /\ IsWorkstation(t, d)
  /\ base' = [base EXCEPT ![d] = origin]
  /\ head' = [head EXCEPT ![d] = PulledHead(d)]
  /\ work' = [work EXCEPT ![d] = t]
  /\ begun' = begun + 1
  /\ UNCHANGED <<origin, written, consented>>

(* What approve asks about next: a request of the queue whose key file is  *)
(* still there and whose key is not revoked (I1), with its own scope or    *)
(* the --scope folders; requests that fail the check are skipped.          *)
AskNext(t, only, queue) ==
  LET ready == {r \in queue : Has(t, "pending", r) /\ ~Has(t, "revoked", r)}
  IN IF ready = {} THEN {Idle}
     ELSE {[Idle EXCEPT !.step = "approve", !.target = r, !.queue = ready \ {r}, !.only = only,
                        !.scope = IF only = {} THEN t.rec["pending", r] ELSE only] : r \in ready}

(* One named request, or every pending one in turn.                        *)
StartApprove(d, asked, only) ==
  LET t == PulledWork(d)
  IN /\ Begin(d, t)
     /\ asked # {}
     /\ \/ asked = {r \in Device : Has(t, "pending", r)}
        \/ \E r \in asked : asked = {r}
     /\ \E next \in AskNext(t, only, asked) \ {Idle} : cmd' = [cmd EXCEPT ![d] = next]

(* Bug: the `continue` after a refusal is missing.                          *)
DeclineFallsThrough(d) ==
  LET whole == cmd[d].scope = {}
  IN /\ At(d, "approve")
     /\ IF whole THEN PassCommits(d, Root, work[d].ids[Root] \cup {cmd[d].target})
                 ELSE UNCHANGED <<head, work>>
     /\ cmd' = [cmd EXCEPT ![d].step = "approving", ![d].todo = cmd[d].scope]
     /\ UNCHANGED <<origin, base, begun, written, consented>>

(* The user said no: on to the next request.                               *)
Decline(d) ==
  /\ At(d, "approve")
  /\ \E next \in AskNext(work[d], cmd[d].only, cmd[d].queue) : cmd' = [cmd EXCEPT ![d] = next]
  /\ UNCHANGED <<origin, base, head, work, begun, written, consented>>

(* The user typed yes: trust the key; a workstation goes in the root list. *)
ConfirmApprove(d) ==
  LET r == cmd[d].target
      whole == cmd[d].scope = {}
  IN /\ At(d, "approve")
     /\ Has(work[d], "pending", r)            \* its key file is imported from there
     /\ consented' = consented \cup {r}
     /\ IF whole THEN PassCommits(d, Root, work[d].ids[Root] \cup {r})
                 ELSE UNCHANGED <<head, work>>
     /\ cmd' = [cmd EXCEPT ![d].step = "approving",
                           ![d].todo = IF whole
                                       THEN {f \in Folder : work[d].ids[f] # {}}
                                       ELSE cmd[d].scope]
     /\ UNCHANGED <<origin, base, begun, written>>

(* `pass init -p f`: a scoped folder starts from the root list.            *)
ApproveFolder(d, f) ==
  LET r == cmd[d].target
      own == work[d].ids[f]
      ids == IF own = {} /\ cmd[d].scope # {} THEN work[d].ids[Root] ELSE own
  IN /\ At(d, "approving")
     /\ f \in cmd[d].todo
     /\ PassCommits(d, f, ids \cup {r})
     /\ cmd' = [cmd EXCEPT ![d].todo = @ \ {f}]
     /\ UNCHANGED <<origin, base, begun, written, consented>>

(* The request becomes a device record; the lot is committed and pushed,   *)
(* and the next request is asked about without another pull.               *)
FinishApprove(d) ==
  LET r == cmd[d].target
      t == WriteRecord(Move(work[d], "pending", "devices", r), "devices", r, cmd[d].scope)
  IN /\ At(d, "approving")
     /\ cmd[d].todo = {}
     /\ Has(work[d], "pending", r)
     /\ Publish(d, t)
     /\ \E next \in AskNext(t, cmd[d].only, cmd[d].queue) : cmd' = [cmd EXCEPT ![d] = next]
     /\ UNCHANGED <<begun, written, consented>>

StartRevoke(d, r) ==
  LET t == PulledWork(d)
  IN /\ Begin(d, t)
     /\ Has(t, "devices", r)
     /\ r # d                                 \* never this device itself
     /\ cmd' = [cmd EXCEPT ![d] = [Idle EXCEPT !.step = "revoke", !.target = r,
                                               !.scope = t.rec["devices", r],
                                               !.earlier = t.rot]]

(* rotation_entries: what the key could read at any point of the history.  *)
ReadableOnce(t, scope) ==
  {e \in Entry : t.blob[e] # None /\ (scope = {} \/ Home[e] \in scope)}

(* Bug: the folders with a .gpg-id of their own are forgotten.              *)
RootOnlyRevoke(d) ==
  LET r == cmd[d].target
      keep == work[d].ids[Root] \ {r}
  IN /\ At(d, "revoke")
     /\ keep # {}
     /\ IF r \in work[d].ids[Root] THEN PassCommits(d, Root, keep)
                                   ELSE UNCHANGED <<head, work>>
     /\ cmd' = [cmd EXCEPT ![d].step = "revoking", ![d].keep = keep,
                           ![d].entries = ReadableOnce(head[d], cmd[d].scope)]
     /\ UNCHANGED <<origin, base, begun, written, consented>>

(* The user typed yes: list the entries, drop the key from the root list.  *)
ConfirmRevoke(d) ==
  LET r == cmd[d].target
      keep == work[d].ids[Root] \ {r}
  IN /\ At(d, "revoke")
     /\ keep # {}
     /\ IF r \in work[d].ids[Root] THEN PassCommits(d, Root, keep)
                                   ELSE UNCHANGED <<head, work>>
     /\ cmd' = [cmd EXCEPT ![d].step = "revoking", ![d].keep = keep,
                           ![d].entries = ReadableOnce(head[d], cmd[d].scope),
                           ![d].todo = {f \in Folder : r \in work[d].ids[f]}]
     /\ UNCHANGED <<origin, base, begun, written, consented>>

(* A folder list equal to what the root keeps is dropped again.            *)
RevokeFolder(d, f) ==
  LET left == work[d].ids[f] \ {cmd[d].target}
  IN /\ At(d, "revoking")
     /\ f \in cmd[d].todo
     /\ PassCommits(d, f, IF left = cmd[d].keep THEN {} ELSE left)
     /\ cmd' = [cmd EXCEPT ![d].todo = @ \ {f}]
     /\ UNCHANGED <<origin, base, begun, written, consented>>

(* Bug: the move is pushed before rotation.json is written.                 *)
MovePublished(d) ==
  LET r == cmd[d].target
  IN /\ At(d, "revoking")
     /\ cmd[d].todo = {}
     /\ Publish(d, Move(work[d], "devices", "revoked", r))
     /\ cmd' = [cmd EXCEPT ![d].step = "record"]
     /\ UNCHANGED <<begun, written, consented>>

(* The record moves to revoked/, in the files only ...                     *)
MoveToRevoked(d) ==
  LET r == cmd[d].target
  IN /\ At(d, "revoking")
     /\ cmd[d].todo = {}
     /\ work' = [work EXCEPT ![d] = Move(@, "devices", "revoked", r)]
     /\ cmd' = [cmd EXCEPT ![d].step = "record"]
     /\ UNCHANGED <<origin, base, head, begun, written, consented>>

(* Bug: the entry does not name its device.                                 *)
NamelessRotation(d) ==
  /\ At(d, "record")
  /\ Publish(d, [work[d] EXCEPT !.rot = cmd[d].earlier
                                  \cup {[device |-> None, entries |-> cmd[d].entries]}])
  /\ cmd' = [cmd EXCEPT ![d] = Idle]
  /\ UNCHANGED <<begun, written, consented>>

(* ... and rotation.json is rewritten from the list read before the prompt,*)
(* then everything is committed and pushed.                                *)
RecordRotation(d) ==
  LET entry == [device |-> cmd[d].target, entries |-> cmd[d].entries]
  IN /\ At(d, "record")
     /\ Publish(d, [work[d] EXCEPT !.rot = cmd[d].earlier \cup {entry}])
     /\ cmd' = [cmd EXCEPT ![d] = Idle]
     /\ UNCHANGED <<begun, written, consented>>

(* The command ends early: the user says no, pass or gpg fails (an error   *)
(* is raised), or the process dies. What it did so far stays. Only death   *)
(* can part the two file writes around "record".                           *)
Abandon(d) ==
  /\ ~At(d, "idle")
  /\ At(d, "approving") \/ At(d, "revoking") => Failures
  /\ At(d, "record") => Crashes
  /\ cmd' = [cmd EXCEPT ![d] = Idle]
  /\ UNCHANGED <<origin, base, head, work, begun, written, consented>>

-----------------------------------------------------------------------------
(* Entries: `pass insert` and `pass edit` commit locally; a hook pushes.   *)

Write(d, e, c) ==
  /\ MayRun(d)
  /\ written < MaxWrites
  /\ Recipients(work[d], e) # {}
  /\ head' = [head EXCEPT ![d].blob[e] = c]
  /\ work' = [work EXCEPT ![d].blob[e] = c]
  /\ written' = written + 1
  /\ UNCHANGED <<origin, base, cmd, begun, consented>>

Insert(d, e) ==
  /\ work[d].blob[e] = None
  /\ Write(d, e, [to |-> Recipients(work[d], e), rev |-> 1, by |-> d])

Edit(d, e) ==
  /\ work[d].blob[e] # None
  /\ d \in work[d].blob[e].to
  /\ Write(d, e, Seal(work[d].blob[e], d, Recipients(work[d], e)))

-----------------------------------------------------------------------------
(* pass sync                                                               *)

(* The post-commit hook, and a sync whose pull failed: push alone.         *)
PushOnly(d) ==
  /\ MayRun(d)
  /\ head[d] # base[d]
  /\ origin = base[d]
  /\ origin' = head[d]
  /\ base' = [base EXCEPT ![d] = head[d]]
  /\ UNCHANGED <<head, work, cmd, begun, written, consented>>

Rebase(d) ==
  /\ MayRun(d)
  /\ CanPull(d)
  /\ head' = [head EXCEPT ![d] = PulledHead(d)]
  /\ work' = [work EXCEPT ![d] = PulledWork(d)]
  /\ UNCHANGED <<cmd, begun, written, consented>>

(* The pull works and the push is refused or fails: the sync stops there.  *)
SyncPullOnly(d) ==
  /\ Rebase(d)
  /\ PulledHead(d) # origin
  /\ base' = [base EXCEPT ![d] = origin]
  /\ UNCHANGED origin

(* Pull, push, import the enrolled keys, delete the revoked ones.          *)
Sync(d) ==
  /\ Rebase(d)
  /\ origin' = PulledHead(d)
  /\ base' = [base EXCEPT ![d] = PulledHead(d)]

(* resolve_guidance, followed to the letter: the list it printed from this *)
(* clone's own registry goes into the root .gpg-id, a side is taken for    *)
(* every other path in conflict, then pass init to that list, and push.    *)
FollowGuidance(d) ==
  LET fps == {r \in Device : work[d].rec["devices", r] = {}}
  IN /\ ManualResolve
     /\ At(d, "idle")
     /\ work[d] = head[d]
     /\ Conflicted(d)
     /\ fps # {}
     /\ \E t \in {PulledHead(d), Merge(base[d], origin, head[d])} :
          LET t1 == PassInit(t, d, Root, fps)
          IN /\ origin' = t1
             /\ base' = [base EXCEPT ![d] = t1]
             /\ head' = [head EXCEPT ![d] = t1]
             /\ work' = [work EXCEPT ![d] = t1]
     /\ UNCHANGED <<cmd, begun, written, consented>>

-----------------------------------------------------------------------------
Enrolling(d) ==
  \/ Genesis(d)
  \/ Adopt(d)
  \/ \E scope \in SUBSET Folder : Request(d, scope)

Approving(d) ==
  \/ \E asked \in SUBSET Device, only \in SUBSET Folder : StartApprove(d, asked, only)
  \/ Decline(d)
  \/ ConfirmApprove(d)
  \/ \E f \in Folder : ApproveFolder(d, f)
  \/ FinishApprove(d)

Revoking(d) ==
  \/ \E r \in Device : StartRevoke(d, r)
  \/ ConfirmRevoke(d)
  \/ \E f \in Folder : RevokeFolder(d, f)
  \/ MoveToRevoked(d)
  \/ RecordRotation(d)

Writing(d) == \E e \in Entry : Insert(d, e) \/ Edit(d, e)

Syncing(d) == PushOnly(d) \/ SyncPullOnly(d) \/ Sync(d) \/ FollowGuidance(d)

Next ==
  \E d \in Device : Enrolling(d) \/ Approving(d) \/ Revoking(d) \/ Abandon(d)
                      \/ Writing(d) \/ Syncing(d)

Spec == Init /\ [][Next]_vars

-----------------------------------------------------------------------------
(* Properties                                                              *)

(* Every variable has its type: trees stay trees through every merge, and  *)
(* a command's registers hold what the code put there.                     *)
TypeOK ==
  /\ origin \in Tree
  /\ base \in [Device -> Tree]
  /\ head \in [Device -> Tree]
  /\ work \in [Device -> Tree]
  /\ cmd \in [Device -> Command]
  /\ begun \in 0..MaxCommands
  /\ written \in 0..MaxWrites
  /\ consented \subseteq Device

Readers(t) ==
  ListedAnywhere(t) \cup UNION {t.blob[e].to : e \in {x \in Entry : t.blob[x] # None}}

(* Approval is by hand (the typed yes of approve): in every clone and at   *)
(* the origin, a key is listed or encrypted to only if a user said yes to  *)
(* it or created the store with it, whatever is merged, interrupted,       *)
(* resolved by hand or adopted in between.                                 *)
AccessByConsent ==
  /\ Readers(origin) \subseteq consented
  /\ \A d \in Device : Readers(base[d]) \cup Readers(head[d]) \cup Readers(work[d])
                         \subseteq consented

(* Revoking removes the key from every .gpg-id, for good (I1): no .gpg-id  *)
(* of the origin names a key its registry says is revoked.                 *)
RevokedStaysOut == RevokedIn(origin) \cap ListedAnywhere(origin) = {}

(* doctor tracks what a revoked key could read: a revoked device of the    *)
(* origin has its entry in the origin's rotation.json.                     *)
RevokedIsTracked ==
  \A r \in RevokedIn(origin) : \E x \in origin.rot : x.device = r

(* e is encrypted to the list that governs it, no more and no less.        *)
InStep(t, e) == t.blob[e] # None /\ t.blob[e].to = Recipients(t, e)

(* Approving and revoking re-encrypt: an entry that every clone knew when   *)
(* it all began is encrypted, at the origin, to exactly the list over it,   *)
(* so nobody on the list is shut out of it and nobody off it let in,        *)
(* whatever approves, revokes, edits and merges meet. (An entry inserted on *)
(* a stale clone is new to the others: it meets no conflict, and waits for  *)
(* the next re-encryption.)                                                 *)
EncryptedToList == Members # {} => \A e \in Stored : InStep(origin, e)

CannotRead(t, r, e) == t.blob[e] # None => r \notin t.blob[e].to

(* What a revoke closed stays closed: an entry of the origin that a        *)
(* revoked key cannot read becomes readable to it only where a clone wrote *)
(* it anew, or over a ciphertext the key could not read either. No merge   *)
(* or command takes back what the revoke encrypted without the key.        *)
NeverReopened ==
  [][\A r \in RevokedIn(origin), e \in Entry :
       CannotRead(origin, r, e) /\ ~CannotRead(origin', r, e)
         => \E d \in Device : CannotRead(base[d], r, e) /\ ~CannotRead(head[d], r, e)]_vars

(* No push and no resolution of a conflict ever takes a record out of the  *)
(* origin's revoked/: the check that bars a revoked key reads it there.    *)
RevokedForGood == [][RevokedIn(origin) \subseteq RevokedIn(origin')]_vars

=============================================================================
