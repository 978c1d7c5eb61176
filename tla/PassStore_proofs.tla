--------------------------- MODULE PassStore_proofs ---------------------------
(* Proofs about the shared store, for every set of devices, folders and    *)
(* entries and every bound: its types, that a revoked record is never      *)
(* lost, that access is given by a yes, that a secret closed to a key is   *)
(* not opened to it by a merge, that what a revoked key could read is      *)
(* tracked, that a revoked key is listed no more, and that every entry     *)
(* stays encrypted to its list, in the whole store and in parts of it.     *)
EXTENDS PassStore, TLAPS

USE ConstantsAssumption

-----------------------------------------------------------------------------
(* Trees                                                                   *)

LEMMA FoundedType ==
  ASSUME NEW D \in SUBSET Device, NEW E \in SUBSET Entry
  PROVE  EmptyTree \in Tree /\ Founded(D, E) \in Tree
<1>1. EmptyTree \in Tree
  BY DEF EmptyTree, Tree, Kind, Record
<1>2. [e \in Entry |-> IF e \in E THEN [to |-> D, rev |-> 1, by |-> None] ELSE None]
        \in [Entry -> {None} \cup Cipher]
  BY DEF Cipher
<1>3. [kd \in Kind \X Device |-> IF kd[1] = "devices" /\ kd[2] \in D THEN {} ELSE None]
        \in [Kind \X Device -> {None} \cup Record]
  BY DEF Record
<1>4. [EmptyTree.ids EXCEPT ![Root] = D] \in [Folders -> SUBSET Device]
  BY <1>1 DEF Tree, Folders
<1>. QED BY <1>1, <1>2, <1>3, <1>4 DEF Founded, Tree

LEMMA MergeType ==
  ASSUME NEW b \in Tree, NEW ours \in Tree, NEW theirs \in Tree
  PROVE  Merge(b, ours, theirs) \in Tree
BY DEF Merge, Merge3, Tree

LEMMA RecipientsType ==
  ASSUME NEW t \in Tree, NEW e \in Entry
  PROVE  Recipients(t, e) \in SUBSET Device /\ Recipients(t, e) \subseteq ListedAnywhere(t)
<1>1. Governing(t, e) \in Folders
  BY DEF Governing, Folders
<1>. QED BY <1>1 DEF Recipients, ListedAnywhere, Tree

(* pass init writes one .gpg-id and ciphertexts, no record.                *)
LEMMA PassInitType ==
  ASSUME NEW t \in Tree, NEW d \in Device, NEW g \in Folders, NEW ids \in SUBSET Device
  PROVE  /\ PassInit(t, d, g, ids) \in Tree
         /\ PassInit(t, d, g, ids).rec = t.rec
<1>. DEFINE t1 == [t EXCEPT !.ids[g] = ids]
            Again(e) == /\ g \in {Root, Home[e]}
                        /\ t.blob[e] # None
                        /\ t.blob[e].to # Recipients(t1, e)
                        /\ d \in t.blob[e].to
            new == [e \in Entry |-> IF Again(e) THEN Seal(t.blob[e], d, Recipients(t1, e))
                                                ELSE t.blob[e]]
<1>1. t1 \in Tree /\ t1.rec = t.rec /\ t1.blob = t.blob
  BY DEF Tree
<1>2. ASSUME NEW e \in Entry PROVE new[e] \in {None} \cup Cipher
  <2>1. t.blob[e] \in {None} \cup Cipher
    BY DEF Tree
  <2>2. Recipients(t1, e) \in SUBSET Device
    BY <1>1, RecipientsType
  <2>. QED BY <2>1, <2>2 DEF Seal, Cipher
<1>3. new \in [Entry -> {None} \cup Cipher]
  BY <1>2
<1>4. PassInit(t, d, g, ids) = [t1 EXCEPT !.blob = new]
  BY DEF PassInit
<1>. HIDE DEF t1, new
<1>. QED BY <1>1, <1>3, <1>4 DEF Tree

(* Neither does a record write touch a .gpg-id or a ciphertext.            *)
LEMMA RecordType ==
  ASSUME NEW t \in Tree, NEW d \in Device
  PROVE  /\ \A k \in Kind, scope \in Record : WriteRecord(t, k, d, scope) \in Tree
         /\ \A src, dst \in Kind : Move(t, src, dst, d) \in Tree
<1>1. ASSUME NEW k \in Kind, NEW scope \in Record
      PROVE  WriteRecord(t, k, d, scope) \in Tree
  BY DEF WriteRecord, Tree
<1>2. ASSUME NEW src \in Kind, NEW dst \in Kind
      PROVE  Move(t, src, dst, d) \in Tree
  <2>. DEFINE moved == [t.rec EXCEPT ![<<src, d>>] = None, ![<<dst, d>>] = t.rec[<<src, d>>]]
  <2>1. moved \in [Kind \X Device -> {None} \cup Record]
    BY DEF Tree
  <2>2. Move(t, src, dst, d) = IF Has(t, src, d) THEN [t EXCEPT !.rec = moved] ELSE t
    BY DEF Move
  <2>. HIDE DEF moved
  <2>. QED BY <2>1, <2>2 DEF Tree
<1>. QED BY <1>1, <1>2

-----------------------------------------------------------------------------
(* Types                                                                   *)

TreesOK ==
  /\ origin \in Tree
  /\ base \in [Device -> Tree]
  /\ head \in [Device -> Tree]
  /\ work \in [Device -> Tree]

(* A command that is running is about a device.                            *)
Aimed == \A d \in Device : ~At(d, "idle") => cmd[d].target \in Device

TypeInv == TypeOK /\ Aimed

LEMMA PublishType ==
  ASSUME TreesOK, NEW d \in Device, NEW t \in Tree, Publish(d, t)
  PROVE  TreesOK'
BY DEF TreesOK, Publish

LEMMA PassCommitsType ==
  ASSUME TreesOK, NEW d \in Device, NEW g \in Folders, NEW ids \in SUBSET Device,
         PassCommits(d, g, ids)
  PROVE  head' \in [Device -> Tree] /\ work' \in [Device -> Tree]
<1>1. PassInit(head[d], d, g, ids) \in Tree /\ PassInit(work[d], d, g, ids) \in Tree
  BY PassInitType DEF TreesOK
<1>. QED BY <1>1 DEF TreesOK, PassCommits

LEMMA PulledType ==
  ASSUME TreesOK, NEW d \in Device
  PROVE  PulledHead(d) \in Tree /\ PulledWork(d) \in Tree
BY MergeType DEF TreesOK, PulledHead, PulledWork

LEMMA IdleType == Idle \in Command /\ Idle.step = "idle"
BY DEF Idle, Command, Step

LEMMA AskNextType ==
  ASSUME NEW t \in Tree, NEW only \in SUBSET Folder, NEW queue \in SUBSET Device,
         NEW next \in AskNext(t, only, queue)
  PROVE  next \in Command /\ (next.step # "idle" => next.target \in Device)
<1>. DEFINE ready == {r \in queue : Has(t, "pending", r) /\ ~Has(t, "revoked", r)}
            Ask(r) == [Idle EXCEPT !.step = "approve", !.target = r,
                               !.queue = ready \ {r}, !.only = only,
                               !.scope = IF only = {} THEN t.rec["pending", r] ELSE only]
<1>1. CASE next = Idle
  BY <1>1, IdleType
<1>2. CASE next # Idle
  <2>1. PICK r \in queue : Has(t, "pending", r) /\ next = Ask(r)
    BY <1>2 DEF AskNext
  <2>2. t.rec["pending", r] \in SUBSET Folder
    BY <2>1 DEF Has, Tree, Kind, Record
  <2>. QED BY <2>1, <2>2 DEF Idle, Command, Step
<1>. QED BY <1>1, <1>2

(* A step that leaves the trees to a lemma and moves one command on.       *)
LEMMA CommandType ==
  ASSUME TypeInv, NEW d \in Device, NEW c \in Command, cmd' = [cmd EXCEPT ![d] = c],
         c.step # "idle" => c.target \in Device
  PROVE  cmd' \in [Device -> Command] /\ Aimed'
BY DEF TypeInv, TypeOK, Aimed, At

LEMMA InitType == Init => TypeInv
<1>. SUFFICES ASSUME Init PROVE TypeInv
  OBVIOUS
<1>1. origin \in Tree
  BY FoundedType DEF Init
<1>2. cmd = [d \in Device |-> Idle] /\ Idle \in Command
  BY IdleType DEF Init
<1>3. Aimed
  BY <1>2, IdleType DEF Aimed, At
<1>. QED BY <1>1, <1>2, <1>3 DEF Init, TypeInv, TypeOK

LEMMA NextType == TypeInv /\ [Next]_vars => TypeInv'
<1>. SUFFICES ASSUME TypeInv, [Next]_vars PROVE TypeInv'
  OBVIOUS
<1>. USE DEF TypeInv
<1>0. TreesOK /\ (TreesOK' /\ cmd' \in [Device -> Command] /\ Aimed'
                   /\ begun' \in 0..MaxCommands /\ written' \in 0..MaxWrites
                   /\ consented' \subseteq Device => TypeInv')
  BY DEF TypeOK, TreesOK
<1>idle. \A d \in Device : cmd' = [cmd EXCEPT ![d] = Idle] =>
                             cmd' \in [Device -> Command] /\ Aimed'
  BY CommandType, IdleType
<1>1. CASE UNCHANGED vars
  BY <1>1 DEF vars, TypeOK, Aimed, At
<1>2. ASSUME NEW d \in Device, Genesis(d) PROVE TypeInv'
  <2>1. WriteRecord(PassInit(work[d], d, Root, {d}), "devices", d, {}) \in Tree
    BY <1>0, PassInitType, RecordType DEF TreesOK, Folders, Kind, Record
  <2>2. TreesOK'
    BY <1>0, <1>2, <2>1, PublishType DEF Genesis
  <2>. QED BY <1>0, <1>2, <2>2 DEF Genesis, TypeOK, Aimed, At
<1>3. ASSUME NEW d \in Device, Adopt(d) PROVE TypeInv'
  <2>1. WriteRecord(work[d], "devices", d, {}) \in Tree
    BY <1>0, RecordType DEF TreesOK, Kind, Record
  <2>2. TreesOK'
    BY <1>0, <1>3, <2>1, PublishType DEF Adopt
  <2>. QED BY <1>0, <1>3, <2>2 DEF Adopt, TypeOK, Aimed, At
<1>4. ASSUME NEW d \in Device, NEW scope \in SUBSET Folder, Request(d, scope) PROVE TypeInv'
  <2>1. WriteRecord(work[d], "pending", d, scope) \in Tree
    BY <1>0, RecordType DEF TreesOK, Kind, Record
  <2>2. TreesOK'
    BY <1>0, <1>4, <2>1, PublishType DEF Request
  <2>. QED BY <1>0, <1>4, <2>2 DEF Request, TypeOK, Aimed, At
<1>begin. ASSUME NEW d \in Device, Begin(d, PulledWork(d))
          PROVE  /\ TreesOK'
                 /\ begun' \in 0..MaxCommands /\ written' \in 0..MaxWrites
                 /\ consented' \subseteq Device
  BY <1>0, <1>begin, PulledType DEF Begin, TreesOK, TypeOK
<1>5. ASSUME NEW d \in Device, NEW asked \in SUBSET Device, NEW only \in SUBSET Folder,
             StartApprove(d, asked, only)
      PROVE  TypeInv'
  <2>1. PICK next \in AskNext(PulledWork(d), only, asked) : cmd' = [cmd EXCEPT ![d] = next]
    BY <1>5 DEF StartApprove
  <2>2. next \in Command /\ (next.step # "idle" => next.target \in Device)
    BY <1>0, PulledType, AskNextType
  <2>. QED BY <1>0, <1>5, <1>begin, <2>1, <2>2, CommandType DEF StartApprove
<1>6. ASSUME NEW d \in Device, Decline(d) PROVE TypeInv'
  <2>1. PICK next \in AskNext(work[d], cmd[d].only, cmd[d].queue) : cmd' = [cmd EXCEPT ![d] = next]
    BY <1>6 DEF Decline
  <2>2. cmd[d].only \in SUBSET Folder /\ cmd[d].queue \in SUBSET Device
    BY DEF TypeOK, Command
  <2>3. next \in Command /\ (next.step # "idle" => next.target \in Device)
    BY <1>0, <2>2, AskNextType DEF TreesOK
  <2>4. TreesOK'
    BY <1>0, <1>6 DEF Decline, TreesOK
  <2>. QED BY <1>0, <1>6, <2>1, <2>3, <2>4, CommandType DEF Decline, TypeOK
<1>7. ASSUME NEW d \in Device, ConfirmApprove(d) PROVE TypeInv'
  <2>. DEFINE c == [cmd[d] EXCEPT !.step = "approving",
                                  !.todo = IF cmd[d].scope = {}
                                           THEN {f \in Folder : work[d].ids[f] # {}}
                                           ELSE cmd[d].scope]
  <2>1. cmd[d] \in Command /\ cmd[d].target \in Device
    BY <1>7 DEF ConfirmApprove, TypeOK, Aimed, At
  <2>2. c \in Command /\ c.target \in Device
    BY <2>1 DEF Command, Step
  <2>3. cmd' = [cmd EXCEPT ![d] = c]
    BY <1>7 DEF ConfirmApprove, TypeOK
  <2>4. work[d].ids[Root] \cup {cmd[d].target} \in SUBSET Device
    BY <1>0, <2>1 DEF TreesOK, Tree, Folders
  <2>5. TreesOK'
    BY <1>0, <1>7, <2>4, PassCommitsType DEF ConfirmApprove, TreesOK, Folders
  <2>. HIDE DEF c
  <2>. QED BY <1>0, <1>7, <2>1, <2>2, <2>3, <2>5, CommandType DEF ConfirmApprove, TypeOK
<1>8. ASSUME NEW d \in Device, NEW f \in Folder, ApproveFolder(d, f) PROVE TypeInv'
  <2>. DEFINE own == work[d].ids[f]
              ids == IF own = {} /\ cmd[d].scope # {} THEN work[d].ids[Root] ELSE own
              c == [cmd[d] EXCEPT !.todo = @ \ {f}]
  <2>1. cmd[d] \in Command /\ cmd[d].target \in Device
    BY <1>8 DEF ApproveFolder, TypeOK, Aimed, At
  <2>2. c \in Command /\ c.target \in Device
    BY <2>1 DEF Command
  <2>3. cmd' = [cmd EXCEPT ![d] = c]
    BY <1>8 DEF ApproveFolder, TypeOK
  <2>4. ids \cup {cmd[d].target} \in SUBSET Device
    BY <1>0, <2>1 DEF TreesOK, Tree, Folders
  <2>5. TreesOK'
    BY <1>0, <1>8, <2>4, PassCommitsType DEF ApproveFolder, TreesOK, Folders
  <2>. HIDE DEF c
  <2>. QED BY <1>0, <1>8, <2>2, <2>3, <2>5, CommandType DEF ApproveFolder, TypeOK
<1>9. ASSUME NEW d \in Device, FinishApprove(d) PROVE TypeInv'
  <2>. DEFINE t == WriteRecord(Move(work[d], "pending", "devices", cmd[d].target),
                               "devices", cmd[d].target, cmd[d].scope)
  <2>1. cmd[d] \in Command /\ cmd[d].target \in Device
    BY <1>9 DEF FinishApprove, TypeOK, Aimed, At
  <2>2. t \in Tree
    BY <1>0, <2>1, RecordType DEF TreesOK, Command, Kind, Record
  <2>3. PICK next \in AskNext(t, cmd[d].only, cmd[d].queue) : cmd' = [cmd EXCEPT ![d] = next]
    BY <1>9 DEF FinishApprove
  <2>. HIDE DEF t
  <2>4. next \in Command /\ (next.step # "idle" => next.target \in Device)
    BY <2>1, <2>2, AskNextType DEF Command
  <2>5. Publish(d, t)
    BY <1>9 DEF FinishApprove, t
  <2>6. TreesOK'
    BY <1>0, <2>2, <2>5, PublishType
  <2>. QED BY <1>0, <1>9, <2>3, <2>4, <2>6, CommandType DEF FinishApprove, TypeOK
<1>10. ASSUME NEW d \in Device, NEW r \in Device, StartRevoke(d, r) PROVE TypeInv'
  <2>. DEFINE t == PulledWork(d)
              c == [Idle EXCEPT !.step = "revoke", !.target = r,
                                !.scope = t.rec["devices", r], !.earlier = t.rot]
  <2>1. t \in Tree
    BY <1>0, PulledType
  <2>2. cmd' = [cmd EXCEPT ![d] = c] /\ Has(t, "devices", r)
    BY <1>10 DEF StartRevoke
  <2>. HIDE DEF t
  <2>3. c \in Command /\ c.target \in Device
    BY <2>1, <2>2 DEF Has, Tree, Kind, Record, Idle, Command, Step
  <2>. HIDE DEF c
  <2>. QED BY <1>0, <1>10, <1>begin, <2>2, <2>3, CommandType DEF StartRevoke
<1>11. ASSUME NEW d \in Device, ConfirmRevoke(d) PROVE TypeInv'
  <2>. DEFINE keep == work[d].ids[Root] \ {cmd[d].target}
              c == [cmd[d] EXCEPT !.step = "revoking", !.keep = keep,
                                  !.entries = ReadableOnce(head[d], cmd[d].scope),
                                  !.todo = {f \in Folder : cmd[d].target \in work[d].ids[f]}]
  <2>1. cmd[d] \in Command /\ cmd[d].target \in Device
    BY <1>11 DEF ConfirmRevoke, TypeOK, Aimed, At
  <2>2. keep \in SUBSET Device
    BY <1>0 DEF TreesOK, Tree, Folders
  <2>3. c \in Command /\ c.target \in Device
    BY <2>1, <2>2 DEF Command, Step, ReadableOnce
  <2>4. cmd' = [cmd EXCEPT ![d] = c]
    BY <1>11 DEF ConfirmRevoke, TypeOK
  <2>5. TreesOK'
    BY <1>0, <1>11, <2>2, PassCommitsType DEF ConfirmRevoke, TreesOK, Folders
  <2>. HIDE DEF c
  <2>. QED BY <1>0, <1>11, <2>3, <2>4, <2>5, CommandType DEF ConfirmRevoke, TypeOK
<1>12. ASSUME NEW d \in Device, NEW f \in Folder, RevokeFolder(d, f) PROVE TypeInv'
  <2>. DEFINE left == work[d].ids[f] \ {cmd[d].target}
              c == [cmd[d] EXCEPT !.todo = @ \ {f}]
  <2>1. cmd[d] \in Command /\ cmd[d].target \in Device
    BY <1>12 DEF RevokeFolder, TypeOK, Aimed, At
  <2>2. c \in Command /\ c.target \in Device
    BY <2>1 DEF Command
  <2>3. cmd' = [cmd EXCEPT ![d] = c]
    BY <1>12 DEF RevokeFolder, TypeOK
  <2>4. (IF left = cmd[d].keep THEN {} ELSE left) \in SUBSET Device
    BY <1>0 DEF TreesOK, Tree, Folders
  <2>5. TreesOK'
    BY <1>0, <1>12, <2>4, PassCommitsType DEF RevokeFolder, TreesOK, Folders
  <2>. HIDE DEF c
  <2>. QED BY <1>0, <1>12, <2>2, <2>3, <2>5, CommandType DEF RevokeFolder, TypeOK
<1>13. ASSUME NEW d \in Device, MoveToRevoked(d) PROVE TypeInv'
  <2>. DEFINE c == [cmd[d] EXCEPT !.step = "record"]
  <2>1. cmd[d] \in Command /\ cmd[d].target \in Device
    BY <1>13 DEF MoveToRevoked, TypeOK, Aimed, At
  <2>2. c \in Command /\ c.target \in Device
    BY <2>1 DEF Command, Step
  <2>3. cmd' = [cmd EXCEPT ![d] = c]
    BY <1>13 DEF MoveToRevoked, TypeOK
  <2>4. Move(work[d], "devices", "revoked", cmd[d].target) \in Tree
    BY <1>0, <2>1, RecordType DEF TreesOK, Kind
  <2>5. TreesOK'
    BY <1>0, <1>13, <2>4 DEF MoveToRevoked, TreesOK
  <2>. HIDE DEF c
  <2>. QED BY <1>0, <1>13, <2>2, <2>3, <2>5, CommandType DEF MoveToRevoked, TypeOK
<1>14. ASSUME NEW d \in Device, RecordRotation(d) PROVE TypeInv'
  <2>. DEFINE rot == cmd[d].earlier \cup {[device |-> cmd[d].target, entries |-> cmd[d].entries]}
              t == [work[d] EXCEPT !.rot = rot]
  <2>1. cmd[d] \in Command /\ cmd[d].target \in Device
    BY <1>14 DEF RecordRotation, TypeOK, Aimed, At
  <2>2. rot \in SUBSET RotationEntry
    BY <2>1 DEF Command, RotationEntry
  <2>3. t \in Tree
    BY <1>0, <2>2 DEF TreesOK, Tree
  <2>4. Publish(d, t)
    BY <1>14 DEF RecordRotation
  <2>5. TreesOK'
    BY <1>0, <2>3, <2>4, PublishType
  <2>. QED BY <1>0, <1>14, <1>idle, <2>5 DEF RecordRotation, TypeOK
<1>15. ASSUME NEW d \in Device, Abandon(d) PROVE TypeInv'
  BY <1>0, <1>15, <1>idle DEF Abandon, TypeOK, TreesOK
<1>16. ASSUME NEW d \in Device, NEW e \in Entry, Insert(d, e) \/ Edit(d, e) PROVE TypeInv'
  <2>1. PICK c \in Cipher : Write(d, e, c)
    <3>1. Recipients(work[d], e) \in SUBSET Device
      BY <1>0, RecipientsType DEF TreesOK
    <3>2. CASE Insert(d, e)
      BY <3>1, <3>2 DEF Insert, Cipher
    <3>3. CASE Edit(d, e)
      <4>1. work[d].blob[e] \in Cipher
        BY <1>0, <3>3 DEF Edit, TreesOK, Tree
      <4>2. Seal(work[d].blob[e], d, Recipients(work[d], e)) \in Cipher
        BY <3>1, <4>1 DEF Seal, Cipher
      <4>. QED BY <3>3, <4>2 DEF Edit
    <3>. QED BY <1>16, <3>2, <3>3
  <2>2. TreesOK'
    <3>1. \A t \in Tree : [t EXCEPT !.blob[e] = c] \in Tree
      BY <2>1 DEF Tree
    <3>2. /\ head' = [head EXCEPT ![d] = [head[d] EXCEPT !.blob[e] = c]]
          /\ work' = [work EXCEPT ![d] = [work[d] EXCEPT !.blob[e] = c]]
          /\ UNCHANGED <<origin, base>>
      BY <1>0, <2>1 DEF Write, TreesOK
    <3>. QED BY <1>0, <3>1, <3>2 DEF TreesOK
  <2>3. written' \in 0..MaxWrites
    BY <2>1 DEF Write, TypeOK
  <2>. QED BY <1>0, <2>1, <2>2, <2>3 DEF Write, TypeOK, Aimed, At
<1>17. ASSUME NEW d \in Device, PushOnly(d) \/ SyncPullOnly(d) \/ Sync(d) PROVE TypeInv'
  <2>1. TreesOK'
    BY <1>0, <1>17, PulledType DEF PushOnly, SyncPullOnly, Sync, Rebase, TreesOK
  <2>. QED BY <1>0, <1>17, <2>1 DEF PushOnly, SyncPullOnly, Sync, Rebase, TypeOK, Aimed, At
<1>18. ASSUME NEW d \in Device, FollowGuidance(d) PROVE TypeInv'
  <2>. DEFINE fps == {r \in Device : work[d].rec["devices", r] = {}}
  <2>1. PICK t \in {PulledHead(d), Merge(base[d], origin, head[d])} :
          LET t1 == PassInit(t, d, Root, fps)
          IN /\ origin' = t1
             /\ base' = [base EXCEPT ![d] = t1]
             /\ head' = [head EXCEPT ![d] = t1]
             /\ work' = [work EXCEPT ![d] = t1]
    BY <1>18 DEF FollowGuidance
  <2>2. t \in Tree
    BY <1>0, PulledType, MergeType DEF TreesOK
  <2>3. PassInit(t, d, Root, fps) \in Tree
    BY <2>2, PassInitType DEF Folders
  <2>4. TreesOK'
    BY <1>0, <2>1, <2>3 DEF TreesOK
  <2>. QED BY <1>0, <1>18, <2>4 DEF FollowGuidance, TypeOK, Aimed, At
<1>. QED
  BY <1>1, <1>2, <1>3, <1>4, <1>5, <1>6, <1>7, <1>8, <1>9, <1>10, <1>11, <1>12, <1>13, <1>14,
     <1>15, <1>16, <1>17, <1>18
  DEF Next, Enrolling, Approving, Revoking, Writing, Syncing

(* Every variable has its type in every reachable state.                   *)
THEOREM TypeCorrect == Spec => []TypeOK
<1>1. Spec => []TypeInv
  BY InitType, NextType, PTL DEF Spec
<1>2. TypeInv => TypeOK
  BY DEF TypeInv
<1>. QED BY <1>1, <1>2, PTL

-----------------------------------------------------------------------------
(* Revoked records                                                         *)
(*                                                                         *)
(* A push that replaces origin's tree loses no revoked record because the  *)
(* clone's files, its HEAD and the tree it is based on form a chain.       *)

Chain(d) == /\ RevokedIn(base[d]) \subseteq RevokedIn(head[d])
            /\ RevokedIn(head[d]) \subseteq RevokedIn(work[d])

RevokedInv == \A d \in Device : Chain(d)

RevokedKept == RevokedIn(origin) \subseteq RevokedIn(origin')

LEMMA MergeRevoked ==
  ASSUME NEW b \in Tree, NEW ours \in Tree, NEW theirs \in Tree
  PROVE  /\ RevokedIn(b) \subseteq RevokedIn(ours)
              => RevokedIn(theirs) \subseteq RevokedIn(Merge(b, ours, theirs))
         /\ RevokedIn(b) \subseteq RevokedIn(theirs)
              => RevokedIn(ours) \subseteq RevokedIn(Merge(b, ours, theirs))
<1>. DEFINE m == Merge(b, ours, theirs)
<1>1. ASSUME NEW r \in Device
      PROVE  m.rec[<<"revoked", r>>] = IF ours.rec[<<"revoked", r>>] = b.rec[<<"revoked", r>>]
                                     THEN theirs.rec[<<"revoked", r>>]
                                     ELSE ours.rec[<<"revoked", r>>]
  BY DEF Merge, Merge3, Tree, Kind
<1>. HIDE DEF m
<1>. QED BY <1>1 DEF RevokedIn, Has, m

LEMMA RecordRevoked ==
  ASSUME NEW t \in Tree, NEW d \in Device
  PROVE  /\ \A k \in {"devices", "pending"}, scope \in Record :
              RevokedIn(WriteRecord(t, k, d, scope)) = RevokedIn(t)
         /\ \A dst \in {"devices", "revoked"}, src \in {"devices", "pending"} :
              RevokedIn(t) \subseteq RevokedIn(Move(t, src, dst, d))
<1>1. ASSUME NEW k \in {"devices", "pending"}, NEW scope \in Record
      PROVE  RevokedIn(WriteRecord(t, k, d, scope)) = RevokedIn(t)
  BY DEF WriteRecord, RevokedIn, Has, Tree, Kind
<1>2. ASSUME NEW dst \in {"devices", "revoked"}, NEW src \in {"devices", "pending"}
      PROVE  RevokedIn(t) \subseteq RevokedIn(Move(t, src, dst, d))
  BY DEF Move, RevokedIn, Has, Tree, Kind
<1>. QED BY <1>1, <1>2

LEMMA PassInitRevoked ==
  ASSUME NEW t \in Tree, NEW d \in Device, NEW g \in Folders, NEW ids \in SUBSET Device
  PROVE  RevokedIn(PassInit(t, d, g, ids)) = RevokedIn(t)
BY PassInitType DEF RevokedIn, Has

LEMMA PublishRevoked ==
  ASSUME TreesOK, RevokedInv, NEW d \in Device, NEW t \in Tree, Publish(d, t),
         RevokedIn(work[d]) \subseteq RevokedIn(t)
  PROVE  RevokedInv' /\ RevokedKept
<1>1. Chain(d)
  BY DEF RevokedInv
<1>2. RevokedKept
  BY <1>1 DEF Publish, Chain, RevokedKept
<1>3. RevokedInv'
  BY <1>1 DEF Publish, RevokedInv, Chain, TreesOK
<1>. QED BY <1>2, <1>3

LEMMA PassCommitsRevoked ==
  ASSUME TreesOK, RevokedInv, NEW d \in Device, NEW g \in Folders, NEW ids \in SUBSET Device,
         PassCommits(d, g, ids), UNCHANGED <<origin, base>>
  PROVE  RevokedInv' /\ RevokedKept
<1>1. /\ RevokedIn(PassInit(head[d], d, g, ids)) = RevokedIn(head[d])
      /\ RevokedIn(PassInit(work[d], d, g, ids)) = RevokedIn(work[d])
  BY PassInitRevoked DEF TreesOK
<1>. QED BY <1>1 DEF PassCommits, RevokedInv, RevokedKept, Chain, TreesOK

(* What a pull leaves holds every revoked record of the origin.            *)
LEMMA PulledRevoked ==
  ASSUME TreesOK, NEW d \in Device, Chain(d)
  PROVE  /\ RevokedIn(origin) \subseteq RevokedIn(PulledHead(d))
         /\ RevokedIn(PulledHead(d)) \subseteq RevokedIn(PulledWork(d))
BY MergeType, MergeRevoked DEF TreesOK, Chain, PulledHead, PulledWork

LEMMA UntouchedRevoked ==
  ASSUME RevokedInv, UNCHANGED <<origin, base, head, work>>
  PROVE  RevokedInv' /\ RevokedKept
BY DEF RevokedInv, RevokedKept, Chain

LEMMA RevokedStep ==
  ASSUME TypeInv, RevokedInv, [Next]_vars
  PROVE  RevokedInv' /\ RevokedKept
<1>0. TreesOK
  BY DEF TypeInv, TypeOK, TreesOK
<1>aim. ASSUME NEW d \in Device, ~At(d, "idle") PROVE cmd[d].target \in Device
  BY <1>aim DEF TypeInv, Aimed
<1>1. CASE UNCHANGED vars
  BY <1>1, UntouchedRevoked DEF vars
<1>2. ASSUME NEW d \in Device, Genesis(d) PROVE RevokedInv' /\ RevokedKept
  <2>. DEFINE t == PassInit(work[d], d, Root, {d})
  <2>1. t \in Tree /\ RevokedIn(t) = RevokedIn(work[d])
    BY <1>0, PassInitType, PassInitRevoked DEF TreesOK, Folders
  <2>2. Publish(d, WriteRecord(t, "devices", d, {}))
    BY <1>2 DEF Genesis
  <2>. HIDE DEF t
  <2>3. WriteRecord(t, "devices", d, {}) \in Tree
    BY <2>1, RecordType DEF Kind, Record
  <2>4. RevokedIn(WriteRecord(t, "devices", d, {})) = RevokedIn(t)
    BY <2>1, RecordRevoked DEF Record
  <2>. QED BY <1>0, <2>1, <2>2, <2>3, <2>4, PublishRevoked
<1>3. ASSUME NEW d \in Device, Adopt(d) PROVE RevokedInv' /\ RevokedKept
  <2>. DEFINE t == WriteRecord(work[d], "devices", d, {})
  <2>1. t \in Tree /\ RevokedIn(t) = RevokedIn(work[d])
    BY <1>0, RecordType, RecordRevoked DEF TreesOK, Kind, Record
  <2>2. Publish(d, t)
    BY <1>3 DEF Adopt
  <2>. HIDE DEF t
  <2>. QED BY <1>0, <2>1, <2>2, PublishRevoked
<1>4. ASSUME NEW d \in Device, NEW scope \in SUBSET Folder, Request(d, scope)
      PROVE  RevokedInv' /\ RevokedKept
  <2>. DEFINE t == WriteRecord(work[d], "pending", d, scope)
  <2>1. t \in Tree /\ RevokedIn(t) = RevokedIn(work[d])
    BY <1>0, RecordType, RecordRevoked DEF TreesOK, Kind, Record
  <2>2. Publish(d, t)
    BY <1>4 DEF Request
  <2>. HIDE DEF t
  <2>. QED BY <1>0, <2>1, <2>2, PublishRevoked
<1>5. ASSUME NEW d \in Device, Begin(d, PulledWork(d)) PROVE RevokedInv' /\ RevokedKept
  <2>1. Chain(d)
    BY DEF RevokedInv
  <2>. QED BY <1>0, <1>5, <2>1, PulledRevoked DEF Begin, RevokedInv, RevokedKept, Chain, TreesOK
<1>6. ASSUME NEW d \in Device, Decline(d) \/ Abandon(d) PROVE RevokedInv' /\ RevokedKept
  BY <1>6, UntouchedRevoked DEF Decline, Abandon
<1>7. ASSUME NEW d \in Device, ConfirmApprove(d) PROVE RevokedInv' /\ RevokedKept
  <2>1. work[d].ids[Root] \cup {cmd[d].target} \in SUBSET Device
    BY <1>0, <1>7, <1>aim DEF TreesOK, Tree, Folders, ConfirmApprove, At
  <2>. QED BY <1>0, <1>7, <2>1, PassCommitsRevoked, UntouchedRevoked DEF ConfirmApprove, Folders
<1>8. ASSUME NEW d \in Device, NEW f \in Folder, ApproveFolder(d, f)
      PROVE  RevokedInv' /\ RevokedKept
  <2>. DEFINE own == work[d].ids[f]
              ids == IF own = {} /\ cmd[d].scope # {} THEN work[d].ids[Root] ELSE own
  <2>1. ids \cup {cmd[d].target} \in SUBSET Device
    BY <1>0, <1>8, <1>aim DEF TreesOK, Tree, Folders, ApproveFolder, At
  <2>. QED BY <1>0, <1>8, <2>1, PassCommitsRevoked DEF ApproveFolder, Folders
<1>9. ASSUME NEW d \in Device, FinishApprove(d) PROVE RevokedInv' /\ RevokedKept
  <2>. DEFINE r == cmd[d].target
              t == Move(work[d], "pending", "devices", r)
  <2>1. r \in Device /\ cmd[d].scope \in Record
    BY <1>9, <1>aim DEF FinishApprove, At, TypeInv, TypeOK, Command, Record
  <2>2. t \in Tree /\ RevokedIn(work[d]) \subseteq RevokedIn(t)
    BY <1>0, <2>1, RecordType, RecordRevoked DEF TreesOK, Kind
  <2>3. Publish(d, WriteRecord(t, "devices", r, cmd[d].scope))
    BY <1>9 DEF FinishApprove
  <2>. HIDE DEF t
  <2>4. WriteRecord(t, "devices", r, cmd[d].scope) \in Tree
    BY <2>1, <2>2, RecordType DEF Kind
  <2>5. RevokedIn(WriteRecord(t, "devices", r, cmd[d].scope)) = RevokedIn(t)
    BY <2>1, <2>2, RecordRevoked
  <2>. QED BY <1>0, <2>2, <2>3, <2>4, <2>5, PublishRevoked
<1>10. ASSUME NEW d \in Device, ConfirmRevoke(d) PROVE RevokedInv' /\ RevokedKept
  <2>1. work[d].ids[Root] \ {cmd[d].target} \in SUBSET Device
    BY <1>0 DEF TreesOK, Tree, Folders
  <2>. QED BY <1>0, <1>10, <2>1, PassCommitsRevoked, UntouchedRevoked DEF ConfirmRevoke, Folders
<1>11. ASSUME NEW d \in Device, NEW f \in Folder, RevokeFolder(d, f)
       PROVE  RevokedInv' /\ RevokedKept
  <2>. DEFINE left == work[d].ids[f] \ {cmd[d].target}
  <2>1. (IF left = cmd[d].keep THEN {} ELSE left) \in SUBSET Device
    BY <1>0 DEF TreesOK, Tree, Folders
  <2>. QED BY <1>0, <1>11, <2>1, PassCommitsRevoked DEF RevokeFolder, Folders
<1>12. ASSUME NEW d \in Device, MoveToRevoked(d) PROVE RevokedInv' /\ RevokedKept
  <2>1. RevokedIn(work[d]) \subseteq RevokedIn(Move(work[d], "devices", "revoked", cmd[d].target))
    BY <1>0, <1>12, <1>aim, RecordRevoked DEF MoveToRevoked, At, TreesOK
  <2>. QED BY <1>0, <1>12, <2>1 DEF MoveToRevoked, RevokedInv, RevokedKept, Chain, TreesOK
<1>13. ASSUME NEW d \in Device, RecordRotation(d) PROVE RevokedInv' /\ RevokedKept
  <2>. DEFINE rot == cmd[d].earlier \cup {[device |-> cmd[d].target, entries |-> cmd[d].entries]}
              t == [work[d] EXCEPT !.rot = rot]
  <2>1. rot \in SUBSET RotationEntry
    BY <1>13, <1>aim DEF RecordRotation, At, TypeInv, TypeOK, Command, RotationEntry
  <2>2. t \in Tree /\ t.rec = work[d].rec
    BY <1>0, <2>1 DEF TreesOK, Tree
  <2>3. RevokedIn(work[d]) \subseteq RevokedIn(t)
    BY <2>2 DEF RevokedIn, Has
  <2>4. Publish(d, t)
    BY <1>13 DEF RecordRotation
  <2>. QED BY <1>0, <2>2, <2>3, <2>4, PublishRevoked
<1>14. ASSUME NEW d \in Device, NEW e \in Entry, Insert(d, e) \/ Edit(d, e)
       PROVE  RevokedInv' /\ RevokedKept
  <2>1. PICK c : Write(d, e, c)
    BY <1>14 DEF Insert, Edit
  <2>2. head'[d].rec = head[d].rec /\ work'[d].rec = work[d].rec
    BY <1>0, <2>1 DEF Write, TreesOK, Tree
  <2>3. RevokedIn(head'[d]) = RevokedIn(head[d]) /\ RevokedIn(work'[d]) = RevokedIn(work[d])
    BY <2>2 DEF RevokedIn, Has
  <2>4. \A i \in Device \ {d} : head'[i] = head[i] /\ work'[i] = work[i]
    BY <1>0, <2>1 DEF Write, TreesOK
  <2>5. origin' = origin /\ base' = base
    BY <2>1 DEF Write
  <2>. QED BY <2>3, <2>4, <2>5 DEF RevokedInv, RevokedKept, Chain
<1>15. ASSUME NEW d \in Device, PushOnly(d) PROVE RevokedInv' /\ RevokedKept
  BY <1>0, <1>15 DEF PushOnly, RevokedInv, RevokedKept, Chain, TreesOK
<1>16. ASSUME NEW d \in Device, SyncPullOnly(d) \/ Sync(d) PROVE RevokedInv' /\ RevokedKept
  <2>1. Chain(d)
    BY DEF RevokedInv
  <2>. QED BY <1>0, <1>16, <2>1, PulledRevoked
           DEF SyncPullOnly, Sync, Rebase, RevokedInv, RevokedKept, Chain, TreesOK
<1>17. ASSUME NEW d \in Device, FollowGuidance(d) PROVE RevokedInv' /\ RevokedKept
  <2>. DEFINE fps == {r \in Device : work[d].rec["devices", r] = {}}
  <2>1. PICK t \in {PulledHead(d), Merge(base[d], origin, head[d])} :
          LET t1 == PassInit(t, d, Root, fps)
          IN /\ origin' = t1
             /\ base' = [base EXCEPT ![d] = t1]
             /\ head' = [head EXCEPT ![d] = t1]
             /\ work' = [work EXCEPT ![d] = t1]
    BY <1>17 DEF FollowGuidance
  <2>2. Chain(d) /\ t \in Tree
    BY <1>0, PulledType, MergeType DEF RevokedInv, TreesOK
  <2>3. RevokedIn(origin) \subseteq RevokedIn(t)
    BY <1>0, <2>2, PulledRevoked, MergeRevoked DEF TreesOK, Chain
  <2>4. RevokedIn(PassInit(t, d, Root, fps)) = RevokedIn(t)
    <3>1. Root \in Folders /\ fps \in SUBSET Device
      BY DEF Folders
    <3>. HIDE DEF fps
    <3>. QED BY <2>2, <3>1, PassInitRevoked
  <2>. QED BY <1>0, <2>1, <2>3, <2>4 DEF RevokedInv, RevokedKept, Chain, TreesOK
<1>. QED
  BY <1>1, <1>2, <1>3, <1>4, <1>5, <1>6, <1>7, <1>8, <1>9, <1>10, <1>11, <1>12, <1>13, <1>14,
     <1>15, <1>16, <1>17
  DEF Next, Enrolling, Approving, Revoking, Writing, Syncing, StartApprove, StartRevoke

(* No push takes a record out of the origin's revoked/ (I1: a revoked key  *)
(* never comes back, and approve reads revoked/ to refuse it).             *)
THEOREM RevokedRecordsStay == Spec => RevokedForGood
<1>1. Init => RevokedInv
  BY DEF Init, RevokedInv, Chain
<1>2. TypeInv /\ RevokedInv /\ [Next]_vars => RevokedInv' /\ RevokedKept
  BY RevokedStep
<1>3. RevokedKept => [RevokedIn(origin) \subseteq RevokedIn(origin')]_vars
  BY DEF RevokedKept
<1>. QED BY <1>1, <1>2, <1>3, InitType, NextType, PTL DEF Spec, RevokedForGood

-----------------------------------------------------------------------------
(* Consent                                                                 *)
(*                                                                         *)
(* AccessByConsent is not inductive alone: resolve_guidance lists whoever  *)
(* has a device record, and a confirmed approve goes on to list its        *)
(* target. So records and confirmed targets are vouched for too.           *)

Vouched(t) == {r \in Device : \/ \E g \in Folders : r \in t.ids[g]
                              \/ \E e \in Entry : t.blob[e] # None /\ r \in t.blob[e].to
                              \/ Has(t, "devices", r)}

ConsentInv ==
  /\ Vouched(origin) \subseteq consented
  /\ \A d \in Device : /\ Vouched(base[d]) \subseteq consented
                       /\ Vouched(head[d]) \subseteq consented
                       /\ Vouched(work[d]) \subseteq consented
                       /\ At(d, "approving") => cmd[d].target \in consented

LEMMA ReadersVouched ==
  ASSUME NEW t \in Tree
  PROVE  Readers(t) \subseteq Vouched(t)
<1>1. ASSUME NEW r \in ListedAnywhere(t) PROVE r \in Vouched(t)
  BY DEF ListedAnywhere, Vouched, Tree
<1>2. ASSUME NEW e \in Entry, t.blob[e] # None, NEW r \in t.blob[e].to PROVE r \in Vouched(t)
  <2>1. t.blob[e] \in Cipher
    BY <1>2 DEF Tree
  <2>. QED BY <1>2, <2>1 DEF Vouched, Cipher
<1>. QED BY <1>1, <1>2 DEF Readers

LEMMA MergeVouched ==
  ASSUME NEW b \in Tree, NEW ours \in Tree, NEW theirs \in Tree
  PROVE  Vouched(Merge(b, ours, theirs)) \subseteq Vouched(ours) \cup Vouched(theirs)
<1>. DEFINE m == Merge(b, ours, theirs)
<1>1. \A g \in Folders : m.ids[g] \in {ours.ids[g], theirs.ids[g]}
  BY DEF Merge, Merge3, Tree
<1>2. \A e \in Entry : m.blob[e] \in {ours.blob[e], theirs.blob[e]}
  BY DEF Merge, Merge3, Tree
<1>3. \A r \in Device : m.rec[<<"devices", r>>] \in {ours.rec[<<"devices", r>>],
                                                    theirs.rec[<<"devices", r>>]}
  BY DEF Merge, Merge3, Tree, Kind
<1>. HIDE DEF m
<1>. QED BY <1>1, <1>2, <1>3 DEF Vouched, Has, m

LEMMA RecordVouched ==
  ASSUME NEW t \in Tree, NEW d \in Device
  PROVE  /\ \A scope \in Record : /\ Vouched(WriteRecord(t, "pending", d, scope)) = Vouched(t)
                                  /\ Vouched(WriteRecord(t, "devices", d, scope))
                                       \subseteq Vouched(t) \cup {d}
         /\ \A src, dst \in Kind : Vouched(Move(t, src, dst, d)) \subseteq Vouched(t) \cup {d}
         /\ Vouched(Move(t, "devices", "revoked", d)) \subseteq Vouched(t)
<1>1. ASSUME NEW k \in Kind, NEW scope \in Record
      PROVE  /\ WriteRecord(t, k, d, scope).ids = t.ids
             /\ WriteRecord(t, k, d, scope).blob = t.blob
             /\ WriteRecord(t, k, d, scope).rec = [t.rec EXCEPT ![<<k, d>>] = scope]
  BY DEF WriteRecord, Tree
<1>2. ASSUME NEW k \in Kind, NEW scope \in Record
      PROVE  \A r \in Device : Has(WriteRecord(t, k, d, scope), "devices", r)
                                 => Has(t, "devices", r) \/ r = d
  <2>. DEFINE rec == [t.rec EXCEPT ![<<k, d>>] = scope]
  <2>1. ASSUME NEW r \in Device \ {d} PROVE rec[<<"devices", r>>] = t.rec[<<"devices", r>>]
    BY DEF Tree, Kind
  <2>2. WriteRecord(t, k, d, scope).rec = rec
    BY <1>1
  <2>. QED BY <2>1, <2>2 DEF Has
<1>3. ASSUME NEW scope \in Record
      PROVE  \A r \in Device : Has(WriteRecord(t, "pending", d, scope), "devices", r)
                                 <=> Has(t, "devices", r)
  <2>. DEFINE rec == [t.rec EXCEPT ![<<"pending", d>>] = scope]
  <2>1. ASSUME NEW r \in Device PROVE rec[<<"devices", r>>] = t.rec[<<"devices", r>>]
    BY DEF Tree, Kind
  <2>2. WriteRecord(t, "pending", d, scope).rec = rec
    BY <1>1 DEF Kind
  <2>. QED BY <2>1, <2>2 DEF Has
<1>4. ASSUME NEW src \in Kind, NEW dst \in Kind
      PROVE  /\ Move(t, src, dst, d).ids = t.ids
             /\ Move(t, src, dst, d).blob = t.blob
             /\ \A r \in Device \ {d} : Has(Move(t, src, dst, d), "devices", r)
                                          => Has(t, "devices", r)
  <2>. DEFINE moved == [t.rec EXCEPT ![<<src, d>>] = None, ![<<dst, d>>] = t.rec[<<src, d>>]]
  <2>1. ASSUME NEW r \in Device \ {d} PROVE moved[<<"devices", r>>] = t.rec[<<"devices", r>>]
    BY DEF Tree, Kind
  <2>2. Move(t, src, dst, d) = IF Has(t, src, d) THEN [t EXCEPT !.rec = moved] ELSE t
    BY DEF Move
  <2>. HIDE DEF moved
  <2>. QED BY <2>1, <2>2 DEF Has, Tree
<1>5. \A r \in Device : Has(Move(t, "devices", "revoked", d), "devices", r)
                          => Has(t, "devices", r)
  BY DEF Move, Has, Tree, Kind
<1>6. ASSUME NEW scope \in Record
      PROVE  /\ Vouched(WriteRecord(t, "pending", d, scope)) = Vouched(t)
             /\ Vouched(WriteRecord(t, "devices", d, scope)) \subseteq Vouched(t) \cup {d}
  <2>1. "pending" \in Kind /\ "devices" \in Kind
    BY DEF Kind
  <2>2. Vouched(WriteRecord(t, "pending", d, scope)) = Vouched(t)
    BY <1>1, <1>3, <2>1 DEF Vouched
  <2>3. Vouched(WriteRecord(t, "devices", d, scope)) \subseteq Vouched(t) \cup {d}
    BY <1>1, <1>2, <2>1 DEF Vouched
  <2>. QED BY <2>2, <2>3
<1>7. ASSUME NEW src \in Kind, NEW dst \in Kind
      PROVE  Vouched(Move(t, src, dst, d)) \subseteq Vouched(t) \cup {d}
  BY <1>4 DEF Vouched
<1>8. Vouched(Move(t, "devices", "revoked", d)) \subseteq Vouched(t)
  <2>1. "revoked" \in Kind /\ "devices" \in Kind
    BY DEF Kind
  <2>. QED BY <1>4, <1>5, <2>1 DEF Vouched
<1>. QED BY <1>6, <1>7, <1>8

LEMMA RecipientsVouched ==
  ASSUME NEW t \in Tree, NEW e \in Entry
  PROVE  Recipients(t, e) \subseteq Vouched(t)
BY RecipientsType, ReadersVouched DEF Readers

LEMMA PassInitVouched ==
  ASSUME NEW t \in Tree, NEW d \in Device, NEW g \in Folders, NEW ids \in SUBSET Device
  PROVE  Vouched(PassInit(t, d, g, ids)) \subseteq Vouched(t) \cup ids
<1>. DEFINE t1 == [t EXCEPT !.ids[g] = ids]
            t2 == PassInit(t, d, g, ids)
<1>1. t1 \in Tree /\ t1.ids = [t.ids EXCEPT ![g] = ids] /\ t1.blob = t.blob /\ t1.rec = t.rec
  BY DEF Tree
<1>2. Vouched(t1) \subseteq Vouched(t) \cup ids
  BY <1>1 DEF Vouched, Has, Tree
<1>3. ASSUME NEW e \in Entry
      PROVE  \/ t2.blob[e] = t.blob[e]
             \/ t.blob[e] # None /\ t2.blob[e].to = Recipients(t1, e)
  BY <1>1 DEF PassInit, Seal, Tree
<1>4. t2.ids = t1.ids /\ t2.rec = t.rec
  BY <1>1 DEF PassInit, Tree
<1>5. \A e \in Entry : Recipients(t1, e) \subseteq Vouched(t1)
  BY <1>1, RecipientsVouched
<1>. HIDE DEF t1, t2
<1>6. ASSUME NEW r \in Vouched(t2) PROVE r \in Vouched(t1)
  <2>1. CASE \E h \in Folders : r \in t2.ids[h]
    BY <1>4, <2>1, <1>6 DEF Vouched
  <2>2. CASE \E e \in Entry : t2.blob[e] # None /\ r \in t2.blob[e].to
    BY <1>1, <1>3, <1>5, <2>2, <1>6 DEF Vouched
  <2>3. CASE Has(t2, "devices", r)
    BY <1>1, <1>4, <2>3, <1>6 DEF Vouched, Has
  <2>. QED BY <1>6, <2>1, <2>2, <2>3 DEF Vouched
<1>. QED BY <1>2, <1>6 DEF t2

LEMMA PublishConsent ==
  ASSUME TreesOK, ConsentInv, NEW d \in Device, NEW t \in Tree, Publish(d, t),
         Vouched(t) \subseteq consented', consented \subseteq consented'
  PROVE  /\ Vouched(origin') \subseteq consented'
         /\ \A i \in Device : /\ Vouched(base'[i]) \subseteq consented'
                              /\ Vouched(head'[i]) \subseteq consented'
                              /\ Vouched(work'[i]) \subseteq consented'
BY DEF TreesOK, ConsentInv, Publish

LEMMA PassCommitsConsent ==
  ASSUME TreesOK, ConsentInv, NEW d \in Device, NEW g \in Folders, NEW ids \in SUBSET Device,
         PassCommits(d, g, ids), UNCHANGED <<origin, base>>,
         ids \subseteq consented', consented \subseteq consented'
  PROVE  /\ Vouched(origin') \subseteq consented'
         /\ \A i \in Device : /\ Vouched(base'[i]) \subseteq consented'
                              /\ Vouched(head'[i]) \subseteq consented'
                              /\ Vouched(work'[i]) \subseteq consented'
<1>1. /\ Vouched(PassInit(head[d], d, g, ids)) \subseteq Vouched(head[d]) \cup ids
      /\ Vouched(PassInit(work[d], d, g, ids)) \subseteq Vouched(work[d]) \cup ids
  BY PassInitVouched DEF TreesOK
<1>2. /\ Vouched(PassInit(head[d], d, g, ids)) \subseteq consented'
      /\ Vouched(PassInit(work[d], d, g, ids)) \subseteq consented'
  BY <1>1 DEF ConsentInv
<1>. QED BY <1>2 DEF PassCommits, ConsentInv, TreesOK

LEMMA PulledConsent ==
  ASSUME TreesOK, ConsentInv, NEW d \in Device
  PROVE  Vouched(PulledHead(d)) \subseteq consented /\ Vouched(PulledWork(d)) \subseteq consented
<1>1. Vouched(PulledHead(d)) \subseteq Vouched(head[d]) \cup Vouched(origin)
  BY MergeVouched DEF PulledHead, TreesOK
<1>2. Vouched(PulledWork(d)) \subseteq Vouched(work[d]) \cup Vouched(PulledHead(d))
  BY PulledType, MergeVouched DEF PulledWork, TreesOK
<1>. QED BY <1>1, <1>2 DEF ConsentInv

LEMMA ConsentStep == TypeInv /\ ConsentInv /\ [Next]_vars => ConsentInv'
<1>. SUFFICES ASSUME TypeInv, ConsentInv, [Next]_vars PROVE ConsentInv'
  OBVIOUS
<1>0. TreesOK /\ cmd \in [Device -> Command]
  BY DEF TypeInv, TypeOK, TreesOK
<1>aim. ASSUME NEW d \in Device, ~At(d, "idle") PROVE cmd[d].target \in Device
  BY <1>aim DEF TypeInv, Aimed
<1>. DEFINE TreesVouched == /\ Vouched(origin') \subseteq consented'
                            /\ \A i \in Device : /\ Vouched(base'[i]) \subseteq consented'
                                                 /\ Vouched(head'[i]) \subseteq consented'
                                                 /\ Vouched(work'[i]) \subseteq consented'
            Confirmed == \A i \in Device : cmd'[i].step = "approving" => cmd'[i].target \in consented'
<1>inv. TreesVouched /\ Confirmed => ConsentInv'
  BY DEF ConsentInv, At
<1>cmd. ASSUME NEW d \in Device, NEW c, cmd' = cmd \/ cmd' = [cmd EXCEPT ![d] = c],
               c.step # "approving" \/ c.target \in consented', consented \subseteq consented'
        PROVE  Confirmed
  BY <1>0, <1>cmd DEF ConsentInv, At
<1>same. consented' = consented /\ UNCHANGED <<origin, base, head, work>> => TreesVouched
  BY DEF ConsentInv
<1>idle. Idle.step # "approving"
  BY DEF Idle
<1>1. CASE UNCHANGED vars
  <2>1. Confirmed
    BY <1>1 DEF vars, ConsentInv, At
  <2>. QED BY <1>1, <1>inv, <1>same, <2>1 DEF vars
<1>2. ASSUME NEW d \in Device, Genesis(d) PROVE ConsentInv'
  <2>. DEFINE t == PassInit(work[d], d, Root, {d})
              t1 == WriteRecord(t, "devices", d, {})
  <2>1. t \in Tree /\ Vouched(t) \subseteq Vouched(work[d]) \cup {d}
    BY <1>0, PassInitType, PassInitVouched DEF TreesOK, Folders
  <2>2. Publish(d, t1) /\ consented' = consented \cup {d} /\ cmd' = cmd
    BY <1>2 DEF Genesis
  <2>. HIDE DEF t
  <2>3. t1 \in Tree /\ Vouched(t1) \subseteq Vouched(t) \cup {d}
    BY <2>1, RecordType, RecordVouched DEF Kind, Record
  <2>. HIDE DEF t1
  <2>4. Vouched(t1) \subseteq consented'
    BY <2>1, <2>2, <2>3 DEF ConsentInv
  <2>5. TreesVouched
    BY <1>0, <2>2, <2>3, <2>4, PublishConsent
  <2>. QED BY <1>inv, <1>cmd, <1>idle, <2>2, <2>5
<1>3. ASSUME NEW d \in Device, Adopt(d) PROVE ConsentInv'
  <2>. DEFINE t == WriteRecord(work[d], "devices", d, {})
  <2>1. d \in Vouched(work[d])
    BY <1>3 DEF Adopt, EnrolledByKey, Vouched, Folders
  <2>2. t \in Tree /\ Vouched(t) \subseteq Vouched(work[d]) \cup {d}
    BY <1>0, RecordType, RecordVouched DEF TreesOK, Kind, Record
  <2>3. Publish(d, t) /\ consented' = consented /\ cmd' = cmd
    BY <1>3 DEF Adopt
  <2>. HIDE DEF t
  <2>4. Vouched(t) \subseteq consented'
    BY <2>1, <2>2, <2>3 DEF ConsentInv
  <2>5. TreesVouched
    BY <1>0, <2>2, <2>3, <2>4, PublishConsent
  <2>. QED BY <1>inv, <1>cmd, <1>idle, <2>3, <2>5
<1>4. ASSUME NEW d \in Device, NEW scope \in SUBSET Folder, Request(d, scope) PROVE ConsentInv'
  <2>. DEFINE t == WriteRecord(work[d], "pending", d, scope)
  <2>0. work[d] \in Tree /\ scope \in Record
    BY <1>0 DEF TreesOK, Record
  <2>1. t \in Tree /\ Vouched(t) = Vouched(work[d])
    <3>1. t \in Tree
      BY <2>0, RecordType DEF Kind
    <3>2. Vouched(t) = Vouched(work[d])
      BY <2>0, RecordVouched
    <3>. QED BY <3>1, <3>2
  <2>2. Publish(d, t) /\ consented' = consented /\ cmd' = cmd
    BY <1>4 DEF Request
  <2>. HIDE DEF t
  <2>3. TreesVouched
    BY <1>0, <2>1, <2>2, PublishConsent DEF ConsentInv
  <2>. QED BY <1>inv, <1>cmd, <1>idle, <2>2, <2>3
<1>begin. ASSUME NEW d \in Device, Begin(d, PulledWork(d))
          PROVE  TreesVouched /\ consented' = consented
  BY <1>0, <1>begin, PulledConsent DEF Begin, ConsentInv, TreesOK
<1>ask. ASSUME NEW t, NEW only, NEW queue, NEW next \in AskNext(t, only, queue)
        PROVE  next.step # "approving"
  <2>1. CASE next = Idle
    BY <2>1, <1>idle
  <2>2. CASE next # Idle
    <3>1. PICK r : \E ready, scope : next = [Idle EXCEPT !.step = "approve", !.target = r,
                       !.queue = ready \ {r}, !.only = only, !.scope = scope]
      BY <1>ask, <2>2 DEF AskNext
    <3>. QED BY <3>1 DEF Idle
  <2>. QED BY <2>1, <2>2
<1>5. ASSUME NEW d \in Device, NEW asked \in SUBSET Device, NEW only \in SUBSET Folder,
             StartApprove(d, asked, only)
      PROVE  ConsentInv'
  <2>1. PICK next \in AskNext(PulledWork(d), only, asked) : cmd' = [cmd EXCEPT ![d] = next]
    BY <1>5 DEF StartApprove
  <2>2. TreesVouched /\ consented' = consented
    BY <1>5, <1>begin DEF StartApprove
  <2>. QED BY <1>inv, <1>cmd, <1>ask, <2>1, <2>2
<1>6. ASSUME NEW d \in Device, Decline(d) PROVE ConsentInv'
  <2>1. PICK next \in AskNext(work[d], cmd[d].only, cmd[d].queue) : cmd' = [cmd EXCEPT ![d] = next]
    BY <1>6 DEF Decline
  <2>2. consented' = consented /\ UNCHANGED <<origin, base, head, work>>
    BY <1>6 DEF Decline
  <2>. QED BY <1>inv, <1>same, <1>cmd, <1>ask, <2>1, <2>2
<1>7. ASSUME NEW d \in Device, ConfirmApprove(d) PROVE ConsentInv'
  <2>. DEFINE r == cmd[d].target
              c == [cmd[d] EXCEPT !.step = "approving",
                                  !.todo = IF cmd[d].scope = {}
                                           THEN {f \in Folder : work[d].ids[f] # {}}
                                           ELSE cmd[d].scope]
  <2>1. r \in Device /\ consented' = consented \cup {r}
    BY <1>7, <1>aim DEF ConfirmApprove, At
  <2>2. cmd' = [cmd EXCEPT ![d] = c] /\ c.target = r
    <3>1. cmd[d] \in Command
      BY <1>0
    <3>2. c.target = r
      BY <3>1 DEF Command
    <3>3. cmd' = [cmd EXCEPT ![d] = c]
      BY <1>0, <1>7 DEF ConfirmApprove
    <3>. QED BY <3>2, <3>3
  <2>3. work[d].ids[Root] \subseteq Vouched(work[d]) /\ work[d].ids[Root] \in SUBSET Device
    BY <1>0 DEF TreesOK, Tree, Vouched, Folders
  <2>4. work[d].ids[Root] \cup {r} \subseteq consented'
    BY <2>1, <2>3 DEF ConsentInv
  <2>5. TreesVouched
    <3>1. CASE PassCommits(d, Root, work[d].ids[Root] \cup {r}) /\ UNCHANGED <<origin, base>>
      BY <1>0, <2>1, <2>3, <2>4, <3>1, PassCommitsConsent DEF Folders
    <3>2. CASE UNCHANGED <<origin, base, head, work>>
      BY <2>1, <3>2 DEF ConsentInv
    <3>. QED BY <1>7, <3>1, <3>2 DEF ConfirmApprove
  <2>. HIDE DEF c
  <2>. QED BY <1>inv, <1>cmd, <2>1, <2>2, <2>5
<1>8. ASSUME NEW d \in Device, NEW f \in Folder, ApproveFolder(d, f) PROVE ConsentInv'
  <2>. DEFINE r == cmd[d].target
              own == work[d].ids[f]
              ids == IF own = {} /\ cmd[d].scope # {} THEN work[d].ids[Root] ELSE own
              c == [cmd[d] EXCEPT !.todo = @ \ {f}]
  <2>1. r \in Device /\ r \in consented /\ consented' = consented
    BY <1>8, <1>aim DEF ApproveFolder, At, ConsentInv
  <2>2. cmd' = [cmd EXCEPT ![d] = c] /\ c.target = r
    <3>1. cmd[d] \in Command
      BY <1>0
    <3>2. c.target = r
      BY <3>1 DEF Command
    <3>3. cmd' = [cmd EXCEPT ![d] = c]
      BY <1>0, <1>8 DEF ApproveFolder
    <3>. QED BY <3>2, <3>3
  <2>3. ids \subseteq Vouched(work[d]) /\ ids \in SUBSET Device
    BY <1>0 DEF TreesOK, Tree, Vouched, Folders
  <2>4. PassCommits(d, f, ids \cup {r}) /\ UNCHANGED <<origin, base>>
    BY <1>8 DEF ApproveFolder
  <2>. HIDE DEF ids
  <2>5. ids \cup {r} \subseteq consented'
    BY <2>1, <2>3 DEF ConsentInv
  <2>6. TreesVouched
    BY <1>0, <2>1, <2>3, <2>4, <2>5, PassCommitsConsent DEF Folders
  <2>. HIDE DEF c
  <2>. QED BY <1>inv, <1>cmd, <2>1, <2>2, <2>6
<1>9. ASSUME NEW d \in Device, FinishApprove(d) PROVE ConsentInv'
  <2>. DEFINE r == cmd[d].target
              t == Move(work[d], "pending", "devices", r)
              t1 == WriteRecord(t, "devices", r, cmd[d].scope)
  <2>1. r \in Device /\ r \in consented /\ consented' = consented /\ cmd[d].scope \in Record
    BY <1>0, <1>9, <1>aim DEF FinishApprove, At, ConsentInv, Command, Record
  <2>2. t \in Tree /\ Vouched(t) \subseteq Vouched(work[d]) \cup {r}
    BY <1>0, <2>1, RecordType, RecordVouched DEF TreesOK, Kind
  <2>3. PICK next \in AskNext(t1, cmd[d].only, cmd[d].queue) : cmd' = [cmd EXCEPT ![d] = next]
    BY <1>9 DEF FinishApprove
  <2>4. Publish(d, t1)
    BY <1>9 DEF FinishApprove
  <2>. HIDE DEF t
  <2>5. t1 \in Tree /\ Vouched(t1) \subseteq Vouched(t) \cup {r}
    <3>1. t1 \in Tree
      BY <2>1, <2>2, RecordType DEF Kind
    <3>2. Vouched(t1) \subseteq Vouched(t) \cup {r}
      BY <2>1, <2>2, RecordVouched
    <3>. QED BY <3>1, <3>2
  <2>. HIDE DEF t1
  <2>6. Vouched(t1) \subseteq consented'
    BY <2>1, <2>2, <2>5 DEF ConsentInv
  <2>7. TreesVouched
    BY <1>0, <2>1, <2>4, <2>5, <2>6, PublishConsent
  <2>. QED BY <1>inv, <1>cmd, <1>ask, <2>1, <2>3, <2>7
<1>10. ASSUME NEW d \in Device, NEW r \in Device, StartRevoke(d, r) PROVE ConsentInv'
  <2>. DEFINE c == [Idle EXCEPT !.step = "revoke", !.target = r,
                                !.scope = PulledWork(d).rec["devices", r],
                                !.earlier = PulledWork(d).rot]
  <2>1. TreesVouched /\ consented' = consented
    BY <1>10, <1>begin DEF StartRevoke
  <2>2. cmd' = [cmd EXCEPT ![d] = c] /\ c.step # "approving"
    BY <1>10 DEF StartRevoke, Idle
  <2>. QED BY <1>inv, <1>cmd, <2>1, <2>2
<1>11. ASSUME NEW d \in Device, ConfirmRevoke(d) PROVE ConsentInv'
  <2>. DEFINE keep == work[d].ids[Root] \ {cmd[d].target}
              c == [cmd[d] EXCEPT !.step = "revoking", !.keep = keep,
                                  !.entries = ReadableOnce(head[d], cmd[d].scope),
                                  !.todo = {f \in Folder : cmd[d].target \in work[d].ids[f]}]
  <2>1. keep \subseteq Vouched(work[d]) /\ keep \in SUBSET Device
    BY <1>0 DEF TreesOK, Tree, Vouched, Folders
  <2>2. cmd' = [cmd EXCEPT ![d] = c] /\ consented' = consented
    BY <1>0, <1>11 DEF ConfirmRevoke
  <2>3. c.step # "approving"
    BY <1>0 DEF Command
  <2>4. keep \subseteq consented'
    BY <2>1, <2>2 DEF ConsentInv
  <2>5. TreesVouched
    <3>1. CASE PassCommits(d, Root, keep) /\ UNCHANGED <<origin, base>>
      BY <1>0, <2>1, <2>2, <2>4, <3>1, PassCommitsConsent DEF Folders
    <3>2. CASE UNCHANGED <<origin, base, head, work>>
      BY <1>same, <2>2, <3>2
    <3>. QED BY <1>11, <3>1, <3>2 DEF ConfirmRevoke
  <2>. HIDE DEF c
  <2>. QED BY <1>inv, <1>cmd, <2>2, <2>3, <2>5
<1>12. ASSUME NEW d \in Device, NEW f \in Folder, RevokeFolder(d, f) PROVE ConsentInv'
  <2>. DEFINE left == work[d].ids[f] \ {cmd[d].target}
              ids == IF left = cmd[d].keep THEN {} ELSE left
              c == [cmd[d] EXCEPT !.todo = @ \ {f}]
  <2>1. ids \subseteq Vouched(work[d]) /\ ids \in SUBSET Device
    BY <1>0 DEF TreesOK, Tree, Vouched, Folders
  <2>2. /\ cmd' = [cmd EXCEPT ![d] = c] /\ consented' = consented
        /\ PassCommits(d, f, ids) /\ UNCHANGED <<origin, base>>
    BY <1>0, <1>12 DEF RevokeFolder
  <2>3. c.step # "approving"
    BY <1>0, <1>12 DEF RevokeFolder, At, Command
  <2>. HIDE DEF ids
  <2>4. ids \subseteq consented'
    BY <2>1, <2>2 DEF ConsentInv
  <2>5. TreesVouched
    BY <1>0, <2>1, <2>2, <2>4, PassCommitsConsent DEF Folders
  <2>. HIDE DEF c
  <2>. QED BY <1>inv, <1>cmd, <2>2, <2>3, <2>5
<1>13. ASSUME NEW d \in Device, MoveToRevoked(d) PROVE ConsentInv'
  <2>. DEFINE c == [cmd[d] EXCEPT !.step = "record"]
              t == Move(work[d], "devices", "revoked", cmd[d].target)
  <2>1. Vouched(t) \subseteq Vouched(work[d])
    BY <1>0, <1>13, <1>aim, RecordVouched DEF MoveToRevoked, At, TreesOK
  <2>2. /\ cmd' = [cmd EXCEPT ![d] = c] /\ consented' = consented
        /\ work' = [work EXCEPT ![d] = t] /\ UNCHANGED <<origin, base, head>>
    BY <1>0, <1>13 DEF MoveToRevoked
  <2>3. c.step # "approving"
    BY <1>0 DEF Command
  <2>. HIDE DEF c, t
  <2>4. TreesVouched
    BY <1>0, <2>1, <2>2 DEF ConsentInv, TreesOK
  <2>. QED BY <1>inv, <1>cmd, <2>2, <2>3, <2>4
<1>14. ASSUME NEW d \in Device, RecordRotation(d) PROVE ConsentInv'
  <2>. DEFINE rot == cmd[d].earlier \cup {[device |-> cmd[d].target, entries |-> cmd[d].entries]}
              t == [work[d] EXCEPT !.rot = rot]
  <2>1. rot \in SUBSET RotationEntry
    BY <1>0, <1>14, <1>aim DEF RecordRotation, At, Command, RotationEntry
  <2>2. t \in Tree /\ t.ids = work[d].ids /\ t.blob = work[d].blob /\ t.rec = work[d].rec
    BY <1>0, <2>1 DEF TreesOK, Tree
  <2>3. Publish(d, t) /\ cmd' = [cmd EXCEPT ![d] = Idle] /\ consented' = consented
    BY <1>14 DEF RecordRotation
  <2>. HIDE DEF t
  <2>4. Vouched(t) = Vouched(work[d])
    BY <2>2 DEF Vouched, Has
  <2>5. TreesVouched
    BY <1>0, <2>2, <2>3, <2>4, PublishConsent DEF ConsentInv
  <2>. QED BY <1>inv, <1>cmd, <1>idle, <2>3, <2>5
<1>15. ASSUME NEW d \in Device, Abandon(d) PROVE ConsentInv'
  BY <1>15, <1>inv, <1>same, <1>cmd, <1>idle DEF Abandon
<1>16. ASSUME NEW d \in Device, NEW e \in Entry, Insert(d, e) \/ Edit(d, e) PROVE ConsentInv'
  <2>1. PICK c : Write(d, e, c) /\ c.to = Recipients(work[d], e)
    BY <1>16 DEF Insert, Edit, Seal
  <2>2. Recipients(work[d], e) \subseteq Vouched(work[d])
    BY <1>0, RecipientsVouched DEF TreesOK
  <2>3. ASSUME NEW t \in Tree
        PROVE  Vouched([t EXCEPT !.blob[e] = c]) \subseteq Vouched(t) \cup Vouched(work[d])
    <3>. DEFINE t1 == [t EXCEPT !.blob[e] = c]
    <3>1. t1.ids = t.ids /\ t1.rec = t.rec /\ \A x \in Entry \ {e} : t1.blob[x] = t.blob[x]
      BY DEF Tree
    <3>2. t1.blob[e] = c
      BY DEF Tree
    <3>. HIDE DEF t1
    <3>3. Vouched(t1) \subseteq Vouched(t) \cup c.to
      BY <3>1, <3>2 DEF Vouched, Has
    <3>. QED BY <2>1, <2>2, <3>3 DEF t1
  <2>4. /\ head' = [head EXCEPT ![d] = [head[d] EXCEPT !.blob[e] = c]]
        /\ work' = [work EXCEPT ![d] = [work[d] EXCEPT !.blob[e] = c]]
        /\ UNCHANGED <<origin, base, cmd, consented>>
    BY <1>0, <2>1 DEF Write, TreesOK
  <2>5. head[d] \in Tree /\ work[d] \in Tree
    BY <1>0 DEF TreesOK
  <2>6. Vouched(head'[d]) \subseteq consented /\ Vouched(work'[d]) \subseteq consented
    <3>1. /\ head'[d] = [head[d] EXCEPT !.blob[e] = c]
          /\ work'[d] = [work[d] EXCEPT !.blob[e] = c]
      BY <1>0, <2>4 DEF TreesOK
    <3>2. /\ Vouched(head'[d]) \subseteq Vouched(head[d]) \cup Vouched(work[d])
          /\ Vouched(work'[d]) \subseteq Vouched(work[d])
      BY <2>3, <2>5, <3>1
    <3>. QED BY <3>2 DEF ConsentInv
  <2>7. TreesVouched
    BY <1>0, <2>4, <2>6 DEF ConsentInv, TreesOK
  <2>. QED BY <1>inv, <1>cmd, <1>idle, <2>4, <2>7
<1>17. ASSUME NEW d \in Device, PushOnly(d) \/ SyncPullOnly(d) \/ Sync(d) PROVE ConsentInv'
  <2>1. cmd' = cmd /\ consented' = consented
    BY <1>17 DEF PushOnly, SyncPullOnly, Sync, Rebase
  <2>2. TreesVouched
    BY <1>0, <1>17, PulledConsent DEF PushOnly, SyncPullOnly, Sync, Rebase, ConsentInv, TreesOK
  <2>. QED BY <1>inv, <1>cmd, <1>idle, <2>1, <2>2
<1>18. ASSUME NEW d \in Device, FollowGuidance(d) PROVE ConsentInv'
  <2>. DEFINE fps == {r \in Device : work[d].rec["devices", r] = {}}
  <2>1. PICK t \in {PulledHead(d), Merge(base[d], origin, head[d])} :
          LET t1 == PassInit(t, d, Root, fps)
          IN /\ origin' = t1
             /\ base' = [base EXCEPT ![d] = t1]
             /\ head' = [head EXCEPT ![d] = t1]
             /\ work' = [work EXCEPT ![d] = t1]
    BY <1>18 DEF FollowGuidance
  <2>. DEFINE t1 == PassInit(t, d, Root, fps)
  <2>2. t \in Tree /\ Vouched(t) \subseteq consented
    <3>1. CASE t = PulledHead(d)
      BY <1>0, <3>1, PulledType, PulledConsent
    <3>2. CASE t = Merge(base[d], origin, head[d])
      <4>1. t \in Tree
        BY <1>0, <3>2, MergeType DEF TreesOK
      <4>2. Vouched(t) \subseteq Vouched(origin) \cup Vouched(head[d])
        BY <1>0, <3>2, MergeVouched DEF TreesOK
      <4>. QED BY <4>1, <4>2 DEF ConsentInv
    <3>. QED BY <2>1, <3>1, <3>2
  <2>3. fps \subseteq Vouched(work[d]) /\ fps \in SUBSET Device
    BY DEF Vouched, Has
  <2>4. Vouched(t1) \subseteq consented
    <3>. HIDE DEF fps
    <3>1. Vouched(t1) \subseteq Vouched(t) \cup fps
      BY <2>2, <2>3, PassInitVouched DEF Folders
    <3>. HIDE DEF t1
    <3>. QED BY <2>2, <2>3, <3>1 DEF ConsentInv
  <2>5. /\ origin' = t1 /\ base' = [base EXCEPT ![d] = t1]
        /\ head' = [head EXCEPT ![d] = t1] /\ work' = [work EXCEPT ![d] = t1]
        /\ cmd' = cmd /\ consented' = consented
    BY <1>18, <2>1 DEF FollowGuidance
  <2>. HIDE DEF t1
  <2>6. TreesVouched
    BY <1>0, <2>4, <2>5 DEF ConsentInv, TreesOK
  <2>. QED BY <1>inv, <1>cmd, <1>idle, <2>5, <2>6
<1>. QED
  BY <1>1, <1>2, <1>3, <1>4, <1>5, <1>6, <1>7, <1>8, <1>9, <1>10, <1>11, <1>12, <1>13, <1>14,
     <1>15, <1>16, <1>17, <1>18
  DEF Next, Enrolling, Approving, Revoking, Writing, Syncing

LEMMA ConsentInit == Init => ConsentInv
<1>. SUFFICES ASSUME Init PROVE ConsentInv
  OBVIOUS
<1>1. Vouched(EmptyTree) = {}
  BY DEF Vouched, Has, EmptyTree, Kind
<1>2. Vouched(Founded(Members, Stored)) \subseteq Members
  <2>. DEFINE t == Founded(Members, Stored)
  <2>1. \A g \in Folders : t.ids[g] \subseteq Members
    BY DEF Founded, EmptyTree, Folders
  <2>2. \A e \in Entry : t.blob[e] # None => t.blob[e].to = Members
    BY DEF Founded, EmptyTree
  <2>3. \A r \in Device : Has(t, "devices", r) => r \in Members
    BY DEF Founded, EmptyTree, Has, Kind
  <2>. HIDE DEF t
  <2>. QED BY <2>1, <2>2, <2>3 DEF Vouched, t
<1>. DEFINE t == IF Members = {} THEN EmptyTree ELSE Founded(Members, Stored)
<1>3. Vouched(t) \subseteq Members
  BY <1>1, <1>2
<1>4. /\ origin = t /\ consented = Members
      /\ \A d \in Device : base[d] = t /\ head[d] = t /\ work[d] = t /\ cmd[d] = Idle
  BY DEF Init
<1>. HIDE DEF t
<1>. QED BY <1>3, <1>4 DEF ConsentInv, At, Idle

(* Approval is by hand: whatever is merged, interrupted, adopted, resolved *)
(* or re-encrypted, no .gpg-id and no ciphertext of any clone or of the    *)
(* origin names a key that no user said yes to (approve's confirm).        *)
THEOREM ApprovalByHand == Spec => []AccessByConsent
<1>1. TypeInv /\ ConsentInv => AccessByConsent
  <2>. SUFFICES ASSUME TypeInv, ConsentInv PROVE AccessByConsent
    OBVIOUS
  <2>1. TreesOK
    BY DEF TypeInv, TypeOK, TreesOK
  <2>2. Readers(origin) \subseteq consented
    BY <2>1, ReadersVouched DEF TreesOK, ConsentInv
  <2>3. ASSUME NEW d \in Device
        PROVE  Readers(base[d]) \cup Readers(head[d]) \cup Readers(work[d]) \subseteq consented
    BY <2>1, ReadersVouched DEF TreesOK, ConsentInv
  <2>. QED BY <2>2, <2>3 DEF AccessByConsent
<1>. QED BY <1>1, InitType, NextType, ConsentInit, ConsentStep, PTL DEF Spec

-----------------------------------------------------------------------------
(* What a merge takes                                                      *)

(* A side that changed nothing takes the other's tree.                     *)
LEMMA MergeOfUnchanged ==
  ASSUME NEW b \in Tree, NEW theirs \in Tree
  PROVE  Merge(b, b, theirs) = theirs
BY DEF Merge, Merge3, Tree

(* A merged ciphertext is the origin's, or it is ours and the origin's is  *)
(* still the one we started from.                                          *)
LEMMA MergedEntry ==
  ASSUME NEW b \in Tree, NEW ours \in Tree, NEW theirs \in Tree, NEW e \in Entry,
         ~Clash(b, ours, theirs)
  PROVE  \/ Merge(b, ours, theirs).blob[e] = theirs.blob[e]
         \/ /\ Merge(b, ours, theirs).blob[e] = ours.blob[e]
            /\ theirs.blob[e] = b.blob[e]
BY DEF Merge, Merge3, Clash, Clash3, Tree

-----------------------------------------------------------------------------
(* What the revoke closed                                                  *)
(*                                                                         *)
(* Only records and rotation.json ever wait uncommitted in a clone: what a *)
(* command publishes has the lists and ciphertexts of its HEAD.            *)

SameSecrets(t, u) == t.ids = u.ids /\ t.blob = u.blob

CommittedInv == \A d \in Device : SameSecrets(work[d], head[d])

LEMMA PassInitSame ==
  ASSUME NEW t \in Tree, NEW u \in Tree, SameSecrets(t, u),
         NEW d \in Device, NEW g \in Folders, NEW ids \in SUBSET Device
  PROVE  SameSecrets(PassInit(t, d, g, ids), PassInit(u, d, g, ids))
<1>. DEFINE t1 == [t EXCEPT !.ids[g] = ids]
            u1 == [u EXCEPT !.ids[g] = ids]
<1>1. t1.ids = u1.ids /\ t1.blob = t.blob /\ u1.blob = u.blob
  BY DEF SameSecrets, Tree
<1>2. \A e \in Entry : Recipients(t1, e) = Recipients(u1, e)
  BY <1>1 DEF Recipients, Governing
<1>. HIDE DEF t1, u1
<1>3. [e \in Entry |-> IF /\ g \in {Root, Home[e]}
                          /\ t.blob[e] # None
                          /\ t.blob[e].to # Recipients(t1, e)
                          /\ d \in t.blob[e].to
                       THEN Seal(t.blob[e], d, Recipients(t1, e)) ELSE t.blob[e]]
      = [e \in Entry |-> IF /\ g \in {Root, Home[e]}
                            /\ u.blob[e] # None
                            /\ u.blob[e].to # Recipients(u1, e)
                            /\ d \in u.blob[e].to
                         THEN Seal(u.blob[e], d, Recipients(u1, e)) ELSE u.blob[e]]
  BY <1>2 DEF SameSecrets
<1>4. t1 \in Tree /\ u1 \in Tree
  BY DEF t1, u1, Tree
<1>. QED BY <1>1, <1>3, <1>4 DEF PassInit, SameSecrets, t1, u1, Tree

LEMMA PulledSecrets ==
  ASSUME TreesOK, NEW d \in Device, SameSecrets(work[d], head[d])
  PROVE  SameSecrets(PulledWork(d), PulledHead(d))
<1>1. PulledHead(d) \in Tree /\ head[d] \in Tree /\ work[d] \in Tree
  BY PulledType DEF TreesOK
<1>. QED BY <1>1 DEF PulledWork, Merge, Merge3, SameSecrets, Tree

LEMMA RecordSecrets ==
  ASSUME NEW t \in Tree, NEW d \in Device
  PROVE  /\ \A k \in Kind, scope \in Record : SameSecrets(WriteRecord(t, k, d, scope), t)
         /\ \A src, dst \in Kind : SameSecrets(Move(t, src, dst, d), t)
<1>1. ASSUME NEW k \in Kind, NEW scope \in Record
      PROVE  SameSecrets(WriteRecord(t, k, d, scope), t)
  BY DEF WriteRecord, SameSecrets, Tree
<1>2. ASSUME NEW src \in Kind, NEW dst \in Kind
      PROVE  SameSecrets(Move(t, src, dst, d), t)
  BY DEF Move, SameSecrets, Tree
<1>. QED BY <1>1, <1>2

(* The body of NeverReopened, as a step predicate.                         *)
ClosedKept ==
  \A r \in Device, e \in Entry :
    CannotRead(origin, r, e) /\ ~CannotRead(origin', r, e)
      => \E d \in Device : CannotRead(base[d], r, e) /\ ~CannotRead(head[d], r, e)

LEMMA SameReaders ==
  ASSUME NEW t, NEW u, t.blob = u.blob
  PROVE  \A r \in Device, e \in Entry : CannotRead(t, r, e) <=> CannotRead(u, r, e)
BY DEF CannotRead

LEMMA PublishClosed ==
  ASSUME TreesOK, CommittedInv, NEW d \in Device, NEW t \in Tree, Publish(d, t),
         SameSecrets(t, work[d]) \/ \A r \in Device, e \in Entry : CannotRead(t, r, e)
  PROVE  CommittedInv' /\ ClosedKept
<1>1. CommittedInv'
  BY DEF Publish, CommittedInv, SameSecrets, TreesOK
<1>2. ClosedKept
  <2>. SUFFICES ASSUME NEW r \in Device, NEW e \in Entry,
                       CannotRead(origin, r, e), ~CannotRead(origin', r, e)
                PROVE  CannotRead(base[d], r, e) /\ ~CannotRead(head[d], r, e)
    BY DEF ClosedKept
  <2>1. origin = base[d] /\ origin' = t
    BY DEF Publish
  <2>2. t.blob = head[d].blob
    BY <2>1 DEF CommittedInv, SameSecrets
  <2>. QED BY <2>1, <2>2, SameReaders
<1>. QED BY <1>1, <1>2

LEMMA PassCommitsSame ==
  ASSUME TreesOK, CommittedInv, NEW d \in Device, NEW g \in Folders, NEW ids \in SUBSET Device,
         PassCommits(d, g, ids)
  PROVE  CommittedInv'
<1>1. SameSecrets(PassInit(work[d], d, g, ids), PassInit(head[d], d, g, ids))
  BY PassInitSame DEF TreesOK, CommittedInv
<1>. QED BY <1>1 DEF PassCommits, CommittedInv, TreesOK

LEMMA OriginKept ==
  ASSUME origin' = origin
  PROVE  ClosedKept
BY DEF ClosedKept

LEMMA UntouchedSecrets ==
  ASSUME CommittedInv, UNCHANGED <<origin, head, work>>
  PROVE  CommittedInv' /\ ClosedKept
BY OriginKept DEF CommittedInv

LEMMA ClosedStep ==
  ASSUME ManualResolve = FALSE, TypeInv, CommittedInv, [Next]_vars
  PROVE  CommittedInv' /\ ClosedKept
<1>0. TreesOK
  BY DEF TypeInv, TypeOK, TreesOK
<1>aim. ASSUME NEW d \in Device, ~At(d, "idle") PROVE cmd[d].target \in Device
  BY <1>aim DEF TypeInv, Aimed
<1>1. CASE UNCHANGED vars
  BY <1>1, UntouchedSecrets DEF vars
<1>2. ASSUME NEW d \in Device, Genesis(d) PROVE CommittedInv' /\ ClosedKept
  <2>. DEFINE t == PassInit(work[d], d, Root, {d})
              u == WriteRecord(t, "devices", d, {})
  <2>1. t \in Tree
    BY <1>0, PassInitType DEF TreesOK, Folders
  <2>2. \A e \in Entry : t.blob[e] = None
    BY <1>0, <1>2 DEF Genesis, PassInit, TreesOK, Tree
  <2>3. Publish(d, u)
    BY <1>2 DEF Genesis
  <2>. HIDE DEF t
  <2>4. u \in Tree /\ SameSecrets(u, t)
    BY <2>1, RecordType, RecordSecrets DEF Kind, Record
  <2>5. \A r \in Device, e \in Entry : CannotRead(u, r, e)
    BY <2>2, <2>4 DEF CannotRead, SameSecrets
  <2>. HIDE DEF u
  <2>. QED BY <1>0, <2>3, <2>4, <2>5, PublishClosed
<1>3. ASSUME NEW d \in Device, Adopt(d) PROVE CommittedInv' /\ ClosedKept
  <2>. DEFINE t == WriteRecord(work[d], "devices", d, {})
  <2>1. t \in Tree /\ SameSecrets(t, work[d])
    BY <1>0, RecordType, RecordSecrets DEF TreesOK, Kind, Record
  <2>2. Publish(d, t)
    BY <1>3 DEF Adopt
  <2>. HIDE DEF t
  <2>. QED BY <1>0, <2>1, <2>2, PublishClosed
<1>4. ASSUME NEW d \in Device, NEW scope \in SUBSET Folder, Request(d, scope)
      PROVE  CommittedInv' /\ ClosedKept
  <2>. DEFINE t == WriteRecord(work[d], "pending", d, scope)
  <2>1. t \in Tree /\ SameSecrets(t, work[d])
    BY <1>0, RecordType, RecordSecrets DEF TreesOK, Kind, Record
  <2>2. Publish(d, t)
    BY <1>4 DEF Request
  <2>. HIDE DEF t
  <2>. QED BY <1>0, <2>1, <2>2, PublishClosed
<1>5. ASSUME NEW d \in Device, Begin(d, PulledWork(d)) PROVE CommittedInv' /\ ClosedKept
  <2>1. SameSecrets(PulledWork(d), PulledHead(d))
    BY <1>0, PulledSecrets DEF CommittedInv
  <2>2. CommittedInv'
    BY <1>0, <1>5, <2>1 DEF Begin, CommittedInv, TreesOK
  <2>. QED BY <1>5, <2>2, OriginKept DEF Begin
<1>6. ASSUME NEW d \in Device, Decline(d) \/ Abandon(d) PROVE CommittedInv' /\ ClosedKept
  BY <1>6, UntouchedSecrets DEF Decline, Abandon
<1>7. ASSUME NEW d \in Device, ConfirmApprove(d) PROVE CommittedInv' /\ ClosedKept
  <2>1. work[d].ids[Root] \cup {cmd[d].target} \in SUBSET Device
    BY <1>0, <1>7, <1>aim DEF TreesOK, Tree, Folders, ConfirmApprove, At
  <2>. QED BY <1>0, <1>7, <2>1, PassCommitsSame, UntouchedSecrets, OriginKept
           DEF ConfirmApprove, Folders
<1>8. ASSUME NEW d \in Device, NEW f \in Folder, ApproveFolder(d, f)
      PROVE  CommittedInv' /\ ClosedKept
  <2>. DEFINE own == work[d].ids[f]
              ids == IF own = {} /\ cmd[d].scope # {} THEN work[d].ids[Root] ELSE own
  <2>1. ids \cup {cmd[d].target} \in SUBSET Device
    BY <1>0, <1>8, <1>aim DEF TreesOK, Tree, Folders, ApproveFolder, At
  <2>. QED BY <1>0, <1>8, <2>1, PassCommitsSame, OriginKept DEF ApproveFolder, Folders
<1>9. ASSUME NEW d \in Device, FinishApprove(d) PROVE CommittedInv' /\ ClosedKept
  <2>. DEFINE r == cmd[d].target
              t == Move(work[d], "pending", "devices", r)
              u == WriteRecord(t, "devices", r, cmd[d].scope)
  <2>1. r \in Device /\ cmd[d].scope \in Record
    BY <1>9, <1>aim DEF FinishApprove, At, TypeInv, TypeOK, Command, Record
  <2>2. t \in Tree /\ SameSecrets(t, work[d])
    BY <1>0, <2>1, RecordType, RecordSecrets DEF TreesOK, Kind
  <2>3. Publish(d, u)
    BY <1>9 DEF FinishApprove
  <2>. HIDE DEF t
  <2>4. u \in Tree /\ SameSecrets(u, t)
    BY <2>1, <2>2, RecordType, RecordSecrets DEF Kind
  <2>. HIDE DEF u
  <2>. QED BY <1>0, <2>2, <2>3, <2>4, PublishClosed DEF SameSecrets
<1>10. ASSUME NEW d \in Device, ConfirmRevoke(d) PROVE CommittedInv' /\ ClosedKept
  <2>1. work[d].ids[Root] \ {cmd[d].target} \in SUBSET Device
    BY <1>0 DEF TreesOK, Tree, Folders
  <2>. QED BY <1>0, <1>10, <2>1, PassCommitsSame, UntouchedSecrets, OriginKept
           DEF ConfirmRevoke, Folders
<1>11. ASSUME NEW d \in Device, NEW f \in Folder, RevokeFolder(d, f)
       PROVE  CommittedInv' /\ ClosedKept
  <2>. DEFINE left == work[d].ids[f] \ {cmd[d].target}
  <2>1. (IF left = cmd[d].keep THEN {} ELSE left) \in SUBSET Device
    BY <1>0 DEF TreesOK, Tree, Folders
  <2>. QED BY <1>0, <1>11, <2>1, PassCommitsSame, OriginKept DEF RevokeFolder, Folders
<1>12. ASSUME NEW d \in Device, MoveToRevoked(d) PROVE CommittedInv' /\ ClosedKept
  <2>1. SameSecrets(Move(work[d], "devices", "revoked", cmd[d].target), work[d])
    BY <1>0, <1>12, <1>aim, RecordSecrets DEF MoveToRevoked, At, TreesOK, Kind
  <2>2. CommittedInv'
    BY <1>0, <1>12, <2>1 DEF MoveToRevoked, CommittedInv, SameSecrets, TreesOK
  <2>. QED BY <1>12, <2>2, OriginKept DEF MoveToRevoked
<1>13. ASSUME NEW d \in Device, RecordRotation(d) PROVE CommittedInv' /\ ClosedKept
  <2>. DEFINE rot == cmd[d].earlier \cup {[device |-> cmd[d].target, entries |-> cmd[d].entries]}
              t == [work[d] EXCEPT !.rot = rot]
  <2>1. rot \in SUBSET RotationEntry
    BY <1>13, <1>aim DEF RecordRotation, At, TypeInv, TypeOK, Command, RotationEntry
  <2>2. t \in Tree /\ SameSecrets(t, work[d])
    BY <1>0, <2>1 DEF TreesOK, Tree, SameSecrets
  <2>3. Publish(d, t)
    BY <1>13 DEF RecordRotation
  <2>. HIDE DEF t
  <2>. QED BY <1>0, <2>2, <2>3, PublishClosed
<1>14. ASSUME NEW d \in Device, NEW e \in Entry, Insert(d, e) \/ Edit(d, e)
       PROVE  CommittedInv' /\ ClosedKept
  <2>1. PICK c : Write(d, e, c)
    BY <1>14 DEF Insert, Edit
  <2>2. SameSecrets(work'[d], head'[d])
    BY <1>0, <2>1 DEF Write, TreesOK, Tree, CommittedInv, SameSecrets
  <2>3. \A i \in Device \ {d} : head'[i] = head[i] /\ work'[i] = work[i]
    BY <1>0, <2>1 DEF Write, TreesOK
  <2>4. CommittedInv'
    BY <2>2, <2>3 DEF CommittedInv
  <2>. QED BY <2>1, <2>4, OriginKept DEF Write
<1>15. ASSUME NEW d \in Device, PushOnly(d) PROVE CommittedInv' /\ ClosedKept
  BY <1>15 DEF PushOnly, CommittedInv, ClosedKept
<1>16. ASSUME NEW d \in Device, SyncPullOnly(d) \/ Sync(d) PROVE CommittedInv' /\ ClosedKept
  <2>1. SameSecrets(PulledWork(d), PulledHead(d))
    BY <1>0, PulledSecrets DEF CommittedInv
  <2>2. CommittedInv'
    BY <1>0, <1>16, <2>1 DEF SyncPullOnly, Sync, Rebase, CommittedInv, TreesOK
  <2>3. ClosedKept
    <3>. SUFFICES ASSUME NEW r \in Device, NEW e \in Entry, origin' = PulledHead(d),
                         CannotRead(origin, r, e), ~CannotRead(origin', r, e)
                  PROVE  CannotRead(base[d], r, e) /\ ~CannotRead(head[d], r, e)
      BY <1>16, OriginKept DEF SyncPullOnly, Sync, ClosedKept
    <3>1. ~Clash(base[d], head[d], origin)
      BY <1>16 DEF SyncPullOnly, Sync, Rebase, CanPull, Conflicted
    <3>2. \/ PulledHead(d).blob[e] = origin.blob[e]
          \/ PulledHead(d).blob[e] = head[d].blob[e] /\ origin.blob[e] = base[d].blob[e]
      BY <1>0, <3>1, MergedEntry DEF TreesOK, PulledHead
    <3>. QED BY <3>2 DEF CannotRead
  <2>. QED BY <2>2, <2>3
<1>17. ASSUME NEW d \in Device, FollowGuidance(d) PROVE FALSE
  BY <1>17 DEF FollowGuidance
<1>. QED
  BY <1>1, <1>2, <1>3, <1>4, <1>5, <1>6, <1>7, <1>8, <1>9, <1>10, <1>11, <1>12, <1>13, <1>14,
     <1>15, <1>16, <1>17
  DEF Next, Enrolling, Approving, Revoking, Writing, Syncing, StartApprove, StartRevoke

(* A ciphertext that a revoke made anew, without the key, is not brought   *)
(* back by a merge of some stale clone (git refuses it) or by a command,   *)
(* as long as nobody resolves a conflict by the printed guidance.          *)
THEOREM NothingReopened ==
  ASSUME ManualResolve = FALSE
  PROVE  Spec => NeverReopened
<1>1. Init => CommittedInv
  BY DEF Init, CommittedInv, SameSecrets
<1>2. TypeInv /\ CommittedInv /\ [Next]_vars => CommittedInv' /\ ClosedKept
  BY ClosedStep
<1>3. ClosedKept => [\A r \in RevokedIn(origin), e \in Entry :
         CannotRead(origin, r, e) /\ ~CannotRead(origin', r, e)
           => \E d \in Device : CannotRead(base[d], r, e) /\ ~CannotRead(head[d], r, e)]_vars
  BY DEF ClosedKept, RevokedIn
<1>. QED BY <1>1, <1>2, <1>3, InitType, NextType, PTL DEF Spec, NeverReopened

-----------------------------------------------------------------------------
(* What a revoked key could read is tracked                                *)
(*                                                                         *)
(* When no process dies between the move to revoked/ and rotation.json, no *)
(* sync runs during a prompt and no conflict is resolved by hand, a clone  *)
(* differs from its HEAD only between those two writes, and the list read  *)
(* before the prompt is the current one. Then the devices of rotation.json *)
(* are the revoked ones in every tree, and a merge that takes the file     *)
(* whole from one side takes the revoked records of that side alone.       *)

Tracked(t) == \A r \in Device : Has(t, "revoked", r) <=> \E x \in t.rot : x.device = r

RevokingStep == {"revoke", "revoking", "record"}

Unbroken(d) ==
  /\ ~At(d, "record") => work[d] = head[d]
  /\ At(d, "record") => /\ work[d].rot = head[d].rot
                        /\ RevokedIn(work[d]) = RevokedIn(head[d]) \cup {cmd[d].target}
  /\ cmd[d].step \in RevokingStep => cmd[d].earlier = head[d].rot
  /\ At(d, "revoke") \/ At(d, "revoking") => Has(head[d], "devices", cmd[d].target)

TrackedInv ==
  /\ Tracked(origin)
  /\ \A d \in Device : /\ Tracked(base[d])
                       /\ Tracked(head[d])
                       /\ Unbroken(d)
                       /\ RevokedIn(base[d]) \subseteq RevokedIn(origin)

LEMMA MergeTracked ==
  ASSUME NEW b \in Tree, NEW ours \in Tree, NEW theirs \in Tree,
         Tracked(b), Tracked(ours), Tracked(theirs),
         RevokedIn(b) \subseteq RevokedIn(ours), RevokedIn(b) \subseteq RevokedIn(theirs),
         ~Clash(b, ours, theirs)
  PROVE  Tracked(Merge(b, ours, theirs))
<1>. DEFINE m == Merge(b, ours, theirs)
<1>. SUFFICES ASSUME NEW r \in Device
              PROVE  Has(m, "revoked", r) <=> \E x \in m.rot : x.device = r
  BY DEF Tracked
<1>1. Has(m, "revoked", r) <=> Has(ours, "revoked", r) \/ Has(theirs, "revoked", r)
  <2>1. m.rec[<<"revoked", r>>] = IF ours.rec[<<"revoked", r>>] = b.rec[<<"revoked", r>>]
                                  THEN theirs.rec[<<"revoked", r>>]
                                  ELSE ours.rec[<<"revoked", r>>]
    BY DEF Merge, Merge3, Tree, Kind
  <2>2. Has(b, "revoked", r) => Has(ours, "revoked", r) /\ Has(theirs, "revoked", r)
    BY DEF RevokedIn
  <2>. HIDE DEF m
  <2>. QED BY <2>1, <2>2 DEF Has
<1>2. \/ m.rot = theirs.rot /\ ours.rot = b.rot
      \/ m.rot = ours.rot /\ (theirs.rot = b.rot \/ theirs.rot = ours.rot)
  BY DEF Merge, Clash
<1>3. Has(b, "revoked", r) => Has(ours, "revoked", r) /\ Has(theirs, "revoked", r)
  BY DEF RevokedIn
<1>4. /\ Has(b, "revoked", r) <=> \E x \in b.rot : x.device = r
      /\ Has(ours, "revoked", r) <=> \E x \in ours.rot : x.device = r
      /\ Has(theirs, "revoked", r) <=> \E x \in theirs.rot : x.device = r
  BY DEF Tracked
<1>. HIDE DEF m
<1>. QED BY <1>1, <1>2, <1>3, <1>4

LEMMA SameTracked ==
  ASSUME NEW t, NEW u, t.rec = u.rec, t.rot = u.rot, Tracked(t)
  PROVE  Tracked(u)
BY DEF Tracked, Has

LEMMA PassInitTracked ==
  ASSUME NEW t \in Tree, NEW d \in Device, NEW g \in Folders, NEW ids \in SUBSET Device
  PROVE  PassInit(t, d, g, ids).rot = t.rot
BY DEF PassInit, Tree

(* An unbroken clone pulls what its HEAD pulls.                            *)
LEMMA PulledAlike ==
  ASSUME TreesOK, NEW d \in Device, work[d] = head[d]
  PROVE  PulledWork(d) = PulledHead(d)
BY PulledType, MergeOfUnchanged DEF TreesOK, PulledWork

LEMMA PulledTracked ==
  ASSUME TreesOK, RevokedInv, TrackedInv, NEW d \in Device, ~Conflicted(d)
  PROVE  Tracked(PulledHead(d))
BY MergeTracked DEF TreesOK, RevokedInv, Chain, TrackedInv, PulledHead, Conflicted

(* A step of d that publishes a tree of its own and goes back to a prompt  *)
(* of approve or to rest.                                                  *)
LEMMA PublishTracked ==
  ASSUME TreesOK, RevokedInv, TrackedInv, NEW d \in Device, NEW t \in Tree, Publish(d, t),
         Tracked(t), RevokedIn(head[d]) \subseteq RevokedIn(t),
         cmd'[d].step \in {"idle", "approve"},
         \A i \in Device \ {d} : cmd'[i] = cmd[i]
  PROVE  TrackedInv'
<1>1. RevokedIn(origin) \subseteq RevokedIn(origin')
  BY DEF Publish, RevokedInv, Chain
<1>2. Tracked(origin')
  BY DEF Publish, TrackedInv
<1>3. ASSUME NEW i \in Device \ {d}
      PROVE  /\ base'[i] = base[i] /\ head'[i] = head[i] /\ work'[i] = work[i]
             /\ cmd'[i] = cmd[i]
  BY DEF Publish, TreesOK
<1>4. \A i \in Device \ {d} : Unbroken(i)'
  BY <1>3 DEF TrackedInv, Unbroken, At
<1>5. head'[d] = t /\ work'[d] = t
  BY DEF Publish, TreesOK
<1>6. Unbroken(d)'
  BY <1>5 DEF Unbroken, At, RevokingStep
<1>7. /\ Tracked(base'[d])
      /\ RevokedIn(base'[d]) \subseteq RevokedIn(origin')
  BY DEF Publish, TrackedInv, TreesOK
<1>. QED BY <1>1, <1>2, <1>3, <1>4, <1>5, <1>6, <1>7 DEF TrackedInv

(* A step of d that touches neither records nor rotation.json of its HEAD, *)
(* and leaves the origin and the other clones alone.                       *)
LEMMA LocalTracked ==
  ASSUME TrackedInv, NEW d \in Device, UNCHANGED <<origin, base>>,
         head'[d].rec = head[d].rec, head'[d].rot = head[d].rot,
         \A i \in Device \ {d} : head'[i] = head[i] /\ work'[i] = work[i] /\ cmd'[i] = cmd[i],
         Unbroken(d)'
  PROVE  TrackedInv'
<1>1. Tracked(head'[d])
  BY SameTracked DEF TrackedInv
<1>2. \A i \in Device \ {d} : Unbroken(i)'
  BY DEF TrackedInv, Unbroken, At
<1>. QED BY <1>1, <1>2 DEF TrackedInv

(* pass init on a clone that is at HEAD leaves it there.                   *)
LEMMA PassCommitsUnbroken ==
  ASSUME TreesOK, NEW d \in Device, NEW g \in Folders, NEW ids \in SUBSET Device,
         PassCommits(d, g, ids), work[d] = head[d]
  PROVE  /\ work'[d] = head'[d]
         /\ head'[d].rec = head[d].rec
         /\ head'[d].rot = head[d].rot
         /\ \A i \in Device \ {d} : head'[i] = head[i] /\ work'[i] = work[i]
BY PassInitType, PassInitTracked DEF TreesOK, PassCommits

(* What AskNext may come to next.                                          *)
LEMMA AskNextStep ==
  ASSUME NEW t \in Tree, NEW only \in SUBSET Folder, NEW queue \in SUBSET Device,
         NEW next \in AskNext(t, only, queue)
  PROVE  next.step \in {"idle", "approve"}
<1>. DEFINE ready == {r \in queue : Has(t, "pending", r) /\ ~Has(t, "revoked", r)}
            Ask(r) == [Idle EXCEPT !.step = "approve", !.target = r,
                               !.queue = ready \ {r}, !.only = only,
                               !.scope = IF only = {} THEN t.rec["pending", r] ELSE only]
<1>1. CASE next = Idle
  BY <1>1, IdleType
<1>2. CASE next # Idle
  <2>1. PICK r \in queue : next = Ask(r)
    BY <1>2 DEF AskNext
  <2>. QED BY <2>1 DEF Idle
<1>. QED BY <1>1, <1>2

LEMMA TrackedBy ==
  ASSUME NEW t, NEW u, RevokedIn(u) = RevokedIn(t), u.rot = t.rot, Tracked(t)
  PROVE  Tracked(u)
BY DEF Tracked, RevokedIn

(* What the record files' moves and writes do to the revoked ones.         *)
LEMMA RecordTracked ==
  ASSUME NEW t \in Tree, NEW r \in Device
  PROVE  /\ \A k \in Kind, scope \in Record : WriteRecord(t, k, r, scope).rot = t.rot
         /\ \A src, dst \in Kind : Move(t, src, dst, r).rot = t.rot
         /\ RevokedIn(Move(t, "pending", "devices", r)) = RevokedIn(t)
         /\ Has(t, "devices", r)
              => RevokedIn(Move(t, "devices", "revoked", r)) = RevokedIn(t) \cup {r}
<1>1. \A k \in Kind, scope \in Record : WriteRecord(t, k, r, scope).rot = t.rot
  BY DEF WriteRecord, Tree
<1>2. \A src, dst \in Kind : Move(t, src, dst, r).rot = t.rot
  BY DEF Move, Tree
<1>3. RevokedIn(Move(t, "pending", "devices", r)) = RevokedIn(t)
  BY DEF Move, RevokedIn, Has, Tree, Kind
<1>4. ASSUME Has(t, "devices", r)
      PROVE  RevokedIn(Move(t, "devices", "revoked", r)) = RevokedIn(t) \cup {r}
  <2>. DEFINE moved == [t.rec EXCEPT ![<<"devices", r>>] = None, ![<<"revoked", r>>] = t.rec[<<"devices", r>>]]
              u == Move(t, "devices", "revoked", r)
  <2>1. u.rec = moved
    BY <1>4 DEF Move, Tree
  <2>2. ASSUME NEW x \in Device
        PROVE  moved[<<"revoked", x>>] = IF x = r THEN t.rec[<<"devices", r>>]
                                                  ELSE t.rec[<<"revoked", x>>]
    <3>1. DOMAIN t.rec = Kind \X Device
      BY DEF Tree
    <3>2. <<"revoked", x>> \in Kind \X Device /\ <<"devices", r>> # <<"revoked", x>>
      BY DEF Kind
    <3>3. <<"revoked", x>> = <<"revoked", r>> <=> x = r
      OBVIOUS
    <3>. QED BY <3>1, <3>2, <3>3
  <2>. HIDE DEF moved, u
  <2>3. \A x \in Device : Has(u, "revoked", x) <=> x = r \/ Has(t, "revoked", x)
    BY <1>4, <2>1, <2>2 DEF Has
  <2>. QED BY <2>3 DEF RevokedIn, u
<1>. QED BY <1>1, <1>2, <1>3, <1>4

LEMMA WrittenTracked ==
  ASSUME NEW t \in Tree, NEW r \in Device, NEW k \in {"devices", "pending"}, NEW scope \in Record
  PROVE  /\ WriteRecord(t, k, r, scope) \in Tree
         /\ RevokedIn(WriteRecord(t, k, r, scope)) = RevokedIn(t)
         /\ WriteRecord(t, k, r, scope).rot = t.rot
<1>. k \in Kind
  BY DEF Kind
<1>1. WriteRecord(t, k, r, scope) \in Tree
  BY RecordType
<1>2. RevokedIn(WriteRecord(t, k, r, scope)) = RevokedIn(t)
  BY RecordRevoked
<1>3. WriteRecord(t, k, r, scope).rot = t.rot
  BY RecordTracked
<1>. QED BY <1>1, <1>2, <1>3

LEMMA TrackedStep ==
  ASSUME Crashes = FALSE, Overlap = FALSE, ManualResolve = FALSE,
         TypeInv, RevokedInv, TrackedInv, [Next]_vars
  PROVE  TrackedInv'
<1>0. TreesOK
  BY DEF TypeInv, TypeOK, TreesOK
<1>aim. ASSUME NEW d \in Device, ~At(d, "idle") PROVE cmd[d].target \in Device
  BY <1>aim DEF TypeInv, Aimed
<1>cmd. cmd \in [Device -> Command]
  BY DEF TypeInv, TypeOK
<1>even. ASSUME NEW d \in Device, ~At(d, "record")
         PROVE  work[d] = head[d] /\ Tracked(work[d])
  BY <1>even DEF TrackedInv, Unbroken
<1>1. CASE UNCHANGED vars
  BY <1>1 DEF vars, TrackedInv, Unbroken, At
<1>2. ASSUME NEW d \in Device, Genesis(d) PROVE TrackedInv'
  <2>. DEFINE t == PassInit(work[d], d, Root, {d})
              u == WriteRecord(t, "devices", d, {})
  <2>1. t \in Tree /\ RevokedIn(t) = RevokedIn(work[d]) /\ t.rot = work[d].rot
    BY <1>0, PassInitType, PassInitRevoked, PassInitTracked DEF TreesOK, Folders
  <2>2. Publish(d, u) /\ At(d, "idle") /\ cmd' = cmd
    BY <1>2 DEF Genesis
  <2>. HIDE DEF t
  <2>3. u \in Tree /\ RevokedIn(u) = RevokedIn(work[d]) /\ u.rot = work[d].rot
    BY <2>1, WrittenTracked DEF Record
  <2>. HIDE DEF u
  <2>4. Tracked(u) /\ RevokedIn(head[d]) \subseteq RevokedIn(u)
    BY <1>even, <2>2, <2>3, TrackedBy DEF At
  <2>. QED BY <1>0, <2>2, <2>3, <2>4, PublishTracked DEF At
<1>3. ASSUME NEW d \in Device, NEW k \in {"devices", "pending"}, NEW scope \in Record,
             Publish(d, WriteRecord(work[d], k, d, scope)), At(d, "idle"), cmd' = cmd
      PROVE  TrackedInv'
  <2>. DEFINE u == WriteRecord(work[d], k, d, scope)
  <2>1. u \in Tree /\ RevokedIn(u) = RevokedIn(work[d]) /\ u.rot = work[d].rot
    BY <1>0, WrittenTracked DEF TreesOK
  <2>2. Publish(d, u)
    BY <1>3
  <2>. HIDE DEF u
  <2>3. Tracked(u) /\ RevokedIn(head[d]) \subseteq RevokedIn(u)
    BY <1>even, <1>3, <2>1, TrackedBy DEF At
  <2>. QED BY <1>0, <1>3, <2>1, <2>2, <2>3, PublishTracked DEF At
<1>4. ASSUME NEW d \in Device, Adopt(d) PROVE TrackedInv'
  BY <1>3, <1>4 DEF Adopt, Record
<1>5. ASSUME NEW d \in Device, NEW scope \in SUBSET Folder, Request(d, scope)
      PROVE  TrackedInv'
  BY <1>3, <1>5 DEF Request, Record
<1>6. ASSUME NEW d \in Device, At(d, "idle"), CanPull(d),
             head' = [head EXCEPT ![d] = PulledHead(d)],
             work' = [work EXCEPT ![d] = PulledWork(d)]
      PROVE  /\ work'[d] = head'[d] /\ head'[d] = PulledHead(d) /\ Tracked(head'[d])
             /\ RevokedIn(origin) \subseteq RevokedIn(head'[d])
             /\ \A i \in Device \ {d} : head'[i] = head[i] /\ work'[i] = work[i]
  <2>1. PulledWork(d) = PulledHead(d)
    BY <1>0, <1>6, <1>even, PulledAlike DEF At
  <2>2. Tracked(PulledHead(d))
    BY <1>0, <1>6, PulledTracked DEF CanPull
  <2>3. RevokedIn(origin) \subseteq RevokedIn(PulledHead(d))
    BY <1>0, PulledRevoked DEF RevokedInv
  <2>. QED BY <1>0, <1>6, <2>1, <2>2, <2>3 DEF TreesOK
<1>7. ASSUME NEW d \in Device, NEW c \in Command, Begin(d, PulledWork(d)),
             cmd' = [cmd EXCEPT ![d] = c], Unbroken(d)'
      PROVE  TrackedInv'
  <2>1. /\ Tracked(head'[d])
        /\ \A i \in Device \ {d} : head'[i] = head[i] /\ work'[i] = work[i]
    BY <1>6, <1>7 DEF Begin
  <2>2. origin' = origin /\ base' = [base EXCEPT ![d] = origin]
    BY <1>7 DEF Begin
  <2>3. \A i \in Device \ {d} : Unbroken(i)'
    BY <1>7, <2>1 DEF TrackedInv, Unbroken, At
  <2>. QED BY <1>0, <1>7, <2>1, <2>2, <2>3 DEF TrackedInv, TreesOK
<1>8. ASSUME NEW d \in Device, NEW asked \in SUBSET Device, NEW only \in SUBSET Folder,
             StartApprove(d, asked, only)
      PROVE  TrackedInv'
  <2>1. Begin(d, PulledWork(d))
    BY <1>8 DEF StartApprove
  <2>2. PICK next \in AskNext(PulledWork(d), only, asked) \ {Idle} : cmd' = [cmd EXCEPT ![d] = next]
    BY <1>8 DEF StartApprove
  <2>3. next \in Command /\ next.step \in {"idle", "approve"}
    BY <1>0, <2>2, AskNextType, AskNextStep, PulledType
  <2>4. work'[d] = head'[d]
    BY <1>6, <2>1 DEF Begin
  <2>5. Unbroken(d)'
    BY <1>cmd, <2>2, <2>3, <2>4 DEF Unbroken, At, RevokingStep
  <2>. QED BY <1>7, <2>1, <2>2, <2>3, <2>5
<1>9. ASSUME NEW d \in Device, NEW r \in Device, StartRevoke(d, r) PROVE TrackedInv'
  <2>. DEFINE t == PulledWork(d)
              c == [Idle EXCEPT !.step = "revoke", !.target = r,
                                !.scope = t.rec["devices", r], !.earlier = t.rot]
  <2>1. Begin(d, t) /\ Has(t, "devices", r) /\ cmd' = [cmd EXCEPT ![d] = c]
    BY <1>9 DEF StartRevoke
  <2>2. t \in Tree
    BY <1>0, PulledType
  <2>3. work'[d] = head'[d] /\ work'[d] = t
    BY <1>0, <1>6, <2>1 DEF Begin, TreesOK
  <2>. HIDE DEF t
  <2>4. t.rec[<<"devices", r>>] \in SUBSET Folder /\ t.rot \in SUBSET RotationEntry
    BY <2>1, <2>2 DEF Has, Tree, Kind, Record
  <2>5. c \in Command /\ c.step = "revoke" /\ c.target = r /\ c.earlier = t.rot
    BY <2>4 DEF Idle, Command, Step
  <2>. HIDE DEF c
  <2>6. Unbroken(d)'
    BY <1>cmd, <2>1, <2>3, <2>5 DEF Unbroken, At, RevokingStep
  <2>. QED BY <1>7, <2>1, <2>5, <2>6 DEF t
<1>10. ASSUME NEW d \in Device, NEW c \in Command, cmd' = [cmd EXCEPT ![d] = c],
              c.step \in {"idle", "approve"}, ~At(d, "record"),
              UNCHANGED <<origin, base, head, work>>
       PROVE  TrackedInv'
  <2>1. Unbroken(d)'
    BY <1>cmd, <1>even, <1>10 DEF Unbroken, At, RevokingStep
  <2>. QED BY <1>10, <2>1, LocalTracked
<1>11. ASSUME NEW d \in Device, Decline(d) PROVE TrackedInv'
  <2>1. PICK next \in AskNext(work[d], cmd[d].only, cmd[d].queue) : cmd' = [cmd EXCEPT ![d] = next]
    BY <1>11 DEF Decline
  <2>2. next \in Command /\ next.step \in {"idle", "approve"}
    BY <1>0, <1>cmd, AskNextType, AskNextStep DEF TreesOK, Command
  <2>. QED BY <1>10, <1>11, <2>1, <2>2 DEF Decline, At
<1>12. ASSUME NEW d \in Device, Abandon(d) PROVE TrackedInv'
  BY <1>10, <1>12, IdleType DEF Abandon
<1>13. ASSUME NEW d \in Device, ~At(d, "record"), UNCHANGED <<origin, base>>,
              \/ UNCHANGED <<head, work>>
              \/ \E g \in Folders, ids \in SUBSET Device : PassCommits(d, g, ids),
              \A i \in Device \ {d} : cmd'[i] = cmd[i],
              cmd'[d].step \in {"approving", "revoking"},
              cmd'[d].step = "revoking"
                => /\ At(d, "revoke") \/ At(d, "revoking")
                   /\ cmd'[d].target = cmd[d].target /\ cmd'[d].earlier = cmd[d].earlier
       PROVE  TrackedInv'
  <2>1. /\ work'[d] = head'[d]
        /\ head'[d].rec = head[d].rec
        /\ head'[d].rot = head[d].rot
        /\ \A i \in Device \ {d} : head'[i] = head[i] /\ work'[i] = work[i]
    BY <1>0, <1>even, <1>13, PassCommitsUnbroken
  <2>2. ASSUME cmd'[d].step = "revoking"
        PROVE  cmd'[d].earlier = head'[d].rot /\ Has(head'[d], "devices", cmd'[d].target)
    BY <1>13, <2>1, <2>2 DEF TrackedInv, Unbroken, RevokingStep, At, Has
  <2>3. Unbroken(d)'
    BY <1>13, <2>1, <2>2 DEF Unbroken, At, RevokingStep
  <2>. QED BY <1>13, <2>1, <2>3, LocalTracked
<1>14. ASSUME NEW d \in Device, ConfirmApprove(d) PROVE TrackedInv'
  <2>1. work[d].ids[Root] \cup {cmd[d].target} \in SUBSET Device /\ Root \in Folders
    BY <1>0, <1>14, <1>aim DEF TreesOK, Tree, Folders, ConfirmApprove, At
  <2>2. cmd'[d].step = "approving" /\ ~At(d, "record")
    BY <1>cmd, <1>14 DEF ConfirmApprove, At, Command
  <2>. QED BY <1>13, <1>14, <1>cmd, <2>1, <2>2 DEF ConfirmApprove
<1>15. ASSUME NEW d \in Device, NEW f \in Folder, ApproveFolder(d, f) PROVE TrackedInv'
  <2>. DEFINE own == work[d].ids[f]
              ids == IF own = {} /\ cmd[d].scope # {} THEN work[d].ids[Root] ELSE own
  <2>1. ids \cup {cmd[d].target} \in SUBSET Device /\ f \in Folders
    BY <1>0, <1>15, <1>aim DEF TreesOK, Tree, Folders, ApproveFolder, At
  <2>2. PassCommits(d, f, ids \cup {cmd[d].target})
    BY <1>15 DEF ApproveFolder
  <2>3. cmd'[d].step = "approving" /\ ~At(d, "record")
    BY <1>cmd, <1>15 DEF ApproveFolder, At, Command
  <2>. HIDE DEF ids
  <2>. QED BY <1>13, <1>15, <1>cmd, <2>1, <2>2, <2>3 DEF ApproveFolder
<1>16. ASSUME NEW d \in Device, FinishApprove(d) PROVE TrackedInv'
  <2>. DEFINE r == cmd[d].target
              t == Move(work[d], "pending", "devices", r)
              u == WriteRecord(t, "devices", r, cmd[d].scope)
  <2>1. r \in Device /\ cmd[d].scope \in Record /\ At(d, "approving")
    BY <1>16, <1>aim DEF FinishApprove, At, TypeInv, TypeOK, Command, Record
  <2>2. t \in Tree /\ RevokedIn(t) = RevokedIn(work[d]) /\ t.rot = work[d].rot
    BY <1>0, <2>1, RecordType, RecordTracked DEF TreesOK, Kind
  <2>3. Publish(d, u)
    BY <1>16 DEF FinishApprove
  <2>4. PICK next \in AskNext(u, cmd[d].only, cmd[d].queue) : cmd' = [cmd EXCEPT ![d] = next]
    BY <1>16 DEF FinishApprove
  <2>. HIDE DEF t
  <2>5. u \in Tree /\ RevokedIn(u) = RevokedIn(t) /\ u.rot = t.rot
    BY <2>1, <2>2, WrittenTracked
  <2>. HIDE DEF u
  <2>6. next.step \in {"idle", "approve"}
    BY <1>cmd, <2>4, <2>5, AskNextStep DEF Command
  <2>7. Tracked(u) /\ RevokedIn(head[d]) \subseteq RevokedIn(u)
    BY <1>even, <2>1, <2>2, <2>5, TrackedBy DEF At
  <2>. QED BY <1>0, <1>cmd, <2>3, <2>4, <2>5, <2>6, <2>7, PublishTracked
<1>17. ASSUME NEW d \in Device, ConfirmRevoke(d) PROVE TrackedInv'
  <2>1. work[d].ids[Root] \ {cmd[d].target} \in SUBSET Device /\ Root \in Folders
    BY <1>0 DEF TreesOK, Tree, Folders
  <2>2. /\ cmd'[d].step = "revoking" /\ At(d, "revoke") /\ ~At(d, "record")
        /\ cmd'[d].target = cmd[d].target /\ cmd'[d].earlier = cmd[d].earlier
    BY <1>cmd, <1>17 DEF ConfirmRevoke, At, Command
  <2>. QED BY <1>13, <1>17, <1>cmd, <2>1, <2>2 DEF ConfirmRevoke
<1>18. ASSUME NEW d \in Device, NEW f \in Folder, RevokeFolder(d, f) PROVE TrackedInv'
  <2>. DEFINE left == work[d].ids[f] \ {cmd[d].target}
              ids == IF left = cmd[d].keep THEN {} ELSE left
  <2>1. ids \in SUBSET Device /\ f \in Folders
    BY <1>0 DEF TreesOK, Tree, Folders
  <2>2. PassCommits(d, f, ids)
    BY <1>18 DEF RevokeFolder
  <2>3. /\ cmd'[d].step = "revoking" /\ At(d, "revoking") /\ ~At(d, "record")
        /\ cmd'[d].target = cmd[d].target /\ cmd'[d].earlier = cmd[d].earlier
    BY <1>cmd, <1>18 DEF RevokeFolder, At, Command
  <2>. HIDE DEF ids
  <2>. QED BY <1>13, <1>18, <1>cmd, <2>1, <2>2, <2>3 DEF RevokeFolder
<1>19. ASSUME NEW d \in Device, MoveToRevoked(d) PROVE TrackedInv'
  <2>. DEFINE r == cmd[d].target
              t == Move(work[d], "devices", "revoked", r)
  <2>1. At(d, "revoking") /\ r \in Device /\ work[d] = head[d] /\ Has(head[d], "devices", r)
    BY <1>19, <1>aim DEF MoveToRevoked, At, TrackedInv, Unbroken
  <2>2. t.rot = head[d].rot /\ RevokedIn(t) = RevokedIn(head[d]) \cup {r}
    BY <1>0, <2>1, RecordTracked DEF TreesOK, Kind
  <2>3. work'[d] = t /\ head' = head /\ \A i \in Device \ {d} : work'[i] = work[i]
    BY <1>0, <1>19 DEF MoveToRevoked, TreesOK
  <2>4. cmd'[d].step = "record" /\ cmd'[d].target = r /\ cmd'[d].earlier = cmd[d].earlier
    BY <1>cmd, <1>19 DEF MoveToRevoked, Command
  <2>. HIDE DEF t
  <2>5. cmd[d].earlier = head[d].rot
    BY <2>1 DEF TrackedInv, Unbroken, RevokingStep, At
  <2>6. Unbroken(d)'
    BY <2>2, <2>3, <2>4, <2>5 DEF Unbroken, At, RevokingStep
  <2>. QED BY <1>19, <1>cmd, <2>3, <2>6, LocalTracked DEF MoveToRevoked
<1>20. ASSUME NEW d \in Device, RecordRotation(d) PROVE TrackedInv'
  <2>. DEFINE entry == [device |-> cmd[d].target, entries |-> cmd[d].entries]
              rot == cmd[d].earlier \cup {entry}
              t == [work[d] EXCEPT !.rot = rot]
  <2>1. rot \in SUBSET RotationEntry
    BY <1>20, <1>aim DEF RecordRotation, At, TypeInv, TypeOK, Command, RotationEntry
  <2>2. t \in Tree /\ t.rec = work[d].rec /\ t.rot = rot
    BY <1>0, <2>1 DEF TreesOK, Tree
  <2>3. /\ RevokedIn(work[d]) = RevokedIn(head[d]) \cup {cmd[d].target}
        /\ cmd[d].earlier = head[d].rot
    BY <1>20 DEF RecordRotation, TrackedInv, Unbroken, At, RevokingStep
  <2>4. Publish(d, t) /\ cmd' = [cmd EXCEPT ![d] = Idle]
    BY <1>20 DEF RecordRotation
  <2>. HIDE DEF t
  <2>5. RevokedIn(t) = RevokedIn(work[d])
    BY <2>2 DEF RevokedIn, Has
  <2>6. Tracked(t)
    <3>1. \A x \in rot : x.device = cmd[d].target \/ x \in head[d].rot
      BY <2>3
    <3>2. entry \in rot /\ entry.device = cmd[d].target /\ head[d].rot \subseteq rot
      BY <2>3
    <3>3. Tracked(head[d])
      BY DEF TrackedInv
    <3>. HIDE DEF rot, entry
    <3>. QED BY <2>2, <2>3, <2>5, <3>1, <3>2, <3>3 DEF Tracked, RevokedIn
  <2>. QED BY <1>0, <1>cmd, <2>2, <2>3, <2>4, <2>5, <2>6, PublishTracked, IdleType
<1>21. ASSUME NEW d \in Device, NEW e \in Entry, Insert(d, e) \/ Edit(d, e) PROVE TrackedInv'
  <2>1. PICK c : Write(d, e, c)
    BY <1>21 DEF Insert, Edit
  <2>2. At(d, "idle") /\ work[d] = head[d]
    BY <1>even, <2>1 DEF Write, MayRun, At
  <2>3. /\ work'[d] = head'[d] /\ head'[d].rec = head[d].rec /\ head'[d].rot = head[d].rot
        /\ \A i \in Device \ {d} : head'[i] = head[i] /\ work'[i] = work[i]
    BY <1>0, <2>1, <2>2 DEF Write, TreesOK, Tree
  <2>4. UNCHANGED <<origin, base, cmd>>
    BY <2>1 DEF Write
  <2>5. Unbroken(d)'
    BY <2>2, <2>3, <2>4 DEF Unbroken, At, RevokingStep
  <2>. QED BY <2>3, <2>4, <2>5, LocalTracked
<1>22. ASSUME NEW d \in Device, PushOnly(d) PROVE TrackedInv'
  <2>1. RevokedIn(origin) \subseteq RevokedIn(origin') /\ origin' = head[d]
    BY <1>22 DEF PushOnly, RevokedInv, Chain
  <2>2. base' = [base EXCEPT ![d] = origin'] /\ UNCHANGED <<head, work, cmd>>
    BY <1>22 DEF PushOnly
  <2>3. \A i \in Device : Unbroken(i)'
    BY <2>2 DEF TrackedInv, Unbroken, At
  <2>. QED BY <1>0, <2>1, <2>2, <2>3 DEF TrackedInv, TreesOK
<1>23. ASSUME NEW d \in Device, SyncPullOnly(d) \/ Sync(d) PROVE TrackedInv'
  <2>1. Rebase(d) /\ cmd' = cmd /\ At(d, "idle")
    BY <1>23 DEF SyncPullOnly, Sync, Rebase, MayRun
  <2>2. /\ work'[d] = head'[d] /\ head'[d] = PulledHead(d) /\ Tracked(head'[d])
        /\ RevokedIn(origin) \subseteq RevokedIn(head'[d])
        /\ \A i \in Device \ {d} : head'[i] = head[i] /\ work'[i] = work[i]
    BY <1>6, <2>1 DEF Rebase
  <2>3. /\ origin' = origin \/ origin' = head'[d]
        /\ base' = [base EXCEPT ![d] = origin']
    BY <1>23, <2>2 DEF SyncPullOnly, Sync
  <2>4. \A i \in Device : Unbroken(i)'
    BY <2>1, <2>2 DEF TrackedInv, Unbroken, At, RevokingStep
  <2>. QED BY <1>0, <2>2, <2>3, <2>4 DEF TrackedInv, TreesOK
<1>24. ASSUME NEW d \in Device, FollowGuidance(d) PROVE FALSE
  BY <1>24 DEF FollowGuidance
<1>. QED
  BY <1>1, <1>2, <1>4, <1>5, <1>8, <1>9, <1>11, <1>12, <1>14, <1>15, <1>16, <1>17, <1>18,
     <1>19, <1>20, <1>21, <1>22, <1>23, <1>24
  DEF Next, Enrolling, Approving, Revoking, Writing, Syncing

LEMMA TrackedInit == Init => RevokedInv /\ TrackedInv
<1>. SUFFICES ASSUME Init PROVE RevokedInv /\ TrackedInv
  OBVIOUS
<1>1. \A r \in Device : ~Has(origin, "revoked", r)
  BY DEF Init, Founded, EmptyTree, Has, Kind
<1>2. origin.rot = {}
  BY DEF Init, Founded, EmptyTree
<1>3. \A d \in Device : base[d] = origin /\ head[d] = origin /\ work[d] = origin /\ At(d, "idle")
  BY DEF Init, At, Idle
<1>. QED BY <1>1, <1>2, <1>3
       DEF RevokedInv, Chain, TrackedInv, Tracked, Unbroken, At, RevokingStep

(* A revoked device of the origin has its entry in rotation.json, which    *)
(* doctor reads (docs/pass.md, "Trust root"), however many commands run on *)
(* however many clones, as long as none dies between the two files, no     *)
(* sync runs during a prompt and nobody resolves a conflict by hand.       *)
THEOREM RevokedAreTracked ==
  ASSUME Crashes = FALSE, Overlap = FALSE, ManualResolve = FALSE
  PROVE  Spec => []RevokedIsTracked
<1>1. Init => RevokedInv /\ TrackedInv
  BY TrackedInit
<1>2. TypeInv /\ RevokedInv /\ TrackedInv /\ [Next]_vars => RevokedInv' /\ TrackedInv'
  BY RevokedStep, TrackedStep
<1>3. TrackedInv => RevokedIsTracked
  BY DEF TrackedInv, Tracked, RevokedIsTracked, RevokedIn
<1>. QED BY <1>1, <1>2, <1>3, InitType, NextType, PTL DEF Spec

-----------------------------------------------------------------------------
(* A revoked key stays out                                                 *)
(*                                                                         *)
(* Where nobody asks for or is given part of the store, and every command  *)
(* that got its yes comes to its end, a key is in one of four stages in    *)
(* every tree at rest: unknown, waiting, enrolled and listed, or revoked   *)
(* and unlisted. Stages only rise, on each clone and from there to the     *)
(* origin, and only the key's own device makes it known. So two clones     *)
(* that meet have left the stage they started from for the same one, or    *)
(* one of them has not left it, or git sees one record renamed to two      *)
(* places.                                                                 *)

(* Every record is the whole store's ...                                   *)
Whole(t) == \A k \in Kind, x \in Device : t.rec[<<k, x>>] \in {None, {}}

(* ... and every approve is for it.                                        *)
WholeStore ==
  /\ Whole(origin)
  /\ \A d \in Device : /\ Whole(base[d]) /\ Whole(head[d]) /\ Whole(work[d])
                       /\ cmd[d].scope = {}

Fresh(t, x) == \A k \in Kind : ~Has(t, k, x)
Alone(t, x) == \A j, k \in Kind : Has(t, j, x) /\ Has(t, k, x) => j = k
Tidy(t, x) == Alone(t, x) /\ (Has(t, "devices", x) <=> x \in t.ids[Root])

Staged(t) ==
  /\ \A x \in Device : Tidy(t, x)
  /\ t.ids[Root] = {} => \A x \in Device : Fresh(t, x)

Rank(t, x) == IF Has(t, "revoked", x) THEN 3
              ELSE IF Has(t, "devices", x) THEN 2
              ELSE IF Has(t, "pending", x) THEN 1 ELSE 0

Later(t, u) == \A x \in Device : Rank(t, x) <= Rank(u, x)

(* Nobody but d became known between t and u.                              *)
OwnNews(t, u, d) == \A x \in Device \ {d} : Rank(t, x) = 0 => Rank(u, x) = 0

(* What d's HEAD is while its command has put its target in the list, or   *)
(* taken it out, but has not yet moved the record.                         *)
HalfWay(d) ==
  LET t == head[d]
      r == cmd[d].target
  IN /\ \A x \in Device \ {r} : Tidy(t, x)
     /\ Alone(t, r)
     /\ t.ids[Root] # {}
     /\ r \in t.ids[Root] <=> At(d, "approving")

Shape(d) ==
  /\ cmd[d].step \in {"idle", "approve", "revoke"} => Staged(head[d])
  /\ cmd[d].step \in {"approving", "revoking"} => HalfWay(d)
  /\ At(d, "record") => /\ Staged(work[d])
                        /\ Later(head[d], work[d])
                        /\ OwnNews(head[d], work[d], d)

StagedInv ==
  /\ Staged(origin)
  /\ \A d \in Device :
       /\ Staged(base[d])
       /\ Later(base[d], origin)
       /\ Later(base[d], head[d])
       /\ OwnNews(base[d], head[d], d)
       /\ Rank(base[d], d) = 0 => Rank(origin, d) = 0
       /\ Shape(d)

LEMMA RankHas ==
  ASSUME NEW t, NEW x, Alone(t, x)
  PROVE  /\ Has(t, "revoked", x) <=> Rank(t, x) = 3
         /\ Has(t, "devices", x) <=> Rank(t, x) = 2
         /\ Has(t, "pending", x) <=> Rank(t, x) = 1
         /\ Rank(t, x) \in 0..3
BY DEF Rank, Alone, Kind

LEMMA FreshRank ==
  ASSUME NEW t, NEW x
  PROVE  Fresh(t, x) <=> Rank(t, x) = 0
BY DEF Fresh, Rank, Kind

LEMMA SameStage ==
  ASSUME NEW t, NEW u, t.rec = u.rec
  PROVE  /\ \A x \in Device : Rank(t, x) = Rank(u, x)
         /\ \A x \in Device : Alone(t, x) <=> Alone(u, x)
         /\ \A x \in Device : Fresh(t, x) <=> Fresh(u, x)
         /\ \A x \in Device, k \in Kind : Has(t, k, x) <=> Has(u, k, x)
<1>1. ASSUME NEW x \in Device PROVE \A k \in Kind : Has(t, k, x) <=> Has(u, k, x)
  BY DEF Has
<1>. QED BY <1>1 DEF Rank, Alone, Fresh, Kind

LEMMA SameStaged ==
  ASSUME NEW t, NEW u, t.rec = u.rec, t.ids = u.ids, Staged(t)
  PROVE  Staged(u)
BY SameStage DEF Staged, Tidy, Kind

LEMMA RankNat ==
  ASSUME NEW t, NEW x
  PROVE  Rank(t, x) \in 0..3
BY DEF Rank

LEMMA LaterTransitive ==
  ASSUME NEW t, NEW u, NEW v, Later(t, u), Later(u, v)
  PROVE  Later(t, v)
<1>. SUFFICES ASSUME NEW x \in Device
              PROVE  Rank(t, x) <= Rank(v, x)
  BY DEF Later
<1>1. Rank(t, x) <= Rank(u, x) /\ Rank(u, x) <= Rank(v, x)
  BY DEF Later
<1>2. Rank(t, x) \in 0..3 /\ Rank(u, x) \in 0..3 /\ Rank(v, x) \in 0..3
  BY RankNat
<1>. QED BY <1>1, <1>2

LEMMA SameLater ==
  ASSUME NEW t, NEW u, t.rec = u.rec
  PROVE  Later(t, u) /\ \A d \in Device : OwnNews(t, u, d)
BY SameStage, RankNat DEF Later, OwnNews

(* Among records of the whole store a merged one is there if it is with    *)
(* the side that made or moved it.                                         *)
LEMMA MergedRecord ==
  ASSUME NEW b \in Tree, NEW ours \in Tree, NEW theirs \in Tree,
         Whole(b), Whole(ours), Whole(theirs), NEW x \in Device, NEW k \in Kind
  PROVE  Has(Merge(b, ours, theirs), k, x)
           <=> IF Has(ours, k, x) <=> Has(b, k, x) THEN Has(theirs, k, x) ELSE Has(ours, k, x)
<1>2. Merge(b, ours, theirs).rec[<<k, x>>]
        = IF ours.rec[<<k, x>>] = b.rec[<<k, x>>] THEN theirs.rec[<<k, x>>] ELSE ours.rec[<<k, x>>]
  BY DEF Merge, Merge3, Tree
<1>3. /\ b.rec[<<k, x>>] \in {None, {}} /\ ours.rec[<<k, x>>] \in {None, {}}
      /\ theirs.rec[<<k, x>>] \in {None, {}}
  BY DEF Whole
<1>4. None # {}
  OBVIOUS
<1>. QED BY <1>2, <1>3, <1>4 DEF Has

LEMMA MergedStage ==
  ASSUME NEW b \in Tree, NEW ours \in Tree, NEW theirs \in Tree,
         Whole(b), Whole(ours), Whole(theirs), ~Clash(b, ours, theirs), NEW x \in Device,
         Alone(b, x), Alone(ours, x), Alone(theirs, x),
         Rank(b, x) <= Rank(ours, x), Rank(b, x) <= Rank(theirs, x),
         Rank(b, x) = 0 => Rank(ours, x) = 0 \/ Rank(theirs, x) = 0
  PROVE  /\ Alone(Merge(b, ours, theirs), x)
         /\ \/ Rank(ours, x) = Rank(b, x)
            \/ Rank(theirs, x) = Rank(b, x)
            \/ Rank(theirs, x) = Rank(ours, x)
         /\ Rank(Merge(b, ours, theirs), x)
              = IF Rank(ours, x) = Rank(b, x) THEN Rank(theirs, x) ELSE Rank(ours, x)
<1>. DEFINE m == Merge(b, ours, theirs)
<1>1. /\ Has(m, "revoked", x) <=> IF Has(ours, "revoked", x) <=> Has(b, "revoked", x)
                                  THEN Has(theirs, "revoked", x) ELSE Has(ours, "revoked", x)
      /\ Has(m, "devices", x) <=> IF Has(ours, "devices", x) <=> Has(b, "devices", x)
                                  THEN Has(theirs, "devices", x) ELSE Has(ours, "devices", x)
      /\ Has(m, "pending", x) <=> IF Has(ours, "pending", x) <=> Has(b, "pending", x)
                                  THEN Has(theirs, "pending", x) ELSE Has(ours, "pending", x)
  BY MergedRecord DEF Kind
<1>2. ~(/\ Has(b, "pending", x) /\ ~Has(ours, "pending", x) /\ ~Has(theirs, "pending", x)
        /\ ~Has(b, "devices", x) /\ ~Has(b, "revoked", x)
        /\ \/ Has(ours, "devices", x) /\ Has(theirs, "revoked", x)
           \/ Has(ours, "revoked", x) /\ Has(theirs, "devices", x))
  <2>1. ~RenameClash(b, ours, theirs)
    BY DEF Clash
  <2>. QED BY <2>1 DEF RenameClash, Kind
<1>. HIDE DEF m
<1>3. /\ Has(b, "revoked", x) <=> Rank(b, x) = 3
      /\ Has(b, "devices", x) <=> Rank(b, x) = 2
      /\ Has(b, "pending", x) <=> Rank(b, x) = 1
      /\ Rank(b, x) \in 0..3
  BY RankHas
<1>4. /\ Has(ours, "revoked", x) <=> Rank(ours, x) = 3
      /\ Has(ours, "devices", x) <=> Rank(ours, x) = 2
      /\ Has(ours, "pending", x) <=> Rank(ours, x) = 1
      /\ Rank(ours, x) \in 0..3
  BY RankHas
<1>5. /\ Has(theirs, "revoked", x) <=> Rank(theirs, x) = 3
      /\ Has(theirs, "devices", x) <=> Rank(theirs, x) = 2
      /\ Has(theirs, "pending", x) <=> Rank(theirs, x) = 1
      /\ Rank(theirs, x) \in 0..3
  BY RankHas
<1>6. \/ Rank(ours, x) = Rank(b, x)
      \/ Rank(theirs, x) = Rank(b, x)
      \/ Rank(theirs, x) = Rank(ours, x)
  BY <1>2, <1>3, <1>4, <1>5
<1>. DEFINE rank == IF Rank(ours, x) = Rank(b, x) THEN Rank(theirs, x) ELSE Rank(ours, x)
<1>7. /\ Has(m, "revoked", x) <=> rank = 3
      /\ Has(m, "devices", x) <=> rank = 2
      /\ Has(m, "pending", x) <=> rank = 1
      /\ rank \in 0..3
  BY <1>1, <1>3, <1>4, <1>5, <1>6
<1>. HIDE DEF rank
<1>8. Alone(m, x)
  BY <1>7 DEF Alone, Kind
<1>9. Rank(m, x) = rank
  BY <1>7 DEF Rank
<1>. QED BY <1>6, <1>8, <1>9 DEF m, rank

(* The merge of two stores at rest that started from a third is at rest,   *)
(* no stage falls back, and a key unknown to both stays unknown.           *)
LEMMA MergeStaged ==
  ASSUME NEW b \in Tree, NEW ours \in Tree, NEW theirs \in Tree,
         Whole(b), Whole(ours), Whole(theirs), ~Clash(b, ours, theirs), Staged(b), Staged(ours), Staged(theirs),
         Later(b, ours), Later(b, theirs),
         \A x \in Device : Rank(b, x) = 0 => Rank(ours, x) = 0 \/ Rank(theirs, x) = 0
  PROVE  /\ Staged(Merge(b, ours, theirs))
         /\ Later(theirs, Merge(b, ours, theirs))
         /\ \A x \in Device : Rank(ours, x) = 0 /\ Rank(theirs, x) = 0
                                => Rank(Merge(b, ours, theirs), x) = 0
<1>. DEFINE m == Merge(b, ours, theirs)
<1>1. ASSUME NEW x \in Device
      PROVE  /\ Alone(m, x)
             /\ \/ Rank(ours, x) = Rank(b, x)
                \/ Rank(theirs, x) = Rank(b, x)
                \/ Rank(theirs, x) = Rank(ours, x)
             /\ Rank(m, x) = IF Rank(ours, x) = Rank(b, x) THEN Rank(theirs, x) ELSE Rank(ours, x)
  BY MergedStage DEF Staged, Tidy, Later
<1>2. \/ m.ids[Root] = theirs.ids[Root] /\ ours.ids[Root] = b.ids[Root]
      \/ m.ids[Root] = ours.ids[Root] /\ theirs.ids[Root] = b.ids[Root]
      \/ m.ids[Root] = ours.ids[Root] /\ theirs.ids[Root] = ours.ids[Root]
  BY DEF Merge, Merge3, Clash, Clash3, Tree, Folders
<1>. HIDE DEF m
<1>3. ASSUME NEW x \in Device
      PROVE  /\ x \in b.ids[Root] <=> Rank(b, x) = 2
             /\ x \in ours.ids[Root] <=> Rank(ours, x) = 2
             /\ x \in theirs.ids[Root] <=> Rank(theirs, x) = 2
             /\ Rank(b, x) <= Rank(ours, x) /\ Rank(b, x) <= Rank(theirs, x)
             /\ Rank(b, x) \in 0..3 /\ Rank(ours, x) \in 0..3 /\ Rank(theirs, x) \in 0..3
  BY RankHas DEF Staged, Tidy, Later
<1>4. ASSUME NEW x \in Device PROVE Tidy(m, x)
  <2>1. x \in m.ids[Root] <=> Rank(m, x) = 2
    <3>1. CASE m.ids[Root] = theirs.ids[Root] /\ ours.ids[Root] = b.ids[Root]
      BY <1>1, <1>3, <3>1
    <3>2. CASE m.ids[Root] = ours.ids[Root] /\ theirs.ids[Root] = b.ids[Root]
      BY <1>1, <1>3, <3>2
    <3>3. CASE m.ids[Root] = ours.ids[Root] /\ theirs.ids[Root] = ours.ids[Root]
      BY <1>1, <1>3, <3>3
    <3>. QED BY <1>2, <3>1, <3>2, <3>3
  <2>. QED BY <1>1, <2>1, RankHas DEF Tidy
<1>5. ASSUME m.ids[Root] = {}, NEW x \in Device PROVE Rank(m, x) = 0
  <2>1. \A t \in {b, ours, theirs} : t.ids[Root] = {} => \A y \in Device : Rank(t, y) = 0
    BY FreshRank DEF Staged
  <2>2. CASE m.ids[Root] = theirs.ids[Root] /\ ours.ids[Root] = b.ids[Root]
    <3>1. \A y \in Device : Rank(theirs, y) = 0
      BY <1>5, <2>1, <2>2
    <3>2. ASSUME NEW y \in Device PROVE Rank(b, y) = 0 /\ y \notin b.ids[Root]
      BY <1>3, <3>1
    <3>3. b.ids[Root] = {}
      BY <3>2 DEF Tree, Folders
    <3>. QED BY <1>1, <2>1, <2>2, <3>1, <3>3
  <2>3. CASE m.ids[Root] = ours.ids[Root] /\ theirs.ids[Root] = b.ids[Root]
    <3>1. \A y \in Device : Rank(ours, y) = 0
      BY <1>5, <2>1, <2>3
    <3>2. ASSUME NEW y \in Device PROVE Rank(b, y) = 0 /\ y \notin b.ids[Root]
      BY <1>3, <3>1
    <3>3. b.ids[Root] = {}
      BY <3>2 DEF Tree, Folders
    <3>. QED BY <1>1, <2>1, <2>3, <3>1, <3>3
  <2>4. CASE m.ids[Root] = ours.ids[Root] /\ theirs.ids[Root] = ours.ids[Root]
    BY <1>1, <1>5, <2>1, <2>4
  <2>. QED BY <1>2, <2>2, <2>3, <2>4
<1>6. Staged(m)
  BY <1>4, <1>5, FreshRank DEF Staged
<1>7. Later(theirs, m) /\ \A x \in Device : Rank(ours, x) = 0 /\ Rank(theirs, x) = 0 => Rank(m, x) = 0
  BY <1>1, <1>3 DEF Later
<1>. QED BY <1>6, <1>7 DEF m

(* One record of one key is rewritten, and perhaps its place in the list:  *)
(* everybody else is where they were.                                      *)
LEMMA OneMoves ==
  ASSUME NEW t, NEW u, NEW r \in Device,
         \A x \in Device \ {r}, k \in Kind : Has(u, k, x) <=> Has(t, k, x),
         Rank(t, r) <= Rank(u, r)
  PROVE  /\ Later(t, u)
         /\ \A x \in Device \ {r} : Rank(u, x) = Rank(t, x)
         /\ \A x \in Device \ {r} : Alone(u, x) <=> Alone(t, x)
<1>1. ASSUME NEW x \in Device \ {r}
      PROVE  Rank(u, x) = Rank(t, x) /\ (Alone(u, x) <=> Alone(t, x))
  BY DEF Rank, Alone, Kind
<1>. QED BY <1>1, RankNat DEF Later

(* What writing and moving one record does to the records there are.       *)
LEMMA RecordHas ==
  ASSUME NEW t \in Tree, NEW r \in Device
  PROVE  /\ \A k \in Kind, scope \in Record, j \in Kind, x \in Device :
              Has(WriteRecord(t, k, r, scope), j, x) <=> <<j, x>> = <<k, r>> \/ Has(t, j, x)
         /\ \A src, dst \in Kind, j \in Kind, x \in Device :
              src # dst /\ Has(t, src, r)
                => (Has(Move(t, src, dst, r), j, x)
                      <=> <<j, x>> = <<dst, r>> \/ (<<j, x>> # <<src, r>> /\ Has(t, j, x)))
<1>1. ASSUME NEW k \in Kind, NEW scope \in Record, NEW j \in Kind, NEW x \in Device
      PROVE  Has(WriteRecord(t, k, r, scope), j, x) <=> <<j, x>> = <<k, r>> \/ Has(t, j, x)
  <2>1. WriteRecord(t, k, r, scope).rec[<<j, x>>]
          = IF <<j, x>> = <<k, r>> THEN scope ELSE t.rec[<<j, x>>]
    BY DEF WriteRecord, Tree
  <2>2. None # scope
    BY DEF Record
  <2>. QED BY <2>1, <2>2 DEF Has
<1>2. ASSUME NEW src \in Kind, NEW dst \in Kind, NEW j \in Kind, NEW x \in Device,
             src # dst, Has(t, src, r)
      PROVE  Has(Move(t, src, dst, r), j, x)
               <=> <<j, x>> = <<dst, r>> \/ (<<j, x>> # <<src, r>> /\ Has(t, j, x))
  <2>. DEFINE moved == [t.rec EXCEPT ![<<src, r>>] = None, ![<<dst, r>>] = t.rec[<<src, r>>]]
  <2>1. Move(t, src, dst, r).rec = moved
    BY <1>2 DEF Move, Tree
  <2>2. moved[<<j, x>>] = IF <<j, x>> = <<dst, r>> THEN t.rec[<<src, r>>]
                          ELSE IF <<j, x>> = <<src, r>> THEN None ELSE t.rec[<<j, x>>]
    <3>. DEFINE emptied == [t.rec EXCEPT ![<<src, r>>] = None]
    <3>1. DOMAIN t.rec = Kind \X Device /\ DOMAIN emptied = Kind \X Device
      BY DEF Tree
    <3>2. <<j, x>> \in Kind \X Device
      OBVIOUS
    <3>3. emptied[<<j, x>>] = IF <<j, x>> = <<src, r>> THEN None ELSE t.rec[<<j, x>>]
      BY <3>1, <3>2
    <3>4. moved = [emptied EXCEPT ![<<dst, r>>] = t.rec[<<src, r>>]]
      OBVIOUS
    <3>. HIDE DEF moved, emptied
    <3>. QED BY <3>1, <3>2, <3>3, <3>4
  <2>3. t.rec[<<src, r>>] # None
    BY <1>2 DEF Has
  <2>. HIDE DEF moved
  <2>. QED BY <2>1, <2>2, <2>3 DEF Has
<1>. QED BY <1>1, <1>2

(* What each of the three leaves alone.                                    *)
LEMMA WrittenList ==
  ASSUME NEW t \in Tree, NEW r \in Device, NEW k \in Kind, NEW scope \in Record
  PROVE  WriteRecord(t, k, r, scope) \in Tree /\ WriteRecord(t, k, r, scope).ids = t.ids
<1>1. WriteRecord(t, k, r, scope) \in Tree
  BY RecordType
<1>2. SameSecrets(WriteRecord(t, k, r, scope), t)
  BY RecordSecrets
<1>. QED BY <1>1, <1>2 DEF SameSecrets

LEMMA MovedList ==
  ASSUME NEW t \in Tree, NEW r \in Device, NEW src \in Kind, NEW dst \in Kind
  PROVE  Move(t, src, dst, r) \in Tree /\ Move(t, src, dst, r).ids = t.ids
<1>1. Move(t, src, dst, r) \in Tree
  BY RecordType
<1>2. SameSecrets(Move(t, src, dst, r), t)
  BY RecordSecrets
<1>. QED BY <1>1, <1>2 DEF SameSecrets

LEMMA PassInitList ==
  ASSUME NEW t \in Tree, NEW d \in Device, NEW ids \in SUBSET Device
  PROVE  /\ PassInit(t, d, Root, ids) \in Tree
         /\ PassInit(t, d, Root, ids).rec = t.rec
         /\ PassInit(t, d, Root, ids).ids[Root] = ids
<1>. Root \in Folders
  BY DEF Folders
<1>1. PassInit(t, d, Root, ids) \in Tree /\ PassInit(t, d, Root, ids).rec = t.rec
  BY PassInitType
<1>2. PassInit(t, d, Root, ids).ids = [t.ids EXCEPT ![Root] = ids]
  BY DEF PassInit, Tree
<1>3. DOMAIN t.ids = Folders
  BY DEF Tree
<1>. QED BY <1>1, <1>2, <1>3

(* What d publishes when it goes back to a prompt of approve or to rest.   *)
LEMMA PublishStaged ==
  ASSUME TreesOK, StagedInv, NEW d \in Device, NEW t \in Tree, Publish(d, t),
         Staged(t), Later(head[d], t), OwnNews(head[d], t, d),
         cmd'[d].step \in {"idle", "approve"},
         \A i \in Device \ {d} : cmd'[i] = cmd[i]
  PROVE  StagedInv'
<1>1. ASSUME NEW i \in Device \ {d}
      PROVE  /\ base'[i] = base[i] /\ head'[i] = head[i] /\ work'[i] = work[i]
             /\ Shape(i)'
  <2>1. base'[i] = base[i] /\ head'[i] = head[i] /\ work'[i] = work[i] /\ cmd'[i] = cmd[i]
    BY DEF Publish, TreesOK
  <2>. QED BY <2>1 DEF StagedInv, Shape, HalfWay, At
<1>2. head'[d] = t /\ Shape(d)'
  <2>1. head'[d] = t
    BY DEF Publish, TreesOK
  <2>. QED BY <2>1 DEF Shape, At
<1>3. CASE UNCHANGED <<origin, base>>
  <2>1. Later(base[d], t) /\ OwnNews(base[d], t, d)
    BY LaterTransitive DEF StagedInv, OwnNews
  <2>. QED BY <1>1, <1>2, <1>3, <2>1 DEF StagedInv
<1>4. CASE origin = base[d] /\ origin' = t /\ base' = [base EXCEPT ![d] = t]
  <2>1. base'[d] = t
    BY <1>4 DEF TreesOK
  <2>2. Later(base[d], t) /\ OwnNews(base[d], t, d)
    BY LaterTransitive DEF StagedInv, OwnNews
  <2>3. ASSUME NEW i \in Device \ {d}
        PROVE  Later(base[i], t) /\ (Rank(base[i], i) = 0 => Rank(t, i) = 0)
    BY <1>4, <2>2, LaterTransitive DEF StagedInv, OwnNews
  <2>4. Later(t, t) /\ OwnNews(t, t, d)
    BY SameLater
  <2>. QED BY <1>1, <1>2, <1>4, <2>1, <2>3, <2>4 DEF StagedInv
<1>. QED BY <1>3, <1>4 DEF Publish

(* A step that writes no record of d's HEAD and stays on d's clone.        *)
LEMMA LocalStaged ==
  ASSUME StagedInv, NEW d \in Device, UNCHANGED <<origin, base>>,
         head'[d].rec = head[d].rec,
         \A i \in Device \ {d} : head'[i] = head[i] /\ work'[i] = work[i] /\ cmd'[i] = cmd[i],
         Shape(d)'
  PROVE  StagedInv'
<1>1. \A i \in Device \ {d} : Shape(i)'
  BY DEF StagedInv, Shape, HalfWay, At
<1>2. Later(base[d], head'[d]) /\ OwnNews(base[d], head'[d], d)
  <2>1. Later(head[d], head'[d]) /\ OwnNews(head[d], head'[d], d)
    BY SameLater
  <2>. QED BY <2>1, LaterTransitive DEF StagedInv, OwnNews
<1>. QED BY <1>1, <1>2 DEF StagedInv

(* A clone at rest that pulls is at rest again, beyond the origin.         *)
LEMMA PulledStaged ==
  ASSUME WholeStore, TreesOK, StagedInv, NEW d \in Device, Staged(head[d]), ~Conflicted(d)
  PROVE  /\ Staged(PulledHead(d))
         /\ Later(origin, PulledHead(d))
         /\ OwnNews(origin, PulledHead(d), d)
<1>1. \A x \in Device : Rank(base[d], x) = 0 => Rank(head[d], x) = 0 \/ Rank(origin, x) = 0
  BY DEF StagedInv, OwnNews
<1>2. /\ Staged(PulledHead(d)) /\ Later(origin, PulledHead(d))
      /\ \A x \in Device : Rank(head[d], x) = 0 /\ Rank(origin, x) = 0
                             => Rank(PulledHead(d), x) = 0
  BY <1>1, MergeStaged DEF TreesOK, StagedInv, WholeStore, PulledHead, Conflicted
<1>3. ASSUME NEW x \in Device \ {d}, Rank(origin, x) = 0 PROVE Rank(PulledHead(d), x) = 0
  <2>1. Rank(base[d], x) = 0
    BY <1>3, RankNat DEF StagedInv, Later
  <2>2. Rank(head[d], x) = 0
    BY <2>1 DEF StagedInv, OwnNews
  <2>. QED BY <1>2, <1>3, <2>2
<1>. QED BY <1>2, <1>3 DEF OwnNews

(* No folder has a list of its own, and no command one to write.           *)
RootOnly(t) == \A f \in Folder : t.ids[f] = {}

RootOnlyInv ==
  /\ RootOnly(origin)
  /\ \A d \in Device : /\ RootOnly(base[d]) /\ RootOnly(head[d]) /\ RootOnly(work[d])
                       /\ cmd[d].todo = {}

LEMMA MergeRootOnly ==
  ASSUME NEW b \in Tree, NEW ours \in Tree, NEW theirs \in Tree,
         RootOnly(ours), RootOnly(theirs)
  PROVE  RootOnly(Merge(b, ours, theirs))
<1>1. ASSUME NEW f \in Folder
      PROVE  Merge(b, ours, theirs).ids[f] \in {ours.ids[f], theirs.ids[f]}
  BY DEF Merge, Merge3, Tree, Folders
<1>. QED BY <1>1 DEF RootOnly

LEMMA PassInitRootOnly ==
  ASSUME NEW t \in Tree, RootOnly(t), NEW d \in Device, NEW ids \in SUBSET Device
  PROVE  RootOnly(PassInit(t, d, Root, ids))
<1>1. PassInit(t, d, Root, ids).ids = [t.ids EXCEPT ![Root] = ids]
  BY DEF PassInit, Tree
<1>2. ASSUME NEW f \in Folder PROVE [t.ids EXCEPT ![Root] = ids][f] = t.ids[f]
  BY DEF Tree, Folders
<1>. QED BY <1>1, <1>2 DEF RootOnly

LEMMA PublishRootOnly ==
  ASSUME TreesOK, RootOnlyInv, NEW d \in Device, NEW t \in Tree, Publish(d, t),
         RootOnly(t), \A i \in Device : cmd'[i].todo = {}
  PROVE  RootOnlyInv'
BY DEF TreesOK, RootOnlyInv, Publish

LEMMA PassCommitsRootOnly ==
  ASSUME TreesOK, RootOnlyInv, NEW d \in Device, NEW ids \in SUBSET Device,
         PassCommits(d, Root, ids), UNCHANGED <<origin, base>>,
         \A i \in Device : cmd'[i].todo = {}
  PROVE  RootOnlyInv'
<1>1. RootOnly(PassInit(head[d], d, Root, ids)) /\ RootOnly(PassInit(work[d], d, Root, ids))
  BY PassInitRootOnly DEF TreesOK, RootOnlyInv
<1>. QED BY <1>1 DEF TreesOK, RootOnlyInv, PassCommits

LEMMA PulledRootOnly ==
  ASSUME TreesOK, RootOnlyInv, NEW d \in Device
  PROVE  RootOnly(PulledHead(d)) /\ RootOnly(PulledWork(d))
<1>1. RootOnly(PulledHead(d))
  BY MergeRootOnly DEF TreesOK, RootOnlyInv, PulledHead
<1>. QED BY <1>1, MergeRootOnly, PulledType DEF TreesOK, RootOnlyInv, PulledWork

LEMMA AskNextTodo ==
  ASSUME NEW t, NEW only, NEW queue, NEW next \in AskNext(t, only, queue)
  PROVE  next.todo = {}
<1>1. CASE next = Idle
  BY <1>1 DEF Idle
<1>2. CASE next # Idle
  <2>. DEFINE ready == {r \in queue : Has(t, "pending", r) /\ ~Has(t, "revoked", r)}
              Ask(r) == [Idle EXCEPT !.step = "approve", !.target = r,
                                 !.queue = ready \ {r}, !.only = only,
                                 !.scope = IF only = {} THEN t.rec["pending", r] ELSE only]
  <2>1. PICK r \in queue : next = Ask(r)
    BY <1>2 DEF AskNext
  <2>. QED BY <2>1 DEF Idle
<1>. QED BY <1>1, <1>2

LEMMA RootOnlyStep ==
  ASSUME ManualResolve = FALSE, WholeStore, TypeInv, RootOnlyInv, [Next]_vars
  PROVE  RootOnlyInv'
<1>0. TreesOK
  BY DEF TypeInv, TypeOK, TreesOK
<1>cmd. cmd \in [Device -> Command]
  BY DEF TypeInv, TypeOK
<1>aim. ASSUME NEW d \in Device, ~At(d, "idle") PROVE cmd[d].target \in Device
  BY <1>aim DEF TypeInv, Aimed
<1>todo. ASSUME NEW d \in Device, NEW c, cmd' = [cmd EXCEPT ![d] = c], c.todo = {}
         PROVE  \A i \in Device : cmd'[i].todo = {}
  BY <1>cmd, <1>todo DEF RootOnlyInv
<1>same. ASSUME cmd' = cmd PROVE \A i \in Device : cmd'[i].todo = {}
  BY <1>same DEF RootOnlyInv
<1>1. CASE UNCHANGED <<origin, base, head, work>> /\ \A i \in Device : cmd'[i].todo = {}
  BY <1>1 DEF RootOnlyInv
<1>2. ASSUME NEW d \in Device, Genesis(d) PROVE RootOnlyInv'
  <2>. DEFINE t == PassInit(work[d], d, Root, {d})
  <2>1. t \in Tree /\ RootOnly(t)
    BY <1>0, PassInitList, PassInitRootOnly DEF TreesOK, RootOnlyInv
  <2>2. Publish(d, WriteRecord(t, "devices", d, {})) /\ cmd' = cmd
    BY <1>2 DEF Genesis
  <2>. HIDE DEF t
  <2>3. WriteRecord(t, "devices", d, {}) \in Tree /\ WriteRecord(t, "devices", d, {}).ids = t.ids
    BY <2>1, WrittenList DEF Kind, Record
  <2>4. RootOnly(WriteRecord(t, "devices", d, {}))
    BY <2>1, <2>3 DEF RootOnly
  <2>. QED BY <1>0, <1>same, <2>2, <2>3, <2>4, PublishRootOnly
<1>3. ASSUME NEW d \in Device, NEW k \in {"devices", "pending"}, NEW scope \in Record,
             Publish(d, WriteRecord(work[d], k, d, scope)), cmd' = cmd
      PROVE  RootOnlyInv'
  <2>1. WriteRecord(work[d], k, d, scope) \in Tree
        /\ WriteRecord(work[d], k, d, scope).ids = work[d].ids
    BY <1>0, WrittenList DEF TreesOK, Kind
  <2>2. RootOnly(WriteRecord(work[d], k, d, scope))
    BY <2>1 DEF RootOnlyInv, RootOnly
  <2>. QED BY <1>0, <1>3, <1>same, <2>1, <2>2, PublishRootOnly
<1>4. ASSUME NEW d \in Device, Adopt(d) PROVE RootOnlyInv'
  BY <1>3, <1>4 DEF Adopt, Record
<1>5. ASSUME NEW d \in Device, NEW scope \in SUBSET Folder, Request(d, scope) PROVE RootOnlyInv'
  BY <1>3, <1>5 DEF Request, Record
<1>6. ASSUME NEW d \in Device, Begin(d, PulledWork(d)), \A i \in Device : cmd'[i].todo = {}
      PROVE  RootOnlyInv'
  BY <1>0, <1>6, PulledRootOnly DEF Begin, TreesOK, RootOnlyInv
<1>7. ASSUME NEW d \in Device, NEW asked \in SUBSET Device, NEW only \in SUBSET Folder,
             StartApprove(d, asked, only)
      PROVE  RootOnlyInv'
  <2>1. PICK next \in AskNext(PulledWork(d), only, asked) : cmd' = [cmd EXCEPT ![d] = next]
    BY <1>7 DEF StartApprove
  <2>2. next.todo = {}
    BY <2>1, AskNextTodo
  <2>. QED BY <1>6, <1>7, <1>todo, <2>1, <2>2 DEF StartApprove
<1>8. ASSUME NEW d \in Device, NEW r \in Device, StartRevoke(d, r) PROVE RootOnlyInv'
  <2>. DEFINE c == [Idle EXCEPT !.step = "revoke", !.target = r,
                                !.scope = PulledWork(d).rec["devices", r],
                                !.earlier = PulledWork(d).rot]
  <2>1. Begin(d, PulledWork(d)) /\ cmd' = [cmd EXCEPT ![d] = c]
    BY <1>8 DEF StartRevoke
  <2>2. c.todo = {}
    BY DEF Idle
  <2>. HIDE DEF c
  <2>. QED BY <1>6, <1>todo, <2>1, <2>2
<1>9. ASSUME NEW d \in Device, Decline(d) PROVE RootOnlyInv'
  <2>1. PICK next \in AskNext(work[d], cmd[d].only, cmd[d].queue) : cmd' = [cmd EXCEPT ![d] = next]
    BY <1>9 DEF Decline
  <2>2. next.todo = {}
    BY <2>1, AskNextTodo
  <2>. QED BY <1>1, <1>9, <1>todo, <2>1, <2>2 DEF Decline
<1>10. ASSUME NEW d \in Device, Abandon(d) PROVE RootOnlyInv'
  <2>1. Idle.todo = {}
    BY DEF Idle
  <2>. QED BY <1>1, <1>10, <1>todo, <2>1 DEF Abandon
<1>11. ASSUME NEW d \in Device, ConfirmApprove(d) PROVE RootOnlyInv'
  <2>. DEFINE ids == work[d].ids[Root] \cup {cmd[d].target}
  <2>1. cmd[d].scope = {} /\ ids \in SUBSET Device
    BY <1>0, <1>11, <1>aim DEF WholeStore, ConfirmApprove, At, TreesOK, Tree, Folders
  <2>2. {f \in Folder : work[d].ids[f] # {}} = {}
    BY DEF RootOnlyInv, RootOnly
  <2>3. PassCommits(d, Root, ids) /\ UNCHANGED <<origin, base>>
        /\ cmd' = [cmd EXCEPT ![d].step = "approving", ![d].todo = {}]
    BY <1>11, <2>1, <2>2 DEF ConfirmApprove
  <2>4. \A i \in Device : cmd'[i].todo = {}
    BY <1>cmd, <2>3 DEF Command, RootOnlyInv
  <2>. HIDE DEF ids
  <2>. QED BY <1>0, <2>1, <2>3, <2>4, PassCommitsRootOnly
<1>12. ASSUME NEW d \in Device, ConfirmRevoke(d) PROVE RootOnlyInv'
  <2>. DEFINE keep == work[d].ids[Root] \ {cmd[d].target}
  <2>1. keep \in SUBSET Device
    BY <1>0 DEF TreesOK, Tree, Folders
  <2>2. {f \in Folder : cmd[d].target \in work[d].ids[f]} = {}
    BY DEF RootOnlyInv, RootOnly
  <2>3. /\ PassCommits(d, Root, keep) \/ UNCHANGED <<head, work>>
        /\ UNCHANGED <<origin, base>>
        /\ cmd' = [cmd EXCEPT ![d].step = "revoking", ![d].keep = keep,
                              ![d].entries = ReadableOnce(head[d], cmd[d].scope), ![d].todo = {}]
    BY <1>12, <2>2 DEF ConfirmRevoke
  <2>4. \A i \in Device : cmd'[i].todo = {}
    BY <1>cmd, <2>3 DEF Command, RootOnlyInv
  <2>. HIDE DEF keep
  <2>5. CASE UNCHANGED <<head, work>>
    BY <1>1, <2>3, <2>4, <2>5
  <2>. QED BY <1>0, <2>1, <2>3, <2>4, <2>5, PassCommitsRootOnly
<1>13. ASSUME NEW d \in Device, NEW f \in Folder, ApproveFolder(d, f) \/ RevokeFolder(d, f)
       PROVE  FALSE
  BY <1>13 DEF ApproveFolder, RevokeFolder, RootOnlyInv
<1>14. ASSUME NEW d \in Device, FinishApprove(d) PROVE RootOnlyInv'
  <2>. DEFINE r == cmd[d].target
              t == Move(work[d], "pending", "devices", r)
              u == WriteRecord(t, "devices", r, cmd[d].scope)
  <2>1. r \in Device /\ cmd[d].scope \in Record /\ work[d] \in Tree
    BY <1>0, <1>14, <1>aim, <1>cmd DEF FinishApprove, At, Command, Record, TreesOK
  <2>2. Publish(d, u)
    BY <1>14 DEF FinishApprove
  <2>3. PICK next \in AskNext(u, cmd[d].only, cmd[d].queue) : cmd' = [cmd EXCEPT ![d] = next]
    BY <1>14 DEF FinishApprove
  <2>4. next.todo = {}
    BY <2>3, AskNextTodo
  <2>5. t \in Tree /\ t.ids = work[d].ids
    BY <2>1, MovedList DEF Kind
  <2>. HIDE DEF t
  <2>6. u \in Tree /\ u.ids = t.ids
    BY <2>1, <2>5, WrittenList DEF Kind
  <2>. HIDE DEF u
  <2>7. RootOnly(u)
    BY <2>5, <2>6 DEF RootOnlyInv, RootOnly
  <2>. QED BY <1>0, <1>todo, <2>2, <2>3, <2>4, <2>6, <2>7, PublishRootOnly
<1>15. ASSUME NEW d \in Device, MoveToRevoked(d) PROVE RootOnlyInv'
  <2>. DEFINE u == Move(work[d], "devices", "revoked", cmd[d].target)
  <2>1. cmd[d].target \in Device /\ work[d] \in Tree
    BY <1>0, <1>15, <1>aim DEF MoveToRevoked, At, TreesOK
  <2>2. u.ids = work[d].ids
    BY <2>1, MovedList DEF Kind
  <2>3. /\ work' = [work EXCEPT ![d] = u] /\ UNCHANGED <<origin, base, head>>
        /\ cmd' = [cmd EXCEPT ![d].step = "record"]
    BY <1>15 DEF MoveToRevoked
  <2>. HIDE DEF u
  <2>4. \A i \in Device : cmd'[i].todo = {}
    BY <1>cmd, <2>3 DEF Command, RootOnlyInv
  <2>5. RootOnly(u)
    BY <2>2 DEF RootOnlyInv, RootOnly
  <2>. QED BY <1>0, <2>3, <2>4, <2>5 DEF TreesOK, RootOnlyInv
<1>16. ASSUME NEW d \in Device, RecordRotation(d) PROVE RootOnlyInv'
  <2>. DEFINE rot == cmd[d].earlier \cup {[device |-> cmd[d].target, entries |-> cmd[d].entries]}
              t == [work[d] EXCEPT !.rot = rot]
  <2>1. rot \in SUBSET RotationEntry
    BY <1>16, <1>aim, <1>cmd DEF RecordRotation, At, Command, RotationEntry
  <2>2. t \in Tree /\ t.ids = work[d].ids
    BY <1>0, <2>1 DEF TreesOK, Tree
  <2>3. Publish(d, t) /\ cmd' = [cmd EXCEPT ![d] = Idle]
    BY <1>16 DEF RecordRotation
  <2>. HIDE DEF t
  <2>4. RootOnly(t)
    BY <2>2 DEF RootOnlyInv, RootOnly
  <2>5. Idle.todo = {}
    BY DEF Idle
  <2>. QED BY <1>0, <1>todo, <2>2, <2>3, <2>4, <2>5, PublishRootOnly
<1>17. ASSUME NEW d \in Device, NEW e \in Entry, Insert(d, e) \/ Edit(d, e) PROVE RootOnlyInv'
  <2>1. PICK c : Write(d, e, c)
    BY <1>17 DEF Insert, Edit
  <2>2. /\ UNCHANGED <<origin, base, cmd>>
        /\ head'[d].ids = head[d].ids /\ work'[d].ids = work[d].ids
        /\ \A i \in Device \ {d} : head'[i] = head[i] /\ work'[i] = work[i]
    BY <1>0, <2>1 DEF Write, TreesOK, Tree
  <2>. QED BY <2>2 DEF RootOnlyInv, RootOnly
<1>18. ASSUME NEW d \in Device, PushOnly(d) PROVE RootOnlyInv'
  BY <1>0, <1>18 DEF PushOnly, RootOnlyInv, TreesOK
<1>19. ASSUME NEW d \in Device, SyncPullOnly(d) \/ Sync(d) PROVE RootOnlyInv'
  <2>1. RootOnly(PulledHead(d)) /\ RootOnly(PulledWork(d))
    BY <1>0, PulledRootOnly
  <2>. QED BY <1>0, <1>19, <2>1 DEF SyncPullOnly, Sync, Rebase, RootOnlyInv, TreesOK
<1>20. ASSUME NEW d \in Device, FollowGuidance(d) PROVE FALSE
  BY <1>20 DEF FollowGuidance
<1>21. CASE UNCHANGED vars
  BY <1>1, <1>21, <1>same DEF vars
<1>. QED
  BY <1>2, <1>4, <1>5, <1>7, <1>8, <1>9, <1>10, <1>11, <1>12, <1>13, <1>14, <1>15, <1>16,
     <1>17, <1>18, <1>19, <1>20, <1>21
  DEF Next, Enrolling, Approving, Revoking, Writing, Syncing

LEMMA RootOnlyInit == Init => RootOnlyInv
<1>. SUFFICES ASSUME Init PROVE RootOnlyInv
  OBVIOUS
<1>1. \A d \in Device : base[d] = origin /\ head[d] = origin /\ work[d] = origin /\ cmd[d] = Idle
  BY DEF Init
<1>2. RootOnly(origin)
  BY DEF Init, RootOnly, EmptyTree, Founded, Folders
<1>. QED BY <1>1, <1>2 DEF RootOnlyInv, Idle

LEMMA StagedStep ==
  ASSUME Failures = FALSE, Crashes = FALSE, Overlap = FALSE, ManualResolve = FALSE,
         WholeStore, RootOnlyInv, TypeInv, TrackedInv, StagedInv, [Next]_vars
  PROVE  StagedInv'
<1>0. TreesOK
  BY DEF TypeInv, TypeOK, TreesOK
<1>aim. ASSUME NEW d \in Device, ~At(d, "idle") PROVE cmd[d].target \in Device
  BY <1>aim DEF TypeInv, Aimed
<1>cmd. cmd \in [Device -> Command]
  BY DEF TypeInv, TypeOK
<1>even. ASSUME NEW d \in Device, ~At(d, "record") PROVE work[d] = head[d]
  BY <1>even DEF TrackedInv, Unbroken
<1>rest. ASSUME NEW d \in Device, cmd[d].step \in {"idle", "approve", "revoke"}
         PROVE  Staged(head[d]) /\ work[d] = head[d]
  BY <1>rest, <1>even DEF StagedInv, Shape, At
<1>root. Root \in Folders
  BY DEF Folders
<1>1. CASE UNCHANGED vars
  BY <1>1 DEF vars, StagedInv, Shape, HalfWay, At
<1>2. ASSUME NEW d \in Device, Genesis(d) PROVE StagedInv'
  <2>. DEFINE t == PassInit(work[d], d, Root, {d})
              u == WriteRecord(t, "devices", d, {})
  <2>1. t \in Tree /\ t.rec = work[d].rec /\ t.ids[Root] = {d}
    BY <1>0, PassInitList DEF TreesOK
  <2>2. Publish(d, u) /\ At(d, "idle") /\ cmd' = cmd /\ work[d].ids[Root] = {}
    BY <1>2 DEF Genesis, Initialised
  <2>3. Staged(head[d]) /\ work[d] = head[d]
    BY <1>rest, <2>2 DEF At
  <2>. HIDE DEF t
  <2>4. u \in Tree /\ u.ids = t.ids
    BY <2>1, WrittenList DEF Kind, Record
  <2>5. \A j \in Kind, x \in Device : Has(u, j, x) <=> <<j, x>> = <<"devices", d>> \/ Has(t, j, x)
    BY <2>1, RecordHas DEF Kind, Record
  <2>6. \A x \in Device : Fresh(head[d], x)
    BY <2>2, <2>3 DEF Staged
  <2>7. \A x \in Device, k \in Kind : ~Has(t, k, x)
    BY <2>1, <2>3, <2>6, SameStage DEF Fresh
  <2>. HIDE DEF u
  <2>8. \A x \in Device : Tidy(u, x)
    BY <2>1, <2>4, <2>5, <2>7 DEF Tidy, Alone, Kind
  <2>9. Staged(u)
    BY <2>1, <2>4, <2>8 DEF Staged
  <2>10. \A x \in Device : Rank(head[d], x) = 0
    BY <2>6, FreshRank
  <2>11. Later(head[d], u)
    BY <2>10, RankNat DEF Later
  <2>12. OwnNews(head[d], u, d)
    BY <2>5, <2>7 DEF OwnNews, Rank, Kind
  <2>. QED BY <1>0, <2>2, <2>4, <2>9, <2>11, <2>12, PublishStaged DEF At
<1>3. ASSUME NEW d \in Device, Adopt(d) PROVE FALSE
  <2>1. Staged(head[d]) /\ work[d] = head[d]
    BY <1>3, <1>rest DEF Adopt, At
  <2>2. d \in work[d].ids[Root] /\ ~EnrolledByRecord(work[d], d)
    BY <1>3 DEF Adopt, EnrolledByKey
  <2>3. Has(work[d], "devices", d)
    BY <2>1, <2>2 DEF Staged, Tidy
  <2>4. work[d].rec[<<"devices", d>>] = {}
    <3>1. work[d].rec[<<"devices", d>>] \in {None, {}}
      BY DEF WholeStore, Whole, Kind
    <3>2. work[d].rec[<<"devices", d>>] # None
      BY <2>3 DEF Has
    <3>. QED BY <3>1, <3>2
  <2>. QED BY <2>2, <2>3, <2>4 DEF EnrolledByRecord, Listed, Reach
<1>4. ASSUME NEW d \in Device, NEW scope \in SUBSET Folder, Request(d, scope) PROVE StagedInv'
  <2>. DEFINE u == WriteRecord(work[d], "pending", d, scope)
  <2>1. Publish(d, u) /\ At(d, "idle") /\ cmd' = cmd
    BY <1>4 DEF Request
  <2>2. Staged(head[d]) /\ work[d] = head[d] /\ head[d] \in Tree
    BY <1>0, <1>rest, <2>1 DEF At, TreesOK
  <2>3. u \in Tree /\ u.ids = head[d].ids
    BY <2>2, WrittenList DEF Kind, Record
  <2>4. \A j \in Kind, x \in Device :
          Has(u, j, x) <=> <<j, x>> = <<"pending", d>> \/ Has(head[d], j, x)
    BY <2>2, RecordHas DEF Kind, Record
  <2>. HIDE DEF u
  <2>5. head[d].ids[Root] # {} /\ ~Has(head[d], "revoked", d) /\ ~Enrolled(head[d], d)
    BY <1>4, <2>2 DEF Request, NameFree, Initialised
  <2>6. ~Has(head[d], "devices", d) /\ d \notin head[d].ids[Root]
    BY <2>2, <2>5 DEF Enrolled, EnrolledByKey, Staged, Tidy
  <2>7. Rank(head[d], d) <= Rank(u, d)
    BY <2>4, <2>5, <2>6 DEF Rank, Kind
  <2>8. /\ Later(head[d], u)
        /\ \A x \in Device \ {d} : Rank(u, x) = Rank(head[d], x)
        /\ \A x \in Device \ {d} : Alone(u, x) <=> Alone(head[d], x)
    <3>1. \A x \in Device \ {d}, k \in Kind : Has(u, k, x) <=> Has(head[d], k, x)
      BY <2>4
    <3>. QED BY <2>7, <3>1, OneMoves
  <2>9. ASSUME NEW x \in Device PROVE Tidy(u, x)
    <3>1. CASE x = d
      BY <2>3, <2>4, <2>5, <2>6, <3>1 DEF Tidy, Alone, Kind
    <3>2. CASE x # d
      BY <2>2, <2>3, <2>4, <2>8, <3>2 DEF Staged, Tidy, Kind
    <3>. QED BY <3>1, <3>2
  <2>10. Staged(u)
    BY <2>3, <2>5, <2>9 DEF Staged
  <2>11. OwnNews(head[d], u, d)
    BY <2>8 DEF OwnNews
  <2>. QED BY <1>0, <2>1, <2>3, <2>8, <2>10, <2>11, PublishStaged DEF At
<1>5. ASSUME NEW d \in Device, NEW c \in Command, Begin(d, PulledWork(d)),
             cmd' = [cmd EXCEPT ![d] = c], c.step \in {"approve", "revoke"}
      PROVE  StagedInv'
  <2>1. At(d, "idle") /\ ~Conflicted(d) /\ UNCHANGED origin
        /\ base' = [base EXCEPT ![d] = origin] /\ head' = [head EXCEPT ![d] = PulledHead(d)]
        /\ work' = [work EXCEPT ![d] = PulledWork(d)]
    BY <1>5 DEF Begin, CanPull
  <2>2. /\ Staged(PulledHead(d)) /\ Later(origin, PulledHead(d))
        /\ OwnNews(origin, PulledHead(d), d)
    BY <1>0, <1>rest, <2>1, PulledStaged DEF At
  <2>3. /\ base'[d] = origin /\ head'[d] = PulledHead(d)
        /\ \A i \in Device \ {d} : /\ base'[i] = base[i] /\ head'[i] = head[i]
                                   /\ work'[i] = work[i] /\ cmd'[i] = cmd[i]
    BY <1>0, <1>cmd, <1>5, <2>1 DEF TreesOK
  <2>4. Shape(d)'
    BY <1>cmd, <1>5, <2>2, <2>3 DEF Shape, At
  <2>5. \A i \in Device \ {d} : Shape(i)'
    BY <2>3 DEF StagedInv, Shape, HalfWay, At
  <2>6. Later(origin, origin)
    BY SameLater
  <2>. QED BY <2>1, <2>2, <2>3, <2>4, <2>5, <2>6 DEF StagedInv
<1>6. ASSUME NEW d \in Device, NEW asked \in SUBSET Device, NEW only \in SUBSET Folder,
             StartApprove(d, asked, only)
      PROVE  StagedInv'
  <2>1. PICK next \in AskNext(PulledWork(d), only, asked) \ {Idle} : cmd' = [cmd EXCEPT ![d] = next]
    BY <1>6 DEF StartApprove
  <2>2. next \in Command /\ next.step = "approve"
    <3>1. next \in Command
      BY <1>0, <2>1, AskNextType, PulledType
    <3>2. PICK r \in Device : next.step = "approve"
      <4>. DEFINE t == PulledWork(d)
                  ready == {r \in asked : Has(t, "pending", r) /\ ~Has(t, "revoked", r)}
      <4>1. PICK r \in ready : next = [Idle EXCEPT !.step = "approve", !.target = r,
                                 !.queue = ready \ {r}, !.only = only,
                                 !.scope = IF only = {} THEN t.rec["pending", r] ELSE only]
        BY <2>1 DEF AskNext
      <4>. QED BY <4>1 DEF Idle
    <3>. QED BY <3>1, <3>2
  <2>. QED BY <1>5, <1>6, <2>1, <2>2 DEF StartApprove
<1>7. ASSUME NEW d \in Device, NEW r \in Device, StartRevoke(d, r) PROVE StagedInv'
  <2>. DEFINE t == PulledWork(d)
              c == [Idle EXCEPT !.step = "revoke", !.target = r,
                                !.scope = t.rec["devices", r], !.earlier = t.rot]
  <2>1. Begin(d, t) /\ Has(t, "devices", r) /\ cmd' = [cmd EXCEPT ![d] = c]
    BY <1>7 DEF StartRevoke
  <2>2. t \in Tree
    BY <1>0, PulledType
  <2>. HIDE DEF t
  <2>3. t.rec[<<"devices", r>>] \in SUBSET Folder /\ t.rot \in SUBSET RotationEntry
    BY <2>1, <2>2 DEF Has, Tree, Kind, Record
  <2>4. c \in Command /\ c.step = "revoke"
    BY <2>3 DEF Idle, Command, Step
  <2>. HIDE DEF c
  <2>. QED BY <1>5, <2>1, <2>4 DEF t
<1>8. ASSUME NEW d \in Device, cmd[d].step \in {"approve", "revoke"},
             UNCHANGED <<origin, base, head, work>>, cmd'[d].step \in {"idle", "approve"},
             \A i \in Device \ {d} : cmd'[i] = cmd[i]
      PROVE  StagedInv'
  <2>1. Shape(d)'
    BY <1>8, <1>rest DEF Shape, At
  <2>. QED BY <1>8, <2>1, LocalStaged
<1>9. ASSUME NEW d \in Device, Decline(d) PROVE StagedInv'
  <2>1. PICK next \in AskNext(work[d], cmd[d].only, cmd[d].queue) : cmd' = [cmd EXCEPT ![d] = next]
    BY <1>9 DEF Decline
  <2>2. next.step \in {"idle", "approve"}
    BY <1>0, <1>cmd, <2>1, AskNextStep DEF TreesOK, Command
  <2>. QED BY <1>8, <1>9, <1>cmd, <2>1, <2>2 DEF Decline, At
<1>10. ASSUME NEW d \in Device, Abandon(d) PROVE StagedInv'
  <2>1. cmd[d].step \in {"approve", "revoke"}
    BY <1>10, <1>cmd DEF Abandon, At, Command, Step
  <2>. QED BY <1>8, <1>10, <1>cmd, <2>1, IdleType DEF Abandon
<1>11. ASSUME NEW d \in Device, ConfirmApprove(d) PROVE StagedInv'
  <2>. DEFINE r == cmd[d].target
              ids == work[d].ids[Root] \cup {r}
  <2>1. r \in Device /\ Staged(head[d]) /\ work[d] = head[d]
    BY <1>11, <1>aim, <1>rest DEF ConfirmApprove, At
  <2>2. cmd[d].scope = {}
    BY DEF WholeStore
  <2>3. PassCommits(d, Root, ids) /\ UNCHANGED <<origin, base>>
    BY <1>11, <2>2 DEF ConfirmApprove
  <2>4. ids \in SUBSET Device /\ Root \in Folders
    BY <1>0, <2>1 DEF TreesOK, Tree, Folders
  <2>5. /\ head'[d].rec = head[d].rec
        /\ \A i \in Device \ {d} : head'[i] = head[i] /\ work'[i] = work[i]
    BY <1>0, <2>1, <2>3, <2>4, PassCommitsUnbroken
  <2>6. head'[d].ids[Root] = head[d].ids[Root] \cup {r}
    <3>1. PassInit(head[d], d, Root, ids).ids[Root] = ids
      BY <1>0, <2>4, PassInitList DEF TreesOK
    <3>2. head'[d] = PassInit(head[d], d, Root, ids)
      BY <1>0, <2>3 DEF PassCommits, TreesOK
    <3>. QED BY <2>1, <3>1, <3>2
  <2>7. cmd'[d].step = "approving" /\ cmd'[d].target = r
        /\ \A i \in Device \ {d} : cmd'[i] = cmd[i]
    BY <1>11, <1>cmd DEF ConfirmApprove, Command
  <2>8. \A x \in Device \ {r} : Tidy(head'[d], x)
    BY <2>1, <2>5, <2>6, SameStage DEF Staged, Tidy, Kind
  <2>9. Alone(head'[d], r)
    BY <2>1, <2>5, SameStage DEF Staged, Tidy
  <2>10. HalfWay(d)'
    BY <2>6, <2>7, <2>8, <2>9 DEF HalfWay, At
  <2>11. Shape(d)'
    BY <2>7, <2>10 DEF Shape, At
  <2>. QED BY <2>3, <2>5, <2>7, <2>11, LocalStaged
<1>12. ASSUME NEW d \in Device, ConfirmRevoke(d) PROVE StagedInv'
  <2>. DEFINE r == cmd[d].target
              ids == work[d].ids[Root] \ {r}
  <2>1. r \in Device /\ Staged(head[d]) /\ work[d] = head[d] /\ Has(head[d], "devices", r)
    BY <1>12, <1>aim, <1>rest DEF ConfirmRevoke, At, TrackedInv, Unbroken
  <2>2. r \in work[d].ids[Root]
    BY <2>1 DEF Staged, Tidy
  <2>3. PassCommits(d, Root, ids) /\ ids # {} /\ UNCHANGED <<origin, base>>
    BY <1>12, <2>2 DEF ConfirmRevoke
  <2>4. ids \in SUBSET Device /\ Root \in Folders
    BY <1>0, <2>1 DEF TreesOK, Tree, Folders
  <2>5. /\ head'[d].rec = head[d].rec
        /\ \A i \in Device \ {d} : head'[i] = head[i] /\ work'[i] = work[i]
    BY <1>0, <2>1, <2>3, <2>4, PassCommitsUnbroken
  <2>6. head'[d].ids[Root] = head[d].ids[Root] \ {r}
    <3>1. PassInit(head[d], d, Root, ids).ids[Root] = ids
      BY <1>0, <2>4, PassInitList DEF TreesOK
    <3>2. head'[d] = PassInit(head[d], d, Root, ids)
      BY <1>0, <2>3 DEF PassCommits, TreesOK
    <3>. QED BY <2>1, <3>1, <3>2
  <2>7. cmd'[d].step = "revoking" /\ cmd'[d].target = r
        /\ \A i \in Device \ {d} : cmd'[i] = cmd[i]
    BY <1>12, <1>cmd DEF ConfirmRevoke, Command
  <2>8. \A x \in Device \ {r} : Tidy(head'[d], x)
    BY <2>1, <2>5, <2>6, SameStage DEF Staged, Tidy, Kind
  <2>9. Alone(head'[d], r)
    BY <2>1, <2>5, SameStage DEF Staged, Tidy
  <2>10. HalfWay(d)'
    BY <2>1, <2>3, <2>6, <2>7, <2>8, <2>9 DEF HalfWay, At
  <2>11. Shape(d)'
    BY <2>7, <2>10 DEF Shape, At
  <2>. QED BY <2>3, <2>5, <2>7, <2>11, LocalStaged
<1>13. ASSUME NEW d \in Device, FinishApprove(d) PROVE StagedInv'
  <2>. DEFINE r == cmd[d].target
              t == Move(work[d], "pending", "devices", r)
              u == WriteRecord(t, "devices", r, cmd[d].scope)
  <2>1. r \in Device /\ cmd[d].scope \in Record /\ At(d, "approving")
    BY <1>13, <1>aim DEF FinishApprove, At, TypeInv, TypeOK, Command, Record
  <2>2. work[d] = head[d] /\ head[d] \in Tree /\ HalfWay(d)
    BY <1>0, <1>even, <2>1 DEF At, TreesOK, StagedInv, Shape
  <2>3. Has(head[d], "pending", r) /\ Publish(d, u)
    BY <1>13, <2>2 DEF FinishApprove
  <2>4. PICK next \in AskNext(u, cmd[d].only, cmd[d].queue) : cmd' = [cmd EXCEPT ![d] = next]
    BY <1>13 DEF FinishApprove
  <2>5. t \in Tree /\ t.ids = head[d].ids
    <3>1. "pending" \in Kind /\ "devices" \in Kind /\ work[d] \in Tree
      BY <2>2 DEF Kind
    <3>2. t \in Tree /\ t.ids = work[d].ids
      BY <2>1, <3>1, MovedList
    <3>. QED BY <2>2, <3>2
  <2>6. \A j \in Kind, x \in Device :
          Has(t, j, x) <=> <<j, x>> = <<"devices", r>>
                           \/ (<<j, x>> # <<"pending", r>> /\ Has(head[d], j, x))
    BY <2>1, <2>2, <2>3, RecordHas DEF Kind
  <2>. HIDE DEF t
  <2>7. u \in Tree /\ u.ids = head[d].ids
    BY <2>1, <2>5, WrittenList DEF Kind
  <2>8. \A j \in Kind, x \in Device : Has(u, j, x) <=> <<j, x>> = <<"devices", r>> \/ Has(t, j, x)
    BY <2>1, <2>5, RecordHas DEF Kind
  <2>. HIDE DEF u
  <2>9. \A k \in Kind : Has(u, k, r) <=> k = "devices"
    BY <2>1, <2>2, <2>3, <2>6, <2>8 DEF HalfWay, Alone, Kind
  <2>10. \A x \in Device \ {r}, k \in Kind : Has(u, k, x) <=> Has(head[d], k, x)
    BY <2>6, <2>8
  <2>11. Rank(head[d], r) = 1 /\ Rank(u, r) = 2
    <3>1. Rank(u, r) = 2
      BY <2>9 DEF Rank, Kind
    <3>. QED BY <2>2, <2>3, <3>1, RankHas DEF HalfWay
  <2>12. /\ Later(head[d], u)
         /\ \A x \in Device \ {r} : Rank(u, x) = Rank(head[d], x)
         /\ \A x \in Device \ {r} : Alone(u, x) <=> Alone(head[d], x)
    BY <2>1, <2>10, <2>11, OneMoves
  <2>13. r \in u.ids[Root]
    BY <2>1, <2>2, <2>7 DEF HalfWay
  <2>14. ASSUME NEW x \in Device PROVE Tidy(u, x)
    <3>1. CASE x = r
      BY <2>9, <2>13, <3>1 DEF Tidy, Alone, Kind
    <3>2. CASE x # r
      BY <2>2, <2>7, <2>10, <2>12, <3>2 DEF HalfWay, Tidy, Kind
    <3>. QED BY <3>1, <3>2
  <2>15. Staged(u)
    BY <2>13, <2>14 DEF Staged
  <2>16. OwnNews(head[d], u, d)
    BY <2>11, <2>12 DEF OwnNews
  <2>17. next.step \in {"idle", "approve"}
    BY <1>cmd, <2>4, <2>7, AskNextStep DEF Command
  <2>. QED BY <1>0, <1>cmd, <2>3, <2>4, <2>7, <2>12, <2>15, <2>16, <2>17, PublishStaged
<1>14. ASSUME NEW d \in Device, MoveToRevoked(d) PROVE StagedInv'
  <2>. DEFINE r == cmd[d].target
              u == Move(work[d], "devices", "revoked", r)
  <2>1. At(d, "revoking") /\ r \in Device
    BY <1>14, <1>aim DEF MoveToRevoked, At
  <2>2. work[d] = head[d] /\ head[d] \in Tree /\ HalfWay(d) /\ Has(head[d], "devices", r)
    BY <1>0, <1>even, <2>1 DEF At, TreesOK, StagedInv, Shape, TrackedInv, Unbroken
  <2>3. u.ids = head[d].ids
    BY <2>1, <2>2, RecordSecrets DEF Kind, SameSecrets
  <2>4. \A j \in Kind, x \in Device :
          Has(u, j, x) <=> <<j, x>> = <<"revoked", r>>
                           \/ (<<j, x>> # <<"devices", r>> /\ Has(head[d], j, x))
    BY <2>1, <2>2, RecordHas DEF Kind
  <2>5. work'[d] = u /\ \A i \in Device \ {d} : work'[i] = work[i]
    BY <1>0, <1>14 DEF MoveToRevoked, TreesOK
  <2>. HIDE DEF u
  <2>6. \A k \in Kind : Has(u, k, r) <=> k = "revoked"
    BY <2>1, <2>2, <2>4 DEF HalfWay, Alone, Kind
  <2>7. \A x \in Device \ {r}, k \in Kind : Has(u, k, x) <=> Has(head[d], k, x)
    BY <2>4
  <2>8. Rank(head[d], r) = 2 /\ Rank(u, r) = 3
    <3>1. Rank(u, r) = 3
      BY <2>6 DEF Rank, Kind
    <3>. QED BY <2>2, <3>1, RankHas DEF HalfWay
  <2>9. /\ Later(head[d], u)
        /\ \A x \in Device \ {r} : Rank(u, x) = Rank(head[d], x)
        /\ \A x \in Device \ {r} : Alone(u, x) <=> Alone(head[d], x)
    BY <2>1, <2>7, <2>8, OneMoves
  <2>10. r \notin u.ids[Root] /\ u.ids[Root] # {}
    BY <2>1, <2>2, <2>3 DEF HalfWay, At
  <2>11. ASSUME NEW x \in Device PROVE Tidy(u, x)
    <3>1. CASE x = r
      BY <2>6, <2>10, <3>1 DEF Tidy, Alone, Kind
    <3>2. CASE x # r
      BY <2>2, <2>3, <2>7, <2>9, <3>2 DEF HalfWay, Tidy, Kind
    <3>. QED BY <3>1, <3>2
  <2>12. Staged(u)
    BY <2>10, <2>11 DEF Staged
  <2>13. OwnNews(head[d], u, d)
    BY <2>8, <2>9 DEF OwnNews
  <2>14. cmd'[d].step = "record" /\ \A i \in Device \ {d} : cmd'[i] = cmd[i]
    BY <1>cmd, <1>14 DEF MoveToRevoked, Command
  <2>15. head' = head /\ UNCHANGED <<origin, base>>
    BY <1>14 DEF MoveToRevoked
  <2>16. Shape(d)'
    BY <2>5, <2>9, <2>12, <2>13, <2>14, <2>15 DEF Shape, At
  <2>. QED BY <2>5, <2>14, <2>15, <2>16, LocalStaged
<1>15. ASSUME NEW d \in Device, RecordRotation(d) PROVE StagedInv'
  <2>. DEFINE rot == cmd[d].earlier \cup {[device |-> cmd[d].target, entries |-> cmd[d].entries]}
              t == [work[d] EXCEPT !.rot = rot]
  <2>1. rot \in SUBSET RotationEntry
    BY <1>15, <1>aim DEF RecordRotation, At, TypeInv, TypeOK, Command, RotationEntry
  <2>2. t \in Tree /\ t.rec = work[d].rec /\ t.ids = work[d].ids
    BY <1>0, <2>1 DEF TreesOK, Tree
  <2>3. Publish(d, t) /\ cmd' = [cmd EXCEPT ![d] = Idle] /\ At(d, "record")
    BY <1>15 DEF RecordRotation
  <2>. HIDE DEF t
  <2>4. Staged(work[d]) /\ Later(head[d], work[d]) /\ OwnNews(head[d], work[d], d)
    BY <2>3 DEF StagedInv, Shape
  <2>5. Staged(t)
    BY <2>2, <2>4, SameStaged
  <2>6. Later(work[d], t) /\ OwnNews(work[d], t, d)
    BY <2>2, SameLater
  <2>7. Later(head[d], t) /\ OwnNews(head[d], t, d)
    BY <2>4, <2>6, LaterTransitive DEF OwnNews
  <2>8. cmd'[d].step = "idle" /\ \A i \in Device \ {d} : cmd'[i] = cmd[i]
    BY <1>cmd, <2>3, IdleType
  <2>. QED BY <1>0, <2>2, <2>3, <2>5, <2>7, <2>8, PublishStaged
<1>16. ASSUME NEW d \in Device, NEW e \in Entry, Insert(d, e) \/ Edit(d, e) PROVE StagedInv'
  <2>1. PICK c : Write(d, e, c)
    BY <1>16 DEF Insert, Edit
  <2>2. At(d, "idle") /\ Staged(head[d]) /\ UNCHANGED <<origin, base, cmd>>
    BY <1>rest, <2>1 DEF Write, MayRun, At
  <2>3. /\ head'[d].rec = head[d].rec /\ head'[d].ids = head[d].ids
        /\ \A i \in Device \ {d} : head'[i] = head[i] /\ work'[i] = work[i]
    BY <1>0, <2>1 DEF Write, TreesOK, Tree
  <2>4. Staged(head'[d])
    BY <2>2, <2>3, SameStaged
  <2>5. Shape(d)'
    BY <2>2, <2>4 DEF Shape, At
  <2>. QED BY <2>2, <2>3, <2>5, LocalStaged
<1>17. ASSUME NEW d \in Device, PushOnly(d) PROVE StagedInv'
  <2>1. At(d, "idle") /\ cmd' = cmd
    BY <1>17 DEF PushOnly, MayRun
  <2>2. Staged(head[d]) /\ work[d] = head[d] /\ head[d] \in Tree
    BY <1>0, <1>rest, <2>1 DEF At, TreesOK
  <2>3. Publish(d, head[d])
    BY <1>0, <1>17, <2>2 DEF PushOnly, Publish, TreesOK
  <2>4. Later(head[d], head[d]) /\ OwnNews(head[d], head[d], d)
    BY SameLater
  <2>. QED BY <1>0, <2>1, <2>2, <2>3, <2>4, PublishStaged DEF At
<1>18. ASSUME NEW d \in Device, SyncPullOnly(d) \/ Sync(d) PROVE StagedInv'
  <2>1. At(d, "idle") /\ cmd' = cmd /\ ~Conflicted(d) /\ head' = [head EXCEPT ![d] = PulledHead(d)]
        /\ work' = [work EXCEPT ![d] = PulledWork(d)]
    BY <1>18 DEF SyncPullOnly, Sync, Rebase, MayRun, CanPull
  <2>2. /\ Staged(PulledHead(d)) /\ Later(origin, PulledHead(d))
        /\ OwnNews(origin, PulledHead(d), d)
    BY <1>0, <1>rest, <2>1, PulledStaged DEF At
  <2>3. /\ origin' = origin \/ origin' = PulledHead(d)
        /\ base' = [base EXCEPT ![d] = origin']
    BY <1>18 DEF SyncPullOnly, Sync
  <2>4. /\ base'[d] = origin' /\ head'[d] = PulledHead(d)
        /\ \A i \in Device \ {d} : /\ base'[i] = base[i] /\ head'[i] = head[i]
                                   /\ work'[i] = work[i] /\ cmd'[i] = cmd[i]
    BY <1>0, <2>1, <2>3 DEF TreesOK
  <2>5. Shape(d)'
    BY <2>1, <2>2, <2>4 DEF Shape, At
  <2>6. \A i \in Device \ {d} : Shape(i)'
    BY <2>4 DEF StagedInv, Shape, HalfWay, At
  <2>7. Later(origin, origin) /\ Later(PulledHead(d), PulledHead(d))
        /\ OwnNews(PulledHead(d), PulledHead(d), d)
    BY SameLater
  <2>8. Staged(origin') /\ Later(origin, origin') /\ OwnNews(origin, origin', d)
        /\ Later(origin', PulledHead(d)) /\ OwnNews(origin', PulledHead(d), d)
    BY <2>2, <2>3, <2>7, SameLater DEF StagedInv
  <2>9. ASSUME NEW i \in Device \ {d}
        PROVE  Later(base[i], origin') /\ (Rank(base[i], i) = 0 => Rank(origin', i) = 0)
    BY <2>8, LaterTransitive DEF StagedInv, OwnNews
  <2>10. Later(origin', origin')
    BY SameLater
  <2>. QED BY <2>2, <2>4, <2>5, <2>6, <2>8, <2>9, <2>10 DEF StagedInv
<1>19. ASSUME NEW d \in Device, FollowGuidance(d) PROVE FALSE
  BY <1>19 DEF FollowGuidance
<1>20. ASSUME NEW d \in Device, NEW f \in Folder, ApproveFolder(d, f) \/ RevokeFolder(d, f)
       PROVE  FALSE
  BY <1>20 DEF ApproveFolder, RevokeFolder, RootOnlyInv
<1>. QED
  BY <1>20, <1>1, <1>2, <1>3, <1>4, <1>6, <1>7, <1>9, <1>10, <1>11, <1>12, <1>13, <1>14, <1>15,
     <1>16, <1>17, <1>18, <1>19
  DEF Next, Enrolling, Approving, Revoking, Writing, Syncing

LEMMA StagedInit == Init => StagedInv
<1>. SUFFICES ASSUME Init PROVE StagedInv
  OBVIOUS
<1>1. \A d \in Device : base[d] = origin /\ head[d] = origin /\ work[d] = origin /\ At(d, "idle")
  BY DEF Init, At, Idle
<1>2. ASSUME NEW x \in Device, NEW k \in Kind
      PROVE  /\ Has(origin, k, x) <=> k = "devices" /\ x \in Members
             /\ origin.ids[Root] = Members
  <2>1. CASE Members = {}
    BY <2>1 DEF Init, EmptyTree, Has, Folders
  <2>2. CASE Members # {}
    <3>1. {} # None
      OBVIOUS
    <3>2. origin = Founded(Members, Stored)
      BY <2>2 DEF Init
    <3>3. origin.rec[<<k, x>>] = IF k = "devices" /\ x \in Members THEN {} ELSE None
      BY <3>2 DEF Founded, EmptyTree
    <3>4. origin.ids[Root] = Members
      BY <3>2 DEF Founded, EmptyTree, Folders
    <3>. QED BY <3>1, <3>3, <3>4 DEF Has
  <2>. QED BY <2>1, <2>2
<1>3. Staged(origin)
  BY <1>2 DEF Staged, Tidy, Alone, Fresh, Kind
<1>4. Later(origin, origin) /\ \A d \in Device : OwnNews(origin, origin, d)
  BY SameLater
<1>. QED BY <1>1, <1>3, <1>4 DEF StagedInv, Shape, At

(* Revoking removes the key from every .gpg-id for good (docs/pass.md, "A  *)
(* revoked key never comes back"), whatever commands of however many       *)
(* devices meet in a merge: as long as nobody asks for or is given a part  *)
(* of the store, nothing cuts a command short after its yes, no sync runs  *)
(* during a prompt and nobody resolves a conflict by hand.                 *)
THEOREM RevokedKeysStayOut ==
  ASSUME Failures = FALSE, Crashes = FALSE, Overlap = FALSE, ManualResolve = FALSE
  PROVE  Spec /\ []WholeStore => []RevokedStaysOut
<1>1. Init => RevokedInv /\ TrackedInv /\ RootOnlyInv /\ StagedInv
  BY TrackedInit, RootOnlyInit, StagedInit
<1>2. WholeStore /\ TypeInv /\ RevokedInv /\ TrackedInv /\ RootOnlyInv /\ StagedInv /\ [Next]_vars
        => RevokedInv' /\ TrackedInv' /\ RootOnlyInv' /\ StagedInv'
  <2>. SUFFICES ASSUME WholeStore, TypeInv, RevokedInv, TrackedInv, RootOnlyInv, StagedInv,
                       [Next]_vars
                PROVE  RevokedInv' /\ TrackedInv' /\ RootOnlyInv' /\ StagedInv'
    OBVIOUS
  <2>1. RevokedInv'
    BY RevokedStep
  <2>2. TrackedInv'
    BY TrackedStep
  <2>3. RootOnlyInv'
    BY RootOnlyStep
  <2>4. StagedInv'
    BY StagedStep
  <2>. QED BY <2>1, <2>2, <2>3, <2>4
<1>3. RootOnlyInv /\ StagedInv => RevokedStaysOut
  <2>. SUFFICES ASSUME RootOnlyInv, StagedInv
                PROVE  RevokedStaysOut
    OBVIOUS
  <2>1. \A r \in ListedAnywhere(origin) : r \in origin.ids[Root]
    BY DEF RootOnlyInv, RootOnly, ListedAnywhere, Folders
  <2>2. ASSUME NEW r \in Device, Tidy(origin, r), Has(origin, "revoked", r)
        PROVE  r \notin origin.ids[Root]
    BY <2>2 DEF Tidy, Alone, Kind
  <2>. QED BY <2>1, <2>2 DEF StagedInv, Staged, RevokedStaysOut, RevokedIn
<1>. QED BY <1>1, <1>2, <1>3, InitType, NextType, PTL DEF Spec

(* In a store without folders of its own that is no condition.             *)
COROLLARY OneFolderIsWhole ==
  ASSUME Folder = {}
  PROVE  Spec => []WholeStore
<1>1. TypeInv => WholeStore
  <2>. SUFFICES ASSUME TypeInv
                PROVE  WholeStore
    OBVIOUS
  <2>1. ASSUME NEW t \in Tree PROVE Whole(t)
    BY DEF Whole, Tree, Record
  <2>2. \A d \in Device : cmd[d].scope = {}
    BY DEF TypeInv, TypeOK, Command
  <2>. QED BY <2>1, <2>2 DEF WholeStore, TypeInv, TypeOK
<1>. QED BY <1>1, InitType, NextType, PTL DEF Spec

-----------------------------------------------------------------------------
(* Every entry is encrypted to its list                                    *)
(*                                                                         *)
(* An entry and its list are different files, which merge independently.   *)
(* What ties them is that pass init writes both, so a side that changed    *)
(* the list changed the entry too, and git refuses a merge in which both   *)
(* sides changed the entry.                                                *)

(* In a store whose only list is the root's.                               *)
Sealed(t) == \A e \in Stored : t.blob[e] # None /\ t.blob[e].to = t.ids[Root]

(* A device with a command under way is on the list, and so can decrypt    *)
(* what it has to encrypt anew; its revoke is about another.               *)
Seated(d) ==
  /\ ~At(d, "idle") => d \in head[d].ids[Root]
  /\ At(d, "revoke") => cmd[d].target # d

SealedInv ==
  /\ \A d \in Device : Seated(d)
  /\ Members # {} => /\ Sealed(origin)
                     /\ \A d \in Device : Sealed(base[d]) /\ Sealed(head[d])

LEMMA SameSealed ==
  ASSUME NEW t, NEW u, SameSecrets(t, u), Sealed(t)
  PROVE  Sealed(u)
BY DEF SameSecrets, Sealed

LEMMA SealType ==
  ASSUME NEW c \in Cipher, NEW d \in Device, NEW to \in SUBSET Device
  PROVE  Seal(c, d, to) \in Cipher /\ Seal(c, d, to).to = to
BY DEF Seal, Cipher

(* The next two are about one list and one entry: git's merge ...          *)
LEMMA MergeSealed ==
  ASSUME NEW b \in Tree, NEW ours \in Tree, NEW theirs \in Tree, ~Clash(b, ours, theirs),
         Sealed(b), Sealed(ours), Sealed(theirs)
  PROVE  Sealed(Merge(b, ours, theirs))
<1>. DEFINE m == Merge(b, ours, theirs)
<1>. SUFFICES ASSUME NEW e \in Stored
              PROVE  m.blob[e] # None /\ m.blob[e].to = m.ids[Root]
  BY DEF Sealed
<1>1. /\ m.blob[e] = IF ours.blob[e] = b.blob[e] THEN theirs.blob[e] ELSE ours.blob[e]
      /\ m.ids[Root] = IF ours.ids[Root] = b.ids[Root] THEN theirs.ids[Root] ELSE ours.ids[Root]
  BY DEF Merge, Merge3, Tree, Folders
<1>2. \/ ours.blob[e] = b.blob[e]
      \/ theirs.blob[e] = b.blob[e]
      \/ ours.blob[e] = theirs.blob[e]
  BY DEF Clash, Clash3, Tree
<1>3. /\ b.blob[e] # None /\ b.blob[e].to = b.ids[Root]
      /\ ours.blob[e] # None /\ ours.blob[e].to = ours.ids[Root]
      /\ theirs.blob[e] # None /\ theirs.blob[e].to = theirs.ids[Root]
  BY DEF Sealed
<1>. HIDE DEF m
<1>. QED BY <1>1, <1>2, <1>3

(* ... and pass init by a device that the list names.                      *)
LEMMA PassInitSealed ==
  ASSUME NEW t \in Tree, RootOnly(t), Sealed(t), NEW d \in t.ids[Root], NEW ids \in SUBSET Device
  PROVE  Sealed(PassInit(t, d, Root, ids))
<1>. DEFINE t1 == [t EXCEPT !.ids[Root] = ids]
            u == PassInit(t, d, Root, ids)
<1>1. t1.ids[Root] = ids /\ \A f \in Folder : t1.ids[f] = {}
  BY DEF Tree, Folders, RootOnly
<1>2. ASSUME NEW e \in Entry PROVE Recipients(t1, e) = ids
  BY <1>1 DEF Recipients, Governing
<1>3. u.ids = t1.ids
  BY DEF PassInit, Tree
<1>. SUFFICES ASSUME NEW e \in Stored
              PROVE  u.blob[e] # None /\ u.blob[e].to = ids
  BY <1>1, <1>3 DEF Sealed
<1>4. u.blob[e] = IF t.blob[e] # None /\ t.blob[e].to # Recipients(t1, e) /\ d \in t.blob[e].to
                  THEN Seal(t.blob[e], d, Recipients(t1, e)) ELSE t.blob[e]
  BY DEF PassInit, Tree
<1>5. t.blob[e] # None /\ t.blob[e].to = t.ids[Root]
  BY DEF Sealed
<1>6. u.blob[e] = IF t.blob[e].to # ids THEN Seal(t.blob[e], d, ids) ELSE t.blob[e]
  BY <1>2, <1>4, <1>5
<1>7. Seal(t.blob[e], d, ids).to = ids
  BY DEF Seal
<1>8. Seal(t.blob[e], d, ids) # None
  <2>1. t.blob[e] \in Cipher /\ d \in Device
    BY <1>5 DEF Tree, Folders
  <2>. QED BY <2>1, CipherAssumption, SealType
<1>. QED BY <1>5, <1>6, <1>7, <1>8

LEMMA WorkstationSeated ==
  ASSUME NEW t, NEW d, IsWorkstation(t, d)
  PROVE  d \in t.ids[Root]
BY DEF IsWorkstation, EnrolledByRecord, EnrolledByKey, Listed, Reach

(* A step by d alone keeps d seated if it is so after it.                  *)
LEMMA SealedBy ==
  ASSUME TypeInv, SealedInv, NEW d \in Device,
         \A i \in Device \ {d} : head'[i] = head[i] /\ base'[i] = base[i] /\ cmd'[i] = cmd[i],
         Seated(d)',
         Members # {} => Sealed(origin') /\ Sealed(base'[d]) /\ Sealed(head'[d])
  PROVE  SealedInv'
<1>1. ASSUME NEW i \in Device, i # d PROVE Seated(i)'
  BY <1>1 DEF SealedInv, Seated, At
<1>. QED BY <1>1 DEF SealedInv

(* d publishes what has the secrets of its files, and is then at rest or at *)
(* another prompt of approve.                                              *)
LEMMA PublishSealed ==
  ASSUME TypeInv, CommittedInv, SealedInv, NEW d \in Device, NEW t \in Tree, Publish(d, t),
         SameSecrets(t, work[d]), \A i \in Device \ {d} : cmd'[i] = cmd[i],
         cmd'[d].step # "idle" => cmd'[d].step = "approve" /\ ~At(d, "idle")
  PROVE  SealedInv'
<1>1. TreesOK
  BY DEF TypeInv, TypeOK, TreesOK
<1>2. SameSecrets(head[d], t)
  BY DEF CommittedInv, SameSecrets
<1>3. Members # {} => Sealed(t)
  BY <1>2, SameSealed DEF SealedInv
<1>4. Seated(d)'
  BY <1>1, <1>2 DEF Seated, SealedInv, At, SameSecrets, Publish, TreesOK
<1>5. Members # {} => Sealed(origin') /\ Sealed(base'[d]) /\ Sealed(head'[d])
  BY <1>1, <1>3 DEF Publish, TreesOK, SealedInv
<1>6. \A i \in Device \ {d} : head'[i] = head[i] /\ base'[i] = base[i]
  BY <1>1 DEF Publish, TreesOK
<1>. QED BY <1>4, <1>5, <1>6, SealedBy

(* d writes the root list for its command.                                 *)
LEMMA PassCommitsSealed ==
  ASSUME TypeInv, RootOnlyInv, SealedInv, NEW d \in Device, NEW ids \in SUBSET Device,
         PassCommits(d, Root, ids), UNCHANGED <<origin, base>>,
         \A i \in Device \ {d} : cmd'[i] = cmd[i],
         ~At(d, "idle"), d \in ids, cmd'[d].step # "revoke"
  PROVE  SealedInv'
<1>1. TreesOK
  BY DEF TypeInv, TypeOK, TreesOK
<1>2. /\ head'[d] = PassInit(head[d], d, Root, ids)
      /\ \A i \in Device \ {d} : head'[i] = head[i]
  BY <1>1 DEF PassCommits, TreesOK
<1>3. head[d] \in Tree /\ RootOnly(head[d]) /\ d \in head[d].ids[Root]
  BY <1>1 DEF TreesOK, RootOnlyInv, SealedInv, Seated
<1>4. Members # {} => Sealed(PassInit(head[d], d, Root, ids))
  BY <1>3, PassInitSealed DEF SealedInv
<1>5. Seated(d)'
  BY <1>2, <1>3, PassInitList DEF Seated, At
<1>. QED BY <1>2, <1>4, <1>5, SealedBy DEF SealedInv

LEMMA PulledSealed ==
  ASSUME TypeInv, SealedInv, NEW d \in Device, CanPull(d), Members # {}
  PROVE  Sealed(PulledHead(d))
<1>1. TreesOK
  BY DEF TypeInv, TypeOK, TreesOK
<1>. QED BY <1>1, MergeSealed DEF TreesOK, SealedInv, CanPull, Conflicted, PulledHead

LEMMA BeginSealed ==
  ASSUME TypeInv, CommittedInv, SealedInv, NEW d \in Device, Begin(d, PulledWork(d)),
         \A i \in Device \ {d} : cmd'[i] = cmd[i],
         cmd'[d].step = "revoke" => cmd'[d].target # d
  PROVE  SealedInv'
<1>1. TreesOK
  BY DEF TypeInv, TypeOK, TreesOK
<1>2. /\ head'[d] = PulledHead(d) /\ base'[d] = origin /\ origin' = origin
      /\ \A i \in Device \ {d} : head'[i] = head[i] /\ base'[i] = base[i]
      /\ CanPull(d) /\ IsWorkstation(PulledWork(d), d)
  BY <1>1 DEF Begin, TreesOK
<1>3. d \in PulledHead(d).ids[Root]
  BY <1>1, <1>2, WorkstationSeated, PulledSecrets DEF CommittedInv, SameSecrets
<1>4. Seated(d)'
  BY <1>2, <1>3 DEF Seated, At
<1>5. Members # {} => Sealed(origin') /\ Sealed(base'[d]) /\ Sealed(head'[d])
  BY <1>2, PulledSealed DEF SealedInv
<1>. QED BY <1>2, <1>4, <1>5, SealedBy

(* Nobody founds a store that has entries.                                 *)
LEMMA NoGenesis ==
  ASSUME TypeInv, CommittedInv, SealedInv, NEW d \in Device, Genesis(d), Members # {}
  PROVE  Stored = {}
<1>1. \A e \in Stored : head[d].blob[e] # None
  BY DEF SealedInv, Sealed
<1>2. \A e \in Entry : head[d].blob[e] = None
  BY DEF Genesis, CommittedInv, SameSecrets
<1>. QED BY <1>1, <1>2

LEMMA SealedStep ==
  ASSUME Overlap = FALSE, ManualResolve = FALSE,
         WholeStore, TypeInv, CommittedInv, RootOnlyInv, SealedInv, [Next]_vars
  PROVE  SealedInv'
<1>0. TreesOK /\ cmd \in [Device -> Command]
  BY DEF TypeInv, TypeOK, TreesOK
<1>aim. ASSUME NEW d \in Device, ~At(d, "idle") PROVE cmd[d].target \in Device
  BY <1>aim DEF TypeInv, Aimed
<1>cmd. ASSUME NEW d \in Device, NEW c, cmd' = [cmd EXCEPT ![d] = c]
        PROVE  cmd'[d] = c /\ \A i \in Device \ {d} : cmd'[i] = cmd[i]
  BY <1>0, <1>cmd
<1>1. CASE UNCHANGED vars
  BY <1>1 DEF vars, SealedInv, Seated, At
<1>2. ASSUME NEW d \in Device, Genesis(d) PROVE SealedInv'
  <2>1. /\ \A i \in Device \ {d} : head'[i] = head[i] /\ base'[i] = base[i]
        /\ cmd' = cmd /\ At(d, "idle")
    BY <1>0, <1>2 DEF Genesis, Publish, TreesOK
  <2>2. Members # {} => Sealed(origin') /\ Sealed(base'[d]) /\ Sealed(head'[d])
    BY <1>2, NoGenesis DEF Sealed
  <2>3. Seated(d)'
    BY <2>1 DEF Seated, At
  <2>. QED BY <2>1, <2>2, <2>3, SealedBy
<1>3. ASSUME NEW d \in Device, NEW k \in Kind, NEW scope \in Record, At(d, "idle"),
             Publish(d, WriteRecord(work[d], k, d, scope)), cmd' = cmd
      PROVE  SealedInv'
  <2>. DEFINE t == WriteRecord(work[d], k, d, scope)
  <2>1. t \in Tree /\ SameSecrets(t, work[d])
    BY <1>0, RecordType, RecordSecrets DEF TreesOK
  <2>. HIDE DEF t
  <2>. QED BY <1>3, <2>1, PublishSealed DEF At, t
<1>4. ASSUME NEW d \in Device, Adopt(d) PROVE SealedInv'
  BY <1>3, <1>4 DEF Adopt, Record, Kind
<1>5. ASSUME NEW d \in Device, NEW scope \in SUBSET Folder, Request(d, scope) PROVE SealedInv'
  BY <1>3, <1>5 DEF Request, Record, Kind
<1>6. ASSUME NEW d \in Device, NEW asked \in SUBSET Device, NEW only \in SUBSET Folder,
             StartApprove(d, asked, only)
      PROVE  SealedInv'
  <2>1. PICK next \in AskNext(PulledWork(d), only, asked) : cmd' = [cmd EXCEPT ![d] = next]
    BY <1>6 DEF StartApprove
  <2>2. next.step \in {"idle", "approve"}
    BY <1>0, <2>1, PulledType, AskNextStep
  <2>. QED BY <1>6, <1>cmd, <2>1, <2>2, BeginSealed DEF StartApprove
<1>7. ASSUME NEW d \in Device, NEW r \in Device, StartRevoke(d, r) PROVE SealedInv'
  <2>. DEFINE c == [Idle EXCEPT !.step = "revoke", !.target = r,
                                !.scope = PulledWork(d).rec["devices", r],
                                !.earlier = PulledWork(d).rot]
  <2>1. cmd' = [cmd EXCEPT ![d] = c] /\ r # d /\ c.target = r
    BY <1>7 DEF StartRevoke, Idle
  <2>. HIDE DEF c
  <2>. QED BY <1>7, <1>cmd, <2>1, BeginSealed DEF StartRevoke
<1>8. ASSUME NEW d \in Device, UNCHANGED <<origin, base, head>>, ~At(d, "idle"),
             \A i \in Device \ {d} : cmd'[i] = cmd[i], cmd'[d].step # "revoke"
      PROVE  SealedInv'
  <2>1. Seated(d)'
    BY <1>8 DEF SealedInv, Seated, At
  <2>. QED BY <1>8, <2>1, SealedBy DEF SealedInv
<1>9. ASSUME NEW d \in Device, Decline(d) PROVE SealedInv'
  <2>1. PICK next \in AskNext(work[d], cmd[d].only, cmd[d].queue) : cmd' = [cmd EXCEPT ![d] = next]
    BY <1>9 DEF Decline
  <2>2. next.step \in {"idle", "approve"}
    BY <1>0, <2>1, AskNextStep DEF TreesOK, Command
  <2>. QED BY <1>8, <1>9, <1>cmd, <2>1, <2>2 DEF Decline, At
<1>10. ASSUME NEW d \in Device, Abandon(d) PROVE SealedInv'
  BY <1>8, <1>10, <1>cmd, IdleType DEF Abandon
<1>11. ASSUME NEW d \in Device, ConfirmApprove(d) PROVE SealedInv'
  <2>. DEFINE ids == work[d].ids[Root] \cup {cmd[d].target}
              c == [cmd[d] EXCEPT !.step = "approving",
                                  !.todo = IF cmd[d].scope = {}
                                           THEN {f \in Folder : work[d].ids[f] # {}}
                                           ELSE cmd[d].scope]
  <2>1. PassCommits(d, Root, ids) /\ UNCHANGED <<origin, base>> /\ ~At(d, "idle")
    BY <1>11 DEF WholeStore, ConfirmApprove, At
  <2>2. ids \in SUBSET Device
    BY <1>0, <1>aim, <2>1 DEF TreesOK, Tree, Folders
  <2>3. d \in ids
    BY <2>1 DEF SealedInv, Seated, CommittedInv, SameSecrets
  <2>4. cmd' = [cmd EXCEPT ![d] = c]
    BY <1>0, <1>11 DEF ConfirmApprove
  <2>5. c.step = "approving"
    BY <1>0 DEF Command
  <2>. HIDE DEF ids, c
  <2>. QED BY <1>cmd, <2>1, <2>2, <2>3, <2>4, <2>5, PassCommitsSealed
<1>12. ASSUME NEW d \in Device, ConfirmRevoke(d) PROVE SealedInv'
  <2>. DEFINE keep == work[d].ids[Root] \ {cmd[d].target}
              c == [cmd[d] EXCEPT !.step = "revoking", !.keep = keep,
                                  !.entries = ReadableOnce(head[d], cmd[d].scope),
                                  !.todo = {f \in Folder : cmd[d].target \in work[d].ids[f]}]
  <2>1. /\ PassCommits(d, Root, keep) \/ UNCHANGED head
        /\ UNCHANGED <<origin, base>> /\ At(d, "revoke") /\ ~At(d, "idle")
    BY <1>12 DEF ConfirmRevoke, At
  <2>2. keep \in SUBSET Device
    BY <1>0 DEF TreesOK, Tree, Folders
  <2>3. d \in keep
    BY <2>1 DEF SealedInv, Seated, CommittedInv, SameSecrets
  <2>4. cmd' = [cmd EXCEPT ![d] = c]
    BY <1>0, <1>12 DEF ConfirmRevoke
  <2>5. c.step = "revoking"
    BY <1>0 DEF Command
  <2>. HIDE DEF keep, c
  <2>6. CASE UNCHANGED head
    BY <1>8, <1>cmd, <2>1, <2>4, <2>5, <2>6
  <2>. QED BY <1>cmd, <2>1, <2>2, <2>3, <2>4, <2>5, <2>6, PassCommitsSealed
<1>13. ASSUME NEW d \in Device, NEW f \in Folder, ApproveFolder(d, f) \/ RevokeFolder(d, f)
       PROVE  FALSE
  BY <1>13 DEF ApproveFolder, RevokeFolder, RootOnlyInv
<1>14. ASSUME NEW d \in Device, FinishApprove(d) PROVE SealedInv'
  <2>. DEFINE r == cmd[d].target
              t == Move(work[d], "pending", "devices", r)
              u == WriteRecord(t, "devices", r, cmd[d].scope)
  <2>1. r \in Device /\ cmd[d].scope \in Record /\ work[d] \in Tree /\ ~At(d, "idle")
    BY <1>0, <1>14, <1>aim DEF FinishApprove, At, Command, Record, TreesOK
  <2>2. Publish(d, u)
    BY <1>14 DEF FinishApprove
  <2>3. PICK next \in AskNext(u, cmd[d].only, cmd[d].queue) : cmd' = [cmd EXCEPT ![d] = next]
    BY <1>14 DEF FinishApprove
  <2>4. t \in Tree /\ SameSecrets(t, work[d])
    BY <2>1, RecordType, RecordSecrets DEF Kind
  <2>. HIDE DEF t
  <2>5. u \in Tree /\ SameSecrets(u, t)
    BY <2>1, <2>4, RecordType, RecordSecrets DEF Kind
  <2>. HIDE DEF u
  <2>6. next.step \in {"idle", "approve"}
    BY <1>0, <2>3, <2>5, AskNextStep DEF Command
  <2>7. SameSecrets(u, work[d])
    BY <2>4, <2>5 DEF SameSecrets
  <2>. QED BY <1>cmd, <2>1, <2>2, <2>3, <2>5, <2>6, <2>7, PublishSealed
<1>15. ASSUME NEW d \in Device, MoveToRevoked(d) PROVE SealedInv'
  <2>1. cmd' = [cmd EXCEPT ![d] = [cmd[d] EXCEPT !.step = "record"]]
    BY <1>0, <1>15 DEF MoveToRevoked
  <2>2. [cmd[d] EXCEPT !.step = "record"].step = "record"
    BY <1>0 DEF Command
  <2>. QED BY <1>8, <1>15, <1>cmd, <2>1, <2>2 DEF MoveToRevoked, At
<1>16. ASSUME NEW d \in Device, RecordRotation(d) PROVE SealedInv'
  <2>. DEFINE rot == cmd[d].earlier \cup {[device |-> cmd[d].target, entries |-> cmd[d].entries]}
              t == [work[d] EXCEPT !.rot = rot]
  <2>1. rot \in SUBSET RotationEntry
    BY <1>0, <1>16, <1>aim DEF RecordRotation, At, Command, RotationEntry
  <2>2. t \in Tree /\ SameSecrets(t, work[d])
    BY <1>0, <2>1 DEF TreesOK, Tree, SameSecrets
  <2>3. Publish(d, t) /\ cmd' = [cmd EXCEPT ![d] = Idle]
    BY <1>16 DEF RecordRotation
  <2>. HIDE DEF t
  <2>. QED BY <1>cmd, <2>2, <2>3, IdleType, PublishSealed
<1>17. ASSUME NEW d \in Device, NEW e \in Entry, Insert(d, e) \/ Edit(d, e) PROVE SealedInv'
  <2>1. PICK c \in Cipher : Write(d, e, c) /\ c.to = head[d].ids[Root]
    <3>1. Recipients(work[d], e) = head[d].ids[Root]
      BY DEF Recipients, Governing, CommittedInv, SameSecrets, RootOnlyInv, RootOnly
    <3>2. head[d].ids[Root] \in SUBSET Device
      BY <1>0 DEF TreesOK, Tree, Folders
    <3>3. CASE Insert(d, e)
      BY <3>1, <3>2, <3>3 DEF Insert, Cipher
    <3>4. CASE Edit(d, e)
      <4>1. work[d].blob[e] \in Cipher
        BY <1>0, <3>4 DEF Edit, TreesOK, Tree
      <4>. QED BY <3>1, <3>2, <3>4, <4>1, SealType DEF Edit
    <3>. QED BY <1>17, <3>3, <3>4
  <2>2. /\ head'[d].ids = head[d].ids
        /\ \A x \in Entry : head'[d].blob[x] = IF x = e THEN c ELSE head[d].blob[x]
        /\ \A i \in Device \ {d} : head'[i] = head[i]
        /\ UNCHANGED <<origin, base, cmd>>
    BY <1>0, <2>1 DEF Write, TreesOK, Tree
  <2>3. At(d, "idle")
    BY <2>1 DEF Write, MayRun
  <2>4. Seated(d)'
    BY <2>2, <2>3 DEF Seated, At
  <2>5. Members # {} => Sealed(head'[d])
    BY <2>1, <2>2, CipherAssumption DEF SealedInv, Sealed
  <2>. QED BY <2>2, <2>4, <2>5, SealedBy DEF SealedInv
<1>18. ASSUME NEW d \in Device, PushOnly(d) PROVE SealedInv'
  BY <1>0, <1>18 DEF PushOnly, SealedInv, Seated, At, TreesOK
<1>19. ASSUME NEW d \in Device, SyncPullOnly(d) \/ Sync(d) PROVE SealedInv'
  <2>1. /\ head'[d] = PulledHead(d) /\ base'[d] \in {origin, PulledHead(d)}
        /\ origin' \in {origin, PulledHead(d)}
        /\ \A i \in Device \ {d} : head'[i] = head[i] /\ base'[i] = base[i]
        /\ cmd' = cmd /\ CanPull(d) /\ At(d, "idle")
    BY <1>0, <1>19 DEF SyncPullOnly, Sync, Rebase, MayRun, TreesOK
  <2>2. Seated(d)'
    BY <2>1 DEF Seated, At
  <2>. QED BY <2>1, <2>2, PulledSealed, SealedBy DEF SealedInv
<1>20. ASSUME NEW d \in Device, FollowGuidance(d) PROVE FALSE
  BY <1>20 DEF FollowGuidance
<1>. QED
  BY <1>1, <1>2, <1>4, <1>5, <1>6, <1>7, <1>9, <1>10, <1>11, <1>12, <1>13, <1>14, <1>15, <1>16,
     <1>17, <1>18, <1>19, <1>20
  DEF Next, Enrolling, Approving, Revoking, Writing, Syncing

LEMMA SealedInit == Init => CommittedInv /\ SealedInv
<1>. SUFFICES ASSUME Init PROVE CommittedInv /\ SealedInv
  OBVIOUS
<1>1. \A d \in Device : base[d] = origin /\ head[d] = origin /\ work[d] = origin /\ At(d, "idle")
  BY DEF Init, At, Idle
<1>2. CommittedInv /\ \A d \in Device : Seated(d)
  BY <1>1 DEF CommittedInv, SameSecrets, Seated, At
<1>3. ASSUME Members # {} PROVE Sealed(origin)
  <2>. SUFFICES ASSUME NEW e \in Stored
                PROVE  origin.blob[e] # None /\ origin.blob[e].to = origin.ids[Root]
    BY DEF Sealed
  <2>1. origin = Founded(Members, Stored)
    BY <1>3 DEF Init
  <2>2. origin.blob[e] = [to |-> Members, rev |-> 1, by |-> None] /\ origin.ids[Root] = Members
    BY <2>1 DEF Founded, EmptyTree, Folders
  <2>3. [to |-> Members, rev |-> 1, by |-> None] \in Cipher
    BY DEF Cipher
  <2>. QED BY <2>2, <2>3, CipherAssumption
<1>. QED BY <1>1, <1>2, <1>3 DEF SealedInv

(* Approving and revoking re-encrypt: whatever approves, revokes, edits and *)
(* pulls of however many devices meet, and whichever of their steps are     *)
(* never taken (a pass init is one), an entry that all of them knew is at   *)
(* the origin encrypted to exactly the devices on the list, as long as      *)
(* nobody asks for or is given a part of the store, no sync runs during a   *)
(* prompt and nobody resolves a conflict by hand.                           *)
THEOREM EntriesFollowTheList ==
  ASSUME Overlap = FALSE, ManualResolve = FALSE
  PROVE  Spec /\ []WholeStore => []EncryptedToList
<1>1. Init => CommittedInv /\ RootOnlyInv /\ SealedInv
  BY RootOnlyInit, SealedInit
<1>2. WholeStore /\ TypeInv /\ CommittedInv /\ RootOnlyInv /\ SealedInv /\ [Next]_vars
        => CommittedInv' /\ RootOnlyInv' /\ SealedInv'
  BY ClosedStep, RootOnlyStep, SealedStep
<1>3. RootOnlyInv /\ SealedInv => EncryptedToList
  <2>. SUFFICES ASSUME RootOnlyInv, SealedInv
                PROVE  EncryptedToList
    OBVIOUS
  <2>1. \A e \in Entry : Recipients(origin, e) = origin.ids[Root]
    BY DEF RootOnlyInv, RootOnly, Recipients, Governing
  <2>. QED BY <2>1 DEF SealedInv, Sealed, EncryptedToList, InStep
<1>. QED BY <1>1, <1>2, <1>3, InitType, NextType, PTL DEF Spec

-----------------------------------------------------------------------------
(* Parts of the store                                                      *)
(*                                                                         *)
(* Lists, records and entries are different files. Where every folder      *)
(* holds an entry, they cannot be merged apart: whoever changes the list   *)
(* of a folder, or the root's, encrypts the folder's entries anew, each    *)
(* time with a ciphertext of its own, and git refuses a merge of two. So   *)
(* a merge takes an entry together with the lists it depends on from one   *)
(* side, and a key's records from one side too, and neither side has moved *)
(* what it does not give.                                                  *)

InUse == /\ Members # {} /\ Stored # {}
         /\ \A f \in Folder : \E e \in Stored : Home[e] = f

(* What the lists over e say of x is what its record says.                 *)
Tied(t, e, x) ==
  /\ x \in t.ids[Root] <=> t.rec[<<"devices", x>>] = {}
  /\ x \in t.ids[Home[e]] \ t.ids[Root]
       <=> Has(t, "devices", x) /\ Home[e] \in t.rec[<<"devices", x>>]

(* A folder's own list holds the workstations' keys, but for `but`.         *)
Covers(t, e, but) == t.ids[Home[e]] # {} => t.ids[Root] \ but \subseteq t.ids[Home[e]]

(* A store in which nothing is under way but what concerns the keys `but`. *)
SettledBut(t, but) ==
  /\ t.ids[Root] # {}
  /\ \A x \in Device : Alone(t, x)
  /\ \A e \in Stored : /\ InStep(t, e)
                       /\ Covers(t, e, but)
                       /\ \A x \in Device \ but : Tied(t, e, x)

Settled(t) == SettledBut(t, {})

SameRecords(t, u, x) == \A k \in Kind : t.rec[<<k, x>>] = u.rec[<<k, x>>]
SameLists(t, u, e) == t.ids[Root] = u.ids[Root] /\ t.ids[Home[e]] = u.ids[Home[e]]
SameSeal(t, u, e) == t.blob[e] = u.blob[e] /\ SameLists(t, u, e)
Resealed(t, u, e) == t.blob[e].rev < u.blob[e].rev

(* What was encrypted anew from t to u, with its lists or without, was so   *)
(* by d, or by others than d.                                              *)
OwnSeals(t, u, d) ==
  \A e \in Stored : SameSeal(t, u, e) \/ (Resealed(t, u, e) /\ u.blob[e].by = d)
OthersSeals(t, u, d) ==
  \A e \in Stored : SameSeal(t, u, e) \/ (Resealed(t, u, e) /\ u.blob[e].by # d)

(* Each key is where it was, or further on.                                *)
Beyond(t, u) == \A x \in Device : SameRecords(t, u, x) \/ Rank(t, x) < Rank(u, x)

(* How d's HEAD and the origin have moved since d last saw the origin.     *)
Forked(d) ==
  /\ Beyond(base[d], origin)
  /\ Beyond(base[d], head[d])
  /\ OwnNews(base[d], head[d], d)
  /\ Rank(base[d], d) = 0 => Rank(origin, d) = 0
  /\ OthersSeals(base[d], origin, d)
  /\ \A e \in Stored : \/ SameSeal(base[d], head[d], e)
                       \/ Resealed(base[d], head[d], e) /\ head[d].blob[e].by = d
                       \/ base[d].blob[e] = head[d].blob[e] /\ Home[e] \in cmd[d].todo

(* Past the yes of an approve: which lists name its target by now.         *)
Admitting(d) ==
  LET t == head[d]
      r == cmd[d].target
      scope == cmd[d].scope
      todo == cmd[d].todo
  IN /\ SettledBut(t, {r})
     /\ r # d
     /\ r \in t.ids[Root] <=> scope = {}
     /\ \A e \in Stored :
          /\ Home[e] \in todo => IF scope = {} THEN t.ids[Home[e]] # {} ELSE Home[e] \in scope
          /\ r \in t.ids[Home[e]]
               <=> /\ Home[e] \notin todo
                   /\ IF scope = {} THEN t.ids[Home[e]] # {} ELSE Home[e] \in scope

(* Past the yes of a revoke: which lists still do.                         *)
Expelling(d) ==
  LET t == head[d]
      r == cmd[d].target
  IN /\ SettledBut(t, {r})
     /\ t.ids[Root] = cmd[d].keep
     /\ r \notin t.ids[Root]
     /\ \A e \in Stored : r \in t.ids[Home[e]] <=> Home[e] \in cmd[d].todo

Stands(d) ==
  /\ cmd[d].step \in {"idle", "approve", "revoke", "record"} => cmd[d].todo = {}
  /\ cmd[d].step \in {"idle", "approve", "revoke"} => Settled(head[d])
  /\ At(d, "approving") => Admitting(d)
  /\ At(d, "revoking") => Expelling(d)
  /\ At(d, "record") => /\ Settled(work[d])
                        /\ Beyond(head[d], work[d])
                        /\ OwnNews(head[d], work[d], d)

SettledInv ==
  /\ Settled(origin)
  /\ \A d \in Device : /\ Settled(base[d])
                       /\ Forked(d)
                       /\ Stands(d)
                       /\ Seated(d)

LEMMA SameRecordsAlike ==
  ASSUME NEW t, NEW u, NEW x, SameRecords(t, u, x)
  PROVE  /\ \A k \in Kind : Has(t, k, x) <=> Has(u, k, x)
         /\ Rank(t, x) = Rank(u, x)
         /\ Alone(t, x) <=> Alone(u, x)
<1>1. \A k \in Kind : Has(t, k, x) <=> Has(u, k, x)
  BY DEF SameRecords, Has
<1>. QED BY <1>1 DEF Rank, Alone, Kind

LEMMA BeyondIsLater ==
  ASSUME NEW t, NEW u, Beyond(t, u)
  PROVE  Later(t, u)
<1>1. ASSUME NEW x \in Device PROVE Rank(t, x) <= Rank(u, x)
  BY SameRecordsAlike, RankNat DEF Beyond
<1>. QED BY <1>1 DEF Later

LEMMA BeyondTransitive ==
  ASSUME NEW t, NEW u, NEW v, Beyond(t, u), Beyond(u, v)
  PROVE  Beyond(t, v)
<1>. SUFFICES ASSUME NEW x \in Device
              PROVE  SameRecords(t, v, x) \/ Rank(t, x) < Rank(v, x)
  BY DEF Beyond
<1>1. CASE SameRecords(t, u, x) /\ SameRecords(u, v, x)
  BY <1>1 DEF SameRecords
<1>2. CASE SameRecords(t, u, x) /\ Rank(u, x) < Rank(v, x)
  BY <1>2, SameRecordsAlike
<1>3. CASE Rank(t, x) < Rank(u, x) /\ SameRecords(u, v, x)
  BY <1>3, SameRecordsAlike
<1>4. CASE Rank(t, x) < Rank(u, x) /\ Rank(u, x) < Rank(v, x)
  BY <1>4, RankNat
<1>. QED BY <1>1, <1>2, <1>3, <1>4 DEF Beyond

LEMMA SameBeyond ==
  ASSUME NEW t, NEW u, t.rec = u.rec
  PROVE  Beyond(t, u) /\ \A d \in Device : OwnNews(t, u, d)
BY SameStage DEF Beyond, SameRecords, OwnNews

(* A merge takes a key's records from one side, and the other has not      *)
(* moved them or has moved them alike.                                     *)
LEMMA MergedRecords ==
  ASSUME NEW b \in Tree, NEW ours \in Tree, NEW theirs \in Tree,
         ~Clash(b, ours, theirs), NEW x \in Device,
         Alone(b, x), Alone(ours, x), Alone(theirs, x),
         SameRecords(b, ours, x) \/ Rank(b, x) < Rank(ours, x),
         SameRecords(b, theirs, x) \/ Rank(b, x) < Rank(theirs, x),
         Rank(b, x) = 0 => Rank(ours, x) = 0 \/ Rank(theirs, x) = 0
  PROVE  LET m == Merge(b, ours, theirs)
         IN \/ SameRecords(b, ours, x) /\ SameRecords(theirs, m, x)
            \/ SameRecords(b, theirs, x) /\ SameRecords(ours, m, x)
            \/ SameRecords(ours, theirs, x) /\ SameRecords(ours, m, x)
<1>. DEFINE m == Merge(b, ours, theirs)
<1>1. \A k \in Kind : m.rec[<<k, x>>] = IF ours.rec[<<k, x>>] = b.rec[<<k, x>>]
                                        THEN theirs.rec[<<k, x>>] ELSE ours.rec[<<k, x>>]
  BY DEF Merge, Merge3, Tree
<1>2. \A k \in Kind : \/ ours.rec[<<k, x>>] = b.rec[<<k, x>>]
                      \/ theirs.rec[<<k, x>>] = b.rec[<<k, x>>]
                      \/ ours.rec[<<k, x>>] = theirs.rec[<<k, x>>]
  BY DEF Clash, Clash3, Tree
<1>. HIDE DEF m
<1>3. CASE SameRecords(b, ours, x)
  BY <1>1, <1>3 DEF SameRecords, m
<1>4. CASE SameRecords(b, theirs, x)
  BY <1>1, <1>4 DEF SameRecords, m
<1>5. CASE Rank(b, x) < Rank(ours, x) /\ Rank(b, x) < Rank(theirs, x)
  <2>1. \A t \in {b, ours, theirs} : /\ Has(t, "revoked", x) <=> Rank(t, x) = 3
                                     /\ Has(t, "devices", x) <=> Rank(t, x) = 2
                                     /\ Has(t, "pending", x) <=> Rank(t, x) = 1
                                     /\ Rank(t, x) \in 0..3
    BY RankHas
  <2>2. Rank(b, x) \in {1, 2} /\ Rank(ours, x) \in {2, 3} /\ Rank(theirs, x) \in {2, 3}
    BY <1>5, <2>1
  <2>3. Rank(ours, x) = Rank(theirs, x)
    <3>1. ~RenameClash(b, ours, theirs)
      BY DEF Clash
    <3>2. ~(/\ Has(b, "pending", x) /\ ~Has(ours, "pending", x) /\ ~Has(theirs, "pending", x)
            /\ ~Has(b, "devices", x) /\ ~Has(b, "revoked", x)
            /\ \/ Has(ours, "devices", x) /\ Has(theirs, "revoked", x)
               \/ Has(ours, "revoked", x) /\ Has(theirs, "devices", x))
      BY <3>1 DEF RenameClash, Kind
    <3>. QED BY <1>5, <2>1, <2>2, <3>2
  <2>4. ASSUME NEW k \in Kind PROVE ours.rec[<<k, x>>] = theirs.rec[<<k, x>>]
    <3>1. CASE ~Has(ours, k, x) /\ ~Has(theirs, k, x)
      BY <3>1 DEF Has
    <3>2. CASE Has(ours, k, x) /\ Has(theirs, k, x) /\ ~Has(b, k, x)
      BY <1>2, <3>2 DEF Has
    <3>. QED BY <1>5, <2>1, <2>2, <2>3, <3>1, <3>2 DEF Kind
  <2>5. SameRecords(ours, theirs, x)
    BY <2>4 DEF SameRecords
  <2>6. SameRecords(ours, m, x)
    BY <1>1, <2>4 DEF SameRecords
  <2>. QED BY <2>5, <2>6 DEF m
<1>. QED BY <1>3, <1>4, <1>5

(* It takes an entry with the lists over it from one side, and the other   *)
(* has left them alone: two ciphertexts made anew are never the same.      *)
LEMMA MergedSeal ==
  ASSUME NEW b \in Tree, NEW ours \in Tree, NEW theirs \in Tree,
         ~Clash(b, ours, theirs), NEW e \in Stored, NEW d,
         b.blob[e] # None,
         SameSeal(b, theirs, e) \/ (Resealed(b, theirs, e) /\ theirs.blob[e].by # d),
         SameSeal(b, ours, e) \/ (Resealed(b, ours, e) /\ ours.blob[e].by = d)
  PROVE  LET m == Merge(b, ours, theirs)
         IN \/ SameSeal(b, ours, e) /\ SameSeal(theirs, m, e)
            \/ SameSeal(b, theirs, e) /\ SameSeal(ours, m, e)
<1>. DEFINE m == Merge(b, ours, theirs)
<1>0. Home[e] \in Folders /\ Root \in Folders /\ e \in Entry
  BY DEF Folders
<1>1. /\ \A f \in Folders : m.ids[f] = IF ours.ids[f] = b.ids[f] THEN theirs.ids[f] ELSE ours.ids[f]
      /\ m.blob[e] = IF ours.blob[e] = b.blob[e] THEN theirs.blob[e] ELSE ours.blob[e]
  BY <1>0 DEF Merge, Merge3, Tree
<1>2. \/ ours.blob[e] = b.blob[e]
      \/ theirs.blob[e] = b.blob[e]
      \/ ours.blob[e] = theirs.blob[e]
  BY <1>0 DEF Clash, Clash3, Tree
<1>. HIDE DEF m
<1>3. b.blob[e].rev \in Nat
  BY <1>0 DEF Tree, Cipher
<1>4. CASE SameSeal(b, ours, e)
  BY <1>0, <1>1, <1>4 DEF SameSeal, SameLists, m
<1>5. CASE SameSeal(b, theirs, e)
  BY <1>0, <1>1, <1>5 DEF SameSeal, SameLists, m
<1>6. CASE /\ Resealed(b, theirs, e) /\ theirs.blob[e].by # d
           /\ Resealed(b, ours, e) /\ ours.blob[e].by = d
  BY <1>2, <1>3, <1>6 DEF Resealed
<1>. QED BY <1>4, <1>5, <1>6

(* What Settled says of an entry and a key follows its lists, its          *)
(* ciphertext and the key's records wherever these go together.            *)
LEMMA SealStays ==
  ASSUME NEW t, NEW u, NEW e \in Stored, SameSeal(t, u, e), NEW but
  PROVE  /\ InStep(t, e) <=> InStep(u, e)
         /\ Covers(t, e, but) <=> Covers(u, e, but)
BY DEF SameSeal, SameLists, InStep, Covers, Recipients, Governing

LEMMA SettledStays ==
  ASSUME NEW t, NEW u, t.ids = u.ids, t.blob = u.blob, t.rec = u.rec, Settled(t)
  PROVE  Settled(u)
BY SameStage DEF Settled, SettledBut, InStep, Covers, Tied, Recipients, Governing, Has

(* The merge of two settled stores that started from a third is settled.   *)
LEMMA MergeSettled ==
  ASSUME InUse, NEW b \in Tree, NEW ours \in Tree, NEW theirs \in Tree, NEW d,
         ~Clash(b, ours, theirs), Settled(b), Settled(ours), Settled(theirs),
         Beyond(b, ours), Beyond(b, theirs),
         OwnNews(b, ours, d), Rank(b, d) = 0 => Rank(theirs, d) = 0,
         OwnSeals(b, ours, d), OthersSeals(b, theirs, d),
         NEW m, m = Merge(b, ours, theirs)
  PROVE  /\ Settled(m)
         /\ Beyond(theirs, m)
         /\ OwnNews(theirs, m, d)
         /\ OwnSeals(theirs, m, d)
<1>1. ASSUME NEW x \in Device
      PROVE  /\ Alone(b, x) /\ Alone(ours, x) /\ Alone(theirs, x)
             /\ SameRecords(b, ours, x) \/ Rank(b, x) < Rank(ours, x)
             /\ SameRecords(b, theirs, x) \/ Rank(b, x) < Rank(theirs, x)
             /\ Rank(b, x) = 0 => Rank(ours, x) = 0 \/ Rank(theirs, x) = 0
  BY DEF Settled, SettledBut, Beyond, OwnNews
<1>2. ASSUME NEW x \in Device
      PROVE  \/ SameRecords(b, ours, x) /\ SameRecords(theirs, m, x)
             \/ SameRecords(b, theirs, x) /\ SameRecords(ours, m, x)
             \/ SameRecords(ours, theirs, x) /\ SameRecords(ours, m, x)
  BY <1>1, MergedRecords
<1>3. ASSUME NEW e \in Stored
      PROVE  \/ SameSeal(b, ours, e) /\ SameSeal(theirs, m, e)
             \/ SameSeal(b, theirs, e) /\ SameSeal(ours, m, e)
  BY MergedSeal DEF Settled, SettledBut, InStep, OwnSeals, OthersSeals
<1>4. m.ids[Root] # {}
  BY <1>3 DEF InUse, SameSeal, SameLists, Settled, SettledBut
<1>5. \A x \in Device : Alone(m, x)
  BY <1>1, <1>2, SameRecordsAlike
<1>6. ASSUME NEW e \in Stored PROVE InStep(m, e) /\ Covers(m, e, {})
  BY <1>3, SealStays DEF Settled, SettledBut
<1>7. ASSUME NEW e \in Stored, NEW x \in Device PROVE Tied(m, e, x)
  <2>1. Tied(b, e, x) /\ Tied(ours, e, x) /\ Tied(theirs, e, x)
    BY DEF Settled, SettledBut
  <2>2. CASE SameSeal(b, ours, e) /\ SameSeal(theirs, m, e)
    BY <1>2, <2>1, <2>2 DEF SameRecords, SameSeal, SameLists, Tied, Has, Kind
  <2>3. CASE SameSeal(b, theirs, e) /\ SameSeal(ours, m, e)
    BY <1>2, <2>1, <2>3 DEF SameRecords, SameSeal, SameLists, Tied, Has, Kind
  <2>. QED BY <1>3, <2>2, <2>3
<1>8. Settled(m)
  BY <1>4, <1>5, <1>6, <1>7 DEF Settled, SettledBut
<1>9. ASSUME NEW x \in Device
      PROVE  /\ SameRecords(theirs, m, x) \/ Rank(theirs, x) < Rank(m, x)
             /\ Rank(ours, x) = 0 /\ Rank(theirs, x) = 0 => Rank(m, x) = 0
  BY <1>1, <1>2, SameRecordsAlike DEF SameRecords
<1>10. ASSUME NEW x \in Device \ {d}, Rank(theirs, x) = 0 PROVE Rank(m, x) = 0
  <2>1. Rank(b, x) = 0
    BY <1>10, BeyondIsLater, RankNat DEF Later
  <2>2. Rank(ours, x) = 0
    BY <2>1 DEF OwnNews
  <2>. QED BY <1>9, <1>10, <2>2
<1>11. ASSUME NEW e \in Stored
       PROVE  SameSeal(theirs, m, e) \/ (Resealed(theirs, m, e) /\ m.blob[e].by = d)
  BY <1>3 DEF SameSeal, SameLists, Resealed, OwnSeals
<1>. QED BY <1>8, <1>9, <1>10, <1>11 DEF Beyond, OwnNews, OwnSeals

LEMMA PulledSettled ==
  ASSUME InUse, TreesOK, SettledInv, NEW d \in Device, ~Conflicted(d),
         cmd[d].step \in {"idle", "approve", "revoke"}
  PROVE  /\ Settled(PulledHead(d))
         /\ Beyond(origin, PulledHead(d))
         /\ OwnNews(origin, PulledHead(d), d)
         /\ OwnSeals(origin, PulledHead(d), d)
<1>1. Settled(head[d]) /\ Settled(base[d]) /\ Settled(origin) /\ Forked(d) /\ cmd[d].todo = {}
  BY DEF SettledInv, Stands
<1>2. /\ Beyond(base[d], origin) /\ Beyond(base[d], head[d]) /\ OwnNews(base[d], head[d], d)
      /\ Rank(base[d], d) = 0 => Rank(origin, d) = 0
      /\ OthersSeals(base[d], origin, d) /\ OwnSeals(base[d], head[d], d)
  BY <1>1 DEF Forked, OwnSeals
<1>3. base[d] \in Tree /\ head[d] \in Tree /\ origin \in Tree /\ ~Clash(base[d], head[d], origin)
  BY DEF TreesOK, Conflicted
<1>. QED BY <1>1, <1>2, <1>3, MergeSettled DEF PulledHead

(* pass init by a device on the list: what it governs is encrypted anew    *)
(* wherever that changes who may read it.                                  *)
LEMMA PassInitSeals ==
  ASSUME NEW t \in Tree, NEW f \in Folders, NEW ids \in SUBSET Device, NEW d \in Device,
         NEW e \in Stored, InStep(t, e), d \in Recipients(t, e),
         NEW u, u = PassInit(t, d, f, ids)
  PROVE  /\ InStep(u, e)
         /\ \/ u.blob[e] = t.blob[e] /\ Recipients(u, e) = Recipients(t, e)
            \/ Resealed(t, u, e) /\ u.blob[e].by = d /\ u.blob[e].rev \in Nat
<1>. DEFINE t1 == [t EXCEPT !.ids[f] = ids]
<1>0. e \in Entry /\ Home[e] \in Folders /\ Root \in Folders
  BY DEF Folders
<1>1. u \in Tree /\ u.rec = t.rec
  BY PassInitType
<1>2. t1.ids = [t.ids EXCEPT ![f] = ids] /\ DOMAIN t.ids = Folders
  BY DEF Tree
<1>3. u.ids = t1.ids
  BY DEF PassInit, Tree
<1>4. u.blob[e] = IF /\ f \in {Root, Home[e]}
                     /\ t.blob[e] # None
                     /\ t.blob[e].to # Recipients(t1, e)
                     /\ d \in t.blob[e].to
                  THEN Seal(t.blob[e], d, Recipients(t1, e)) ELSE t.blob[e]
  BY <1>0 DEF PassInit, Tree
<1>5. Recipients(u, e) = Recipients(t1, e)
  BY <1>3 DEF Recipients, Governing
<1>. HIDE DEF t1
<1>6. t.blob[e] \in Cipher /\ t.blob[e] # None /\ t.blob[e].to = Recipients(t, e)
  BY <1>0 DEF InStep, Tree
<1>7. f \notin {Root, Home[e]} => Recipients(t1, e) = Recipients(t, e)
  BY <1>0, <1>2 DEF Recipients, Governing
<1>8. CASE Recipients(t1, e) = Recipients(t, e)
  BY <1>4, <1>5, <1>6, <1>8 DEF InStep
<1>9. CASE Recipients(t1, e) # Recipients(t, e)
  <2>1. u.blob[e] = Seal(t.blob[e], d, Recipients(u, e))
    BY <1>4, <1>5, <1>6, <1>7, <1>9
  <2>2. Recipients(u, e) \in SUBSET Device
    BY <1>0, <1>1, RecipientsType
  <2>3. u.blob[e] \in Cipher /\ u.blob[e].to = Recipients(u, e)
    BY <1>6, <2>1, <2>2, SealType
  <2>4. u.blob[e].rev = t.blob[e].rev + 1 /\ u.blob[e].by = d /\ t.blob[e].rev \in Nat
        /\ u.blob[e].rev \in Nat
    BY <1>6, <2>1 DEF Seal, Cipher
  <2>5. Resealed(t, u, e)
    BY <2>4 DEF Resealed
  <2>. QED BY <2>3, <2>4, <2>5, CipherAssumption DEF InStep
<1>. QED BY <1>8, <1>9

LEMMA SealNumber ==
  ASSUME NEW t \in Tree, Settled(t), NEW e \in Stored
  PROVE  t.blob[e] \in Cipher /\ t.blob[e].rev \in Nat
BY DEF Settled, SettledBut, InStep, Tree, Cipher

LEMMA SealsChain ==
  ASSUME NEW t \in Tree, NEW u \in Tree, NEW v \in Tree, Settled(t), Settled(u), Settled(v),
         NEW d, OwnSeals(u, v, d)
  PROVE  /\ OwnSeals(t, u, d) => OwnSeals(t, v, d)
         /\ \A i : i # d /\ OthersSeals(t, u, i) => OthersSeals(t, v, i)
<1>1. ASSUME NEW e \in Stored
      PROVE  t.blob[e].rev \in Nat /\ u.blob[e].rev \in Nat /\ v.blob[e].rev \in Nat
  BY SealNumber
<1>2. ASSUME OwnSeals(t, u, d), NEW e \in Stored
      PROVE  SameSeal(t, v, e) \/ (Resealed(t, v, e) /\ v.blob[e].by = d)
  BY <1>1, <1>2 DEF OwnSeals, SameSeal, SameLists, Resealed
<1>3. ASSUME NEW i, i # d, OthersSeals(t, u, i), NEW e \in Stored
      PROVE  SameSeal(t, v, e) \/ (Resealed(t, v, e) /\ v.blob[e].by # i)
  BY <1>1, <1>3 DEF OwnSeals, OthersSeals, SameSeal, SameLists, Resealed
<1>. QED BY <1>2, <1>3 DEF OwnSeals, OthersSeals

(* A step of d alone leaves the others where they are ...                  *)
LEMMA OthersStand ==
  ASSUME SettledInv, NEW i \in Device,
         base'[i] = base[i], head'[i] = head[i], work'[i] = work[i], cmd'[i] = cmd[i]
  PROVE  /\ Settled(base'[i]) /\ Stands(i)' /\ Seated(i)'
         /\ origin' = origin => Forked(i)'
<1>1. Settled(base[i]) /\ Stands(i) /\ Seated(i) /\ Forked(i)
  BY DEF SettledInv
<1>2. Stands(i)'
  BY <1>1 DEF Stands, Admitting, Expelling, At
<1>. QED BY <1>1, <1>2 DEF Seated, Forked, At

(* ... even when the origin moves by what d made known and encrypted.      *)
LEMMA OthersForked ==
  ASSUME TreesOK, SettledInv, NEW d \in Device, NEW i \in Device \ {d},
         base'[i] = base[i], head'[i] = head[i], cmd'[i] = cmd[i],
         origin' \in Tree, Settled(origin'), Beyond(origin, origin'), OwnNews(origin, origin', d),
         OwnSeals(origin, origin', d)
  PROVE  Forked(i)'
<1>1. Settled(base[i]) /\ Settled(origin) /\ Forked(i) /\ base[i] \in Tree /\ origin \in Tree
  BY DEF SettledInv, TreesOK
<1>2. Beyond(base[i], origin')
  BY <1>1, BeyondTransitive DEF Forked
<1>3. OthersSeals(base[i], origin', i)
  BY <1>1, SealsChain DEF Forked
<1>4. Rank(base[i], i) = 0 => Rank(origin', i) = 0
  BY <1>1 DEF Forked, OwnNews
<1>. QED BY <1>1, <1>2, <1>3, <1>4 DEF Forked

LEMMA SameSeals ==
  ASSUME NEW t, NEW u, t.ids = u.ids, t.blob = u.blob
  PROVE  \A d : OwnSeals(t, u, d) /\ OthersSeals(t, u, d)
BY DEF OwnSeals, OthersSeals, SameSeal, SameLists

(* d publishes, and goes back to a prompt of approve or to rest.           *)
LEMMA PublishSettled ==
  ASSUME TreesOK, SettledInv, NEW d \in Device, NEW t \in Tree, Publish(d, t),
         Settled(t), t.ids = head[d].ids, t.blob = head[d].blob,
         Beyond(head[d], t), OwnNews(head[d], t, d),
         cmd[d].todo = {}, cmd'[d].todo = {}, cmd'[d].step \in {"idle", "approve"},
         cmd'[d].step = "approve" => ~At(d, "idle"),
         \A i \in Device \ {d} : cmd'[i] = cmd[i]
  PROVE  SettledInv'
<1>1. /\ head'[d] = t
      /\ \A i \in Device \ {d} : base'[i] = base[i] /\ head'[i] = head[i] /\ work'[i] = work[i]
  BY DEF Publish, TreesOK
<1>2. Forked(d) /\ Settled(base[d]) /\ Settled(origin) /\ Seated(d)
  BY DEF SettledInv
<1>3. /\ Beyond(base[d], t) /\ OwnNews(base[d], t, d) /\ OwnSeals(base[d], t, d)
  <2>1. Beyond(base[d], t) /\ OwnNews(base[d], t, d)
    BY <1>2, BeyondTransitive DEF Forked, OwnNews
  <2>2. OwnSeals(base[d], t, d)
    BY <1>2 DEF Forked, OwnSeals, SameSeal, SameLists, Resealed
  <2>. QED BY <2>1, <2>2
<1>4. Stands(d)' /\ Seated(d)'
  BY <1>1, <1>2 DEF Stands, Seated, At
<1>5. ASSUME NEW i \in Device \ {d} PROVE Settled(base'[i]) /\ Stands(i)' /\ Seated(i)'
  BY <1>1, OthersStand
<1>6. CASE UNCHANGED <<origin, base>>
  <2>1. Forked(d)'
    BY <1>1, <1>2, <1>3, <1>6 DEF Forked, OwnSeals
  <2>2. \A i \in Device \ {d} : Forked(i)'
    BY <1>1, <1>6, OthersStand
  <2>. QED BY <1>2, <1>4, <1>5, <1>6, <2>1, <2>2 DEF SettledInv
<1>7. CASE origin = base[d] /\ origin' = t /\ base' = [base EXCEPT ![d] = t]
  <2>1. base'[d] = t
    BY <1>7 DEF TreesOK
  <2>2. \A i \in Device \ {d} : Forked(i)'
    BY <1>1, <1>3, <1>7, OthersForked
  <2>3. Beyond(t, t) /\ OwnNews(t, t, d) /\ OwnSeals(t, t, d) /\ OthersSeals(t, t, d)
    BY SameBeyond, SameSeals
  <2>4. Forked(d)'
    BY <1>1, <1>7, <2>1, <2>3 DEF Forked, OwnSeals
  <2>. QED BY <1>4, <1>5, <1>7, <2>1, <2>2, <2>4 DEF SettledInv
<1>. QED BY <1>6, <1>7 DEF Publish

(* d pulls, and perhaps pushes, at rest.                                   *)
LEMMA PullSettled ==
  ASSUME InUse, TreesOK, SettledInv, NEW d \in Device, CanPull(d), At(d, "idle"),
         head'[d] = PulledHead(d), base'[d] = origin', origin' \in {origin, PulledHead(d)},
         \A i \in Device \ {d} : /\ base'[i] = base[i] /\ head'[i] = head[i]
                                 /\ work'[i] = work[i] /\ cmd'[i] = cmd[i],
         cmd'[d].todo = {}, cmd'[d].step \in {"idle", "approve", "revoke"}, Seated(d)'
  PROVE  SettledInv'
<1>. DEFINE m == PulledHead(d)
<1>1. Settled(m) /\ Beyond(origin, m) /\ OwnNews(origin, m, d) /\ OwnSeals(origin, m, d)
  BY PulledSettled DEF CanPull, At
<1>2. m \in Tree /\ origin \in Tree /\ Settled(origin)
  BY PulledType DEF TreesOK, SettledInv
<1>. HIDE DEF m
<1>3. /\ Settled(origin') /\ Beyond(origin, origin') /\ OwnNews(origin, origin', d)
      /\ OwnSeals(origin, origin', d) /\ origin' \in Tree
      /\ Beyond(origin', m) /\ OwnNews(origin', m, d) /\ OwnSeals(origin', m, d)
      /\ Beyond(origin', origin') /\ OthersSeals(origin', origin', d)
  BY <1>1, <1>2, SameBeyond, SameSeals DEF m
<1>4. ASSUME NEW i \in Device \ {d}
      PROVE  Settled(base'[i]) /\ Stands(i)' /\ Seated(i)' /\ Forked(i)'
  BY <1>3, OthersStand, OthersForked
<1>5. Stands(d)'
  BY <1>1 DEF Stands, At, m
<1>6. Forked(d)'
  BY <1>3 DEF Forked, OwnSeals, m
<1>. QED BY <1>3, <1>4, <1>5, <1>6 DEF SettledInv

(* A step of d that stays on its clone and writes no record of its HEAD.   *)
LEMMA LocalSettled ==
  ASSUME SettledInv, NEW d \in Device, UNCHANGED <<origin, base>>,
         head'[d].rec = head[d].rec,
         \A i \in Device \ {d} : head'[i] = head[i] /\ work'[i] = work[i] /\ cmd'[i] = cmd[i],
         Stands(d)', Seated(d)',
         \A e \in Stored : \/ SameSeal(base[d], head'[d], e)
                           \/ Resealed(base[d], head'[d], e) /\ head'[d].blob[e].by = d
                           \/ base[d].blob[e] = head'[d].blob[e] /\ Home[e] \in cmd'[d].todo
  PROVE  SettledInv'
<1>1. Forked(d) /\ Settled(origin)
  BY DEF SettledInv
<1>2. Beyond(head[d], head'[d]) /\ OwnNews(head[d], head'[d], d)
  BY SameBeyond
<1>3. Beyond(base[d], head'[d]) /\ OwnNews(base[d], head'[d], d)
  BY <1>1, <1>2, BeyondTransitive DEF Forked, OwnNews
<1>4. Forked(d)'
  BY <1>1, <1>3 DEF Forked
<1>5. ASSUME NEW i \in Device \ {d}
      PROVE  Settled(base'[i]) /\ Stands(i)' /\ Seated(i)' /\ Forked(i)'
  BY OthersStand
<1>. QED BY <1>1, <1>4, <1>5 DEF SettledInv

(* What d's HEAD has changed since its base, if one step goes on with it.  *)
LEMMA SealsGoOn ==
  ASSUME TreesOK, SettledInv, NEW d \in Device, NEW e \in Stored, NEW t, NEW todo,
         InStep(head[d], e),
         \/ SameSeal(head[d], t, e) /\ (Home[e] \in cmd[d].todo => Home[e] \in todo)
         \/ head[d].blob[e] = t.blob[e] /\ Home[e] \in todo
         \/ Resealed(head[d], t, e) /\ t.blob[e].by = d /\ t.blob[e].rev \in Nat
  PROVE  \/ SameSeal(base[d], t, e)
         \/ Resealed(base[d], t, e) /\ t.blob[e].by = d
         \/ base[d].blob[e] = t.blob[e] /\ Home[e] \in todo
<1>1. base[d] \in Tree /\ head[d] \in Tree /\ Settled(base[d]) /\ Forked(d)
  BY DEF TreesOK, SettledInv
<1>2. base[d].blob[e].rev \in Nat /\ head[d].blob[e].rev \in Nat
  BY <1>1, SealNumber DEF InStep, Tree, Cipher
<1>3. \/ SameSeal(base[d], head[d], e)
      \/ Resealed(base[d], head[d], e) /\ head[d].blob[e].by = d
      \/ base[d].blob[e] = head[d].blob[e] /\ Home[e] \in cmd[d].todo
  BY <1>1 DEF Forked
<1>. QED BY <1>2, <1>3 DEF SameSeal, SameLists, Resealed

(* What the files of the store hold after a record is written ...          *)
LEMMA WrittenFiles ==
  ASSUME NEW t \in Tree, NEW r \in Device, NEW k \in Kind, NEW scope \in Record,
         NEW u, u = WriteRecord(t, k, r, scope)
  PROVE  /\ u \in Tree /\ u.ids = t.ids /\ u.blob = t.blob
         /\ \A j \in Kind, x \in Device :
              u.rec[<<j, x>>] = IF <<j, x>> = <<k, r>> THEN scope ELSE t.rec[<<j, x>>]
<1>1. u \in Tree
  BY RecordType
<1>2. u.ids = t.ids /\ u.blob = t.blob
  BY DEF WriteRecord, Tree
<1>3. ASSUME NEW j \in Kind, NEW x \in Device
      PROVE  u.rec[<<j, x>>] = IF <<j, x>> = <<k, r>> THEN scope ELSE t.rec[<<j, x>>]
  BY DEF WriteRecord, Tree
<1>. QED BY <1>1, <1>2, <1>3

(* ... or moved.                                                           *)
LEMMA MovedFiles ==
  ASSUME NEW t \in Tree, NEW r \in Device, NEW src \in Kind, NEW dst \in Kind, Has(t, src, r),
         NEW u, u = Move(t, src, dst, r)
  PROVE  /\ u \in Tree /\ u.ids = t.ids /\ u.blob = t.blob
         /\ \A j \in Kind, x \in Device :
              u.rec[<<j, x>>] = IF <<j, x>> = <<dst, r>> THEN t.rec[<<src, r>>]
                                ELSE IF <<j, x>> = <<src, r>> THEN None ELSE t.rec[<<j, x>>]
<1>. DEFINE emptied == [t.rec EXCEPT ![<<src, r>>] = None]
            moved == [emptied EXCEPT ![<<dst, r>>] = t.rec[<<src, r>>]]
<1>1. u \in Tree
  BY RecordType
<1>2. u.rec = moved /\ u.ids = t.ids /\ u.blob = t.blob
  BY DEF Move, Tree
<1>3. ASSUME NEW j \in Kind, NEW x \in Device
      PROVE  u.rec[<<j, x>>] = IF <<j, x>> = <<dst, r>> THEN t.rec[<<src, r>>]
                               ELSE IF <<j, x>> = <<src, r>> THEN None ELSE t.rec[<<j, x>>]
  <2>1. DOMAIN t.rec = Kind \X Device /\ DOMAIN emptied = Kind \X Device
    BY DEF Tree
  <2>2. <<j, x>> \in Kind \X Device
    OBVIOUS
  <2>3. emptied[<<j, x>>] = IF <<j, x>> = <<src, r>> THEN None ELSE t.rec[<<j, x>>]
    BY <2>1, <2>2
  <2>. HIDE DEF emptied
  <2>. QED BY <1>2, <2>1, <2>2, <2>3
<1>. QED BY <1>1, <1>2, <1>3

(* Where only r's records change, the others stay tied as they were.       *)
LEMMA OneTied ==
  ASSUME NEW t, NEW u, NEW r \in Device, t.ids = u.ids, t.blob = u.blob,
         SettledBut(t, {r}) \/ Settled(t),
         \A x \in Device \ {r}, k \in Kind : u.rec[<<k, x>>] = t.rec[<<k, x>>],
         Alone(u, r), \A e \in Stored : Covers(t, e, {}) /\ Tied(u, e, r)
  PROVE  Settled(u)
<1>1. \A x \in Device \ {r} : SameRecords(t, u, x)
  BY DEF SameRecords
<1>2. \A x \in Device : Alone(u, x)
  BY <1>1, SameRecordsAlike DEF Settled, SettledBut
<1>3. ASSUME NEW e \in Stored, NEW x \in Device PROVE Tied(u, e, x)
  <2>1. CASE x # r
    <3>1. Tied(t, e, x) /\ u.rec[<<"devices", x>>] = t.rec[<<"devices", x>>]
      BY <2>1 DEF Settled, SettledBut, Kind
    <3>. QED BY <3>1 DEF Tied, Has
  <2>. QED BY <2>1
<1>4. \A e \in Stored : InStep(u, e) /\ Covers(u, e, {})
  BY DEF Settled, SettledBut, InStep, Covers, Recipients, Governing
<1>. QED BY <1>2, <1>3, <1>4 DEF Settled, SettledBut

(* One key's records move on, the others stay.                             *)
LEMMA OneBeyond ==
  ASSUME NEW t, NEW u, NEW r \in Device,
         \A x \in Device \ {r}, k \in Kind : u.rec[<<k, x>>] = t.rec[<<k, x>>],
         Rank(t, r) < Rank(u, r)
  PROVE  /\ Beyond(t, u)
         /\ \A d \in Device : d = r \/ Rank(t, r) # 0 => OwnNews(t, u, d)
<1>1. \A x \in Device \ {r} : SameRecords(t, u, x) /\ Rank(t, x) = Rank(u, x)
  BY SameRecordsAlike DEF SameRecords
<1>. QED BY <1>1 DEF Beyond, OwnNews

LEMMA SettledWeaker ==
  ASSUME NEW t, Settled(t), NEW r
  PROVE  SettledBut(t, {r})
BY DEF Settled, SettledBut, Covers

(* A workstation other than the ones in question reads every entry.        *)
LEMMA SettledReads ==
  ASSUME NEW t, NEW but, SettledBut(t, but), NEW d, d \in t.ids[Root] \ but, NEW e \in Stored
  PROVE  d \in Recipients(t, e)
BY DEF SettledBut, Covers, Recipients, Governing

(* Lists rewritten for r alone, and ciphertexts with them.                 *)
LEMMA ListedForOne ==
  ASSUME NEW t, NEW u, NEW r \in Device, SettledBut(t, {r}), u.rec = t.rec,
         u.ids[Root] # {}, \A e \in Stored : InStep(u, e) /\ Covers(u, e, {r}),
         \A x \in Device \ {r} : x \in u.ids[Root] <=> x \in t.ids[Root],
         \A e \in Stored, x \in Device \ {r} :
           x \in u.ids[Home[e]] \ u.ids[Root] <=> x \in t.ids[Home[e]] \ t.ids[Root]
  PROVE  SettledBut(u, {r})
<1>1. \A x \in Device : Alone(u, x)
  BY SameStage DEF SettledBut
<1>2. ASSUME NEW e \in Stored, NEW x \in Device \ {r} PROVE Tied(u, e, x)
  BY SameStage DEF SettledBut, Tied, Kind
<1>. QED BY <1>1, <1>2 DEF SettledBut

(* pass init on d's HEAD, for a command about r.                           *)
LEMMA PassCommitsSettled ==
  ASSUME TreesOK, SettledInv, NEW d \in Device, NEW f \in Folders, NEW ids \in SUBSET Device,
         PassCommits(d, f, ids), NEW r, SettledBut(head[d], {r}), d # r, ~At(d, "idle")
  PROVE  /\ head'[d] \in Tree /\ head'[d].rec = head[d].rec
         /\ head'[d].ids = [head[d].ids EXCEPT ![f] = ids]
         /\ \A i \in Device \ {d} : head'[i] = head[i] /\ work'[i] = work[i]
         /\ \A e \in Stored :
              /\ InStep(head[d], e) /\ InStep(head'[d], e)
              /\ \/ /\ head[d].blob[e] = head'[d].blob[e]
                    /\ Recipients(head'[d], e) = Recipients(head[d], e)
                 \/ /\ Resealed(head[d], head'[d], e) /\ head'[d].blob[e].by = d
                    /\ head'[d].blob[e].rev \in Nat
<1>1. /\ head'[d] = PassInit(head[d], d, f, ids) /\ head[d] \in Tree
      /\ \A i \in Device \ {d} : head'[i] = head[i] /\ work'[i] = work[i]
  BY DEF TreesOK, PassCommits
<1>2. d \in head[d].ids[Root]
  BY DEF SettledInv, Seated
<1>3. head'[d] \in Tree /\ head'[d].rec = head[d].rec /\ head'[d].ids = [head[d].ids EXCEPT ![f] = ids]
  <2>1. PassInit(head[d], d, f, ids).ids = [head[d].ids EXCEPT ![f] = ids]
    BY <1>1 DEF PassInit, Tree
  <2>. QED BY <1>1, <2>1, PassInitType
<1>4. ASSUME NEW e \in Stored
      PROVE  /\ InStep(head[d], e) /\ InStep(head'[d], e)
             /\ \/ /\ head[d].blob[e] = head'[d].blob[e]
                   /\ Recipients(head'[d], e) = Recipients(head[d], e)
                \/ /\ Resealed(head[d], head'[d], e) /\ head'[d].blob[e].by = d
                   /\ head'[d].blob[e].rev \in Nat
  <2>1. d \in Recipients(head[d], e)
    BY <1>2, SettledReads
  <2>2. InStep(head[d], e)
    BY DEF SettledBut
  <2>. QED BY <1>1, <2>1, <2>2, PassInitSeals
<1>. QED BY <1>1, <1>3, <1>4

(* The yes of an approve ...                                               *)
LEMMA ConfirmApproveSettled ==
  ASSUME InUse, TreesOK, cmd \in [Device -> Command], SettledInv, NEW d \in Device,
         ConfirmApprove(d), work[d] = head[d], cmd[d].target \in Device
  PROVE  SettledInv'
<1>. DEFINE r == cmd[d].target
            ids == head[d].ids[Root] \cup {r}
            whole == cmd[d].scope = {}
            todo == IF whole THEN {f \in Folder : head[d].ids[f] # {}} ELSE cmd[d].scope
<1>1. /\ At(d, "approve") /\ Has(head[d], "pending", r) /\ UNCHANGED <<origin, base>>
      /\ IF whole THEN PassCommits(d, Root, ids) ELSE UNCHANGED <<head, work>>
      /\ cmd'[d] = [cmd[d] EXCEPT !.step = "approving", !.todo = todo]
      /\ \A i \in Device \ {d} : cmd'[i] = cmd[i]
  BY DEF ConfirmApprove
<1>2. /\ cmd'[d].step = "approving" /\ cmd'[d].todo = todo /\ cmd'[d].target = r
      /\ cmd'[d].scope = cmd[d].scope /\ cmd[d].todo = {} /\ cmd[d].scope \in SUBSET Folder
  BY <1>1 DEF Command, SettledInv, Stands, At
<1>3. Settled(head[d]) /\ d \in head[d].ids[Root] /\ head[d] \in Tree
  BY <1>1 DEF SettledInv, Stands, Seated, At, TreesOK
<1>4. r \notin head[d].ids[Root] /\ d # r
  <2>1. PICK e \in Stored : Tied(head[d], e, r) /\ Alone(head[d], r)
    BY <1>3 DEF InUse, Settled, SettledBut
  <2>2. ~Has(head[d], "devices", r)
    BY <1>1, <2>1 DEF Alone, Kind
  <2>. QED BY <1>3, <2>1, <2>2 DEF Tied, Has
<1>5. ASSUME NEW e \in Stored PROVE r \notin head[d].ids[Home[e]]
  <2>1. Tied(head[d], e, r) /\ Alone(head[d], r)
    BY <1>3 DEF Settled, SettledBut
  <2>2. ~Has(head[d], "devices", r)
    BY <1>1, <2>1 DEF Alone, Kind
  <2>. QED BY <1>4, <2>1, <2>2 DEF Tied
<1>6. SettledBut(head[d], {r})
  BY <1>3, SettledWeaker
<1>7. CASE whole
  <2>1. /\ ids \in SUBSET Device /\ Root \in Folders
        /\ PassCommits(d, Root, ids) /\ ~At(d, "idle")
    BY <1>1, <1>3, <1>7 DEF Tree, Folders, At
  <2>. HIDE DEF ids
  <2>2. /\ head'[d] \in Tree /\ head'[d].rec = head[d].rec
        /\ head'[d].ids = [head[d].ids EXCEPT ![Root] = ids]
        /\ \A i \in Device \ {d} : head'[i] = head[i] /\ work'[i] = work[i]
        /\ \A e \in Stored :
             /\ InStep(head[d], e) /\ InStep(head'[d], e)
             /\ \/ /\ head[d].blob[e] = head'[d].blob[e]
                   /\ Recipients(head'[d], e) = Recipients(head[d], e)
                \/ /\ Resealed(head[d], head'[d], e) /\ head'[d].blob[e].by = d
                   /\ head'[d].blob[e].rev \in Nat
    BY <1>4, <1>6, <2>1, PassCommitsSettled
  <2>3. /\ head'[d].ids[Root] = ids
        /\ \A f \in Folder : head'[d].ids[f] = head[d].ids[f]
    BY <1>3, <2>1, <2>2 DEF Tree, Folders
  <2>4. \A e \in Stored : Home[e] = Root \/ Home[e] \in Folder
    BY DEF Folders
  <2>5. \A e \in Stored : Covers(head'[d], e, {r})
    BY <1>6, <2>3, <2>4 DEF Covers, SettledBut, ids
  <2>6. SettledBut(head'[d], {r})
    <3>1. ASSUME NEW e \in Stored, NEW x \in Device \ {r}
          PROVE  x \in head'[d].ids[Home[e]] \ head'[d].ids[Root]
                   <=> x \in head[d].ids[Home[e]] \ head[d].ids[Root]
      BY <2>3, <2>4 DEF ids
    <3>2. \A x \in Device \ {r} : x \in head'[d].ids[Root] <=> x \in head[d].ids[Root]
      BY <2>3 DEF ids
    <3>3. head'[d].ids[Root] # {}
      BY <2>3 DEF ids
    <3>. QED BY <1>6, <2>2, <2>5, <3>1, <3>2, <3>3, ListedForOne
  <2>7. Admitting(d)'
    <3>1. ASSUME NEW e \in Stored
          PROVE  /\ Home[e] \in todo => head'[d].ids[Home[e]] # {}
                 /\ r \in head'[d].ids[Home[e]]
                      <=> Home[e] \notin todo /\ head'[d].ids[Home[e]] # {}
      BY <1>5, <1>7, <2>3, <2>4 DEF ids
    <3>. QED BY <1>2, <1>4, <1>7, <2>3, <2>6, <3>1 DEF Admitting, ids
  <2>8. Seated(d)' /\ Stands(d)'
    BY <1>2, <1>3, <2>3, <2>7 DEF Seated, Stands, At, ids
  <2>9. ASSUME NEW e \in Stored
        PROVE  \/ SameSeal(base[d], head'[d], e)
               \/ Resealed(base[d], head'[d], e) /\ head'[d].blob[e].by = d
               \/ base[d].blob[e] = head'[d].blob[e] /\ Home[e] \in todo
    <3>1. ASSUME head[d].blob[e] = head'[d].blob[e], Home[e] \notin todo
          PROVE  FALSE
      <4>1. Governing(head[d], e) = Root /\ Governing(head'[d], e) = Root
        BY <1>7, <2>3, <2>4, <3>1 DEF Governing
      <4>2. Recipients(head[d], e) = head[d].ids[Root] /\ Recipients(head'[d], e) = ids
        BY <2>3, <4>1 DEF Recipients
      <4>3. InStep(head[d], e) /\ InStep(head'[d], e)
        BY <2>2
      <4>4. head[d].ids[Root] = ids
        BY <3>1, <4>2, <4>3 DEF InStep
      <4>. QED BY <1>4, <4>4 DEF ids
    <3>. HIDE DEF todo
    <3>2. \/ head[d].blob[e] = head'[d].blob[e] /\ Home[e] \in todo
          \/ Resealed(head[d], head'[d], e) /\ head'[d].blob[e].by = d
             /\ head'[d].blob[e].rev \in Nat
      BY <2>2, <3>1
    <3>3. InStep(head[d], e)
      BY <2>2
    <3>. QED BY <3>2, <3>3, SealsGoOn
  <2>. QED BY <1>1, <1>2, <2>2, <2>8, <2>9, LocalSettled
<1>8. CASE ~whole
  <2>1. UNCHANGED <<head, work>> /\ todo = cmd[d].scope
    BY <1>1, <1>8
  <2>2. ASSUME NEW e \in Stored
        PROVE  r \in head[d].ids[Home[e]] <=> Home[e] \notin todo /\ Home[e] \in cmd[d].scope
    BY <1>5, <2>1
  <2>3. Admitting(d)'
    BY <1>2, <1>4, <1>6, <1>8, <2>1, <2>2 DEF Admitting
  <2>4. Seated(d)' /\ Stands(d)'
    BY <1>2, <1>3, <2>1, <2>3 DEF Seated, Stands, At
  <2>5. ASSUME NEW e \in Stored
        PROVE  \/ SameSeal(base[d], head'[d], e)
               \/ Resealed(base[d], head'[d], e) /\ head'[d].blob[e].by = d
               \/ base[d].blob[e] = head'[d].blob[e] /\ Home[e] \in cmd'[d].todo
    BY <1>2, <2>1 DEF SettledInv, Forked
  <2>. QED BY <1>1, <2>1, <2>4, <2>5, LocalSettled
<1>. QED BY <1>7, <1>8

(* ... each folder it opens ...                                            *)
LEMMA ApproveFolderSettled ==
  ASSUME InUse, TreesOK, cmd \in [Device -> Command], SettledInv, NEW d \in Device,
         NEW f \in Folder, ApproveFolder(d, f), work[d] = head[d], cmd[d].target \in Device
  PROVE  SettledInv'
<1>. DEFINE r == cmd[d].target
            own == head[d].ids[f]
            ids == (IF own = {} /\ cmd[d].scope # {} THEN head[d].ids[Root] ELSE own) \cup {r}
            todo == cmd[d].todo \ {f}
<1>1. /\ At(d, "approving") /\ f \in cmd[d].todo /\ UNCHANGED <<origin, base>>
      /\ PassCommits(d, f, ids) /\ ~At(d, "idle")
      /\ cmd'[d] = [cmd[d] EXCEPT !.todo = todo]
      /\ \A i \in Device \ {d} : cmd'[i] = cmd[i]
  BY DEF ApproveFolder, At
<1>2. /\ cmd'[d].step = "approving" /\ cmd'[d].todo = todo /\ cmd'[d].target = r
      /\ cmd'[d].scope = cmd[d].scope
  BY <1>1 DEF Command, At
<1>3. Admitting(d) /\ d \in head[d].ids[Root] /\ head[d] \in Tree
  BY <1>1 DEF SettledInv, Stands, Seated, At, TreesOK
<1>4. SettledBut(head[d], {r}) /\ d # r
  BY <1>3 DEF Admitting
<1>5. f \in Folders /\ Root \in Folders /\ Root # f /\ ids \in SUBSET Device
  BY <1>3 DEF Folders, Tree
<1>. HIDE DEF ids
<1>6. /\ head'[d] \in Tree /\ head'[d].rec = head[d].rec
      /\ head'[d].ids = [head[d].ids EXCEPT ![f] = ids]
      /\ \A i \in Device \ {d} : head'[i] = head[i] /\ work'[i] = work[i]
      /\ \A e \in Stored :
           /\ InStep(head[d], e) /\ InStep(head'[d], e)
           /\ \/ /\ head[d].blob[e] = head'[d].blob[e]
                 /\ Recipients(head'[d], e) = Recipients(head[d], e)
              \/ /\ Resealed(head[d], head'[d], e) /\ head'[d].blob[e].by = d
                 /\ head'[d].blob[e].rev \in Nat
  BY <1>1, <1>4, <1>5, PassCommitsSettled
<1>7. /\ head'[d].ids[f] = ids /\ ids # {}
      /\ \A g \in Folders \ {f} : head'[d].ids[g] = head[d].ids[g]
      /\ \A e \in Stored : Home[e] \in Folders
  BY <1>3, <1>6 DEF Tree, Folders, ids
<1>8. ASSUME NEW e \in Stored, Home[e] = f
      PROVE  /\ r \notin own /\ (own = {} => cmd[d].scope # {} /\ r \notin head[d].ids[Root])
             /\ own # {} => head[d].ids[Root] \ {r} \subseteq own
             /\ Covers(head'[d], e, {r})
             /\ \A x \in Device \ {r} : x \in ids \ head[d].ids[Root] <=> x \in own \ head[d].ids[Root]
  <2>1. Covers(head[d], e, {r})
    BY <1>4 DEF SettledBut
  <2>2. /\ IF cmd[d].scope = {} THEN own # {} ELSE f \in cmd[d].scope
        /\ r \notin own
        /\ cmd[d].scope # {} => r \notin head[d].ids[Root]
    BY <1>1, <1>3, <1>8 DEF Admitting
  <2>. QED BY <1>5, <1>7, <1>8, <2>1, <2>2 DEF Covers, ids
<1>9. SettledBut(head'[d], {r})
  <2>1. \A e \in Stored : Covers(head'[d], e, {r})
    <3>1. ASSUME NEW e \in Stored, Home[e] # f PROVE Covers(head'[d], e, {r})
      <4>1. Covers(head[d], e, {r})
        BY <1>4 DEF SettledBut
      <4>. QED BY <1>5, <1>7, <3>1, <4>1 DEF Covers
    <3>. QED BY <1>8, <3>1
  <2>2. head'[d].ids[Root] = head[d].ids[Root] /\ head[d].ids[Root] # {}
    BY <1>4, <1>5, <1>7 DEF SettledBut
  <2>3. ASSUME NEW e \in Stored, NEW x \in Device \ {r}
        PROVE  x \in head'[d].ids[Home[e]] \ head'[d].ids[Root]
                 <=> x \in head[d].ids[Home[e]] \ head[d].ids[Root]
    BY <1>7, <1>8, <2>2
  <2>. QED BY <1>4, <1>6, <2>1, <2>2, <2>3, ListedForOne
<1>10. Admitting(d)'
  <2>1. ASSUME NEW e \in Stored
        PROVE  /\ Home[e] \in todo => IF cmd[d].scope = {} THEN head'[d].ids[Home[e]] # {}
                                                           ELSE Home[e] \in cmd[d].scope
               /\ r \in head'[d].ids[Home[e]]
                    <=> /\ Home[e] \notin todo
                        /\ IF cmd[d].scope = {} THEN head'[d].ids[Home[e]] # {}
                                                ELSE Home[e] \in cmd[d].scope
    <3>1. CASE Home[e] = f
      <4>1. cmd[d].scope # {} => f \in cmd[d].scope
        BY <1>1, <1>3, <3>1 DEF Admitting
      <4>. QED BY <1>7, <3>1, <4>1 DEF ids
    <3>2. CASE Home[e] # f
      BY <1>3, <1>7, <3>2 DEF Admitting
    <3>. QED BY <3>1, <3>2
  <2>2. r \in head'[d].ids[Root] <=> cmd[d].scope = {}
    BY <1>3, <1>5, <1>7 DEF Admitting
  <2>. QED BY <1>2, <1>4, <1>9, <2>1, <2>2 DEF Admitting
<1>11. Seated(d)' /\ Stands(d)'
  BY <1>2, <1>3, <1>5, <1>7, <1>10 DEF Seated, Stands, At
<1>12. ASSUME NEW e \in Stored
       PROVE  \/ SameSeal(base[d], head'[d], e)
              \/ Resealed(base[d], head'[d], e) /\ head'[d].blob[e].by = d
              \/ base[d].blob[e] = head'[d].blob[e] /\ Home[e] \in todo
  <2>1. CASE Home[e] = f
    <3>1. Recipients(head'[d], e) = ids
      BY <1>7, <2>1 DEF Recipients, Governing
    <3>2. Recipients(head[d], e) = IF own = {} THEN head[d].ids[Root] ELSE own
      BY <2>1 DEF Recipients, Governing
    <3>3. Recipients(head'[d], e) # Recipients(head[d], e)
      BY <1>8, <2>1, <3>1, <3>2 DEF ids
    <3>. HIDE DEF todo
    <3>. QED BY <1>6, <3>3, SealsGoOn
  <2>2. CASE Home[e] # f
    <3>1. SameLists(head[d], head'[d], e)
      BY <1>5, <1>7, <2>2 DEF SameLists
    <3>2. Home[e] \in cmd[d].todo => Home[e] \in todo
      BY <2>2
    <3>. HIDE DEF todo
    <3>3. SameSeal(head[d], head'[d], e)
          \/ (Resealed(head[d], head'[d], e) /\ head'[d].blob[e].by = d
              /\ head'[d].blob[e].rev \in Nat)
      BY <1>6, <3>1 DEF SameSeal
    <3>. QED BY <1>6, <3>2, <3>3, SealsGoOn
  <2>. QED BY <2>1, <2>2
<1>. QED BY <1>1, <1>2, <1>6, <1>11, <1>12, LocalSettled

(* ... and the yes of a revoke.                                            *)
LEMMA ConfirmRevokeSettled ==
  ASSUME InUse, TreesOK, cmd \in [Device -> Command], SettledInv, NEW d \in Device,
         ConfirmRevoke(d), work[d] = head[d], cmd[d].target \in Device
  PROVE  SettledInv'
<1>. DEFINE r == cmd[d].target
            ids == head[d].ids[Root] \ {r}
            todo == {f \in Folder : r \in head[d].ids[f]}
<1>1. /\ At(d, "revoke") /\ ~At(d, "idle") /\ UNCHANGED <<origin, base>> /\ ids # {}
      /\ IF r \in head[d].ids[Root] THEN PassCommits(d, Root, ids) ELSE UNCHANGED <<head, work>>
      /\ cmd'[d] = [cmd[d] EXCEPT !.step = "revoking", !.keep = ids,
                                  !.entries = ReadableOnce(head[d], cmd[d].scope),
                                  !.todo = todo]
      /\ \A i \in Device \ {d} : cmd'[i] = cmd[i]
  BY DEF ConfirmRevoke, At
<1>2. /\ cmd'[d].step = "revoking" /\ cmd'[d].todo = todo /\ cmd'[d].target = r
      /\ cmd'[d].keep = ids /\ cmd[d].todo = {}
  BY <1>1 DEF Command, SettledInv, Stands, At
<1>3. /\ Settled(head[d]) /\ d \in head[d].ids[Root] /\ head[d] \in Tree /\ d # r
  BY <1>1 DEF SettledInv, Stands, Seated, At, TreesOK
<1>4. SettledBut(head[d], {r})
  BY <1>3, SettledWeaker
<1>5. ids \in SUBSET Device /\ Root \in Folders /\ \A e \in Stored : Home[e] = Root \/ Home[e] \in Folder
  BY <1>3 DEF Tree, Folders
<1>. HIDE DEF ids
<1>6. ASSUME NEW h, h = head'[d], h.rec = head[d].rec, h.ids[Root] = ids,
             \A f \in Folder : h.ids[f] = head[d].ids[f], \A e \in Stored : InStep(h, e)
      PROVE  Expelling(d)' /\ Seated(d)' /\ Stands(d)'
  <2>1. \A e \in Stored : Covers(h, e, {r})
    BY <1>4, <1>5, <1>6 DEF Covers, SettledBut, ids
  <2>2. ASSUME NEW e \in Stored, NEW x \in Device \ {r}
        PROVE  x \in h.ids[Home[e]] \ h.ids[Root] <=> x \in head[d].ids[Home[e]] \ head[d].ids[Root]
    BY <1>5, <1>6 DEF ids
  <2>3. \A x \in Device \ {r} : x \in h.ids[Root] <=> x \in head[d].ids[Root]
    BY <1>6 DEF ids
  <2>4. SettledBut(h, {r})
    BY <1>1, <1>4, <1>6, <2>1, <2>2, <2>3, ListedForOne
  <2>5. ASSUME NEW e \in Stored PROVE r \in h.ids[Home[e]] <=> Home[e] \in todo
    BY <1>5, <1>6 DEF ids
  <2>6. r \notin h.ids[Root] /\ d \in h.ids[Root]
    BY <1>3, <1>6 DEF ids
  <2>7. Expelling(d)'
    BY <1>2, <1>6, <2>4, <2>5, <2>6 DEF Expelling
  <2>. QED BY <1>2, <1>6, <2>6, <2>7 DEF Seated, Stands, At
<1>7. CASE r \in head[d].ids[Root]
  <2>1. /\ head'[d] \in Tree /\ head'[d].rec = head[d].rec
        /\ head'[d].ids = [head[d].ids EXCEPT ![Root] = ids]
        /\ \A i \in Device \ {d} : head'[i] = head[i] /\ work'[i] = work[i]
        /\ \A e \in Stored :
             /\ InStep(head[d], e) /\ InStep(head'[d], e)
             /\ \/ /\ head[d].blob[e] = head'[d].blob[e]
                   /\ Recipients(head'[d], e) = Recipients(head[d], e)
                \/ /\ Resealed(head[d], head'[d], e) /\ head'[d].blob[e].by = d
                   /\ head'[d].blob[e].rev \in Nat
    BY <1>1, <1>3, <1>4, <1>5, <1>7, PassCommitsSettled
  <2>2. /\ head'[d].ids[Root] = ids
        /\ \A f \in Folder : head'[d].ids[f] = head[d].ids[f]
    BY <1>3, <1>5, <2>1 DEF Tree, Folders
  <2>3. Seated(d)' /\ Stands(d)'
    BY <1>6, <2>1, <2>2
  <2>4. ASSUME NEW e \in Stored
        PROVE  \/ SameSeal(base[d], head'[d], e)
               \/ Resealed(base[d], head'[d], e) /\ head'[d].blob[e].by = d
               \/ base[d].blob[e] = head'[d].blob[e] /\ Home[e] \in todo
    <3>1. ASSUME head[d].blob[e] = head'[d].blob[e], Home[e] \notin todo,
                 Recipients(head'[d], e) = Recipients(head[d], e)
          PROVE  FALSE
      <4>1. Covers(head[d], e, {})
        BY <1>3 DEF Settled, SettledBut
      <4>2. Governing(head[d], e) = Root /\ Governing(head'[d], e) = Root
        BY <1>5, <1>7, <2>2, <3>1, <4>1 DEF Governing, Covers
      <4>3. Recipients(head[d], e) = head[d].ids[Root] /\ Recipients(head'[d], e) = ids
        BY <2>2, <4>2 DEF Recipients
      <4>. QED BY <1>7, <3>1, <4>3 DEF ids
    <3>. HIDE DEF todo
    <3>2. \/ head[d].blob[e] = head'[d].blob[e] /\ Home[e] \in todo
          \/ Resealed(head[d], head'[d], e) /\ head'[d].blob[e].by = d
             /\ head'[d].blob[e].rev \in Nat
      BY <2>1, <3>1
    <3>3. InStep(head[d], e)
      BY <2>1
    <3>. QED BY <3>2, <3>3, SealsGoOn
  <2>. QED BY <1>1, <1>2, <2>1, <2>3, <2>4, LocalSettled
<1>8. CASE r \notin head[d].ids[Root]
  <2>1. UNCHANGED <<head, work>> /\ head[d].ids[Root] = ids
    BY <1>1, <1>8 DEF ids
  <2>2. Seated(d)' /\ Stands(d)'
    BY <1>4, <1>6, <2>1 DEF SettledBut
  <2>3. ASSUME NEW e \in Stored
        PROVE  \/ SameSeal(base[d], head'[d], e)
               \/ Resealed(base[d], head'[d], e) /\ head'[d].blob[e].by = d
               \/ base[d].blob[e] = head'[d].blob[e] /\ Home[e] \in cmd'[d].todo
    BY <1>2, <2>1 DEF SettledInv, Forked
  <2>. QED BY <1>1, <2>1, <2>2, <2>3, LocalSettled
<1>. QED BY <1>7, <1>8

(* Each folder it closes ...                                               *)
LEMMA RevokeFolderSettled ==
  ASSUME InUse, TreesOK, cmd \in [Device -> Command], SettledInv, NEW d \in Device,
         NEW f \in Folder, RevokeFolder(d, f), work[d] = head[d], cmd[d].target \in Device
  PROVE  SettledInv'
<1>. DEFINE r == cmd[d].target
            own == head[d].ids[f]
            left == own \ {r}
            ids == IF left = cmd[d].keep THEN {} ELSE left
            todo == cmd[d].todo \ {f}
<1>1. /\ At(d, "revoking") /\ f \in cmd[d].todo /\ UNCHANGED <<origin, base>>
      /\ PassCommits(d, f, ids) /\ ~At(d, "idle")
      /\ cmd'[d] = [cmd[d] EXCEPT !.todo = todo]
      /\ \A i \in Device \ {d} : cmd'[i] = cmd[i]
  BY DEF RevokeFolder, At
<1>2. /\ cmd'[d].step = "revoking" /\ cmd'[d].todo = todo /\ cmd'[d].target = r
      /\ cmd'[d].keep = cmd[d].keep
  BY <1>1 DEF Command, At
<1>3. Expelling(d) /\ d \in head[d].ids[Root] /\ head[d] \in Tree
  BY <1>1 DEF SettledInv, Stands, Seated, At, TreesOK
<1>4. SettledBut(head[d], {r}) /\ d # r /\ head[d].ids[Root] = cmd[d].keep /\ r \notin head[d].ids[Root]
  BY <1>3 DEF Expelling
<1>5. f \in Folders /\ Root \in Folders /\ Root # f /\ ids \in SUBSET Device
  BY <1>3 DEF Folders, Tree
<1>. HIDE DEF ids
<1>6. /\ head'[d] \in Tree /\ head'[d].rec = head[d].rec
      /\ head'[d].ids = [head[d].ids EXCEPT ![f] = ids]
      /\ \A i \in Device \ {d} : head'[i] = head[i] /\ work'[i] = work[i]
      /\ \A e \in Stored :
           /\ InStep(head[d], e) /\ InStep(head'[d], e)
           /\ \/ /\ head[d].blob[e] = head'[d].blob[e]
                 /\ Recipients(head'[d], e) = Recipients(head[d], e)
              \/ /\ Resealed(head[d], head'[d], e) /\ head'[d].blob[e].by = d
                 /\ head'[d].blob[e].rev \in Nat
  BY <1>1, <1>4, <1>5, PassCommitsSettled
<1>7. /\ head'[d].ids[f] = ids
      /\ \A g \in Folders \ {f} : head'[d].ids[g] = head[d].ids[g]
      /\ \A e \in Stored : Home[e] \in Folders
  BY <1>3, <1>6 DEF Tree, Folders
<1>8. ASSUME NEW e \in Stored, Home[e] = f
      PROVE  /\ r \in own
             /\ head[d].ids[Root] \subseteq left
             /\ Covers(head'[d], e, {r})
             /\ \A x \in Device \ {r} : x \in ids \ head[d].ids[Root] <=> x \in own \ head[d].ids[Root]
  <2>1. Covers(head[d], e, {r})
    BY <1>4 DEF SettledBut
  <2>2. r \in own
    BY <1>1, <1>3, <1>8 DEF Expelling
  <2>3. head[d].ids[Root] \subseteq left
    BY <1>4, <1>8, <2>1, <2>2 DEF Covers
  <2>. QED BY <1>4, <1>5, <1>7, <1>8, <2>2, <2>3 DEF Covers, ids
<1>9. SettledBut(head'[d], {r})
  <2>1. \A e \in Stored : Covers(head'[d], e, {r})
    <3>1. ASSUME NEW e \in Stored, Home[e] # f PROVE Covers(head'[d], e, {r})
      <4>1. Covers(head[d], e, {r})
        BY <1>4 DEF SettledBut
      <4>. QED BY <1>5, <1>7, <3>1, <4>1 DEF Covers
    <3>. QED BY <1>8, <3>1
  <2>2. head'[d].ids[Root] = head[d].ids[Root] /\ head[d].ids[Root] # {}
    BY <1>4, <1>5, <1>7 DEF SettledBut
  <2>3. ASSUME NEW e \in Stored, NEW x \in Device \ {r}
        PROVE  x \in head'[d].ids[Home[e]] \ head'[d].ids[Root]
                 <=> x \in head[d].ids[Home[e]] \ head[d].ids[Root]
    BY <1>7, <1>8, <2>2
  <2>. QED BY <1>4, <1>6, <2>1, <2>2, <2>3, ListedForOne
<1>10. Expelling(d)'
  <2>1. ASSUME NEW e \in Stored PROVE r \in head'[d].ids[Home[e]] <=> Home[e] \in todo
    <3>1. CASE Home[e] = f
      BY <1>7, <3>1 DEF ids
    <3>2. CASE Home[e] # f
      BY <1>3, <1>7, <3>2 DEF Expelling
    <3>. QED BY <3>1, <3>2
  <2>. QED BY <1>2, <1>4, <1>5, <1>7, <1>9, <2>1 DEF Expelling
<1>11. Seated(d)' /\ Stands(d)'
  BY <1>2, <1>3, <1>5, <1>7, <1>10 DEF Seated, Stands, At
<1>12. ASSUME NEW e \in Stored
       PROVE  \/ SameSeal(base[d], head'[d], e)
              \/ Resealed(base[d], head'[d], e) /\ head'[d].blob[e].by = d
              \/ base[d].blob[e] = head'[d].blob[e] /\ Home[e] \in todo
  <2>1. CASE Home[e] = f
    <3>1. Recipients(head[d], e) = own
      BY <1>8, <2>1 DEF Recipients, Governing
    <3>2. Recipients(head'[d], e) = left
      <4>1. CASE ids = {}
        <5>1. left = head[d].ids[Root]
          BY <1>4, <1>8, <2>1, <4>1 DEF ids
        <5>. QED BY <1>5, <1>7, <2>1, <4>1, <5>1 DEF Recipients, Governing
      <4>2. CASE ids # {}
        BY <1>7, <2>1, <4>2 DEF Recipients, Governing, ids
      <4>. QED BY <4>1, <4>2
    <3>3. Recipients(head'[d], e) # Recipients(head[d], e)
      BY <1>8, <2>1, <3>1, <3>2
    <3>. HIDE DEF todo
    <3>. QED BY <1>6, <3>3, SealsGoOn
  <2>2. CASE Home[e] # f
    <3>1. SameLists(head[d], head'[d], e)
      BY <1>5, <1>7, <2>2 DEF SameLists
    <3>2. Home[e] \in cmd[d].todo => Home[e] \in todo
      BY <2>2
    <3>. HIDE DEF todo
    <3>3. SameSeal(head[d], head'[d], e)
          \/ (Resealed(head[d], head'[d], e) /\ head'[d].blob[e].by = d
              /\ head'[d].blob[e].rev \in Nat)
      BY <1>6, <3>1 DEF SameSeal
    <3>. QED BY <1>6, <3>2, <3>3, SealsGoOn
  <2>. QED BY <2>1, <2>2
<1>. QED BY <1>1, <1>2, <1>6, <1>11, <1>12, LocalSettled

(* ... and the record that then moves to revoked/.                         *)
LEMMA MoveSettled ==
  ASSUME TreesOK, cmd \in [Device -> Command], SettledInv, NEW d \in Device,
         MoveToRevoked(d), work[d] = head[d], cmd[d].target \in Device,
         Has(head[d], "devices", cmd[d].target)
  PROVE  SettledInv'
<1>. DEFINE r == cmd[d].target
            u == Move(head[d], "devices", "revoked", r)
<1>1. /\ At(d, "revoking") /\ ~At(d, "idle") /\ cmd[d].todo = {}
      /\ UNCHANGED <<origin, base, head>> /\ work'[d] = u
      /\ \A i \in Device \ {d} : work'[i] = work[i] /\ cmd'[i] = cmd[i]
      /\ cmd'[d] = [cmd[d] EXCEPT !.step = "record"]
  BY DEF MoveToRevoked, At, TreesOK
<1>2. cmd'[d].step = "record" /\ cmd'[d].todo = {}
  BY <1>1 DEF Command
<1>3. Expelling(d) /\ d \in head[d].ids[Root] /\ head[d] \in Tree
  BY <1>1 DEF SettledInv, Stands, Seated, At, TreesOK
<1>4. SettledBut(head[d], {r}) /\ Alone(head[d], r)
  BY <1>3 DEF Expelling, SettledBut
<1>kind. "devices" \in Kind /\ "revoked" \in Kind
  BY DEF Kind
<1>5. /\ u.ids = head[d].ids /\ u.blob = head[d].blob
      /\ \A j \in Kind, x \in Device :
           u.rec[<<j, x>>] = IF <<j, x>> = <<"revoked", r>> THEN head[d].rec[<<"devices", r>>]
                             ELSE IF <<j, x>> = <<"devices", r>> THEN None
                             ELSE head[d].rec[<<j, x>>]
  BY <1>3, <1>kind, MovedFiles
<1>. HIDE DEF u
<1>7. \A x \in Device \ {r}, k \in Kind : u.rec[<<k, x>>] = head[d].rec[<<k, x>>]
  BY <1>5
<1>8. u.rec[<<"devices", r>>] = None /\ \A k \in Kind : Has(u, k, r) <=> k = "revoked"
  BY <1>4, <1>5 DEF Has, Alone, Kind
<1>9. Alone(u, r) /\ Rank(head[d], r) = 2 /\ Rank(u, r) = 3
  <2>1. Alone(u, r) /\ Rank(u, r) = 3
    BY <1>8 DEF Alone, Rank, Kind
  <2>. QED BY <1>4, <2>1, RankHas
<1>10. ASSUME NEW e \in Stored PROVE Covers(head[d], e, {}) /\ Tied(u, e, r)
  <2>1. r \notin head[d].ids[Root] /\ r \notin head[d].ids[Home[e]] /\ Covers(head[d], e, {r})
    BY <1>1, <1>3, <1>4 DEF Expelling, SettledBut
  <2>2. {} # None
    OBVIOUS
  <2>. QED BY <1>5, <1>8, <2>1, <2>2 DEF Covers, Tied, Has
<1>11. Settled(u)
  BY <1>4, <1>5, <1>7, <1>9, <1>10, OneTied
<1>12. Beyond(head[d], u) /\ OwnNews(head[d], u, d)
  BY <1>7, <1>9, OneBeyond
<1>13. Stands(d)' /\ Seated(d)'
  BY <1>1, <1>2, <1>3, <1>11, <1>12 DEF Stands, Seated, At
<1>14. ASSUME NEW e \in Stored
       PROVE  \/ SameSeal(base[d], head'[d], e)
              \/ Resealed(base[d], head'[d], e) /\ head'[d].blob[e].by = d
              \/ base[d].blob[e] = head'[d].blob[e] /\ Home[e] \in cmd'[d].todo
  BY <1>1, <1>2 DEF SettledInv, Forked
<1>. QED BY <1>1, <1>13, <1>14, LocalSettled

(* The request that becomes a device record.                               *)
LEMMA FinishApproveSettled ==
  ASSUME TreesOK, cmd \in [Device -> Command], SettledInv, NEW d \in Device,
         FinishApprove(d), work[d] = head[d], cmd[d].target \in Device
  PROVE  SettledInv'
<1>. DEFINE r == cmd[d].target
            t == Move(head[d], "pending", "devices", r)
            scope == cmd[d].scope
            u == WriteRecord(t, "devices", r, scope)
<1>1. /\ At(d, "approving") /\ ~At(d, "idle") /\ cmd[d].todo = {}
      /\ Has(head[d], "pending", r) /\ Publish(d, u)
      /\ cmd[d].scope \in Record /\ cmd[d].queue \in SUBSET Device /\ cmd[d].only \in SUBSET Folder
  BY DEF FinishApprove, At, Command, Record
<1>2. PICK next \in AskNext(u, cmd[d].only, cmd[d].queue) : cmd' = [cmd EXCEPT ![d] = next]
  BY DEF FinishApprove
<1>3. Admitting(d) /\ head[d] \in Tree
  BY <1>1 DEF SettledInv, Stands, At, TreesOK
<1>4. SettledBut(head[d], {r}) /\ Alone(head[d], r)
  BY <1>3 DEF Admitting, SettledBut
<1>kind. "devices" \in Kind /\ "pending" \in Kind
  BY DEF Kind
<1>5. /\ t \in Tree /\ t.ids = head[d].ids /\ t.blob = head[d].blob
      /\ \A j \in Kind, x \in Device :
           t.rec[<<j, x>>] = IF <<j, x>> = <<"devices", r>> THEN head[d].rec[<<"pending", r>>]
                             ELSE IF <<j, x>> = <<"pending", r>> THEN None
                             ELSE head[d].rec[<<j, x>>]
  BY <1>1, <1>3, <1>kind, MovedFiles
<1>. HIDE DEF t
<1>7. /\ u \in Tree /\ u.ids = t.ids /\ u.blob = t.blob
      /\ \A j \in Kind, x \in Device :
           u.rec[<<j, x>>] = IF <<j, x>> = <<"devices", r>> THEN scope ELSE t.rec[<<j, x>>]
  <2>1. t \in Tree /\ scope \in Record
    BY <1>1, <1>5
  <2>2. u = WriteRecord(t, "devices", r, scope)
    OBVIOUS
  <2>. HIDE DEF scope, u, r
  <2>3. r \in Device
    BY DEF r
  <2>. QED BY <1>kind, <2>1, <2>2, <2>3, WrittenFiles
<1>. HIDE DEF u
<1>8. u.ids = head[d].ids /\ u.blob = head[d].blob
  BY <1>5, <1>7
<1>9. \A x \in Device \ {r}, k \in Kind : u.rec[<<k, x>>] = head[d].rec[<<k, x>>]
  BY <1>5, <1>7
<1>10. cmd[d].scope # None /\ u.rec[<<"devices", r>>] = cmd[d].scope
       /\ \A k \in Kind : Has(u, k, r) <=> k = "devices"
  <2>1. cmd[d].scope # None
    BY <1>1 DEF Record
  <2>2. u.rec[<<"devices", r>>] = cmd[d].scope
    BY <1>7 DEF Kind
  <2>3. /\ u.rec[<<"pending", r>>] = None
        /\ u.rec[<<"revoked", r>>] = head[d].rec[<<"revoked", r>>]
    BY <1>5, <1>7 DEF Kind
  <2>4. head[d].rec[<<"revoked", r>>] = None
    BY <1>1, <1>4 DEF Alone, Has, Kind
  <2>. QED BY <2>1, <2>2, <2>3, <2>4 DEF Has, Kind
<1>11. Alone(u, r) /\ Rank(head[d], r) = 1 /\ Rank(u, r) = 2
  <2>1. Alone(u, r) /\ Rank(u, r) = 2
    BY <1>10 DEF Alone, Rank, Kind
  <2>. QED BY <1>1, <1>4, <2>1, RankHas
<1>12. ASSUME NEW e \in Stored PROVE Covers(head[d], e, {}) /\ Tied(u, e, r)
  <2>1. /\ r \in head[d].ids[Root] <=> cmd[d].scope = {}
        /\ r \in head[d].ids[Home[e]]
             <=> IF cmd[d].scope = {} THEN head[d].ids[Home[e]] # {} ELSE Home[e] \in cmd[d].scope
        /\ Covers(head[d], e, {r})
    BY <1>1, <1>3, <1>4 DEF Admitting, SettledBut
  <2>2. Has(u, "devices", r)
    BY <1>10 DEF Kind
  <2>. QED BY <1>8, <1>10, <2>1, <2>2 DEF Covers, Tied
<1>13. Settled(u)
  BY <1>4, <1>8, <1>9, <1>11, <1>12, OneTied
<1>14. Beyond(head[d], u) /\ OwnNews(head[d], u, d)
  BY <1>9, <1>11, OneBeyond
<1>15. next.step \in {"idle", "approve"} /\ next.todo = {}
  BY <1>1, <1>2, <1>7, AskNextStep, AskNextTodo
<1>16. cmd'[d] = next /\ \A i \in Device \ {d} : cmd'[i] = cmd[i]
  BY <1>2
<1>. QED BY <1>1, <1>7, <1>8, <1>13, <1>14, <1>15, <1>16, PublishSettled

(* A device that asks for access has no record and is on no list.          *)
LEMMA RequestSettled ==
  ASSUME InUse, TreesOK, SettledInv, NEW d \in Device, NEW scope \in SUBSET Folder,
         Request(d, scope), work[d] = head[d]
  PROVE  SettledInv'
<1>. DEFINE u == WriteRecord(head[d], "pending", d, scope)
<1>1. /\ At(d, "idle") /\ Publish(d, u) /\ cmd' = cmd /\ ~Enrolled(head[d], d)
      /\ ~Has(head[d], "pending", d) /\ ~Has(head[d], "revoked", d)
  BY DEF Request, NameFree
<1>2. Settled(head[d]) /\ head[d] \in Tree /\ cmd[d].todo = {}
  BY <1>1 DEF SettledInv, Stands, At, TreesOK
<1>3. d \notin head[d].ids[Root] /\ ~EnrolledByRecord(head[d], d)
  BY <1>1 DEF Enrolled, EnrolledByKey
<1>4. ~Has(head[d], "devices", d)
  <2>. SUFFICES ASSUME Has(head[d], "devices", d) PROVE FALSE
    OBVIOUS
  <2>. DEFINE mine == head[d].rec[<<"devices", d>>]
  <2>1. mine \in SUBSET Folder /\ ~Listed(head[d], d, mine)
    BY <1>2, <1>3 DEF Has, EnrolledByRecord, Tree, Kind, Record
  <2>2. CASE mine = {}
    <3>1. PICK e \in Stored : Tied(head[d], e, d)
      BY <1>2 DEF InUse, Settled, SettledBut
    <3>. QED BY <1>3, <2>2, <3>1 DEF Tied
  <2>3. CASE mine # {}
    <3>1. PICK f \in mine : TRUE
      BY <2>3
    <3>2. PICK e \in Stored : Home[e] = f /\ Tied(head[d], e, d)
      BY <1>2, <2>1, <3>1 DEF InUse, Settled, SettledBut
    <3>3. d \in head[d].ids[f]
      BY <3>1, <3>2 DEF Tied
    <3>. QED BY <2>1, <2>3, <3>1, <3>3 DEF Listed, Reach
  <2>. QED BY <2>2, <2>3
<1>5. "pending" \in Kind /\ scope \in Record
  BY DEF Kind, Record
<1>6. /\ u \in Tree /\ u.ids = head[d].ids /\ u.blob = head[d].blob
      /\ \A j \in Kind, x \in Device :
           u.rec[<<j, x>>] = IF <<j, x>> = <<"pending", d>> THEN scope ELSE head[d].rec[<<j, x>>]
  BY <1>2, <1>5, WrittenFiles
<1>. HIDE DEF u
<1>7. \A x \in Device \ {d}, k \in Kind : u.rec[<<k, x>>] = head[d].rec[<<k, x>>]
  BY <1>6
<1>8. \A k \in Kind : Has(u, k, d) <=> k = "pending"
  <2>1. u.rec[<<"pending", d>>] = scope /\ scope # None
    BY <1>5, <1>6
  <2>2. \A k \in Kind \ {"pending"} : u.rec[<<k, d>>] = None
    BY <1>1, <1>4, <1>6 DEF Has, Kind
  <2>. QED BY <2>1, <2>2 DEF Has
<1>9. Alone(u, d) /\ Rank(u, d) = 1 /\ Rank(head[d], d) = 0
  BY <1>1, <1>4, <1>8 DEF Alone, Rank, Kind
<1>10. ASSUME NEW e \in Stored PROVE Covers(head[d], e, {}) /\ Tied(u, e, d)
  <2>1. Covers(head[d], e, {}) /\ Tied(head[d], e, d)
    BY <1>2 DEF Settled, SettledBut
  <2>2. u.rec[<<"devices", d>>] = head[d].rec[<<"devices", d>>]
    BY <1>6 DEF Kind
  <2>. QED BY <1>6, <2>1, <2>2 DEF Tied, Has
<1>11. Settled(u)
  BY <1>2, <1>6, <1>7, <1>9, <1>10, OneTied
<1>12. Beyond(head[d], u) /\ OwnNews(head[d], u, d)
  BY <1>7, <1>9, OneBeyond
<1>. QED BY <1>1, <1>2, <1>6, <1>11, <1>12, PublishSettled DEF At

LEMMA SettledStep ==
  ASSUME Failures = FALSE, Crashes = FALSE, Overlap = FALSE, ManualResolve = FALSE,
         InUse, TypeInv, CommittedInv, TrackedInv, SettledInv, [Next]_vars
  PROVE  SettledInv'
<1>0. TreesOK /\ cmd \in [Device -> Command]
  BY DEF TypeInv, TypeOK, TreesOK
<1>aim. ASSUME NEW d \in Device, ~At(d, "idle") PROVE cmd[d].target \in Device
  BY <1>aim DEF TypeInv, Aimed
<1>cmd. ASSUME NEW d \in Device, NEW c, cmd' = [cmd EXCEPT ![d] = c]
        PROVE  cmd'[d] = c /\ \A i \in Device \ {d} : cmd'[i] = cmd[i]
  BY <1>0, <1>cmd
<1>even. ASSUME NEW d \in Device, ~At(d, "record") PROVE work[d] = head[d]
  BY <1>even DEF TrackedInv, Unbroken
<1>rest. ASSUME NEW d \in Device, cmd[d].step \in {"idle", "approve", "revoke"}
         PROVE  /\ Settled(head[d]) /\ work[d] = head[d] /\ cmd[d].todo = {}
                /\ \E e \in Stored : Tied(head[d], e, d)
                /\ \A e \in Stored : InStep(head[d], e)
  <2>1. Settled(head[d]) /\ work[d] = head[d] /\ cmd[d].todo = {}
    BY <1>rest, <1>even DEF SettledInv, Stands, At
  <2>. QED BY <2>1 DEF Settled, SettledBut, InUse
<1>1. CASE UNCHANGED vars
  <2>1. UNCHANGED <<origin, base, head, work, cmd>>
    BY <1>1 DEF vars
  <2>2. \A d \in Device : Settled(base'[d]) /\ Stands(d)' /\ Seated(d)' /\ Forked(d)'
    BY <2>1, OthersStand
  <2>. QED BY <2>1, <2>2 DEF SettledInv
<1>2. ASSUME NEW d \in Device, Genesis(d) PROVE FALSE
  BY <1>2, <1>rest DEF Genesis, At, Initialised, Settled, SettledBut
<1>3. ASSUME NEW d \in Device, Adopt(d) PROVE FALSE
  <2>1. PICK e \in Stored : Tied(head[d], e, d) /\ work[d] = head[d]
    BY <1>3, <1>rest DEF Adopt, At
  <2>2. d \in head[d].ids[Root] /\ ~EnrolledByRecord(head[d], d)
    BY <1>3, <2>1 DEF Adopt, EnrolledByKey
  <2>3. head[d].rec[<<"devices", d>>] = {} /\ {} # None
    BY <2>1, <2>2 DEF Tied
  <2>. QED BY <2>2, <2>3 DEF EnrolledByRecord, Has, Listed, Reach
<1>4. ASSUME NEW d \in Device, NEW scope \in SUBSET Folder, Request(d, scope) PROVE SettledInv'
  BY <1>0, <1>4, <1>rest, RequestSettled DEF Request, At
<1>5. ASSUME NEW d \in Device, NEW c, Begin(d, PulledWork(d)), cmd' = [cmd EXCEPT ![d] = c],
             c.step \in {"approve", "revoke"}, c.todo = {}, c.step = "revoke" => c.target # d
      PROVE  SettledInv'
  <2>1. /\ At(d, "idle") /\ CanPull(d) /\ IsWorkstation(PulledWork(d), d)
        /\ head'[d] = PulledHead(d) /\ base'[d] = origin' /\ origin' = origin
        /\ \A i \in Device \ {d} : /\ base'[i] = base[i] /\ head'[i] = head[i]
                                   /\ work'[i] = work[i]
    BY <1>0, <1>5 DEF Begin, TreesOK
  <2>2. d \in PulledHead(d).ids[Root]
    BY <1>0, <2>1, WorkstationSeated, PulledSecrets DEF CommittedInv, SameSecrets
  <2>3. cmd'[d] = c /\ \A i \in Device \ {d} : cmd'[i] = cmd[i]
    BY <1>5, <1>cmd
  <2>4. Seated(d)'
    BY <1>5, <2>1, <2>2, <2>3 DEF Seated, At
  <2>. QED BY <1>0, <1>5, <2>1, <2>3, <2>4, PullSettled
<1>6. ASSUME NEW d \in Device, NEW asked \in SUBSET Device, NEW only \in SUBSET Folder,
             StartApprove(d, asked, only)
      PROVE  SettledInv'
  <2>. DEFINE t == PulledWork(d)
              ready == {r \in asked : Has(t, "pending", r) /\ ~Has(t, "revoked", r)}
  <2>1. PICK next \in AskNext(t, only, asked) \ {Idle} : cmd' = [cmd EXCEPT ![d] = next]
    BY <1>6 DEF StartApprove
  <2>2. PICK r \in ready : next = [Idle EXCEPT !.step = "approve", !.target = r,
                             !.queue = ready \ {r}, !.only = only,
                             !.scope = IF only = {} THEN t.rec["pending", r] ELSE only]
    BY <2>1 DEF AskNext
  <2>3. next.step = "approve" /\ next.todo = {}
    BY <2>2 DEF Idle
  <2>. QED BY <1>5, <1>6, <2>1, <2>3 DEF StartApprove
<1>7. ASSUME NEW d \in Device, NEW r \in Device, StartRevoke(d, r) PROVE SettledInv'
  <2>. DEFINE c == [Idle EXCEPT !.step = "revoke", !.target = r,
                                !.scope = PulledWork(d).rec["devices", r],
                                !.earlier = PulledWork(d).rot]
  <2>1. cmd' = [cmd EXCEPT ![d] = c] /\ r # d
    BY <1>7 DEF StartRevoke
  <2>2. c.step = "revoke" /\ c.target = r /\ c.todo = {}
    BY DEF Idle
  <2>. HIDE DEF c
  <2>. QED BY <1>5, <1>7, <2>1, <2>2 DEF StartRevoke
<1>8. ASSUME NEW d \in Device, cmd[d].step \in {"approve", "revoke"},
             UNCHANGED <<origin, base, head, work>>, cmd'[d].step \in {"idle", "approve"},
             cmd'[d].todo = {}, \A i \in Device \ {d} : cmd'[i] = cmd[i]
      PROVE  SettledInv'
  <2>1. Settled(head[d]) /\ cmd[d].todo = {} /\ Seated(d)
    BY <1>8, <1>rest DEF SettledInv
  <2>2. Stands(d)' /\ Seated(d)'
    BY <1>8, <2>1 DEF Stands, Seated, At
  <2>3. ASSUME NEW e \in Stored
        PROVE  \/ SameSeal(base[d], head'[d], e)
               \/ Resealed(base[d], head'[d], e) /\ head'[d].blob[e].by = d
               \/ base[d].blob[e] = head'[d].blob[e] /\ Home[e] \in cmd'[d].todo
    BY <1>8, <2>1 DEF SettledInv, Forked
  <2>. QED BY <1>8, <2>2, <2>3, LocalSettled
<1>9. ASSUME NEW d \in Device, Decline(d) PROVE SettledInv'
  <2>1. PICK next \in AskNext(work[d], cmd[d].only, cmd[d].queue) : cmd' = [cmd EXCEPT ![d] = next]
    BY <1>9 DEF Decline
  <2>2. next.step \in {"idle", "approve"} /\ next.todo = {}
    BY <1>0, <2>1, AskNextStep, AskNextTodo DEF TreesOK, Command
  <2>. QED BY <1>8, <1>9, <1>cmd, <2>1, <2>2 DEF Decline, At
<1>10. ASSUME NEW d \in Device, Abandon(d) PROVE SettledInv'
  <2>1. cmd[d].step \in {"approve", "revoke"} /\ cmd' = [cmd EXCEPT ![d] = Idle]
        /\ UNCHANGED <<origin, base, head, work>>
    BY <1>0, <1>10 DEF Abandon, At, Command, Step
  <2>2. Idle.step = "idle" /\ Idle.todo = {}
    BY DEF Idle
  <2>. QED BY <1>8, <1>cmd, <2>1, <2>2
<1>11. ASSUME NEW d \in Device, ConfirmApprove(d) PROVE SettledInv'
  BY <1>0, <1>11, <1>aim, <1>even, ConfirmApproveSettled DEF ConfirmApprove, At
<1>12. ASSUME NEW d \in Device, NEW f \in Folder, ApproveFolder(d, f) PROVE SettledInv'
  BY <1>0, <1>12, <1>aim, <1>even, ApproveFolderSettled DEF ApproveFolder, At
<1>13. ASSUME NEW d \in Device, FinishApprove(d) PROVE SettledInv'
  BY <1>0, <1>13, <1>aim, <1>even, FinishApproveSettled DEF FinishApprove, At
<1>14. ASSUME NEW d \in Device, ConfirmRevoke(d) PROVE SettledInv'
  BY <1>0, <1>14, <1>aim, <1>even, ConfirmRevokeSettled DEF ConfirmRevoke, At
<1>15. ASSUME NEW d \in Device, NEW f \in Folder, RevokeFolder(d, f) PROVE SettledInv'
  BY <1>0, <1>15, <1>aim, <1>even, RevokeFolderSettled DEF RevokeFolder, At
<1>16. ASSUME NEW d \in Device, MoveToRevoked(d) PROVE SettledInv'
  <2>1. At(d, "revoking") /\ ~At(d, "idle") /\ ~At(d, "record")
    BY <1>16 DEF MoveToRevoked, At
  <2>2. Has(head[d], "devices", cmd[d].target)
    BY <2>1 DEF TrackedInv, Unbroken
  <2>. QED BY <1>0, <1>16, <1>aim, <1>even, <2>1, <2>2, MoveSettled
<1>17. ASSUME NEW d \in Device, RecordRotation(d) PROVE SettledInv'
  <2>. DEFINE rot == cmd[d].earlier \cup {[device |-> cmd[d].target, entries |-> cmd[d].entries]}
              t == [work[d] EXCEPT !.rot = rot]
  <2>1. rot \in SUBSET RotationEntry
    BY <1>0, <1>17, <1>aim DEF RecordRotation, At, Command, RotationEntry
  <2>2. t \in Tree /\ t.rec = work[d].rec /\ t.ids = work[d].ids /\ t.blob = work[d].blob
    BY <1>0, <2>1 DEF TreesOK, Tree
  <2>3. Publish(d, t) /\ cmd' = [cmd EXCEPT ![d] = Idle] /\ At(d, "record")
    BY <1>17 DEF RecordRotation
  <2>. HIDE DEF t
  <2>4. /\ Settled(work[d]) /\ Beyond(head[d], work[d]) /\ OwnNews(head[d], work[d], d)
        /\ cmd[d].todo = {}
    BY <2>3 DEF SettledInv, Stands, At
  <2>5. Settled(t)
    BY <2>2, <2>4, SettledStays
  <2>6. Beyond(work[d], t) /\ OwnNews(work[d], t, d)
    BY <2>2, SameBeyond
  <2>7. Beyond(head[d], t) /\ OwnNews(head[d], t, d)
    BY <2>4, <2>6, BeyondTransitive DEF OwnNews
  <2>8. /\ cmd'[d].step = "idle" /\ cmd'[d].todo = {}
        /\ \A i \in Device \ {d} : cmd'[i] = cmd[i]
    <3>1. Idle.step = "idle" /\ Idle.todo = {}
      BY DEF Idle
    <3>. QED BY <1>cmd, <2>3, <3>1
  <2>9. t.ids = head[d].ids /\ t.blob = head[d].blob
    BY <2>2 DEF CommittedInv, SameSecrets
  <2>. QED BY <1>0, <2>2, <2>3, <2>4, <2>5, <2>7, <2>8, <2>9, PublishSettled
<1>18. ASSUME NEW d \in Device, NEW x \in Entry, Insert(d, x) \/ Edit(d, x) PROVE SettledInv'
  <2>1. /\ At(d, "idle") /\ Settled(head[d]) /\ work[d] = head[d] /\ cmd[d].todo = {}
        /\ \A e \in Stored : InStep(head[d], e)
    BY <1>18, <1>rest DEF Insert, Edit, Write, MayRun, At
  <2>2. PICK c : Write(d, x, c) /\ (x \in Stored => c = Seal(head[d].blob[x], d, Recipients(head[d], x)))
    BY <1>18, <2>1 DEF Insert, Edit, InStep
  <2>3. /\ head'[d].rec = head[d].rec /\ head'[d].ids = head[d].ids
        /\ \A e \in Entry : head'[d].blob[e] = IF e = x THEN c ELSE head[d].blob[e]
        /\ \A i \in Device \ {d} : head'[i] = head[i] /\ work'[i] = work[i]
        /\ UNCHANGED <<origin, base, cmd>>
    BY <1>0, <2>2 DEF Write, TreesOK, Tree
  <2>4. ASSUME x \in Stored
        PROVE  /\ c # None /\ c.to = Recipients(head[d], x)
               /\ c.by = d /\ c.rev \in Nat /\ head[d].blob[x].rev < c.rev
    <3>1. head[d] \in Tree /\ InStep(head[d], x)
      BY <1>0, <2>1, <2>4 DEF TreesOK
    <3>2. head[d].blob[x] \in Cipher /\ Recipients(head[d], x) \in SUBSET Device
      <4>1. Recipients(head[d], x) \in SUBSET Device
        BY <3>1, RecipientsType
      <4>. QED BY <3>1, <4>1 DEF Tree, InStep
    <3>3. c \in Cipher /\ c.to = Recipients(head[d], x)
      BY <2>2, <2>4, <3>2, SealType
    <3>4. head[d].blob[x].rev \in Nat /\ c.rev = head[d].blob[x].rev + 1 /\ c.by = d
      BY <2>2, <2>4, <3>2 DEF Seal, Cipher
    <3>. QED BY <3>3, <3>4, CipherAssumption
  <2>5. Settled(head'[d])
    <3>1. \A y \in Device : Alone(head'[d], y)
      BY <2>1, <2>3, SameStage DEF Settled, SettledBut
    <3>2. ASSUME NEW e \in Stored
          PROVE  /\ InStep(head'[d], e) /\ Covers(head'[d], e, {})
                 /\ \A y \in Device : Tied(head'[d], e, y)
      <4>1. Recipients(head'[d], e) = Recipients(head[d], e) /\ e \in Entry
        BY <2>3 DEF Recipients, Governing
      <4>2. InStep(head'[d], e)
        BY <2>1, <2>3, <2>4, <4>1 DEF InStep
      <4>3. Covers(head[d], e, {}) /\ \A y \in Device : Tied(head[d], e, y)
        BY <2>1 DEF Settled, SettledBut
      <4>. QED BY <2>3, <4>2, <4>3 DEF Covers, Tied, Has
    <3>3. head'[d].ids[Root] # {}
      BY <2>1, <2>3 DEF Settled, SettledBut
    <3>. QED BY <3>1, <3>2, <3>3 DEF Settled, SettledBut
  <2>6. Stands(d)' /\ Seated(d)'
    BY <2>1, <2>3, <2>5 DEF Stands, Seated, At
  <2>7. ASSUME NEW e \in Stored
        PROVE  \/ SameSeal(base[d], head'[d], e)
               \/ Resealed(base[d], head'[d], e) /\ head'[d].blob[e].by = d
               \/ base[d].blob[e] = head'[d].blob[e] /\ Home[e] \in cmd[d].todo
    <3>1. \/ SameSeal(head[d], head'[d], e)
          \/ Resealed(head[d], head'[d], e) /\ head'[d].blob[e].by = d
             /\ head'[d].blob[e].rev \in Nat
      BY <2>3, <2>4 DEF SameSeal, SameLists, Resealed
    <3>. QED BY <1>0, <2>1, <3>1, SealsGoOn
  <2>. QED BY <2>3, <2>6, <2>7, LocalSettled
<1>19. ASSUME NEW d \in Device, PushOnly(d) PROVE SettledInv'
  <2>1. At(d, "idle") /\ cmd' = cmd
    BY <1>19 DEF PushOnly, MayRun
  <2>2. Settled(head[d]) /\ work[d] = head[d] /\ cmd[d].todo = {} /\ head[d] \in Tree
    BY <1>0, <1>rest, <2>1 DEF At, TreesOK
  <2>3. Publish(d, head[d])
    BY <1>0, <1>19, <2>2 DEF PushOnly, Publish, TreesOK
  <2>4. Beyond(head[d], head[d]) /\ OwnNews(head[d], head[d], d)
    BY SameBeyond
  <2>. QED BY <1>0, <2>1, <2>2, <2>3, <2>4, PublishSettled DEF At
<1>20. ASSUME NEW d \in Device, SyncPullOnly(d) \/ Sync(d) PROVE SettledInv'
  <2>1. /\ At(d, "idle") /\ CanPull(d) /\ cmd' = cmd
        /\ head'[d] = PulledHead(d) /\ base'[d] = origin' /\ origin' \in {origin, PulledHead(d)}
        /\ \A i \in Device \ {d} : /\ base'[i] = base[i] /\ head'[i] = head[i]
                                   /\ work'[i] = work[i]
    BY <1>0, <1>20 DEF SyncPullOnly, Sync, Rebase, MayRun, TreesOK
  <2>2. cmd[d].todo = {}
    BY <1>rest, <2>1 DEF At
  <2>3. Seated(d)'
    BY <2>1 DEF Seated, At
  <2>. QED BY <1>0, <2>1, <2>2, <2>3, PullSettled DEF At
<1>21. ASSUME NEW d \in Device, FollowGuidance(d) PROVE FALSE
  BY <1>21 DEF FollowGuidance
<1>. QED
  BY <1>1, <1>2, <1>3, <1>4, <1>6, <1>7, <1>9, <1>10, <1>11, <1>12, <1>13, <1>14, <1>15, <1>16,
     <1>17, <1>18, <1>19, <1>20, <1>21
  DEF Next, Enrolling, Approving, Revoking, Writing, Syncing

LEMMA SettledInit == InUse /\ Init => SettledInv
<1>. SUFFICES ASSUME InUse, Init PROVE SettledInv
  OBVIOUS
<1>1. /\ origin = Founded(Members, Stored)
      /\ \A d \in Device : /\ base[d] = origin /\ head[d] = origin /\ work[d] = origin
                           /\ cmd[d].step = "idle" /\ cmd[d].todo = {}
  BY DEF Init, InUse, Idle
<1>2. /\ origin.ids[Root] = Members
      /\ \A f \in Folder : origin.ids[f] = {}
      /\ \A k \in Kind, x \in Device :
           origin.rec[<<k, x>>] = IF k = "devices" /\ x \in Members THEN {} ELSE None
      /\ \A e \in Stored : origin.blob[e] = [to |-> Members, rev |-> 1, by |-> None]
  BY <1>1 DEF Founded, EmptyTree, Folders
<1>3. {} # None
  OBVIOUS
<1>4. \A x \in Device : Alone(origin, x)
  BY <1>2 DEF Alone, Has, Kind
<1>5. ASSUME NEW e \in Stored
      PROVE  /\ InStep(origin, e) /\ Covers(origin, e, {})
             /\ \A x \in Device : Tied(origin, e, x)
  <2>1. Home[e] = Root \/ Home[e] \in Folder
    OBVIOUS
  <2>2. Recipients(origin, e) = Members
    BY <1>2, <2>1 DEF Recipients, Governing
  <2>3. [to |-> Members, rev |-> 1, by |-> None] \in Cipher
    BY DEF Cipher
  <2>4. InStep(origin, e)
    BY <1>2, <2>2, <2>3, CipherAssumption DEF InStep
  <2>5. Covers(origin, e, {})
    BY <1>2, <2>1 DEF Covers
  <2>6. ASSUME NEW x \in Device PROVE Tied(origin, e, x)
    <3>1. origin.rec[<<"devices", x>>] = IF x \in Members THEN {} ELSE None
      BY <1>2 DEF Kind
    <3>. QED BY <1>2, <1>3, <2>1, <3>1 DEF Tied, Has
  <2>. QED BY <2>4, <2>5, <2>6
<1>6. Settled(origin)
  BY <1>2, <1>4, <1>5 DEF Settled, SettledBut, InUse
<1>7. /\ Beyond(origin, origin)
      /\ \A d \in Device : OwnNews(origin, origin, d)
      /\ \A d \in Device : OwnSeals(origin, origin, d) /\ OthersSeals(origin, origin, d)
  BY SameBeyond, SameSeals
<1>8. ASSUME NEW d \in Device PROVE Settled(base[d]) /\ Forked(d) /\ Stands(d) /\ Seated(d)
  <2>1. Forked(d)
    BY <1>1, <1>7 DEF Forked, OwnSeals
  <2>. QED BY <1>1, <1>6, <2>1 DEF Stands, Seated, At
<1>. QED BY <1>6, <1>8 DEF SettledInv

(* With parts of the store as well: revoking removes the key from every    *)
(* .gpg-id for good, whatever devices ask for and are given what parts, if *)
(* every folder holds an entry, nothing cuts a command short after its     *)
(* yes, no sync runs during a prompt and nobody resolves a conflict by     *)
(* hand.                                                                   *)
THEOREM RevokedKeysStayOutOfParts ==
  ASSUME Failures = FALSE, Crashes = FALSE, Overlap = FALSE, ManualResolve = FALSE, InUse
  PROVE  Spec => []RevokedStaysOut
<1>1. Init => RevokedInv /\ TrackedInv /\ CommittedInv /\ SettledInv
  BY TrackedInit, SealedInit, SettledInit
<1>2. TypeInv /\ RevokedInv /\ TrackedInv /\ CommittedInv /\ SettledInv /\ [Next]_vars
        => RevokedInv' /\ TrackedInv' /\ CommittedInv' /\ SettledInv'
  <2>. SUFFICES ASSUME TypeInv, RevokedInv, TrackedInv, CommittedInv, SettledInv, [Next]_vars
                PROVE  RevokedInv' /\ TrackedInv' /\ CommittedInv' /\ SettledInv'
    OBVIOUS
  <2>1. RevokedInv'
    BY RevokedStep
  <2>2. TrackedInv'
    BY TrackedStep
  <2>3. CommittedInv'
    BY ClosedStep
  <2>4. SettledInv'
    BY SettledStep
  <2>. QED BY <2>1, <2>2, <2>3, <2>4
<1>3. SettledInv => RevokedStaysOut
  <2>. SUFFICES ASSUME Settled(origin), NEW r \in Device, Has(origin, "revoked", r),
                       NEW f \in Folders, r \in origin.ids[f]
                PROVE  FALSE
    BY DEF SettledInv, RevokedStaysOut, RevokedIn, ListedAnywhere
  <2>1. PICK e \in Stored : Tied(origin, e, r) /\ f \in {Root, Home[e]}
    BY DEF Settled, SettledBut, InUse, Folders
  <2>2. Alone(origin, r)
    BY DEF Settled, SettledBut
  <2>3. ~Has(origin, "devices", r)
    BY <2>2 DEF Alone, Kind
  <2>. QED BY <2>1, <2>3 DEF Tied, Has
<1>. QED BY <1>1, <1>2, <1>3, InitType, NextType, PTL DEF Spec

(* ... and every entry that all of them knew stays encrypted to exactly    *)
(* the devices on the list over it, the folder's own or the root's.        *)
THEOREM EntriesFollowTheirLists ==
  ASSUME Failures = FALSE, Crashes = FALSE, Overlap = FALSE, ManualResolve = FALSE, InUse
  PROVE  Spec => []EncryptedToList
<1>1. Init => RevokedInv /\ TrackedInv /\ CommittedInv /\ SettledInv
  BY TrackedInit, SealedInit, SettledInit
<1>2. TypeInv /\ RevokedInv /\ TrackedInv /\ CommittedInv /\ SettledInv /\ [Next]_vars
        => RevokedInv' /\ TrackedInv' /\ CommittedInv' /\ SettledInv'
  BY RevokedStep, TrackedStep, ClosedStep, SettledStep
<1>3. SettledInv => EncryptedToList
  BY DEF SettledInv, Settled, SettledBut, EncryptedToList
<1>. QED BY <1>1, <1>2, <1>3, InitType, NextType, PTL DEF Spec

=============================================================================
