--------------------------- MODULE PassSync_proofs ---------------------------
(***************************************************************************)
(* Proofs about `pass sync`, for any keys and any number of commits: what   *)
(* the state file says was announced was, however syncs and an approve      *)
(* overlap; and what holds when they take turns and finish.                 *)
(***************************************************************************)
EXTENDS PassSync, TLAPS

-----------------------------------------------------------------------------
(* Types                                                                   *)

RunType == run \in [pc: SyncStep, full: BOOLEAN, mem: State]
AskType == ask \in [pc: AskStep, key: Key, mem: State]
StoreType ==
  /\ remote \in Content /\ base \in Content
  /\ tip \in Nat /\ baseTip \in Nat /\ head \in Nat /\ commits \in Nat
  /\ committed \subseteq mine /\ mine \subseteq Key
FlagType == relisted \in BOOLEAN /\ touched \in BOOLEAN
OtherType ==
  /\ disk = Broken \/ disk \in State
  /\ crashes \in 0..MaxCrashes
  /\ fault \in Faults
  /\ told \in [Key -> 0..2]
  /\ asked \subseteq Key /\ approved \subseteq Key
  /\ baseline = None \/ baseline \subseteq Key
  /\ warned \subseteq {"pull", "push", "conflict"}

LEMMA Types == TypeOK <=> RunType /\ AskType /\ StoreType /\ FlagType /\ OtherType
BY Zenon DEF TypeOK, RunType, AskType, StoreType, FlagType, OtherType, Commit

LEMMA FreshState == Fresh \in State /\ Fresh.known = None /\ Fresh.notified = {}
BY DEF Fresh, State, Commit

LEMMA LoadedState ==
  ASSUME disk = Broken \/ disk \in State
  PROVE  Loaded \in State
BY FreshState DEF Loaded

(* What the steps do to the memory of a process.                           *)
LEMMA StateUpdates ==
  ASSUME NEW m \in State
  PROVE  /\ [m EXCEPT !.pullFailing = FALSE, !.conflict = None] \in State
         /\ \A h \in Nat : [m EXCEPT !.conflict = h] \in State
         /\ [m EXCEPT !.pullFailing = TRUE] \in State
         /\ [m EXCEPT !.pushFailed = None] \in State
         /\ \A h \in Nat : [m EXCEPT !.pushFailed = h] \in State
         /\ \A S \in SUBSET Key : [m EXCEPT !.notified = S] \in State
         /\ \A S \in SUBSET Key : [m EXCEPT !.known = S] \in State
         /\ \A h \in Nat : [m EXCEPT !.audited = h] \in State
BY DEF State, Commit

LEMMA InitTypes == Init => RunType /\ AskType /\ StoreType /\ FlagType /\ OtherType
<1>. SUFFICES ASSUME Init
              PROVE  RunType /\ AskType /\ StoreType /\ FlagType /\ OtherType
  OBVIOUS
<1>. USE ConstantsAssumption DEF Init, Clone, FirstDevice
<1>1. RunType /\ AskType
  BY FreshState DEF RunType, AskType, SyncStep, AskStep
<1>2. StoreType
  <2>1. CASE Clone
    BY <2>1 DEF StoreType, Content
  <2>2. CASE FirstDevice
    BY <2>2 DEF StoreType, Content
  <2>. QED
    BY <2>1, <2>2
<1>3. FlagType
  BY DEF FlagType
<1>4. OtherType
  BY FreshState DEF OtherType
<1>. QED
  BY <1>1, <1>2, <1>3, <1>4

LEMMA NextFlags ==
  ASSUME FlagType, [Next]_vars
  PROVE  FlagType'
<1>. USE DEF FlagType, store, history
<1>1. CASE Elsewhere
  BY Zenon, <1>1 DEF Elsewhere, RemoteCommit
<1>2. CASE Timer \/ Hook \/ Crash
  BY Zenon, <1>2 DEF Timer, Hook, Rewrites, Crash
<1>3. CASE SyncGoesOn
  BY Zenon, <1>3 DEF SyncGoesOn, PullOk, Rebase, PullConflict, PullFails, NothingToPush, PushOk,
       Land, PushFails, NotifyPending, Tripwire, Audit, AuditFails, SaveOpens, Save
<1>4. CASE Approving
  BY Zenon, <1>4 DEF Approving, ApproveStart, Rebase, Refuse, Approve, Rewrites, RememberLoad,
       RememberSave, Publish, Land
<1>5. CASE UNCHANGED vars
  BY Zenon, <1>5 DEF vars
<1>. QED
  BY <1>1, <1>2, <1>3, <1>4, <1>5 DEF Next

(* An approve goes on to save only a file that knows devices.              *)
LoadedInv == Asking("loaded") => ask.mem.known # None

LEMMA NextTypes ==
  ASSUME TypeOK, LoadedInv, [Next]_vars
  PROVE  TypeOK'
<1>a. RunType /\ AskType /\ StoreType /\ OtherType
  BY Types
<1>f. FlagType'
  BY Types, NextFlags
<1>b. run.mem \in State /\ ask.mem \in State /\ ask.key \in Key /\ run.full \in BOOLEAN
  BY <1>a DEF RunType, AskType
<1>c. Listed \subseteq Key /\ Pending \subseteq Key
  BY <1>a DEF Listed, Pending, StoreType, Content
<1>d. Loaded \in State
  BY <1>a, LoadedState DEF OtherType
<1>t. RunType' /\ AskType' /\ StoreType' /\ OtherType' => TypeOK'
  BY Zenon, <1>f DEF TypeOK, RunType, AskType, StoreType, FlagType, OtherType, Commit
<1>. USE DEF store, history
<1>1. CASE Elsewhere
  <2>1. PICK new \in Content : RemoteCommit(new)
    BY <1>a, <1>1 DEF Elsewhere, StoreType, Content
  <2>. QED
    BY <1>a, <1>t, <2>1
    DEF RemoteCommit, Forgotten, NewCommit, RunType, AskType, StoreType, OtherType
<1>2. CASE Timer
  BY <1>a, <1>d, <1>t, <1>2
  DEF Timer, StartAt, SyncStep, RunType, AskType, StoreType, OtherType
<1>3. CASE Hook
  <2>1. RunType'
    <3>1. run' = run \/ run' = [pc |-> "push", full |-> FALSE, mem |-> Loaded]
      BY <1>3 DEF Hook, StartAt
    <3>2. [pc |-> "push", full |-> FALSE, mem |-> Loaded]
            \in [pc: SyncStep, full: BOOLEAN, mem: State]
      BY <1>d DEF SyncStep
    <3>. QED
      BY <1>a, <3>1, <3>2 DEF RunType
  <2>2. AskType' /\ StoreType' /\ OtherType'
    BY <1>a, <1>3 DEF Hook, NewCommit, AskType, StoreType, OtherType
  <2>. QED
    BY <1>t, <2>1, <2>2
<1>4. CASE PullOk \/ PullConflict \/ PullFails
  <2>1. RunType'
    <3>1. CASE PullOk
      BY <1>a, <1>b, <3>1, StateUpdates DEF PullOk, Goto, RunType, SyncStep
    <3>2. CASE PullConflict
      BY <1>a, <1>b, <3>2, StateUpdates DEF PullConflict, Goto, RunType, SyncStep, StoreType
    <3>3. CASE PullFails
      BY <1>a, <1>b, <3>3, StateUpdates DEF PullFails, Goto, RunType, SyncStep
    <3>. QED
      BY <1>4, <3>1, <3>2, <3>3
  <2>2. StoreType'
    BY <1>a, <1>4 DEF PullOk, PullConflict, PullFails, Rebase, NewCommit, StoreType
  <2>3. AskType' /\ OtherType'
    BY <1>a, <1>4 DEF PullOk, PullConflict, PullFails, Warn, AskType, OtherType
  <2>. QED
    BY <1>t, <2>1, <2>2, <2>3
<1>5. CASE NothingToPush \/ PushOk \/ PushFails
  <2>1. RunType'
    <3>1. AfterPush \in SyncStep
      BY DEF AfterPush, SyncStep
    <3>2. CASE NothingToPush
      BY <1>a, <1>b, <3>1, <3>2, StateUpdates DEF NothingToPush, Goto, RunType
    <3>3. CASE PushOk
      BY <1>a, <1>b, <3>1, <3>3, StateUpdates DEF PushOk, Goto, RunType
    <3>4. CASE PushFails
      BY <1>a, <1>b, <3>4, StateUpdates DEF PushFails, Goto, RunType, SyncStep, StoreType
    <3>. QED
      BY <1>5, <3>2, <3>3, <3>4
  <2>2. StoreType'
    BY <1>a, <1>5 DEF NothingToPush, PushOk, PushFails, Land, StoreType, Content
  <2>3. AskType' /\ OtherType'
    BY <1>a, <1>5 DEF NothingToPush, PushOk, PushFails, Warn, AskType, OtherType
  <2>. QED
    BY <1>t, <2>1, <2>2, <2>3
<1>6. CASE NotifyPending
  <2>1. RunType'
    BY <1>a, <1>b, <1>c, <1>6, StateUpdates DEF NotifyPending, Goto, RunType, SyncStep
  <2>2. AskType' /\ StoreType' /\ OtherType'
    BY <1>a, <1>c, <1>6 DEF NotifyPending, AskType, StoreType, OtherType
  <2>. QED
    BY <1>t, <2>1, <2>2
<1>7. CASE Tripwire
  <2>1. (IF run.mem.known = None THEN Listed ELSE run.mem.known \cup Listed) \in SUBSET Key
    BY <1>b, <1>c DEF State
  <2>2. RunType'
    BY <1>a, <1>b, <1>7, <2>1, StateUpdates DEF Tripwire, Goto, RunType, SyncStep
  <2>3. told' \in [Key -> 0..2]
    BY <1>a, <1>7 DEF Tripwire, OtherType
  <2>4. AskType' /\ StoreType' /\ OtherType'
    BY <1>a, <1>7, <2>3 DEF Tripwire, AskType, StoreType, OtherType
  <2>. QED
    BY <1>t, <2>2, <2>4
<1>8. CASE Audit \/ AuditFails \/ SaveOpens
  <2>1. RunType'
    <3>1. CASE Audit
      BY <1>a, <1>b, <3>1, StateUpdates DEF Audit, Goto, RunType, SyncStep, StoreType
    <3>2. CASE AuditFails
      BY <1>a, <1>b, <3>2, StateUpdates DEF AuditFails, Goto, RunType, SyncStep
    <3>3. CASE SaveOpens
      BY <1>a, <1>b, <3>3, StateUpdates DEF SaveOpens, Goto, RunType, SyncStep
    <3>. QED
      BY <1>8, <3>1, <3>2, <3>3
  <2>2. AskType' /\ StoreType' /\ OtherType'
    BY <1>a, <1>8 DEF Audit, AuditFails, SaveOpens, AskType, StoreType, OtherType
  <2>. QED
    BY <1>t, <2>1, <2>2
<1>9. CASE Save \/ Crash
  <2>1. RunType'
    <3>1. run' = [pc |-> "idle", full |-> FALSE, mem |-> Fresh]
      BY <1>9 DEF Save, Crash
    <3>. QED
      BY <3>1, FreshState DEF RunType, SyncStep
  <2>2. crashes' \in 0..MaxCrashes
    BY <1>a, <1>9, ConstantsAssumption DEF Save, Crash, OtherType
  <2>3. AskType' /\ StoreType' /\ OtherType'
    BY <1>a, <1>b, <1>9, <2>2 DEF Save, Crash, Learnt, State, AskType, StoreType, OtherType
  <2>. QED
    BY <1>t, <2>1, <2>3
<1>10. CASE \E k \in Key : ApproveStart(k)
  BY <1>a, <1>t, <1>10, FreshState
  DEF ApproveStart, Rebase, NewCommit, RunType, AskType, AskStep, StoreType, OtherType
<1>11. CASE Refuse \/ Approve
  <2>1. AskType'
    BY <1>a, <1>11, ConstantsAssumption DEF Refuse, Approve, AskType, AskStep
  <2>2. StoreType'
    <3>1. CASE Refuse
      BY <1>a, <3>1 DEF Refuse, StoreType
    <3>2. CASE Approve
      BY <1>a, <1>b, <3>2 DEF Approve, NewCommit, StoreType
    <3>. QED
      BY <1>11, <3>1, <3>2
  <2>3. RunType' /\ OtherType'
    BY <1>a, <1>b, <1>11 DEF Refuse, Approve, RunType, OtherType
  <2>. QED
    BY <1>t, <2>1, <2>2, <2>3
<1>12. CASE RememberLoad
  BY <1>a, <1>b, <1>d, <1>t, <1>12
  DEF RememberLoad, RunType, AskType, AskStep, StoreType, OtherType
<1>13. CASE RememberSave
  <2>1. ask.mem.known \cup {ask.key} \in SUBSET Key
    BY <1>b, <1>13 DEF LoadedInv, RememberSave, State
  <2>2. disk' = [ask.mem EXCEPT !.known = ask.mem.known \cup {ask.key}]
    BY <1>b, <1>13 DEF RememberSave
  <2>3. disk' \in State
    BY <1>b, <2>1, <2>2, StateUpdates
  <2>4. AskType'
    BY <1>a, <1>13, FreshState DEF RememberSave, AskType, AskStep
  <2>5. RunType' /\ StoreType' /\ OtherType'
    BY <1>a, <1>13, <2>3 DEF RememberSave, RunType, StoreType, OtherType
  <2>. QED
    BY <1>t, <2>4, <2>5
<1>14. CASE Publish
  <2>1. ask' = [pc |-> "idle", key |-> Own, mem |-> Fresh]
    BY <1>14 DEF Publish
  <2>2. AskType'
    BY <2>1, FreshState, ConstantsAssumption DEF AskType, AskStep
  <2>3. StoreType'
    <3>. USE <1>a, <1>14 DEF Publish, NewCommit, StoreType
    <3>1. head' \in Nat /\ commits' \in Nat
      OBVIOUS
    <3>2. CASE Land(commits + 1, mine)
      BY <3>1, <3>2 DEF Land, Content
    <3>3. CASE committed' = mine /\ UNCHANGED <<remote, tip, base, baseTip, mine, relisted, touched>>
      BY <3>1, <3>3
    <3>. QED
      BY <3>2, <3>3
  <2>4. RunType' /\ OtherType'
    BY <1>a, <1>14 DEF Publish, RunType, OtherType
  <2>. QED
    BY <1>t, <2>2, <2>3, <2>4
<1>15. CASE UNCHANGED vars
  BY <1>a, <1>t, <1>15 DEF vars, RunType, AskType, StoreType, OtherType
<1>. QED
  BY <1>1, <1>2, <1>3, <1>4, <1>5, <1>6, <1>7, <1>8, <1>9, <1>10, <1>11, <1>12, <1>13, <1>14,
     <1>15 DEF Next, SyncGoesOn, Approving

-----------------------------------------------------------------------------
(* Steps                                                                   *)

LEMMA Going ==
  ASSUME NEW pc, NEW mem, RunType, Goto(pc, mem)
  PROVE  run'.pc = pc /\ run'.mem = mem
BY DEF RunType, Goto

(* Neither git's steps nor the audit change what is known and announced.   *)
LEMMA GitSteps ==
  ASSUME RunType, PullOk \/ PullConflict \/ PullFails \/ NothingToPush \/ PushOk \/ PushFails
  PROVE  /\ run.pc \in {"pull", "push", "retry"}
         /\ run'.pc \in {"push", "retry", "notify", "save"}
         /\ run'.mem.known = run.mem.known /\ run'.mem.notified = run.mem.notified
         /\ UNCHANGED <<disk, ask, told, asked, baseline, approved, fault>>
<1>1. run.mem \in State
  BY DEF RunType
<1>. USE <1>1, Going DEF State
<1>2. CASE PullOk
  BY <1>2 DEF PullOk, Running
<1>3. CASE PullConflict
  BY <1>3 DEF PullConflict, Running
<1>4. CASE PullFails
  BY <1>4 DEF PullFails, Running
<1>5. CASE NothingToPush
  BY <1>5 DEF NothingToPush, AfterPush, Running
<1>6. CASE PushOk
  BY <1>6 DEF PushOk, AfterPush, Running
<1>7. CASE PushFails
  BY <1>7 DEF PushFails, Running
<1>. QED
  BY <1>2, <1>3, <1>4, <1>5, <1>6, <1>7

LEMMA AuditSteps ==
  ASSUME RunType, Audit \/ AuditFails
  PROVE  /\ run.pc = "audit" /\ run'.pc = "save"
         /\ run'.mem.known = run.mem.known /\ run'.mem.notified = run.mem.notified
         /\ UNCHANGED <<store, disk, ask, history, fault>>
<1>1. run.mem \in State
  BY DEF RunType
<1>. USE <1>1, Going DEF State, Running
<1>2. CASE Audit
  BY <1>2 DEF Audit
<1>3. CASE AuditFails
  BY <1>3 DEF AuditFails
<1>. QED
  BY <1>2, <1>3

LEMMA NotifyStep ==
  ASSUME RunType, NotifyPending
  PROVE  /\ run.pc = "notify" /\ run'.pc = "tripwire"
         /\ run'.mem.known = run.mem.known
         /\ run'.mem.notified = IF IsWorkstation THEN Pending ELSE run.mem.notified \cap Pending
         /\ UNCHANGED <<store, disk, ask, told, baseline, approved, warned, fault>>
<1>1. run.mem \in State
  BY DEF RunType
<1>. QED
  BY <1>1, Going DEF NotifyPending, State, Running

LEMMA TripwireStep ==
  ASSUME RunType, Tripwire
  PROVE  /\ run.pc = "tripwire" /\ run'.pc = "audit"
         /\ run'.mem.known = IF run.mem.known = None THEN Listed ELSE run.mem.known \cup Listed
         /\ run'.mem.notified = run.mem.notified
         /\ UNCHANGED <<store, disk, ask, asked, baseline, approved, warned, fault>>
<1>. DEFINE known == IF run.mem.known = None THEN Listed ELSE run.mem.known \cup Listed
            mem == [run.mem EXCEPT !.known = known]
<1>1. mem.known = known /\ mem.notified = run.mem.notified
  BY DEF RunType, State
<1>2. Running("tripwire") /\ Goto("audit", mem)
  BY DEF Tripwire
<1>3. run'.pc = "audit" /\ run'.mem = mem
  BY <1>2, Going
<1>4. UNCHANGED <<store, disk, ask, asked, baseline, approved, warned, fault>>
  BY DEF Tripwire
<1>. QED
  BY <1>1, <1>2, <1>3, <1>4 DEF Running

-----------------------------------------------------------------------------
(* What is remembered as announced was                                     *)

(* Of the file, and of what the sync and the approve have in memory.       *)
RequestInv ==
  /\ disk # Broken => disk.notified \subseteq asked
  /\ run.mem.notified \subseteq asked
  /\ ask.mem.notified \subseteq asked

LEMMA RequestNext ==
  ASSUME TypeOK, RequestInv, [Next]_vars
  PROVE  RequestInv'
<1>a. RunType /\ AskType /\ (disk = Broken \/ disk \in State)
  BY DEF TypeOK, RunType, AskType
<1>b. Loaded.notified \subseteq asked
  BY FreshState DEF Loaded, RequestInv
<1>. USE FreshState DEF RequestInv, store, history
<1>1. CASE Elsewhere
  BY <1>1 DEF Elsewhere, RemoteCommit
<1>2. CASE Timer \/ Hook
  BY <1>b, <1>2 DEF Timer, Hook, StartAt
<1>3. CASE PullOk \/ PullConflict \/ PullFails \/ NothingToPush \/ PushOk \/ PushFails
  BY <1>a, <1>3, GitSteps
<1>4. CASE Audit \/ AuditFails
  BY <1>a, <1>4, AuditSteps
<1>5. CASE NotifyPending
  BY <1>a, <1>5, NotifyStep DEF NotifyPending
<1>6. CASE Tripwire
  BY <1>a, <1>6, TripwireStep
<1>7. CASE SaveOpens
  BY <1>a, <1>7 DEF SaveOpens, RunType
<1>8. CASE Save \/ Crash
  BY <1>8 DEF Save, Crash
<1>9. CASE (\E k \in Key : ApproveStart(k)) \/ Refuse \/ Approve
  <2>1. ask'.mem = Fresh \/ ask'.mem = ask.mem
    <3>1. CASE \E k \in Key : ApproveStart(k)
      BY <3>1 DEF ApproveStart
    <3>2. CASE Refuse \/ Approve
      BY <1>a, <3>2 DEF Refuse, Approve, AskType
    <3>. QED
      BY <1>9, <3>1, <3>2
  <2>. QED
    BY <1>9, <2>1 DEF ApproveStart, Refuse, Approve
<1>10. CASE RememberLoad
  BY <1>a, <1>b, <1>10 DEF RememberLoad, AskType
<1>11. CASE RememberSave
  BY <1>a, <1>11 DEF RememberSave, AskType, State
<1>12. CASE Publish
  BY <1>12 DEF Publish
<1>13. CASE UNCHANGED vars
  BY <1>13 DEF vars
<1>. QED
  BY <1>1, <1>2, <1>3, <1>4, <1>5, <1>6, <1>7, <1>8, <1>9, <1>10, <1>11, <1>12, <1>13
  DEF Next, SyncGoesOn, Approving

-----------------------------------------------------------------------------
(* What is known was accounted for                                         *)

Accounted ==
  {Own} \cup approved \cup {k \in Key : told[k] > 0}
    \cup (IF baseline = None THEN {} ELSE baseline)

(* The baseline is there once the file knows devices; from then on neither *)
(* the file nor a process knows one that is not accounted for.             *)
SavedInv ==
  fault # "torn" =>
    /\ disk \in State /\ ~Running("writing")
    /\ baseline = None <=> disk.known = None
    /\ baseline # None => disk.known \subseteq Accounted
    /\ baseline # None /\ ~Running("idle") =>
         run.mem.known # None /\ run.mem.known \subseteq Accounted
    /\ Asking("loaded") => baseline # None /\ ask.mem.known \subseteq Accounted
    /\ ask.pc \in {"listed", "loaded"} => ask.key \in approved

LEMMA AccountedStays ==
  ASSUME TypeOK, fault # "torn", SavedInv, [Next]_vars, baseline # None
  PROVE  Accounted \subseteq Accounted' /\ baseline' = baseline
<1>1. told \in [Key -> 0..2]
  BY DEF TypeOK
<1>. USE DEF store, history
<1>2. baseline' = baseline
  BY DEF Next, SyncGoesOn, Approving, Elsewhere, RemoteCommit, Timer, Hook, PullOk, PullConflict,
         PullFails, NothingToPush, PushOk, PushFails, NotifyPending, Tripwire, Audit, AuditFails,
         SaveOpens, Save, Learnt, Crash, ApproveStart, Refuse, Approve, RememberLoad,
         RememberSave, Publish, vars
<1>3. approved \subseteq approved'
  BY DEF Next, SyncGoesOn, Approving, Elsewhere, RemoteCommit, Forgotten, Timer, Hook, PullOk,
         PullConflict, PullFails, NothingToPush, PushOk, PushFails, NotifyPending, Tripwire,
         Audit, AuditFails, SaveOpens, Save, Crash, ApproveStart, Refuse, Approve, RememberLoad,
         RememberSave, Publish, vars
<1>4. \A k \in Key : told[k] > 0 => told'[k] > 0
  <2>1. CASE Tripwire
    BY <1>1, <2>1 DEF Tripwire
  <2>2. CASE ~Tripwire
    <3>1. UNCHANGED told
      BY <2>2 DEF Next, SyncGoesOn, Approving, Elsewhere, RemoteCommit, Timer, Hook, PullOk,
         PullConflict, PullFails, NothingToPush, PushOk, PushFails, NotifyPending,
         Audit, AuditFails, SaveOpens, Save, Crash, ApproveStart, Refuse, Approve, RememberLoad,
         RememberSave, Publish, vars
    <3>. QED
      BY <3>1
  <2>. QED
    BY <2>1, <2>2
<1>. QED
  BY <1>2, <1>3, <1>4 DEF Accounted

(* Only an approve changes what an approve is at, and nothing the fault.   *)
LEMMA OthersKeepAsk ==
  ASSUME [Next]_vars
  PROVE  fault' = fault /\ (~Approving => UNCHANGED ask)
BY DEF Next, SyncGoesOn, Approving, Elsewhere, RemoteCommit, Timer, Hook, PullOk, PullConflict,
       PullFails, NothingToPush, PushOk, PushFails, NotifyPending, Tripwire, Audit, AuditFails,
       SaveOpens, Save, Crash, ApproveStart, Refuse, Approve, RememberLoad, RememberSave,
       Publish, vars, store, history

LEMMA AskSteps ==
  ASSUME AskType, Approving
  PROVE  /\ (\E k \in Key : ApproveStart(k)) \/ Refuse \/ Publish =>
              ask'.pc \in {"idle", "asking"}
         /\ Approve => ask.pc = "asking" /\ ask' = [ask EXCEPT !.pc = "listed"]
         /\ Approve => ask'.pc = "listed" /\ ask'.key = ask.key
         /\ RememberLoad => /\ ask.pc = "listed" /\ ask'.mem = Loaded /\ ask'.key = ask.key
                            /\ ask'.pc = IF Loaded.known = None THEN "publish" ELSE "loaded"
         /\ RememberSave => ask.pc = "loaded" /\ ask'.pc = "publish" /\ ask'.key = ask.key
<1>1. (\E k \in Key : ApproveStart(k)) \/ Refuse \/ Publish => ask'.pc \in {"idle", "asking"}
  <2>1. (\E k \in Key : ApproveStart(k)) \/ Publish => ask'.pc \in {"idle", "asking"}
    BY DEF ApproveStart, Publish
  <2>2. Refuse => ask'.pc = "idle"
    BY DEF Refuse, AskType
  <2>. QED
    BY <2>1, <2>2
<1>2. Approve => /\ ask.pc = "asking" /\ ask' = [ask EXCEPT !.pc = "listed"]
                 /\ ask'.pc = "listed" /\ ask'.key = ask.key
  BY DEF Approve, Asking, AskType
<1>3. RememberLoad => /\ ask.pc = "listed" /\ ask'.mem = Loaded /\ ask'.key = ask.key
                      /\ ask'.pc = IF Loaded.known = None THEN "publish" ELSE "loaded"
  BY DEF RememberLoad, Asking, AskType
<1>4. RememberSave => ask.pc = "loaded" /\ ask'.pc = "publish" /\ ask'.key = ask.key
  BY DEF RememberSave, Asking, AskType
<1>. QED
  BY <1>1, <1>2, <1>3, <1>4

LEMMA LoadedNext ==
  ASSUME TypeOK, LoadedInv, [Next]_vars
  PROVE  LoadedInv'
<1>1. AskType
  BY DEF TypeOK, AskType
<1>2. CASE Approving
  BY <1>1, <1>2, AskSteps DEF Approving, LoadedInv, Asking
<1>3. CASE ~Approving
  BY <1>3, OthersKeepAsk DEF LoadedInv, Asking
<1>. QED
  BY <1>2, <1>3

LEMMA SavedNext ==
  ASSUME TypeOK, LoadedInv, SavedInv, [Next]_vars
  PROVE  SavedInv'
<1>1. fault' = fault
  BY OthersKeepAsk
<1>. SUFFICES ASSUME fault # "torn"
              PROVE  SavedInv'
  BY <1>1 DEF SavedInv
<1>a. RunType /\ AskType
  BY DEF TypeOK, RunType, AskType
<1>b. /\ disk \in State /\ run.pc # "writing"
      /\ baseline = None <=> disk.known = None
      /\ baseline # None => disk.known \subseteq Accounted
      /\ baseline # None /\ run.pc # "idle" =>
           run.mem.known # None /\ run.mem.known \subseteq Accounted
      /\ ask.pc = "loaded" => baseline # None /\ ask.mem.known \subseteq Accounted
      /\ ask.pc \in {"listed", "loaded"} => ask.key \in approved
  BY DEF SavedInv, Running, Asking
<1>c. baseline # None => Accounted \subseteq Accounted' /\ baseline' = baseline
  BY AccountedStays
<1>d. Loaded = disk
  BY <1>b, BrokenAssumption DEF Loaded
<1>. DEFINE DiskInv == /\ disk \in State
                       /\ baseline = None <=> disk.known = None
                       /\ baseline # None => disk.known \subseteq Accounted
            RunInv == /\ run.pc # "writing"
                      /\ baseline # None /\ run.pc # "idle" =>
                           run.mem.known # None /\ run.mem.known \subseteq Accounted
            AskInv == /\ ask.pc = "loaded" =>
                           baseline # None /\ ask.mem.known \subseteq Accounted
                      /\ ask.pc \in {"listed", "loaded"} => ask.key \in approved
<1>e. DiskInv' /\ RunInv' /\ AskInv' => SavedInv'
  BY DEF SavedInv, Running, Asking
<1>. USE DEF store, history
<1>2. CASE Elsewhere
  <2>1. /\ UNCHANGED <<disk, run, ask, baseline, told>>
        /\ approved \ approved' \subseteq
             (IF baseline = None /\ ask.pc # "listed" THEN approved ELSE approved \ {ask.key})
    BY <1>2 DEF Elsewhere, RemoteCommit, Forgotten, Asking
  <2>. QED
    BY <1>b, <1>c, <1>e, <2>1
<1>3. CASE Timer \/ Hook
  <2>1. /\ UNCHANGED <<disk, ask, baseline, told, approved>>
        /\ run' = run \/ (run'.mem = disk /\ run'.pc \in {"pull", "push"})
    BY <1>3, <1>d DEF Timer, Hook, StartAt
  <2>. QED
    BY <1>b, <1>c, <1>e, <2>1
<1>4. CASE \/ PullOk \/ PullConflict \/ PullFails \/ NothingToPush \/ PushOk \/ PushFails
           \/ Audit \/ AuditFails \/ NotifyPending
  <2>1. /\ run.pc # "idle" /\ run'.pc # "writing" /\ run'.mem.known = run.mem.known
        /\ UNCHANGED <<disk, ask, told, baseline, approved>>
    BY <1>a, <1>4, GitSteps, AuditSteps, NotifyStep
  <2>. QED
    BY <1>b, <1>c, <1>e, <2>1
<1>5. CASE Tripwire
  <2>1. /\ run.pc = "tripwire" /\ run'.pc = "audit" /\ UNCHANGED <<disk, ask, baseline, approved>>
        /\ run'.mem.known = IF run.mem.known = None THEN Listed ELSE run.mem.known \cup Listed
    BY <1>a, <1>5, TripwireStep
  <2>2. ASSUME baseline # None
        PROVE  run'.mem.known # None /\ run'.mem.known \subseteq Accounted'
    <3>1. run.mem.known # None /\ run.mem.known \subseteq Accounted'
      BY <1>b, <1>c, <2>1, <2>2
    <3>2. Listed \subseteq Key /\ run'.mem.known = run.mem.known \cup Listed
      BY <2>1, <3>1 DEF TypeOK, Listed, Content
    <3>3. \A k \in Listed : k \in run.mem.known \/ k = Own \/ told'[k] > 0
      BY <1>5, <3>1, <3>2 DEF Tripwire, TypeOK
    <3>4. \A k \in Listed : k \in Accounted'
      BY <3>1, <3>2, <3>3 DEF Accounted
    <3>5. run'.mem.known # None
      BY <1>a, <3>1, <3>2, ConstantsAssumption DEF RunType, State
    <3>. QED
      BY <3>1, <3>2, <3>4, <3>5
  <2>. QED
    BY <1>b, <1>c, <1>e, <2>1, <2>2
<1>6. CASE SaveOpens
  BY <1>6 DEF SaveOpens
<1>7. CASE Save
  <2>1. /\ run.pc = "save" /\ disk' = run.mem /\ run'.pc = "idle"
        /\ UNCHANGED <<ask, told, approved>>
        /\ baseline' = IF baseline = None THEN run.mem.known ELSE baseline
    BY <1>7 DEF Save, Learnt, Running
  <2>2. disk' \in State
    BY <1>a, <2>1 DEF RunType
  <2>3. CASE baseline = None
    <3>1. baseline' = disk'.known
      BY <2>1, <2>3
    <3>2. DiskInv'
      BY <2>2, <3>1 DEF Accounted
    <3>3. RunInv' /\ AskInv'
      BY <1>b, <2>1, <2>3
    <3>. QED
      BY <1>e, <3>2, <3>3
  <2>4. CASE baseline # None
    BY <1>b, <1>c, <1>e, <2>1, <2>2, <2>4
  <2>. QED
    BY <2>3, <2>4
<1>8. CASE Crash
  BY <1>b, <1>c, <1>e, <1>8 DEF Crash
<1>9. CASE (\E k \in Key : ApproveStart(k)) \/ Refuse \/ Publish
  <2>1. ask'.pc \in {"idle", "asking"}
    BY <1>a, <1>9, AskSteps DEF Approving
  <2>2. UNCHANGED <<disk, run, told, baseline, approved>>
    BY <1>9 DEF ApproveStart, Refuse, Publish
  <2>. QED
    BY <1>b, <1>c, <1>e, <2>1, <2>2
<1>10. CASE Approve
  <2>1. ask'.pc = "listed" /\ ask'.key = ask.key
    BY <1>a, <1>10, AskSteps DEF Approving
  <2>2. UNCHANGED <<disk, run, told, baseline>> /\ approved' = approved \cup {ask.key}
    BY <1>10 DEF Approve
  <2>. QED
    BY <1>b, <1>c, <1>e, <2>1, <2>2
<1>11. CASE RememberLoad
  <2>1. /\ ask.pc = "listed" /\ ask'.mem = disk /\ ask'.key = ask.key
        /\ ask'.pc = IF disk.known = None THEN "publish" ELSE "loaded"
    BY <1>a, <1>d, <1>11, AskSteps DEF Approving
  <2>2. UNCHANGED <<disk, run, told, baseline, approved>>
    BY <1>11 DEF RememberLoad
  <2>. QED
    BY <1>b, <1>c, <1>e, <2>1, <2>2
<1>12. CASE RememberSave
  <2>1. ask.pc = "loaded" /\ ask'.pc = "publish"
    BY <1>a, <1>12, AskSteps DEF Approving
  <2>2. UNCHANGED <<run, told, baseline, approved>>
    BY <1>12 DEF RememberSave
  <2>3. disk' \in State /\ disk'.known = ask.mem.known \cup {ask.key} /\ ask.mem.known # None
    <3>1. ask.mem \in State /\ ask.mem.known # None
      BY <1>a, <1>12 DEF AskType, LoadedInv, RememberSave
    <3>2. ask.mem.known \cup {ask.key} \in SUBSET Key
      BY <1>a, <3>1 DEF State, AskType
    <3>3. disk' = [ask.mem EXCEPT !.known = ask.mem.known \cup {ask.key}]
      BY <1>12, <3>1 DEF RememberSave
    <3>. QED
      BY <3>1, <3>2, <3>3, StateUpdates DEF State
  <2>4. disk'.known # None
    BY <1>a, <2>3, ConstantsAssumption DEF AskType, State
  <2>5. ask.key \in Accounted
    BY <1>b, <2>1 DEF Accounted
  <2>. QED
    BY <1>b, <1>c, <1>e, <2>1, <2>2, <2>3, <2>4, <2>5
<1>13. CASE UNCHANGED vars
  BY <1>b, <1>c, <1>e, <1>13 DEF vars
<1>. QED
  BY <1>2, <1>3, <1>4, <1>5, <1>6, <1>7, <1>8, <1>9, <1>10, <1>11, <1>12, <1>13
  DEF Next, SyncGoesOn, Approving

-----------------------------------------------------------------------------
(* Syncs and approves that take turns and finish                           *)

(* What the sync goes by: its memory, or the file when none runs.          *)
Current == IF Running("idle") THEN disk ELSE run.mem

(* An approve past its prompt and a sync are not both under way, so that   *)
(* what the approve writes back is the file it changed.                    *)
TurnsInv ==
  /\ ask.pc \in {"listed", "loaded", "publish"} => Running("idle")
  /\ Asking("loaded") => ask.mem = disk

(* What was announced is known, and was announced once.                    *)
AnnouncedInv ==
  \A k \in Key : told[k] < 2 /\ (told[k] > 0 => Current.known # None /\ k \in Current.known)

(* A failure is on record only if it was told.                             *)
WarnedInv ==
  /\ Current.pullFailing => "pull" \in warned
  /\ Current.conflict # None => "conflict" \in warned
  /\ Current.pushFailed # None => "push" \in warned

(* What was approved here is known, or is about to be; before the first    *)
(* sync has looked, it is where that sync will find it.                    *)
ApprovedInv ==
  /\ Current.known # None =>
       \A k \in approved :
         k \in Current.known \/ (ask.pc \in {"listed", "loaded"} /\ k = ask.key)
  /\ Current.known = None => approved \subseteq mine \cup (remote.listed \cap base.listed)
  /\ Asking("listed") => ask.key \in mine

InTurnInv == fault = "none" => TurnsInv /\ AnnouncedInv /\ WarnedInv /\ ApprovedInv

SyncInv == TypeOK /\ LoadedInv /\ RequestInv /\ SavedInv /\ InTurnInv

(* The steps of a sync between its start and its save.                     *)
Working ==
  \/ PullOk \/ PullConflict \/ PullFails \/ NothingToPush \/ PushOk \/ PushFails
  \/ NotifyPending \/ Tripwire \/ Audit \/ AuditFails

LEMMA WorkSteps ==
  ASSUME RunType, Working
  PROVE  /\ run.pc \in {"pull", "push", "retry", "notify", "tripwire", "audit"}
         /\ run'.pc \in {"push", "retry", "notify", "tripwire", "audit", "save"}
         /\ UNCHANGED <<disk, ask, approved, baseline>>
         /\ Current = run.mem /\ Current' = run'.mem
<1>1. /\ run.pc \in {"pull", "push", "retry", "notify", "tripwire", "audit"}
      /\ run'.pc \in {"push", "retry", "notify", "tripwire", "audit", "save"}
      /\ UNCHANGED <<disk, ask, approved, baseline>>
  BY GitSteps, NotifyStep, TripwireStep, AuditSteps DEF Working, history
<1>. QED
  BY <1>1 DEF Current, Running

(* All other steps leave it alone, but for an approve that writes the file. *)
LEMMA QuietSteps ==
  ASSUME TypeOK, SavedInv, TurnsInv, fault = "none", [Next]_vars, ~Working, ~RememberSave
  PROVE  Current' = Current /\ told' = told /\ warned' = warned
<1>1. RunType /\ disk \in State /\ run.pc # "writing" /\ Loaded = disk
  BY BrokenAssumption DEF TypeOK, RunType, SavedInv, Running, Loaded
<1>. USE DEF store, history, Current, Running
<1>2. CASE Timer \/ Hook
  <2>1. /\ UNCHANGED <<disk, told, warned>>
        /\ run' = run \/ (run.pc = "idle" /\ run'.mem = disk /\ run'.pc # "idle")
    BY <1>1, <1>2 DEF Timer, Hook, StartAt
  <2>. QED
    BY <2>1
<1>3. CASE SaveOpens \/ Crash
  BY <1>1, <1>3 DEF SaveOpens, Crash
<1>4. CASE Save
  BY <1>4 DEF Save
<1>5. CASE Elsewhere \/ Approving \/ UNCHANGED vars
  <2>1. UNCHANGED <<disk, run, told, warned>>
    BY <1>5 DEF Elsewhere, RemoteCommit, Approving, ApproveStart, Refuse, Approve, RememberLoad,
                Publish, vars
  <2>. QED
    BY <2>1
<1>. QED
  BY <1>2, <1>3, <1>4, <1>5 DEF Next, SyncGoesOn, Working

LEMMA WriteBack ==
  ASSUME TypeOK, LoadedInv, TurnsInv, RememberSave
  PROVE  /\ ask.pc = "loaded" /\ ask'.pc = "publish"
         /\ disk \in State /\ Current = disk /\ disk.known # None
         /\ Current' = [disk EXCEPT !.known = disk.known \cup {ask.key}]
         /\ UNCHANGED <<run, told, warned, approved>> /\ UNCHANGED store
<1>1. RunType /\ AskType
  BY DEF TypeOK, RunType, AskType
<1>2. ask.pc = "loaded" /\ ask'.pc = "publish"
  BY <1>1, AskSteps DEF Approving
<1>3. ask.mem = disk /\ disk \in State /\ disk.known # None /\ run.pc = "idle"
  BY <1>1, <1>2 DEF TurnsInv, LoadedInv, Asking, Running, AskType
<1>4. UNCHANGED <<run, told, warned, approved>> /\ UNCHANGED store
  BY DEF RememberSave, history
<1>5. disk' = [disk EXCEPT !.known = disk.known \cup {ask.key}]
  BY <1>3 DEF RememberSave
<1>. QED
  BY <1>2, <1>3, <1>4, <1>5 DEF Current, Running

LEMMA TurnsNext ==
  ASSUME TypeOK, SavedInv, TurnsInv, fault = "none", [Next]_vars
  PROVE  TurnsInv'
<1>a. RunType /\ AskType /\ Loaded = disk
  BY BrokenAssumption DEF TypeOK, RunType, AskType, SavedInv, Loaded
<1>b. /\ ask.pc \in {"listed", "loaded", "publish"} => run.pc = "idle"
      /\ ask.pc = "loaded" => ask.mem = disk
  BY DEF TurnsInv, Asking, Running
<1>c. ASSUME /\ ask'.pc \in {"listed", "loaded", "publish"} => run'.pc = "idle"
             /\ ask'.pc = "loaded" => ask'.mem = disk'
      PROVE  TurnsInv'
  BY <1>c DEF TurnsInv, Asking, Running
<1>. USE DEF store, history
<1>1. CASE Working
  BY <1>a, <1>b, <1>c, <1>1, WorkSteps
<1>2. CASE Timer \/ Hook
  <2>1. UNCHANGED <<disk, ask>> /\ (run' = run \/ ask.pc \in {"idle", "asking"})
    BY <1>2 DEF Timer, Hook, StartAt, SyncMayStart, Asking
  <2>. QED
    BY <1>b, <1>c, <2>1
<1>3. CASE SaveOpens \/ Save \/ Crash
  <2>1. run.pc # "idle" /\ UNCHANGED ask
    BY <1>3 DEF SaveOpens, Save, Crash, Running
  <2>. QED
    BY <1>b, <1>c, <2>1
<1>4. CASE (\E k \in Key : ApproveStart(k)) \/ Refuse
  <2>1. ask'.pc \in {"idle", "asking"}
    BY <1>a, <1>4, AskSteps DEF Approving
  <2>. QED
    BY <1>c, <2>1
<1>5. CASE Publish
  <2>1. ask'.pc \in {"idle", "asking"}
    BY <1>a, <1>5, AskSteps DEF Approving
  <2>. QED
    BY <1>c, <2>1
<1>6. CASE Approve \/ RememberLoad
  <2>1. run.pc = "idle" /\ UNCHANGED <<run, disk>>
    BY <1>6 DEF Approve, RememberLoad, ApproveMayGoOn, Running
  <2>2. ask'.pc = "loaded" => ask'.mem = disk
    BY <1>a, <1>6, AskSteps DEF Approving
  <2>. QED
    BY <1>c, <2>1, <2>2
<1>7. CASE RememberSave
  <2>1. run.pc = "idle" /\ UNCHANGED run
    BY <1>7 DEF RememberSave, ApproveMayGoOn, Running
  <2>2. ask'.pc = "publish"
    BY <1>a, <1>7, AskSteps DEF Approving
  <2>. QED
    BY <1>c, <2>1, <2>2
<1>8. CASE Elsewhere \/ UNCHANGED vars
  <2>1. UNCHANGED <<disk, run, ask>>
    BY <1>8 DEF Elsewhere, RemoteCommit, vars
  <2>. QED
    BY <1>b, <1>c, <2>1
<1>. QED
  BY <1>1, <1>2, <1>3, <1>4, <1>5, <1>6, <1>7, <1>8 DEF Next, SyncGoesOn, Approving, Working

LEMMA AnnouncedNext ==
  ASSUME TypeOK, LoadedInv, SavedInv, TurnsInv, AnnouncedInv, fault = "none", [Next]_vars
  PROVE  AnnouncedInv'
<1>a. RunType /\ told \in [Key -> 0..2] /\ Listed \subseteq Key
  BY DEF TypeOK, RunType, Listed, Content
<1>1. CASE Tripwire
  <2>. DEFINE known == run.mem.known
  <2>1. /\ Current = run.mem /\ Current' = run'.mem
        /\ run'.mem.known = IF known = None THEN Listed ELSE known \cup Listed
    BY <1>a, <1>1, TripwireStep, WorkSteps DEF Working
  <2>2. Current'.known # None
    <3>1. known \in {None} \cup SUBSET Key
      BY <1>a DEF RunType, State
    <3>2. Current'.known \in SUBSET Key
      BY <1>a, <2>1, <3>1
    <3>. QED
      BY <3>2, ConstantsAssumption
  <2>3. ASSUME NEW k \in Key
        PROVE  told'[k] < 2 /\ (told'[k] > 0 => k \in Current'.known)
    <3>1. told[k] < 2 /\ (told[k] > 0 => known # None /\ k \in known)
      BY <2>1 DEF AnnouncedInv
    <3>2. CASE known # None /\ k \in (Listed \ known) \ {Own}
      <4>1. told'[k] = told[k] + 1
        BY <1>1, <3>1, <3>2 DEF Tripwire
      <4>2. told[k] = 0
        BY <1>a, <3>1, <3>2
      <4>. QED
        BY <2>1, <3>2, <4>1, <4>2
    <3>3. CASE ~(known # None /\ k \in (Listed \ known) \ {Own})
      <4>1. told'[k] = told[k]
        BY <1>1, <3>3 DEF Tripwire
      <4>. QED
        BY <2>1, <3>1, <4>1
    <3>. QED
      BY <3>2, <3>3
  <2>. QED
    BY <2>2, <2>3 DEF AnnouncedInv
<1>2. CASE Working /\ ~Tripwire
  <2>1. /\ Current = run.mem /\ Current' = run'.mem
        /\ run'.mem.known = run.mem.known /\ told' = told
    BY <1>a, <1>2, WorkSteps, GitSteps, NotifyStep, AuditSteps DEF Working, history
  <2>. QED
    BY <2>1 DEF AnnouncedInv
<1>3. CASE RememberSave
  <2>1. /\ disk \in State /\ Current = disk /\ disk.known # None /\ told' = told
        /\ Current' = [disk EXCEPT !.known = disk.known \cup {ask.key}]
    BY <1>3, WriteBack
  <2>2. Current'.known = disk.known \cup {ask.key}
    BY <2>1 DEF State
  <2>3. Current'.known # None
    BY <2>1, <2>2, ConstantsAssumption DEF State, TypeOK
  <2>. QED
    BY <2>1, <2>2, <2>3 DEF AnnouncedInv
<1>4. CASE ~Working /\ ~RememberSave
  BY <1>4, QuietSteps DEF AnnouncedInv
<1>. QED
  BY <1>1, <1>2, <1>3, <1>4

LEMMA WarnedNext ==
  ASSUME TypeOK, LoadedInv, SavedInv, TurnsInv, WarnedInv, fault = "none", [Next]_vars
  PROVE  WarnedInv'
<1>a. RunType /\ run.mem \in State /\ head \in Nat
  BY DEF TypeOK, RunType, Commit
<1>1. CASE Working
  <2>1. /\ run.mem.pullFailing => "pull" \in warned
        /\ run.mem.conflict # None => "conflict" \in warned
        /\ run.mem.pushFailed # None => "push" \in warned
    BY <1>a, <1>1, WorkSteps DEF WarnedInv
  <2>2. ASSUME /\ run'.mem.pullFailing => "pull" \in warned'
               /\ run'.mem.conflict # None => "conflict" \in warned'
               /\ run'.mem.pushFailed # None => "push" \in warned'
        PROVE  WarnedInv'
    BY <1>a, <1>1, <2>2, WorkSteps DEF WarnedInv
  <2>. USE <1>a, <2>1 DEF Warn, history, store
  <2>3. CASE PullOk
    <3>. DEFINE mem == [run.mem EXCEPT !.pullFailing = FALSE, !.conflict = None]
    <3>1. run'.mem = mem /\ warned' = warned \ {"pull", "conflict"}
      BY <2>3, Going DEF PullOk
    <3>2. ~mem.pullFailing /\ mem.conflict = None /\ mem.pushFailed = run.mem.pushFailed
      BY DEF State
    <3>. QED
      BY <2>2, <3>1, <3>2
  <2>4. CASE PullConflict
    <3>. DEFINE mem == [run.mem EXCEPT !.conflict = head]
    <3>1. run'.mem = mem
          /\ warned' = IF run.mem.conflict # head THEN warned \cup {"conflict"} ELSE warned
      BY <2>4, Going DEF PullConflict
    <3>2. /\ mem.pullFailing = run.mem.pullFailing /\ mem.conflict = head
          /\ mem.pushFailed = run.mem.pushFailed
      BY DEF State
    <3>. QED
      BY <2>2, <3>1, <3>2
  <2>5. CASE PullFails
    <3>. DEFINE mem == [run.mem EXCEPT !.pullFailing = TRUE]
    <3>1. run'.mem = mem
          /\ warned' = IF ~run.mem.pullFailing THEN warned \cup {"pull"} ELSE warned
      BY <2>5, Going DEF PullFails
    <3>2. mem.conflict = run.mem.conflict /\ mem.pushFailed = run.mem.pushFailed
      BY DEF State
    <3>. QED
      BY <2>2, <3>1, <3>2
  <2>6. CASE NothingToPush \/ PushOk
    <3>. DEFINE mem == [run.mem EXCEPT !.pushFailed = None]
    <3>1. run'.mem = mem /\ warned' = warned \ {"push"}
      BY <2>6, Going DEF NothingToPush, PushOk
    <3>2. /\ mem.pullFailing = run.mem.pullFailing /\ mem.conflict = run.mem.conflict
          /\ mem.pushFailed = None
      BY DEF State
    <3>. QED
      BY <2>2, <3>1, <3>2
  <2>7. CASE PushFails
    <3>. DEFINE mem == [run.mem EXCEPT !.pushFailed = head]
    <3>1. run'.mem = mem
          /\ warned' = IF run.mem.pushFailed # head THEN warned \cup {"push"} ELSE warned
      BY <2>7, Going DEF PushFails
    <3>2. /\ mem.pullFailing = run.mem.pullFailing /\ mem.conflict = run.mem.conflict
          /\ mem.pushFailed = head
      BY DEF State
    <3>. QED
      BY <2>2, <3>1, <3>2
  <2>8. CASE NotifyPending \/ Tripwire \/ Audit \/ AuditFails
    <3>1. /\ UNCHANGED warned
          /\ \/ \E S : run'.mem = [run.mem EXCEPT !.notified = S]
             \/ \E S : run'.mem = [run.mem EXCEPT !.known = S]
             \/ run'.mem = [run.mem EXCEPT !.audited = head]
             \/ run'.mem = run.mem
      <4>1. CASE NotifyPending
        BY <4>1, Going DEF NotifyPending
      <4>2. CASE Tripwire
        BY <4>2, Going DEF Tripwire
      <4>3. CASE Audit
        BY <4>3, Going DEF Audit
      <4>4. CASE AuditFails
        BY <4>4, Going DEF AuditFails
      <4>. QED
        BY <2>8, <4>1, <4>2, <4>3, <4>4
    <3>2. /\ run'.mem.pullFailing = run.mem.pullFailing
          /\ run'.mem.conflict = run.mem.conflict
          /\ run'.mem.pushFailed = run.mem.pushFailed
      BY <3>1 DEF State
    <3>. QED
      BY <2>2, <3>1, <3>2
  <2>. QED
    BY <1>1, <2>3, <2>4, <2>5, <2>6, <2>7, <2>8 DEF Working
<1>2. CASE RememberSave
  <2>1. /\ disk \in State /\ Current = disk /\ warned' = warned
        /\ Current' = [disk EXCEPT !.known = disk.known \cup {ask.key}]
    BY <1>2, WriteBack
  <2>2. /\ Current'.pullFailing = disk.pullFailing /\ Current'.conflict = disk.conflict
        /\ Current'.pushFailed = disk.pushFailed
    BY <2>1 DEF State
  <2>. QED
    BY <2>1, <2>2 DEF WarnedInv
<1>3. CASE ~Working /\ ~RememberSave
  BY <1>3, QuietSteps DEF WarnedInv
<1>. QED
  BY <1>1, <1>2, <1>3

(* Where the first sync will find it: not pushed yet, or at the origin and  *)
(* pulled.                                                                  *)
InSight == mine \cup (remote.listed \cap base.listed)

LEMMA StaysInSight ==
  ASSUME TypeOK, Rebase \/ \E h \in Nat, done \in SUBSET mine : Land(h, done)
  PROVE  InSight \subseteq InSight'
<1>1. CASE Rebase
  BY <1>1 DEF Rebase, InSight
<1>2. ASSUME NEW h \in Nat, NEW done \in SUBSET mine, Land(h, done)
      PROVE  InSight \subseteq InSight'
  <2>1. /\ remote'.listed = remote.listed \cup done
        /\ base' = remote' /\ mine' = mine \ done
    BY <1>2 DEF Land, TypeOK, Content
  <2>. QED
    BY <2>1 DEF InSight
<1>. QED
  BY <1>1, <1>2

LEMMA ApprovedNext ==
  ASSUME TypeOK, LoadedInv, SavedInv, TurnsInv, ApprovedInv, fault = "none", [Next]_vars
  PROVE  ApprovedInv'
<1>a. RunType /\ AskType /\ disk \in State /\ Loaded = disk
  BY BrokenAssumption DEF TypeOK, RunType, AskType, SavedInv, Loaded
<1>b. /\ Current.known # None =>
           \A k \in approved :
             k \in Current.known \/ (ask.pc \in {"listed", "loaded"} /\ k = ask.key)
      /\ Current.known = None => approved \subseteq InSight
      /\ ask.pc = "listed" => ask.key \in mine
  BY DEF ApprovedInv, Asking, InSight
<1>c. ASSUME /\ Current'.known # None =>
                  \A k \in approved' :
                    k \in Current'.known \/ (ask'.pc \in {"listed", "loaded"} /\ k = ask'.key)
             /\ Current'.known = None => approved' \subseteq InSight'
             /\ ask'.pc = "listed" => ask'.key \in mine'
      PROVE  ApprovedInv'
  BY <1>c DEF ApprovedInv, Asking, InSight
<1>d. /\ baseline # None => Current.known # None
      /\ run.pc # "idle" => ask.pc \notin {"listed", "loaded", "publish"}
  BY DEF SavedInv, TurnsInv, Current, Running
<1>. USE DEF store, history
<1>1. CASE Tripwire
  <2>. DEFINE known == run.mem.known
  <2>1. /\ run.pc = "tripwire" /\ Current = run.mem /\ Current' = run'.mem
        /\ run'.mem.known = IF known = None THEN Listed ELSE known \cup Listed
        /\ UNCHANGED <<ask, approved>>
    BY <1>a, <1>1, TripwireStep, WorkSteps DEF Working
  <2>2. ask.pc \notin {"listed", "loaded"}
    BY <1>d, <2>1
  <2>3. known = None => approved \subseteq Listed
    BY <1>b, <2>1 DEF InSight, Listed
  <2>4. known # None => approved \subseteq known
    BY <1>b, <2>1, <2>2
  <2>5. run'.mem.known # None
    <3>1. known \in {None} \cup SUBSET Key /\ Listed \in SUBSET Key
      BY <1>a DEF RunType, State, TypeOK, Listed, Content
    <3>2. run'.mem.known \in SUBSET Key
      BY <2>1, <3>1
    <3>. QED
      BY <3>2, ConstantsAssumption
  <2>. QED
    BY <1>c, <2>1, <2>2, <2>3, <2>4, <2>5
<1>2. CASE Working /\ ~Tripwire
  <2>1. /\ run.pc # "idle" /\ Current = run.mem /\ Current' = run'.mem
        /\ run'.mem.known = run.mem.known
        /\ UNCHANGED <<ask, approved>>
    BY <1>a, <1>2, WorkSteps, GitSteps, NotifyStep, AuditSteps DEF Working
  <2>2. InSight \subseteq InSight'
    <3>1. CASE PullOk
      BY <3>1, StaysInSight DEF PullOk
    <3>2. CASE PushOk
      BY <3>2, StaysInSight DEF PushOk, TypeOK, Commit
    <3>3. CASE \/ PullConflict \/ PullFails \/ NothingToPush \/ PushFails \/ NotifyPending
               \/ Audit \/ AuditFails
      <4>1. UNCHANGED <<remote, base, mine>>
        BY <3>3 DEF PullConflict, PullFails, NothingToPush, PushFails, NotifyPending, Audit,
                    AuditFails
      <4>. QED
        BY <4>1 DEF InSight
    <3>. QED
      BY <1>2, <3>1, <3>2, <3>3 DEF Working
  <2>. QED
    BY <1>b, <1>c, <1>d, <2>1, <2>2
<1>3. CASE RememberSave
  <2>1. /\ ask.pc = "loaded" /\ ask'.pc = "publish"
        /\ disk \in State /\ Current = disk /\ disk.known # None
        /\ Current' = [disk EXCEPT !.known = disk.known \cup {ask.key}]
        /\ UNCHANGED approved
    BY <1>3, WriteBack
  <2>2. Current'.known = disk.known \cup {ask.key}
    BY <2>1 DEF State
  <2>3. Current'.known # None
    BY <2>1, <2>2, ConstantsAssumption DEF State, TypeOK
  <2>. QED
    BY <1>b, <1>c, <2>1, <2>2, <2>3
<1>4. CASE ~Working /\ ~RememberSave
  <2>1. Current' = Current
    BY <1>4, QuietSteps
  <2>2. CASE Elsewhere
    <3>1. PICK new : RemoteCommit(new)
      BY <2>2 DEF Elsewhere
    <3>2. UNCHANGED <<ask, mine, base>> /\ remote' = new /\ approved' \subseteq approved
      BY <3>1 DEF RemoteCommit
    <3>3. ASSUME Current.known = None
          PROVE  approved' \subseteq InSight'
      <4>. SUFFICES ASSUME NEW k \in approved', k \notin mine
                    PROVE  k \in InSight'
        BY <3>2 DEF InSight
      <4>1. k \in remote.listed /\ k \in base.listed
        BY <1>b, <3>2, <3>3 DEF InSight
      <4>2. k \notin Forgotten(new) /\ baseline = None
        BY <1>d, <3>1, <3>3 DEF RemoteCommit
      <4>3. k \in new.listed
        BY <1>b, <4>1, <4>2 DEF Forgotten, Asking
      <4>. QED
        BY <3>2, <4>1, <4>3 DEF InSight
    <3>. QED
      BY <1>b, <1>c, <2>1, <3>2, <3>3
  <2>3. CASE Timer \/ Hook \/ SaveOpens \/ Save \/ Crash \/ UNCHANGED vars
    <3>1. UNCHANGED <<remote, base, mine, ask, approved>>
      BY <2>3 DEF Timer, Hook, SaveOpens, Save, Crash, vars
    <3>. QED
      BY <1>b, <1>c, <2>1, <3>1 DEF InSight
  <2>4. CASE (\E k \in Key : ApproveStart(k)) \/ Refuse \/ Publish
    <3>1. /\ ask.pc \in {"idle", "asking", "publish"} /\ ask'.pc \in {"idle", "asking"}
          /\ UNCHANGED approved
      BY <1>a, <2>4, AskSteps DEF Approving, ApproveStart, Refuse, Publish, Asking
    <3>2. InSight \subseteq InSight'
      <4>1. CASE \E k \in Key : ApproveStart(k)
        BY <4>1, StaysInSight DEF ApproveStart
      <4>2. CASE Refuse
        BY <4>2 DEF Refuse, InSight
      <4>3. CASE Publish
        <5>1. CASE Land(commits + 1, mine)
          <6>1. commits + 1 \in Nat /\ mine \subseteq Key
            BY DEF TypeOK, Commit
          <6>. QED
            BY <5>1, <6>1, StaysInSight
        <5>2. CASE UNCHANGED <<remote, base, mine>>
          BY <5>2 DEF InSight
        <5>. QED
          BY <4>3, <5>1, <5>2 DEF Publish
      <4>. QED
        BY <2>4, <4>1, <4>2, <4>3
    <3>. QED
      BY <1>b, <1>c, <2>1, <3>1, <3>2
  <2>5. CASE Approve
    <3>1. ask.pc = "asking" /\ ask'.pc = "listed" /\ ask'.key = ask.key
      BY <1>a, <2>5, AskSteps DEF Approving
    <3>2. /\ approved' = approved \cup {ask.key} /\ mine' = mine \cup {ask.key}
          /\ UNCHANGED <<remote, base>>
      BY <2>5 DEF Approve
    <3>. QED
      BY <1>b, <1>c, <2>1, <3>1, <3>2 DEF InSight
  <2>6. CASE RememberLoad
    <3>1. /\ ask.pc = "listed" /\ ask'.key = ask.key
          /\ ask'.pc = IF disk.known = None THEN "publish" ELSE "loaded"
      BY <1>a, <2>6, AskSteps DEF Approving
    <3>2. Current = disk
      BY <3>1 DEF TurnsInv, Current
    <3>3. UNCHANGED <<remote, base, mine, approved>>
      BY <2>6 DEF RememberLoad
    <3>. QED
      BY <1>b, <1>c, <2>1, <3>1, <3>2, <3>3 DEF InSight
  <2>. QED
    BY <1>4, <2>2, <2>3, <2>4, <2>5, <2>6 DEF Next, SyncGoesOn, Approving, Working
<1>. QED
  BY <1>1, <1>2, <1>3, <1>4

-----------------------------------------------------------------------------
(* The theorems                                                            *)

LEMMA InitSync == Init => SyncInv
<1>. SUFFICES ASSUME Init
              PROVE  SyncInv
  OBVIOUS
<1>1. TypeOK
  BY InitTypes, Types
<1>2. /\ run.pc = "idle" /\ run.mem = Fresh /\ disk = Fresh
      /\ ask.pc = "idle" /\ ask.mem = Fresh
      /\ told = [k \in Key |-> 0] /\ approved = {} /\ asked = {} /\ baseline = None
  BY DEF Init
<1>3. Fresh.pullFailing = FALSE /\ Fresh.conflict = None /\ Fresh.pushFailed = None
  BY DEF Fresh
<1>. USE <1>2, <1>3, FreshState
<1>4. LoadedInv /\ RequestInv
  BY DEF LoadedInv, RequestInv, Asking
<1>5. SavedInv
  BY DEF SavedInv, Running, Asking
<1>6. Current = Fresh
  BY DEF Current, Running
<1>7. TurnsInv /\ AnnouncedInv
  BY <1>6 DEF TurnsInv, AnnouncedInv, Asking, Running
<1>8. WarnedInv /\ ApprovedInv
  BY <1>6 DEF WarnedInv, ApprovedInv, Asking
<1>. QED
  BY <1>1, <1>4, <1>5, <1>7, <1>8 DEF SyncInv, InTurnInv

LEMMA NextSync == SyncInv /\ [Next]_vars => SyncInv'
<1>. SUFFICES ASSUME SyncInv, [Next]_vars
              PROVE  SyncInv'
  OBVIOUS
<1>1. TypeOK' /\ LoadedInv' /\ RequestInv' /\ SavedInv'
  BY NextTypes, LoadedNext, RequestNext, SavedNext DEF SyncInv
<1>2. fault' = fault
  BY OthersKeepAsk
<1>3. InTurnInv'
  BY <1>2, TurnsNext, AnnouncedNext, WarnedNext, ApprovedNext DEF SyncInv, InTurnInv
<1>. QED
  BY <1>1, <1>3 DEF SyncInv

LEMMA Invariance == Spec => []SyncInv
BY InitSync, NextSync, PTL DEF Spec

(* Every variable has its type, whatever fault the behaviour has.          *)
THEOREM TypeCorrect == Spec => []TypeOK
BY Invariance, PTL DEF SyncInv

(* A request is remembered as announced only if it was (sync.py:214-227):  *)
(* through crashes, torn saves, and approves that write an old file back.  *)
THEOREM NoRequestSilenced == Spec => []NoSilentRequest
<1>1. SyncInv => NoSilentRequest
  BY DEF SyncInv, RequestInv, NoSilentRequest
<1>. QED
  BY <1>1, Invariance, PTL

(* The tripwire hides nothing (sync.py:236-257): without torn saves, a key  *)
(* the file knows is this device's own, was approved here, was announced,  *)
(* or was there at the first look, however syncs and approves overlap and  *)
(* wherever a sync is killed.                                              *)
THEOREM NoDeviceSilenced ==
  ASSUME "torn" \notin Faults
  PROVE  Spec => []NoSilentDevice
<1>1. SyncInv => NoSilentDevice
  <2>. SUFFICES ASSUME SyncInv, Seeded
                PROVE  /\ baseline # None
                       /\ disk.known \subseteq {Own} \cup approved \cup baseline
                                                \cup {k \in Key : told[k] > 0}
    BY DEF NoSilentDevice
  <2>1. fault # "torn"
    BY DEF SyncInv, TypeOK
  <2>. QED
    BY <2>1 DEF SyncInv, SavedInv, Seeded, Accounted
<1>. QED
  BY <1>1, Invariance, PTL

(* Syncs and approves that take turns and finish announce a new key once.  *)
THEOREM EachAnnouncedOnce == Spec => []AnnouncedOnce
<1>1. SyncInv => AnnouncedOnce
  BY DEF SyncInv, InTurnInv, AnnouncedInv, AnnouncedOnce
<1>. QED
  BY <1>1, Invariance, PTL

(* A failure is kept quiet between syncs only if the user was told of it    *)
(* since the operation last worked (sync.py:306-345).                       *)
THEOREM EachFailureTold == Spec => []FailureTold
<1>1. SyncInv => FailureTold
  BY DEF SyncInv, InTurnInv, WarnedInv, FailureTold, Current
<1>. QED
  BY <1>1, Invariance, PTL

(* "It did not approve itself": a key approved on this device is not        *)
(* announced on it, when syncs and approves take turns and finish.         *)
THEOREM OwnApprovalsSilent == Spec => OwnApprovalsSilentInTurn
<1>1. SyncInv /\ [Next]_vars
        => [fault = "none" => \A k \in approved : told'[k] = told[k]]_vars
  <2>. SUFFICES ASSUME SyncInv, [Next]_vars, fault = "none"
                PROVE  \A k \in approved : told'[k] = told[k]
    OBVIOUS
  <2>1. RunType /\ told \in [Key -> 0..2] /\ approved \subseteq Key
    BY DEF SyncInv, TypeOK, RunType
  <2>2. TurnsInv /\ ApprovedInv
    BY DEF SyncInv, InTurnInv
  <2>3. CASE Tripwire
    <3>1. run.pc = "tripwire" /\ Current = run.mem
      BY <2>1, <2>3, TripwireStep, WorkSteps DEF Working
    <3>2. ask.pc \notin {"listed", "loaded"}
      BY <2>2, <3>1 DEF TurnsInv, Running
    <3>3. run.mem.known # None => approved \subseteq run.mem.known
      BY <2>2, <3>1, <3>2 DEF ApprovedInv
    <3>4. \A k \in approved :
            k \notin (IF run.mem.known = None THEN {} ELSE (Listed \ run.mem.known) \ {Own})
      BY <3>3
    <3>. QED
      BY <2>1, <2>3, <3>4 DEF Tripwire
  <2>4. CASE ~Tripwire
    <3>1. UNCHANGED told
      BY <2>4 DEF Next, SyncGoesOn, Approving, Elsewhere, RemoteCommit, Timer, Hook, PullOk,
         PullConflict, PullFails, NothingToPush, PushOk, PushFails, NotifyPending,
         Audit, AuditFails, SaveOpens, Save, Crash, ApproveStart, Refuse, Approve, RememberLoad,
         RememberSave, Publish, vars, store, history
    <3>. QED
      BY <3>1
  <2>. QED
    BY <2>3, <2>4
<1>. QED
  BY <1>1, Invariance, PTL DEF Spec, OwnApprovalsSilentInTurn
=============================================================================
