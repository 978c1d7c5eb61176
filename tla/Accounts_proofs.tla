--------------------------- MODULE Accounts_proofs ---------------------------
(* Proofs about the managed accounts: at every step of a command it is known *)
(* which steps may follow, and what those before it did.                     *)
EXTENDS Accounts, SequenceTheorems, TLAPS

(* The bound is a number.                                                   *)
Bounds == MaxOrders \in Nat

-----------------------------------------------------------------------------
(* The lists of steps                                                       *)

Steps ==
  {"save", "unlock", "ensure_user", "group", "sudoers", "slice", "applied", "terminate", "lock",
   "remove_sudoers", "remove_group", "clear_slice", "userdel", "drop"}

(* A step, the step its list ends with, and the one after it.               *)
Follow ==
  {<<"save", "applied", "unlock">>, <<"save", "applied", "ensure_user">>,
   <<"unlock", "applied", "ensure_user">>, <<"ensure_user", "applied", "group">>,
   <<"group", "applied", "sudoers">>, <<"sudoers", "applied", "slice">>,
   <<"slice", "applied", "applied">>, <<"applied", "applied", "end">>,
   <<"save", "lock", "terminate">>, <<"terminate", "lock", "lock">>, <<"lock", "lock", "end">>,
   <<"terminate", "drop", "remove_sudoers">>, <<"remove_sudoers", "drop", "remove_group">>,
   <<"remove_group", "drop", "clear_slice">>, <<"clear_slice", "drop", "userdel">>,
   <<"userdel", "drop", "drop">>, <<"drop", "drop", "end">>}

After(todo, i) == IF i = Len(todo) THEN "end" ELSE todo[i + 1]

(* What a command may have still to do.                                     *)
Todo ==
  {todo \in Seq(Steps) :
     \A i \in 1..Len(todo) : <<todo[i], todo[Len(todo)], After(todo, i)>> \in Follow}

First(todo) == IF todo = <<>> THEN "end" ELSE todo[1]
Ends(todo)  == IF todo = <<>> THEN "end" ELSE todo[Len(todo)]

LEMMA TodoGoesOn ==
  ASSUME NEW todo \in Todo, todo # <<>>
  PROVE  /\ Tail(todo) \in Todo
         /\ Head(todo) = First(todo)
         /\ <<First(todo), Ends(todo), First(Tail(todo))>> \in Follow
         /\ Ends(Tail(todo)) = (IF Tail(todo) = <<>> THEN "end" ELSE Ends(todo))
<1>1. todo \in Seq(Steps) /\ Len(todo) \in Nat \ {0}
  BY DEF Todo
<1>2. /\ Tail(todo) \in Seq(Steps) /\ Len(Tail(todo)) = Len(todo) - 1
      /\ \A i \in 1..Len(todo) - 1 : Tail(todo)[i] = todo[i + 1]
  BY <1>1
<1>3. Tail(todo) = <<>> <=> Len(todo) = 1
  <2>1. Tail(todo) = <<>> => Len(Tail(todo)) = 0
    BY EmptySeq, Zenon
  <2>2. Tail(todo) # <<>> => Len(Tail(todo)) \in Nat \ {0}
    BY <1>2, EmptySeq
  <2>. QED
    BY <1>1, <1>2, <2>1, <2>2
<1>4. Tail(todo) # <<>> => Tail(todo)[Len(Tail(todo))] = todo[Len(todo)]
  BY <1>1, <1>2, <1>3
<1>5. Tail(todo) \in Todo
  <2>. SUFFICES ASSUME NEW i \in 1..Len(Tail(todo))
                PROVE  <<Tail(todo)[i], Tail(todo)[Len(Tail(todo))], After(Tail(todo), i)>> \in Follow
    BY <1>2 DEF Todo
  <2>1. i \in 1..Len(todo) - 1 /\ i + 1 \in 1..Len(todo)
    BY <1>1, <1>2
  <2>2. Tail(todo)[i] = todo[i + 1]
    BY <1>2, <2>1
  <2>3. After(Tail(todo), i) = After(todo, i + 1)
    <3>1. CASE i = Len(todo) - 1
      BY <1>1, <1>2, <3>1 DEF After
    <3>2. CASE i # Len(todo) - 1
      <4>1. i \in Nat /\ i + 1 \in 1..Len(todo) - 1 /\ i + 1 # Len(todo)
        BY <1>1, <2>1, <3>2
      <4>2. i # Len(Tail(todo))
        BY <1>2, <3>2
      <4>3. Tail(todo)[i + 1] = todo[i + 1 + 1]
        BY <1>2, <4>1
      <4>. QED
        BY <4>1, <4>2, <4>3 DEF After
    <3>. QED
      BY <3>1, <3>2
  <2>4. Tail(todo)[Len(Tail(todo))] = todo[Len(todo)]
    BY <1>1, <1>2, <1>3, <1>4, <2>1
  <2>. QED
    BY <2>1, <2>2, <2>3, <2>4 DEF Todo
<1>6. <<todo[1], todo[Len(todo)], After(todo, 1)>> \in Follow
  BY <1>1 DEF Todo
<1>7. First(Tail(todo)) = After(todo, 1)
  BY <1>1, <1>2, <1>3 DEF First, After
<1>. QED
  BY <1>1, <1>3, <1>4, <1>5, <1>6, <1>7 DEF First, Ends

LEMMA FirstOrEnd ==
  ASSUME NEW todo \in Todo
  PROVE  /\ First(todo) = "end" <=> todo = <<>>
         /\ Ends(todo) = "end" <=> todo = <<>>
BY DEF Todo, First, Ends, Steps

(* A list with a step before it.                                            *)
LEMMA StepBefore ==
  ASSUME NEW todo \in Todo, todo # <<>>, NEW what \in Steps,
         <<what, Ends(todo), First(todo)>> \in Follow
  PROVE  /\ <<what>> \o todo \in Todo /\ <<what>> \o todo # <<>>
         /\ First(<<what>> \o todo) = what
         /\ First(Tail(<<what>> \o todo)) = First(todo)
         /\ Ends(<<what>> \o todo) = Ends(todo)
<1>. DEFINE more == <<what>> \o todo
<1>1. todo \in Seq(Steps) /\ Len(todo) \in Nat \ {0} /\ <<what>> \in Seq(Steps)
  BY DEF Todo
<1>2. /\ more \in Seq(Steps) /\ Len(more) = Len(todo) + 1
      /\ more[1] = what /\ \A i \in 1..Len(todo) : more[i + 1] = todo[i]
  BY <1>1
<1>3. more[Len(more)] = todo[Len(todo)]
  BY <1>1, <1>2
<1>. HIDE DEF more
<1>4. more \in Todo
  <2>. SUFFICES ASSUME NEW i \in 1..Len(more)
                PROVE  <<more[i], more[Len(more)], After(more, i)>> \in Follow
    BY <1>2 DEF Todo
  <2>1. CASE i = 1
    <3>1. After(more, 1) = First(todo)
      BY <1>1, <1>2 DEF After, First
    <3>2. more[Len(more)] = Ends(todo)
      BY <1>1, <1>3 DEF Ends
    <3>. QED
      BY <1>2, <2>1, <3>1, <3>2
  <2>2. CASE i # 1
    <3>. DEFINE j == i - 1
    <3>1. j \in 1..Len(todo) /\ i = j + 1
      BY <1>1, <1>2, <2>2
    <3>2. more[i] = todo[j] /\ After(more, i) = After(todo, j)
      BY <1>1, <1>2, <3>1 DEF After
    <3>. QED
      BY <1>3, <3>1, <3>2 DEF Todo
  <2>. QED
    BY <2>1, <2>2
<1>5. more # <<>>
  BY <1>1, <1>2
<1>6. First(more) = what /\ Ends(more) = Ends(todo)
  BY <1>1, <1>2, <1>3, <1>5 DEF First, Ends
<1>7. First(Tail(more)) = First(todo)
  BY <1>1, <1>2 DEF First
<1>. QED
  BY <1>4, <1>5, <1>6, <1>7 DEF more

(* The lists that commands begin with.                                      *)
ToApply == <<"ensure_user", "group", "sudoers", "slice", "applied">>

LEMMA ApplyList ==
  ToApply \in Todo /\ ToApply # <<>> /\ First(ToApply) = "ensure_user" /\ Ends(ToApply) = "applied"
<1>1. ToApply \in Seq(Steps) /\ Len(ToApply) = 5 /\ ToApply # <<>>
  BY DEF ToApply, Steps
<1>2. \A i \in 1..5 : <<ToApply[i], ToApply[5], After(ToApply, i)>> \in Follow
  BY DEF ToApply, After, Follow
<1>. QED
  BY <1>1, <1>2 DEF Todo, First, Ends, ToApply

LEMMA DisableList ==
  /\ DisableSteps \in Todo /\ DisableSteps # <<>>
  /\ First(DisableSteps) = "terminate" /\ Ends(DisableSteps) = "lock"
<1>1. DisableSteps \in Seq(Steps) /\ Len(DisableSteps) = 2 /\ DisableSteps # <<>>
  BY DEF DisableSteps, Steps
<1>2. \A i \in 1..2 : <<DisableSteps[i], DisableSteps[2], After(DisableSteps, i)>> \in Follow
  BY DEF DisableSteps, After, Follow
<1>. QED
  BY <1>1, <1>2 DEF Todo, First, Ends, DisableSteps

LEMMA DeleteList ==
  /\ DeleteSteps \in Todo /\ DeleteSteps # <<>>
  /\ First(DeleteSteps) = "terminate" /\ Ends(DeleteSteps) = "drop"
<1>1. DeleteSteps \in Seq(Steps) /\ Len(DeleteSteps) = 6 /\ DeleteSteps # <<>>
  BY DEF DeleteSteps, Steps
<1>2. \A i \in 1..6 : <<DeleteSteps[i], DeleteSteps[6], After(DeleteSteps, i)>> \in Follow
  BY DEF DeleteSteps, After, Follow
<1>. QED
  BY <1>1, <1>2 DEF Todo, First, Ends, DeleteSteps

LEMMA SaveLists ==
  /\ \A todo \in {<<"save">> \o ToApply, <<"save">> \o DisableSteps} :
       todo \in Todo /\ todo # <<>> /\ First(todo) = "save"
  /\ Ends(<<"save">> \o ToApply) = "applied" /\ First(Tail(<<"save">> \o ToApply)) = "ensure_user"
  /\ Ends(<<"save">> \o DisableSteps) = "lock"
  /\ First(Tail(<<"save">> \o DisableSteps)) = "terminate"
BY ApplyList, DisableList, StepBefore DEF Steps, Follow

LEMMA EnableList ==
  ASSUME NEW todo, todo = <<"save", "unlock">> \o ToApply
  PROVE  /\ todo \in Todo /\ todo # <<>> /\ First(todo) = "save" /\ Ends(todo) = "applied"
         /\ First(Tail(todo)) = "unlock"
<1>. DEFINE opened == <<"unlock">> \o ToApply
<1>1. /\ opened \in Todo /\ opened # <<>> /\ First(opened) = "unlock" /\ Ends(opened) = "applied"
  BY ApplyList, StepBefore DEF Steps, Follow
<1>2. todo = <<"save">> \o opened
  <2>1. ToApply \in Seq(Steps) /\ <<"save">> \in Seq(Steps) /\ <<"unlock">> \in Seq(Steps)
    BY ApplyList DEF Todo, Steps
  <2>2. <<"save", "unlock">> = <<"save">> \o <<"unlock">>
    BY <2>1
  <2>. QED
    BY <2>1, <2>2, ConcatAssociative
<1>. HIDE DEF opened
<1>. QED
  <2>1. "save" \in Steps /\ <<"save", Ends(opened), First(opened)>> \in Follow
    BY <1>1 DEF Steps, Follow
  <2>2. /\ <<"save">> \o opened \in Todo /\ <<"save">> \o opened # <<>>
        /\ First(<<"save">> \o opened) = "save"
        /\ First(Tail(<<"save">> \o opened)) = First(opened)
        /\ Ends(<<"save">> \o opened) = Ends(opened)
    BY <1>1, <2>1, StepBefore
  <2>. QED
    BY <1>1, <1>2, <2>2

-----------------------------------------------------------------------------
(* Rights                                                                   *)

LEMMA GrantedRights ==
  ASSUME NEW privilege \in Privileges
  PROVE  /\ Granted(privilege) \subseteq {"admin", "allowlist", "nopasswd"}
         /\ SudoersContent(privilege) \in {"none", "allowlist", "nopasswd"}
         /\ {SudoersContent(privilege)} \ {"none"} \subseteq Granted(privilege)
BY DEF Privileges, Granted, SudoersContent

(* A member as the privilege says, with its drop-in, has its rights.        *)
LEMMA RightsAreGranted ==
  ASSUME NEW privilege \in Privileges, admin <=> "admin" \in Granted(privilege),
         sudoers = SudoersContent(privilege)
  PROVE  Rights = Granted(privilege)
<1>1. privilege \in {"none", "full", "nopasswd", "allowlist"}
  BY DEF Privileges
<1>. QED
  BY <1>1 DEF Granted, SudoersContent, Rights

-----------------------------------------------------------------------------
(* The inductive invariant                                                  *)

(* Nothing is finished while steps are left.                                *)
StepsInv == steps \in Todo /\ (steps # <<>> => ~ended)

(* Which entry a list is about, and that it was saved - or a failure to do  *)
(* so was noted, and what it grants is owed.                                *)
EntryInv ==
  /\ Ends(steps) = "applied" => entry.enabled
  /\ Ends(steps) = "lock" => ~entry.enabled
  /\ Ends(steps) \in {"applied", "lock"} /\ First(steps) # "save" =>
       /\ Granted(entry.privilege) \subseteq owed \cup Granted(declared.privilege)
       /\ unheard \/ (listed /\ declared = entry)

(* An account is locked where its entry says so, where `enable` is about to *)
(* open it, or where a command failed to.                                   *)
LockInv ==
  /\ locked => present
  /\ locked => shut \/ (listed /\ ~declared.enabled) \/ First(steps) = "unlock"
  /\ Ends(steps) = "lock" /\ First(steps) # "save" => shut \/ (listed /\ ~declared.enabled)
  /\ First(steps) = "save" /\ First(Tail(steps)) = "ensure_user" => ~listed \/ declared.enabled

(* What the steps of an apply have done so far ...                          *)
ApplyInv ==
  /\ First(steps) \in {"group", "sudoers", "slice", "applied"} => present
  /\ First(steps) \in {"sudoers", "slice", "applied"} /\ ~unheard =>
       (admin <=> "admin" \in Granted(entry.privilege))
  /\ First(steps) \in {"slice", "applied"} /\ ~unheard =>
       sudoers = SudoersContent(entry.privilege)
  /\ First(steps) = "applied" => (entry.capped => limited)

(* ... and those of a disable or a delete, of which none may have failed.   *)
TakeInv ==
  ~unheard =>
    /\ First(steps) \in {"lock", "remove_sudoers", "remove_group", "clear_slice", "userdel",
                         "drop"} => (live => slipped)
    /\ First(steps) \in {"remove_group", "clear_slice", "userdel", "drop"} => sudoers = "none"
    /\ First(steps) \in {"clear_slice", "userdel", "drop"} => ~admin
    /\ First(steps) = "drop" => (present => slipped)

AccountsInv ==
  /\ TypeOK /\ StepsInv /\ EntryInv /\ LockInv /\ ApplyInv /\ TakeInv
  /\ LeastPrivilege /\ Converged

LEMMA InitInv == Bounds /\ Init => AccountsInv
<1>. SUFFICES ASSUME Bounds, Init
              PROVE  AccountsInv
  OBVIOUS
<1>. USE DEF Init
<1>1. steps \in Todo /\ First(steps) = "end" /\ Ends(steps) = "end"
  BY DEF Todo, First, Ends
<1>2. owed \subseteq {"admin", "allowlist", "nopasswd"}
  BY DEF Rights
<1>3. {listed, present, locked, live, admin, limited, ended, unheard, slipped, shut}
        \subseteq BOOLEAN
  OBVIOUS
<1>4. TypeOK
  BY <1>2, <1>3 DEF TypeOK, Users, Unmanaged, Privileges, Bounds
<1>5. StepsInv /\ EntryInv /\ LockInv /\ ApplyInv /\ TakeInv
  BY <1>1 DEF StepsInv, EntryInv, LockInv, ApplyInv, TakeInv
<1>6. LeastPrivilege /\ Converged
  BY DEF LeastPrivilege, Converged
<1>. QED
  BY <1>4, <1>5, <1>6 DEF AccountsInv

(* The step that was due, and what follows it.                              *)
Taken(what) ==
  /\ steps' \in Todo /\ First(steps) = what
  /\ <<what, Ends(steps), First(steps')>> \in Follow
  /\ Ends(steps') = (IF First(steps') = "end" THEN "end" ELSE Ends(steps))
  /\ First(steps') = "end" <=> steps' = <<>>

LEMMA StepDue ==
  ASSUME StepsInv, steps # <<>>, steps' = Tail(steps)
  PROVE  Taken(Head(steps))
BY TodoGoesOn, FirstOrEnd DEF StepsInv, Taken

(* A command that begins with a list of its own.                            *)
LEMMA OrderInv ==
  ASSUME Bounds, AccountsInv, NEW user \in Users, NEW todo \in Todo, todo # <<>>, Order(user, todo),
         \/ /\ First(todo) = "save" /\ Ends(todo) = "applied" /\ user.enabled
            /\ First(Tail(todo)) = "ensure_user" => ~listed \/ declared.enabled
         \/ /\ First(todo) = "save" /\ Ends(todo) = "lock" /\ ~user.enabled
            /\ First(Tail(todo)) # "ensure_user"
         \/ /\ First(todo) = "ensure_user" /\ Ends(todo) = "applied"
            /\ user = declared /\ listed /\ user.enabled
         \/ /\ First(todo) = "terminate" /\ Ends(todo) = "lock"
            /\ user = declared /\ listed /\ ~user.enabled
         \/ First(todo) = "terminate" /\ Ends(todo) = "drop"
  PROVE  AccountsInv'
<1>. USE DEF AccountsInv, Order, account
<1>1. StepsInv'
  BY DEF StepsInv
<1>2. First(steps) = "end"
  BY DEF First
<1>3. TypeOK'
  <2>1. orders' \in 0..MaxOrders
    BY DEF TypeOK, Bounds
  <2>. QED
    BY <2>1 DEF TypeOK
<1>4. EntryInv'
  BY DEF EntryInv
<1>5. LockInv'
  BY <1>2 DEF LockInv
<1>6. ApplyInv' /\ TakeInv'
  BY DEF ApplyInv, TakeInv
<1>7. LeastPrivilege' /\ Converged'
  BY DEF LeastPrivilege, Converged, Rights
<1>. QED
  BY <1>1, <1>3, <1>4, <1>5, <1>6, <1>7

LEMMA Commands ==
  ASSUME Bounds, AccountsInv, Create \/ Edit \/ Disable \/ Enable \/ Apply \/ Delete
  PROVE  AccountsInv'
<1>. USE DEF ToApply
<1>1. \A user \in Users : user.enabled => ApplySteps(user) = ToApply
  BY DEF ApplySteps
<1>2. \A user \in Users : ~user.enabled => ApplySteps(user) = DisableSteps
  BY DEF ApplySteps
<1>. HIDE DEF ToApply
<1>3. declared \in Users
  BY DEF AccountsInv, TypeOK
<1>4. \A enabled \in BOOLEAN : With(enabled) \in Users /\ With(enabled).enabled = enabled
  BY <1>3 DEF With, Users
<1>5. CASE Create
  BY <1>1, <1>5, SaveLists, OrderInv DEF Create
<1>6. CASE Edit
  BY <1>1, <1>2, <1>6, SaveLists, OrderInv DEF Edit
<1>7. CASE Disable
  BY <1>4, <1>7, SaveLists, OrderInv DEF Disable
<1>8. CASE Enable
  BY <1>1, <1>4, <1>8, EnableList, OrderInv DEF Enable, EnableSteps
<1>9. CASE Apply
  BY <1>1, <1>2, <1>3, <1>9, ApplyList, DisableList, OrderInv DEF Apply
<1>10. CASE Delete
  BY <1>3, <1>10, DeleteList, OrderInv DEF Delete
<1>. QED
  BY <1>5, <1>6, <1>7, <1>8, <1>9, <1>10

LEMMA NextInv == Bounds /\ AccountsInv /\ [Next]_vars => AccountsInv'
<1>. SUFFICES ASSUME Bounds, AccountsInv, [Next]_vars
              PROVE  AccountsInv'
  OBVIOUS
<1>. USE DEF AccountsInv, Due, Done, Goes, account, Follow, Taken
<1>p. entry \in Users /\ entry.privilege \in Privileges /\ declared.privilege \in Privileges
  BY DEF TypeOK, Users
<1>1. CASE Save
  <2>. USE <1>1 DEF Save
  <2>1. Taken("save")
    BY StepDue
  <2>2. TypeOK' /\ StepsInv'
    BY <1>p, <2>1, GrantedRights DEF TypeOK, StepsInv, Users, Unmanaged, Privileges
  <2>3. EntryInv' /\ LockInv' /\ ApplyInv' /\ TakeInv'
    BY <2>1 DEF EntryInv, LockInv, ApplyInv, TakeInv
  <2>4. LeastPrivilege' /\ Converged'
    BY <2>1 DEF LeastPrivilege, EntryInv, Rights, Converged, StepsInv
  <2>. QED
    BY <2>2, <2>3, <2>4
<1>2. CASE Terminate
  <2>. USE <1>2 DEF Terminate
  <2>1. Taken("terminate")
    BY StepDue
  <2>2. TypeOK' /\ StepsInv'
    BY <1>p, <2>1, GrantedRights DEF TypeOK, StepsInv, Users, Unmanaged, Privileges
  <2>3. EntryInv' /\ LockInv' /\ ApplyInv' /\ TakeInv'
    BY <2>1 DEF EntryInv, LockInv, ApplyInv, TakeInv
  <2>4. LeastPrivilege' /\ Converged'
    BY <2>1 DEF LeastPrivilege, EntryInv, Rights, Converged, StepsInv
  <2>. QED
    BY <2>2, <2>3, <2>4
<1>3. CASE Lock
  <2>. USE <1>3 DEF Lock
  <2>1. Taken("lock")
    BY StepDue
  <2>2. TypeOK' /\ StepsInv'
    BY <1>p, <2>1, GrantedRights DEF TypeOK, StepsInv, Users, Unmanaged, Privileges
  <2>3. EntryInv' /\ LockInv' /\ ApplyInv' /\ TakeInv'
    BY <2>1 DEF EntryInv, LockInv, ApplyInv, TakeInv
  <2>4. LeastPrivilege' /\ Converged'
    BY <2>1 DEF LeastPrivilege, EntryInv, TakeInv, Rights, Converged
  <2>. QED
    BY <2>2, <2>3, <2>4
<1>4. CASE Unlock
  <2>. USE <1>4 DEF Unlock
  <2>1. Taken("unlock")
    BY StepDue
  <2>2. TypeOK' /\ StepsInv'
    BY <1>p, <2>1, GrantedRights DEF TypeOK, StepsInv, Users, Unmanaged, Privileges
  <2>3. EntryInv' /\ LockInv' /\ ApplyInv' /\ TakeInv'
    BY <2>1 DEF EntryInv, LockInv, ApplyInv, TakeInv
  <2>4. LeastPrivilege' /\ Converged'
    BY <2>1 DEF LeastPrivilege, EntryInv, Rights, Converged, StepsInv
  <2>. QED
    BY <2>2, <2>3, <2>4
<1>5. CASE EnsureUser
  <2>. USE <1>5 DEF EnsureUser
  <2>1. Taken("ensure_user")
    BY StepDue
  <2>2. TypeOK' /\ StepsInv'
    BY <1>p, <2>1, GrantedRights DEF TypeOK, StepsInv, Users, Unmanaged, Privileges
  <2>3. EntryInv' /\ LockInv' /\ ApplyInv' /\ TakeInv'
    BY <2>1 DEF EntryInv, LockInv, ApplyInv, TakeInv
  <2>4. LeastPrivilege' /\ Converged'
    BY <2>1 DEF LeastPrivilege, EntryInv, Rights, Converged, StepsInv
  <2>. QED
    BY <2>2, <2>3, <2>4
<1>6. CASE SetGroup
  <2>. USE <1>6 DEF SetGroup
  <2>1. Taken("group")
    BY StepDue
  <2>2. TypeOK' /\ StepsInv'
    BY <1>p, <2>1, GrantedRights DEF TypeOK, StepsInv, Users, Unmanaged, Privileges
  <2>3. EntryInv' /\ LockInv' /\ ApplyInv' /\ TakeInv'
    BY <2>1 DEF EntryInv, LockInv, ApplyInv, TakeInv
  <2>4. LeastPrivilege' /\ Converged'
    BY <2>1 DEF LeastPrivilege, EntryInv, Rights, Converged, StepsInv
  <2>. QED
    BY <2>2, <2>3, <2>4
<1>7. CASE SetSudoers
  <2>. USE <1>7 DEF SetSudoers
  <2>1. Taken("sudoers")
    BY StepDue
  <2>2. TypeOK' /\ StepsInv'
    BY <1>p, <2>1, GrantedRights DEF TypeOK, StepsInv, Users, Unmanaged, Privileges
  <2>3. EntryInv' /\ LockInv' /\ ApplyInv' /\ TakeInv'
    BY <2>1 DEF EntryInv, LockInv, ApplyInv, TakeInv
  <2>4. LeastPrivilege' /\ Converged'
    BY <1>p, <2>1, GrantedRights DEF LeastPrivilege, EntryInv, Rights, Converged, StepsInv
  <2>. QED
    BY <2>2, <2>3, <2>4
<1>8. CASE SetSlice
  <2>. USE <1>8 DEF SetSlice
  <2>1. Taken("slice")
    BY StepDue
  <2>2. TypeOK' /\ StepsInv'
    BY <1>p, <2>1, GrantedRights DEF TypeOK, StepsInv, Users, Unmanaged, Privileges
  <2>3. EntryInv' /\ LockInv' /\ ApplyInv' /\ TakeInv'
    BY <2>1 DEF EntryInv, LockInv, ApplyInv, TakeInv
  <2>4. LeastPrivilege' /\ Converged'
    BY <2>1 DEF LeastPrivilege, EntryInv, Rights, Converged, StepsInv
  <2>. QED
    BY <2>2, <2>3, <2>4
<1>9. CASE Applied
  <2>. USE <1>9 DEF Applied
  <2>1. Taken("applied")
    BY StepDue
  <2>2. TypeOK' /\ StepsInv'
    BY <1>p, <2>1, GrantedRights DEF TypeOK, StepsInv, Users, Unmanaged, Privileges
  <2>3. EntryInv' /\ LockInv' /\ ApplyInv' /\ TakeInv'
    BY <2>1 DEF EntryInv, LockInv, ApplyInv, TakeInv
  <2>4. ~unheard => Rights = Granted(entry.privilege)
    BY <1>p, <2>1, RightsAreGranted DEF ApplyInv
  <2>5. LeastPrivilege'
    BY <2>1, <2>4 DEF LeastPrivilege, EntryInv, Rights
  <2>6. Converged'
    BY <2>1, <2>4 DEF Converged, EntryInv, LockInv, ApplyInv, Rights
  <2>. QED
    BY <2>2, <2>3, <2>5, <2>6
<1>10. CASE RemoveSudoers
  <2>. USE <1>10 DEF RemoveSudoers
  <2>1. Taken("remove_sudoers")
    BY StepDue
  <2>2. TypeOK' /\ StepsInv'
    BY <1>p, <2>1, GrantedRights DEF TypeOK, StepsInv, Users, Unmanaged, Privileges
  <2>3. EntryInv' /\ LockInv' /\ ApplyInv' /\ TakeInv'
    BY <2>1 DEF EntryInv, LockInv, ApplyInv, TakeInv
  <2>4. LeastPrivilege' /\ Converged'
    BY <2>1 DEF LeastPrivilege, EntryInv, Rights, Converged, StepsInv
  <2>. QED
    BY <2>2, <2>3, <2>4
<1>11. CASE RemoveGroup
  <2>. USE <1>11 DEF RemoveGroup
  <2>1. Taken("remove_group")
    BY StepDue
  <2>2. TypeOK' /\ StepsInv'
    BY <1>p, <2>1, GrantedRights DEF TypeOK, StepsInv, Users, Unmanaged, Privileges
  <2>3. EntryInv' /\ LockInv' /\ ApplyInv' /\ TakeInv'
    BY <2>1 DEF EntryInv, LockInv, ApplyInv, TakeInv
  <2>4. LeastPrivilege' /\ Converged'
    BY <2>1 DEF LeastPrivilege, EntryInv, Rights, Converged, StepsInv
  <2>. QED
    BY <2>2, <2>3, <2>4
<1>12. CASE ClearSlice
  <2>. USE <1>12 DEF ClearSlice
  <2>1. Taken("clear_slice")
    BY StepDue
  <2>2. TypeOK' /\ StepsInv'
    BY <1>p, <2>1, GrantedRights DEF TypeOK, StepsInv, Users, Unmanaged, Privileges
  <2>3. EntryInv' /\ LockInv' /\ ApplyInv' /\ TakeInv'
    BY <2>1 DEF EntryInv, LockInv, ApplyInv, TakeInv
  <2>4. LeastPrivilege' /\ Converged'
    BY <2>1 DEF LeastPrivilege, EntryInv, Rights, Converged, StepsInv
  <2>. QED
    BY <2>2, <2>3, <2>4
<1>13. CASE Userdel
  <2>. USE <1>13 DEF Userdel
  <2>1. Taken("userdel")
    BY StepDue
  <2>2. TypeOK' /\ StepsInv'
    BY <1>p, <2>1, GrantedRights DEF TypeOK, StepsInv, Users, Unmanaged, Privileges
  <2>3. EntryInv' /\ LockInv' /\ ApplyInv' /\ TakeInv'
    BY <2>1 DEF EntryInv, LockInv, ApplyInv, TakeInv
  <2>4. LeastPrivilege' /\ Converged'
    BY <2>1 DEF LeastPrivilege, EntryInv, Rights, Converged, StepsInv
  <2>. QED
    BY <2>2, <2>3, <2>4
<1>14. CASE Drop
  <2>. USE <1>14 DEF Drop
  <2>1. Taken("drop")
    BY StepDue
  <2>2. TypeOK' /\ StepsInv'
    BY <1>p, <2>1, GrantedRights DEF TypeOK, StepsInv, Users, Unmanaged, Privileges
  <2>3. EntryInv' /\ LockInv' /\ ApplyInv' /\ TakeInv'
    BY <2>1 DEF EntryInv, LockInv, ApplyInv, TakeInv
  <2>4. ~unheard => Rights = {}
    BY <2>1 DEF TakeInv, Rights
  <2>5. LeastPrivilege'
    BY <2>1, <2>4 DEF LeastPrivilege, Rights
  <2>6. Converged'
    BY <2>1, <2>4 DEF Converged, TakeInv, Rights
  <2>. QED
    BY <2>2, <2>3, <2>5, <2>6
<1>15. CASE InVain
  <2>. USE <1>15 DEF InVain
  <2>1. Taken(Head(steps)) /\ Head(steps) \in Unchecked
    BY StepDue
  <2>2. TypeOK' /\ StepsInv'
    BY <1>p, <2>1, GrantedRights DEF TypeOK, StepsInv
  <2>3. EntryInv'
    BY <2>1 DEF EntryInv
  <2>4. LockInv'
    BY <2>1 DEF LockInv, EntryInv
  <2>5. ApplyInv' /\ TakeInv'
    BY <2>1 DEF ApplyInv, TakeInv, Unchecked
  <2>6. LeastPrivilege' /\ Converged'
    BY <2>1 DEF LeastPrivilege, Converged, Rights
  <2>. QED
    BY <2>2, <2>3, <2>4, <2>5, <2>6
<1>16. CASE Abort
  <2>. USE <1>16 DEF Abort
  <2>1. First(steps') = "end" /\ Ends(steps') = "end" /\ steps' \in Todo
    BY DEF First, Ends, Todo
  <2>2. First(steps) = Head(steps)
    BY TodoGoesOn DEF StepsInv
  <2>3. TypeOK' /\ StepsInv'
    BY <2>1 DEF TypeOK, StepsInv
  <2>4. EntryInv' /\ LockInv' /\ ApplyInv' /\ TakeInv'
    BY <2>1, <2>2 DEF EntryInv, LockInv, ApplyInv, TakeInv
  <2>5. LeastPrivilege' /\ Converged'
    BY DEF LeastPrivilege, Converged, Rights, StepsInv
  <2>. QED
    BY <2>3, <2>4, <2>5
<1>17. CASE Login
  <2>. USE <1>17 DEF Login
  <2>1. First(steps) # "end" <=> steps # <<>>
    BY FirstOrEnd DEF StepsInv
  <2>2. TypeOK' /\ StepsInv'
    BY DEF TypeOK, StepsInv
  <2>3. EntryInv' /\ LockInv' /\ ApplyInv' /\ TakeInv'
    BY <2>1 DEF EntryInv, LockInv, ApplyInv, TakeInv
  <2>4. LeastPrivilege' /\ Converged'
    BY DEF LeastPrivilege, Converged, Rights, StepsInv
  <2>. QED
    BY <2>2, <2>3, <2>4
<1>18. CASE UNCHANGED vars
  BY <1>18 DEF vars, TypeOK, StepsInv, EntryInv, LockInv, ApplyInv, TakeInv, LeastPrivilege,
               Converged, Rights
<1>. QED
  BY <1>1, <1>2, <1>3, <1>4, <1>5, <1>6, <1>7, <1>8, <1>9, <1>10, <1>11, <1>12, <1>13, <1>14,
     <1>15, <1>16, <1>17, <1>18, Commands DEF Next

LEMMA Invariance ==
  ASSUME Bounds
  PROVE  Spec => []AccountsInv
<1>1. Init => AccountsInv
  BY InitInv
<1>2. AccountsInv /\ [Next]_vars => AccountsInv'
  BY NextInv
<1>. QED
  BY <1>1, <1>2, PTL DEF Spec

(* Every variable stays in its range.                                       *)
THEOREM TypeCorrect ==
  ASSUME Bounds
  PROVE  Spec => []TypeOK
BY Invariance, PTL DEF AccountsInv

(* Whichever commands fail, are killed or go on after a failure: an account *)
(* has no right that neither its entry grants nor one did that no apply has *)
(* replaced since.                                                          *)
THEOREM NoRightUnaccounted ==
  ASSUME Bounds
  PROVE  Spec => []LeastPrivilege
BY Invariance, PTL DEF AccountsInv

(* A command that did all its steps leaves the account as its entry says.   *)
THEOREM CommandsConverge ==
  ASSUME Bounds
  PROVE  Spec => []Converged
BY Invariance, PTL DEF AccountsInv

=============================================================================
