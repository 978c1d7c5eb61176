------------------------- MODULE MacDefaults_proofs -------------------------
(* Proofs about the macOS settings, for any number of them, any values and   *)
(* any sequence of applies, reverts, failures and edits: what is overwritten *)
(* can be given back, and every step is one that the snapshot promises.      *)
EXTENDS MacDefaults, FiniteSetTheorems, TLAPS

Bounds == NSettings \in Nat /\ MaxEdits \in Nat /\ MaxCommands \in Nat

-----------------------------------------------------------------------------
(* The least number of a set                                               *)

(* A set of numbers has a least one: among the intervals from 0 up to each *)
(* of them, one is contained in no other.                                  *)
LEMMA MinOfNumbers ==
  ASSUME NEW S, S \subseteq Nat, S # {}
  PROVE  Min(S) \in S
<1>. DEFINE Below == {0..n : n \in S}
<1>1. ASSUME NEW n \in S
      PROVE  0..n \in FiniteSubsetsOf(Nat)
  <2>1. n \in Nat /\ 0 \in Int /\ n \in Int
    OBVIOUS
  <2>2. IsFiniteSet(0..n)
    BY <2>1, FS_Interval
  <2>3. 0..n \in SUBSET Nat
    BY <2>1
  <2>. QED BY <2>2, <2>3 DEF FiniteSubsetsOf
<1>2. Below \subseteq FiniteSubsetsOf(Nat) /\ Below # {}
  BY <1>1
<1>3. \E x \in Below : \A y \in Below : <<y, x>> \notin StrictSubsetOrdering(Nat)
  <2>. HIDE DEF Below
  <2>. QED BY <1>2, FS_StrictSubsetOrderingWellFounded, WFMin
<1>4. PICK n \in S : \A m \in S : <<0..m, 0..n>> \notin StrictSubsetOrdering(Nat)
  BY <1>3
<1>5. ASSUME NEW m \in S, m < n
      PROVE  FALSE
  <2>1. n \in Nat /\ m \in Nat
    OBVIOUS
  <2>2. 0..m \subseteq 0..n
    BY <2>1, <1>5
  <2>3. n \in 0..n /\ n \notin 0..m
    BY <2>1, <1>5
  <2>4. 0..m \in SUBSET Nat /\ 0..n \in SUBSET Nat
    BY <2>1
  <2>. QED BY <1>4, <2>2, <2>3, <2>4 DEF StrictSubsetOrdering
<1>6. \A m \in S : n =< m
  BY <1>5
<1>. QED BY <1>6 DEF Min

LEMMA TurnIsLeft ==
  ASSUME Bounds, TypeOK, left # {}
  PROVE  Turn \in left /\ Turn \in Setting
<1>1. Setting \subseteq Nat
  BY DEF Bounds, Setting
<1>2. left \subseteq Setting
  BY DEF TypeOK
<1>3. left \subseteq Nat
  BY <1>1, <1>2
<1>4. Turn \in left
  BY <1>3, MinOfNumbers DEF Turn
<1>. QED BY <1>2, <1>4

-----------------------------------------------------------------------------
(* The inductive invariant                                                 *)

(* What is on record for a key was there by its user's hand; so is what is *)
(* there now, unless we have overwritten it.                               *)
RecordInv ==
  /\ \A k \in DOMAIN file : file[k] \in own[k]
  /\ \A k \in Setting \ taken : value[k] \in own[k]

(* What an apply has read of a key that is not on record yet is its user's.*)
(* The keys it goes on to write are on record; what a revert has restored  *)
(* is nothing we have overwritten.                                         *)
JobInv ==
  /\ job = "probe" =>
       \A k \in DOMAIN current : k \in DOMAIN file \/ current[k] \in own[k]
  /\ job = "write" => left \subseteq DOMAIN file
  /\ job = "restore" => done \cap taken = {}
  /\ job # "restore" => done = {}

DefaultsInv == TypeOK /\ Recoverable /\ RecordInv /\ JobInv

LEMMA InitInv ==
  ASSUME Bounds
  PROVE  Init => DefaultsInv
BY DEF Bounds, Init, NoPrior, Setting, DefaultsInv, TypeOK, PartialValues, Recoverable,
       RecordInv, JobInv

LEMMA NextInv ==
  ASSUME Bounds
  PROVE  DefaultsInv /\ [Next]_vars => DefaultsInv'
<1>. SUFFICES ASSUME DefaultsInv, [Next]_vars
              PROVE  DefaultsInv'
  OBVIOUS
<1>. USE DEF DefaultsInv
<1>1. CASE User
  <2>1. PICK k \in Setting, v \in Values :
          /\ edits < MaxEdits /\ v # value[k]
          /\ edits' = edits + 1
          /\ value' = [value EXCEPT ![k] = v]
          /\ own' = [own EXCEPT ![k] = @ \cup {v}]
          /\ taken' = taken \ {k}
          /\ UNCHANGED <<file, job, left, current, done, commands>>
    BY <1>1 DEF User
  <2>2. \A j \in Setting : own[j] \subseteq own'[j] /\ (j # k => value'[j] = value[j])
    BY <2>1 DEF TypeOK
  <2>3. TypeOK'
    BY <2>1 DEF TypeOK, PartialValues, Bounds
  <2>4. v \in own'[k] /\ value'[k] = v
    BY <2>1 DEF TypeOK
  <2>5. DOMAIN file \subseteq Setting /\ DOMAIN current \subseteq Setting
    BY DEF TypeOK, PartialValues
  <2>6. Recoverable'
    BY <2>1, <2>2, <2>5 DEF Recoverable
  <2>7. RecordInv'
    BY <2>1, <2>2, <2>4, <2>5 DEF RecordInv
  <2>8. JobInv'
    BY <2>1, <2>2, <2>5 DEF JobInv
  <2>. QED BY <2>3, <2>6, <2>7, <2>8
<1>2. ASSUME NEW what \in {"probe", "restore"}, NEW keys \in SUBSET Setting,
             Start(what, keys)
      PROVE  DefaultsInv'
  <2>1. TypeOK'
    BY <1>2 DEF Start, NoPrior, TypeOK, PartialValues, Bounds
  <2>2. Recoverable' /\ RecordInv'
    BY <1>2 DEF Start, Recoverable, RecordInv
  <2>3. JobInv'
    BY <1>2 DEF Start, NoPrior, JobInv
  <2>. QED BY <2>1, <2>2, <2>3
<1>3. CASE Apply
  BY <1>2, <1>3 DEF Apply
<1>4. CASE Revert
  BY <1>2, <1>4 DEF Revert, TypeOK, PartialValues
<1>5. CASE Probe
  <2>1. Turn \in Setting
    BY <1>5, TurnIsLeft DEF Probe
  <2>2. TypeOK'
    BY <1>5, <2>1 DEF Probe, TypeOK, PartialValues
  <2>3. Recoverable' /\ RecordInv'
    BY <1>5 DEF Probe, Recoverable, RecordInv
  <2>4. Turn \in DOMAIN file \/ value[Turn] \in own[Turn]
    BY <2>1 DEF Recoverable, RecordInv
  <2>5. JobInv'
    BY <1>5, <2>1, <2>4 DEF Probe, JobInv
  <2>. QED BY <2>2, <2>3, <2>5
<1>6. CASE Save
  <2>1. \A k \in DOMAIN file : k \in DOMAIN file' /\ file'[k] = file[k]
    BY <1>6 DEF Save, SetDefault
  <2>2. DOMAIN file' = DOMAIN file \cup DOMAIN current
    BY <1>6 DEF Save, SetDefault
  <2>3. \A k \in DOMAIN file' \ DOMAIN file : file'[k] = current[k]
    BY <1>6 DEF Save, SetDefault
  <2>4. PartialValues(file)'
    BY <2>1, <2>2, <2>3 DEF TypeOK, PartialValues
  <2>5. left' \subseteq DOMAIN current
    BY <1>6 DEF Save
  <2>6. TypeOK'
    BY <1>6, <2>4, <2>5 DEF Save, TypeOK, PartialValues
  <2>7. Recoverable'
    BY <1>6, <2>1 DEF Save, Recoverable
  <2>8. RecordInv'
    BY <1>6, <2>1, <2>2, <2>3 DEF Save, RecordInv, JobInv
  <2>9. JobInv'
    BY <1>6, <2>2, <2>5 DEF Save, JobInv
  <2>. QED BY <2>6, <2>7, <2>8, <2>9
<1>7. CASE Write
  <2>1. Turn \in Setting /\ Turn \in left
    BY <1>7, TurnIsLeft DEF Write
  <2>2. Turn \in DOMAIN file
    BY <1>7, <2>1 DEF Write, JobInv
  <2>3. TypeOK'
    BY <1>7, <2>1 DEF Write, TypeOK, Values
  <2>4. Recoverable'
    BY <1>7, <2>2 DEF Write, Recoverable, RecordInv
  <2>5. RecordInv'
    BY <1>7, <2>1 DEF Write, RecordInv, TypeOK
  <2>6. JobInv'
    BY <1>7 DEF Write, JobInv
  <2>. QED BY <2>3, <2>4, <2>5, <2>6
<1>8. CASE PassOver
  <2>1. TypeOK'
    BY <1>8 DEF PassOver, TypeOK, PartialValues
  <2>. QED BY <1>8, <2>1 DEF PassOver, Recoverable, RecordInv, JobInv
<1>9. CASE Restore
  <2>1. Turn \in Setting
    BY <1>9, TurnIsLeft DEF Restore
  <2>2. file[Turn] \in Values /\ file[Turn] \in own[Turn]
    BY <1>9 DEF Restore, RecordInv, TypeOK, PartialValues
  <2>3. TypeOK'
    BY <1>9, <2>1, <2>2 DEF Restore, TypeOK, PartialValues
  <2>4. Recoverable'
    BY <1>9 DEF Restore, Recoverable
  <2>5. RecordInv'
    BY <1>9, <2>1, <2>2 DEF Restore, RecordInv, TypeOK
  <2>6. JobInv'
    BY <1>9 DEF Restore, JobInv
  <2>. QED BY <2>3, <2>4, <2>5, <2>6
<1>10. CASE DeleteInVain
  <2>1. Turn \in Setting
    BY <1>10, TurnIsLeft DEF DeleteInVain
  <2>2. \A j \in Setting : own[j] \subseteq own'[j]
    BY <1>10 DEF DeleteInVain, TypeOK
  <2>3. value[Turn] \in own'[Turn]
    BY <1>10, <2>1 DEF DeleteInVain, TypeOK
  <2>4. TypeOK'
    BY <1>10, <2>1 DEF DeleteInVain, TypeOK, PartialValues
  <2>5. DOMAIN file \subseteq Setting
    BY DEF TypeOK, PartialValues
  <2>6. Recoverable'
    BY <1>10, <2>2, <2>5 DEF DeleteInVain, Recoverable
  <2>7. RecordInv'
    BY <1>10, <2>2, <2>3, <2>5 DEF DeleteInVain, RecordInv
  <2>8. JobInv'
    BY <1>10 DEF DeleteInVain, JobInv
  <2>. QED BY <2>4, <2>6, <2>7, <2>8
<1>11. CASE Finally
  <2>1. /\ DOMAIN file' = DOMAIN file \ done
        /\ \A k \in DOMAIN file' : file'[k] = file[k]
    BY <1>11 DEF Finally, Remaining
  <2>2. PartialValues(file)'
    BY <2>1 DEF TypeOK, PartialValues
  <2>3. TypeOK'
    BY <1>11, <2>2 DEF Finally, TypeOK, PartialValues, NoPrior
  <2>4. Recoverable'
    BY <1>11, <2>1 DEF Finally, Recoverable, JobInv
  <2>5. RecordInv'
    BY <1>11, <2>1 DEF Finally, RecordInv
  <2>6. JobInv'
    BY <1>11 DEF Finally, JobInv
  <2>. QED BY <2>3, <2>4, <2>5, <2>6
<1>12. CASE Stop
  <2>1. TypeOK'
    BY <1>12 DEF Stop, TypeOK, PartialValues, NoPrior
  <2>. QED BY <1>12, <2>1 DEF Stop, Recoverable, RecordInv, JobInv
<1>13. CASE UNCHANGED vars
  <2>1. TypeOK'
    BY <1>13 DEF vars, TypeOK, PartialValues
  <2>. QED BY <1>13, <2>1 DEF vars, Recoverable, RecordInv, JobInv
<1>. QED
  BY <1>1, <1>3, <1>4, <1>5, <1>6, <1>7, <1>8, <1>9, <1>10, <1>11, <1>12, <1>13 DEF Next

LEMMA Invariance ==
  ASSUME Bounds
  PROVE  Spec => []DefaultsInv
<1>1. Init => DefaultsInv
  BY InitInv
<1>2. DefaultsInv /\ [Next]_vars => DefaultsInv'
  BY NextInv
<1>. QED BY <1>1, <1>2, PTL DEF Spec

(* Every variable stays in its range, through any interleaving of commands,*)
(* failures and edits.                                                     *)
THEOREM TypeCorrect ==
  ASSUME Bounds
  PROVE  Spec => []TypeOK
BY Invariance, PTL DEF DefaultsInv

(* However many applies and reverts fail or are cut off, a setting that    *)
(* holds our value can still be given back (macos_defaults.py:260).        *)
THEOREM CanGiveBack ==
  ASSUME Bounds
  PROVE  Spec => []Recoverable
BY Invariance, PTL DEF DefaultsInv

-----------------------------------------------------------------------------
(* The refinement: the snapshot's record is the file                       *)

LEMMA InitRefines ==
  ASSUME Bounds
  PROVE  Init => Promise!Init
BY DEF Init, NoPrior, Promise!Init

(* Saving records the values read of the keys that had none on record.     *)
LEMMA SaveRefines ==
  ASSUME DefaultsInv, Save
  PROVE  Promise!Record
<1>. DEFINE new == DOMAIN current \ DOMAIN file
            rec == [k \in new |-> current[k]]
<1>1. new \in SUBSET (Setting \ DOMAIN file)
  BY DEF DefaultsInv, TypeOK, PartialValues
<1>2. rec \in [new -> Values]
  BY DEF DefaultsInv, TypeOK, PartialValues
<1>3. \A k \in new : rec[k] \in own[k]
  BY DEF DefaultsInv, JobInv, Save
<1>4. file' = [k \in new \cup DOMAIN file |-> IF k \in new THEN rec[k] ELSE file[k]]
  <2>1. DOMAIN file \cup DOMAIN current = new \cup DOMAIN file
    OBVIOUS
  <2>2. file' = [k \in DOMAIN file \cup DOMAIN current |->
                   IF k \in DOMAIN file THEN file[k] ELSE current[k]]
    BY DEF Save, SetDefault
  <2>. QED BY <2>1, <2>2
<1>5. UNCHANGED <<value, own, taken>>
  BY DEF Save
<1>. HIDE DEF new, rec
<1>. QED BY <1>1, <1>2, <1>3, <1>4, <1>5 DEF Promise!Record

(* The end of a revert forgets only what it has given back.                *)
LEMMA FinallyRefines ==
  ASSUME DefaultsInv, Finally
  PROVE  Promise!Forget
<1>. DEFINE gone == DOMAIN file \cap done
<1>1. gone \in SUBSET (DOMAIN file \ taken)
  BY DEF DefaultsInv, JobInv, Finally
<1>2. file' = [k \in DOMAIN file \ gone |-> file[k]]
  <2>1. DOMAIN file \ done = DOMAIN file \ gone
    OBVIOUS
  <2>. QED BY <2>1 DEF Finally, Remaining
<1>3. UNCHANGED <<value, own, taken>>
  BY DEF Finally
<1>. HIDE DEF gone
<1>. QED BY <1>1, <1>2, <1>3 DEF Promise!Forget

LEMMA StepRefines ==
  ASSUME Bounds
  PROVE  DefaultsInv /\ [Next]_vars => [Promise!Next]_(Promise!vars)
<1>. SUFFICES ASSUME DefaultsInv, [Next]_vars
              PROVE  Promise!Next \/ UNCHANGED Promise!vars
  OBVIOUS
<1>1. CASE User
  <2>1. PICK k \in Setting, v \in Values : Promise!UserSets(k, v)
    BY <1>1 DEF User, Promise!UserSets
  <2>. QED BY <2>1 DEF Promise!Next
<1>2. CASE Save
  BY <1>2, SaveRefines DEF Promise!Next
<1>3. CASE Write
  <2>1. Turn \in Setting /\ Turn \in DOMAIN file
    BY <1>3, TurnIsLeft DEF Write, DefaultsInv, JobInv
  <2>2. Promise!Overwrite(Turn)
    BY <1>3, <2>1 DEF Write, Promise!Overwrite
  <2>. QED BY <2>1, <2>2 DEF Promise!Next
<1>4. CASE Restore
  <2>1. Turn \in Setting
    BY <1>4, TurnIsLeft DEF Restore, DefaultsInv
  <2>2. Promise!GiveBack(Turn)
    BY <1>4 DEF Restore, Promise!GiveBack
  <2>. QED BY <2>1, <2>2 DEF Promise!Next
<1>5. CASE DeleteInVain
  <2>1. Turn \in Setting
    BY <1>5, TurnIsLeft DEF DeleteInVain, DefaultsInv
  <2>2. Promise!GiveUp(Turn)
    BY <1>5 DEF DeleteInVain, Promise!GiveUp
  <2>. QED BY <2>1, <2>2 DEF Promise!Next
<1>6. CASE Finally
  BY <1>6, FinallyRefines DEF Promise!Next
<1>7. CASE Apply \/ Revert \/ Probe \/ PassOver \/ Stop \/ UNCHANGED vars
  BY <1>7 DEF Apply, Revert, Start, Probe, PassOver, Stop, vars, Promise!vars
<1>. QED BY <1>1, <1>2, <1>3, <1>4, <1>5, <1>6, <1>7 DEF Next

(* Whatever fails, is killed or is changed by hand: applies and reverts    *)
(* only overwrite what is on record, never change a record, and drop one   *)
(* only once it was given back.                                            *)
THEOREM KeepsItsPromise ==
  ASSUME Bounds
  PROVE  Spec => ImplementsSnapshot
<1>1. Init => Promise!Init
  BY InitRefines
<1>2. DefaultsInv /\ [Next]_vars => [Promise!Next]_(Promise!vars)
  BY StepRefines
<1>. QED
  BY <1>1, <1>2, Invariance, PTL DEF Spec, ImplementsSnapshot, Promise!Spec

=============================================================================
