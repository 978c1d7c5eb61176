------------------------------ MODULE Snapshot ------------------------------
(* What macos-defaults promises its user (macos_defaults.py:3-5): a setting *)
(* is only overwritten while the value the machine had before is on record, *)
(* a record never changes, and it is only dropped once it was given back.   *)
CONSTANTS Keys, Values, Ours, Other

VARIABLES
  value,  \* each key's value
  kept,   \* the values on record: a partial function on Keys
  own,    \* per key, the values the machine's user has had there
  taken   \* the keys that hold our value instead of theirs

vars == <<value, kept, own, taken>>

Init ==
  /\ value \in [Keys -> Values]
  /\ kept = [k \in {} |-> Ours]
  /\ own = [k \in Keys |-> {value[k]}]
  /\ taken = {}

UserSets(k, v) ==
  /\ value' = [value EXCEPT ![k] = v]
  /\ own' = [own EXCEPT ![k] = @ \cup {v}]
  /\ taken' = taken \ {k}
  /\ UNCHANGED kept

(* Any value the user has had: it may change again before it is recorded.   *)
Record ==
  \E new \in SUBSET (Keys \ DOMAIN kept) :
    \E rec \in [new -> Values] :
      /\ \A k \in new : rec[k] \in own[k]
      /\ kept' = [k \in new \cup DOMAIN kept |-> IF k \in new THEN rec[k] ELSE kept[k]]
      /\ UNCHANGED <<value, own, taken>>

Overwrite(k) ==
  /\ k \in DOMAIN kept
  /\ value' = [value EXCEPT ![k] = Ours]
  /\ taken' = taken \cup {k}
  /\ UNCHANGED <<kept, own>>

GiveBack(k) ==
  /\ k \in DOMAIN kept /\ kept[k] # Other
  /\ value' = [value EXCEPT ![k] = kept[k]]
  /\ taken' = taken \ {k}
  /\ UNCHANGED <<kept, own>>

(* The one exception: an absent key that `defaults delete` failed to remove *)
(* is held to be given back, and the value found there is the user's now.   *)
GiveUp(k) ==
  /\ k \in DOMAIN kept
  /\ own' = [own EXCEPT ![k] = @ \cup {value[k]}]
  /\ taken' = taken \ {k}
  /\ UNCHANGED <<value, kept>>

Forget ==
  \E gone \in SUBSET (DOMAIN kept \ taken) :
    /\ kept' = [k \in DOMAIN kept \ gone |-> kept[k]]
    /\ UNCHANGED <<value, own, taken>>

Next ==
  \/ Record \/ Forget
  \/ \E k \in Keys : Overwrite(k) \/ GiveBack(k) \/ GiveUp(k)
  \/ \E k \in Keys, v \in Values : UserSets(k, v)

Spec == Init /\ [][Next]_vars

=============================================================================
