----------------------------- MODULE MCPassStore -----------------------------
(* Small instances of PassStore for TLC.                                   *)
EXTENDS PassStore, TLC

CONSTANTS a, b, c, d, f, e1, e2

(* Every entry in the root folder.                                         *)
HomeRoot == [e \in Entry |-> Root]

(* e2 in the sub-folder f, the others in the root.                         *)
HomeSplit == [e \in Entry |-> IF e = e2 THEN f ELSE Root]

(* Devices a and b start alike, so exchanging them changes nothing.        *)
Twins == Permutations({a, b})

(* No device differs from another in an empty store.                       *)
Alike == Permutations(Device)

=============================================================================
