------------------------------ MODULE MCPassSync ------------------------------
(* Small instances of PassSync for TLC.                                    *)
EXTENDS PassSync, TLC

CONSTANTS own, x, y

(* The other keys start alike, so exchanging them changes nothing.         *)
Others == Permutations({x, y})

=============================================================================
