------------------------------ MODULE MCMain ------------------------------
(* Instances of Main: two drives, the first with a directory in a directory. *)
EXTENDS Main

CONSTANTS r1, r2, d1, d2

OneIn == [d \in {d1, d2} |-> IF d = d1 THEN r1 ELSE d1]
AboveAll == [p \in {r1, r2, d1, d2} |->
    IF p = d2 THEN {r1, d1, d2} ELSE IF p = d1 THEN {r1, d1} ELSE {p}]
OnDrive == [p \in {r1, r2, d1, d2} |-> IF p = r2 THEN r2 ELSE r1]
=============================================================================
