----------------------------- MODULE MCSessions -----------------------------
(* Small instances of Sessions for TLC.                                    *)
EXTENDS Sessions, TLC

CONSTANTS r1, r2, t1, t2

(* Tasks 1 and 12.                                                         *)
T1BeginsT2 == {<<t1, t2>>}

(* Requests are interchangeable.                                           *)
Symmetry == Permutations({r1, r2} \cap Request)
=============================================================================
