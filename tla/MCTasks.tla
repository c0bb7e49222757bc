------------------------------ MODULE MCTasks ------------------------------
(* Tasks for TLC: requests are interchangeable, and so are the roots.      *)
EXTENDS Tasks, TLC

CONSTANTS k1, k2

MCCreation == {<<k1, TRUE>>, <<k2, TRUE>>, <<NoKey, FALSE>>}
MCCleaning == {<<FALSE, FALSE>>, <<FALSE, TRUE>>, <<TRUE, TRUE>>}
MCSymmetry == Permutations(Request) \cup Permutations(Root) \cup Permutations(Key)
=============================================================================
