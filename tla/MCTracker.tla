----------------------------- MODULE MCTracker -----------------------------
(* Small instances of Tracker for TLC.                                     *)
EXTENDS Tracker

CONSTANTS m1, m2, m3, m4
=============================================================================
