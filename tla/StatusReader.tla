---------------------------- MODULE StatusReader ----------------------------
(* What reading an agent's status promises to the rest of the daemon       *)
(* (crates/forge-daemon/src/adapters/status.rs): a belief that changes     *)
(* freely, except that a human is called, `waiting`, only out of a doubt   *)
(* raised by an earlier look, and that how the process ended is the last   *)
(* word.  How the screen is read, when a look is skipped and how beliefs   *)
(* grow stale are left to module Tracker.                                  *)

CONSTANT Readings   (* the statuses a screen can be classified as          *)

VARIABLES
  belief,   (* the status believed and announced                           *)
  doubt,    (* whether a question has been seen that is not trusted yet    *)
  over      (* the process has gone                                        *)

Init == belief = "idle" /\ doubt = FALSE /\ over = FALSE

(* A look that is believed at once, which settles any doubt.               *)
Settle == belief' \in (Readings \ {"waiting"}) \cup {"idle", belief} /\ doubt' = FALSE

(* A question is seen for the first time, or still not often enough.       *)
Suspect == belief # "waiting" /\ doubt' = TRUE /\ UNCHANGED belief

(* A question that was already in doubt is believed.                       *)
Confirm == doubt /\ belief' = "waiting" /\ doubt' = FALSE

(* The process has gone, and how it went decides.                          *)
End == belief' \in {"stopped", "error"} /\ doubt' = FALSE /\ over' = TRUE

Next ==
  /\ ~over
  /\ \/ (Settle \/ Suspect \/ Confirm) /\ UNCHANGED over
     \/ End

Spec == Init /\ [][Next]_<<belief, doubt, over>>
=============================================================================
