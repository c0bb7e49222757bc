---------------------------- MODULE MCEventFeed ----------------------------
(* EventFeed for TLC: two kinds of event, of which the client asks for one. *)
EXTENDS EventFeed

CONSTANTS e1, e2

MCWanted(c, e) == e = e1
=============================================================================
