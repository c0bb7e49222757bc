------------------------------ MODULE MCDaemon ------------------------------
(* Daemon for TLC: configurations that differ in how they are bound; a    *)
(* file that is no configuration stands for those that are refused.        *)
EXTENDS Daemon

MCWritten == {
  [Default EXCEPT !.tailscale_bind = "auto"],
  [Default EXCEPT !.port = 8788, !.tailscale_bind = "tailnet"]}
=============================================================================
