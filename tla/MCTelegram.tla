----------------------------- MODULE MCTelegram -----------------------------
(* Telegram for TLC: this Mac and another, a name that is whole on the one *)
(* and begins the other's, and an id that both have.                       *)
EXTENDS Telegram, TLC

CONSTANTS here, there, HereAsks, ThereAsks

MCMaxQuestion == (here :> HereAsks) @@ (there :> ThereAsks)

MCCommand == {
  [what |-> "ask", names |-> [exact |-> {here}, prefix |-> {here, there}]],
  [what |-> "stop", names |-> [exact |-> {here, there}, prefix |-> {}]]}
=============================================================================
