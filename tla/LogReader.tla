----------------------------- MODULE LogReader -----------------------------
(* What the event feed promises (http/events.rs, bus.rs): a log that only  *)
(* grows, and readers, each of which is at one of its entries and moves to *)
(* the next one that concerns it, leaving none out and going back to none. *)
(* A reader that is nowhere yet may begin at any.                          *)
EXTENDS Integers, Sequences

CONSTANTS Reader, Entry, Concerns(_, _)

None == -1

VARIABLES log, at

Read(r, i) ==
  /\ i \in DOMAIN log /\ Concerns(r, log[i]) /\ i > at[r]
  /\ at[r] # None => \A j \in DOMAIN log : at[r] < j /\ j < i => ~Concerns(r, log[j])
  /\ at' = [at EXCEPT ![r] = i]
  /\ UNCHANGED log

Grow(e) == log' = Append(log, e) /\ UNCHANGED at

Init == log = <<>> /\ at \in [Reader -> {None, 0}]

Next ==
  \/ \E e \in Entry : Grow(e)
  \/ \E r \in Reader, i \in DOMAIN log : Read(r, i)

Spec == Init /\ [][Next]_<<log, at>>
=============================================================================
