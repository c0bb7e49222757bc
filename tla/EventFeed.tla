----------------------------- MODULE EventFeed -----------------------------
(* The event bus and those who listen to it: clients of the WebSocket feed *)
(* (bus.rs, store/events.rs, http/events.rs, with the readers in fleet.rs  *)
(* and use-events.ts), the hooks (hooks.rs, Server::watch_hooks) and the   *)
(* local machine's watch (fleet.rs).                                       *)
(*                                                                         *)
(* An event is stored and broadcast under one lock, so the history is the  *)
(* broadcast too: a receiver is a position in it, of which only the last   *)
(* Capacity entries can be received.  A relay's step ends where it awaits. *)
EXTENDS Integers, Sequences, FiniteSets

CONSTANTS
  Client,       (* readers of the feed                                     *)
  Event,        (* events, by what they are about                          *)
  Wanted(_, _), (* Wanted(c, e): e passes the filter of client c           *)
  Scripted,     (* events of a kind hooks.toml names a script for          *)
  Capacity,     (* CAPACITY of the bus                                     *)
  PageSize,     (* events in a page of history                             *)
  Concurrency,  (* hooks that run at a time                                *)
  Queue,        (* hooks that wait, at most                                *)
  MaxEvents,    (* bound: events that are published                        *)
  MaxDrops,     (* bound: sockets that fail                                *)
  MaxRestarts   (* bound: restarts of the daemon                           *)

ASSUME FeedAssumption ==
  /\ Scripted \subseteq Event
  /\ \A c \in Client, e \in Event : Wanted(c, e) \in BOOLEAN
  /\ Capacity \in Nat \ {0} /\ PageSize \in Nat \ {0}
  /\ Concurrency \in Nat \ {0} /\ Queue \in Nat \ {0}
  /\ MaxEvents \in Nat /\ MaxDrops \in Nat /\ MaxRestarts \in Nat

None == -1                        (* no cursor: events have ids from 1 on  *)

VARIABLES
  log,        (* the events table: the id of an event is its index         *)
  conn,       (* the relay of each client                                  *)
  wire,       (* what it has sent and the client has not read              *)
  seen,       (* the client's cursor                                       *)
  hooks,      (* the loop of the hooks, and the hooks it has started       *)
  push,       (* the local machine's watch                                 *)
  drops, restarts

vars == <<log, conn, wire, seen, hooks, push, drops, restarts>>

-----------------------------------------------------------------------------
Cursor == {None} \cup Nat
Id     == Nat \ {0}

(* A relay: off, reading history, following the bus, or saying goodbye.    *)
(* `next` is its receiver, `sent` its last_sent, `page` what it has read   *)
(* and not sent.                                                           *)
Relay == [state : {"off", "filling", "live", "closing"}, next : Id, sent : Cursor,
          page : SUBSET Id]
Off   == [state |-> "off", next |-> 1, sent |-> None, page |-> {}]

(* `admitted` are the permits the hooks hold.                              *)
Hooks   == [next : Id, waiting : Seq(Id), running : SUBSET Id, admitted : Nat]
NewHooks(next) == [next |-> next, waiting |-> <<>>, running |-> {}, admitted |-> 0]

TypeOK ==
  /\ log \in Seq(Event)
  /\ conn \in [Client -> Relay]
  /\ wire \in [Client -> Seq(Id)]
  /\ seen \in [Client -> Cursor]
  /\ hooks \in Hooks /\ push \in [alive : BOOLEAN, next : Id]
  /\ drops \in 0 .. MaxDrops /\ restarts \in 0 .. MaxRestarts
  /\ \A c \in Client :
       /\ conn[c].next <= Len(log) + 1 /\ conn[c].sent <= Len(log) /\ seen[c] <= Len(log)
       /\ conn[c].state = "off" => wire[c] = <<>>
       /\ conn[c].state # "filling" => conn[c].page = {}
  /\ hooks.next <= Len(log) + 1 /\ push.next <= Len(log) + 1

-----------------------------------------------------------------------------
(* The bus                                                                 *)

Last   == Len(log)
Oldest == IF Last > Capacity THEN Last - Capacity + 1 ELSE 1
Lags(next) == next < Oldest

Publish(e) ==
  /\ Last < MaxEvents
  /\ log' = Append(log, e)
  /\ UNCHANGED <<conn, wire, seen, hooks, push, drops, restarts>>

(* A page of history: the first PageSize of the events after a cursor.     *)
History(c, after) == {i \in 1 .. Last : i > after /\ Wanted(c, log[i])}
Page(c, after) ==
  {i \in History(c, after) : Cardinality({j \in History(c, after) : j < i}) < PageSize}

-----------------------------------------------------------------------------
(* A client of the feed                                                    *)

Feed == UNCHANGED <<log, hooks, push, restarts>>

Sends(c, i) == wire' = [wire EXCEPT ![c] = Append(@, i)]

(* relay: subscribe, then read history, from the cursor when there is one. *)
Connect(c) ==
  /\ conn[c].state = "off"
  /\ conn' = [conn EXCEPT ![c] =
       [state |-> IF seen[c] = None THEN "live" ELSE "filling",
        next |-> Last + 1, sent |-> seen[c], page |-> {}]]
  /\ UNCHANGED <<wire, seen, drops>> /\ Feed

(* Mutant: the backfill is one page.                                       *)
Fill_OnePage(c, i) ==
  /\ conn[c].state = "filling"
  /\ i \in conn[c].page /\ \A j \in conn[c].page : i <= j
  /\ Sends(c, i)
  /\ conn' = [conn EXCEPT ![c].page = @ \ {i}, ![c].sent = i,
                          ![c].state = IF conn[c].page = {i} THEN "live" ELSE @]
  /\ UNCHANGED <<seen, drops>> /\ Feed

(* An empty page ends the backfill.                                        *)
Fetch(c) ==
  /\ conn[c].state = "filling" /\ conn[c].page = {}
  /\ IF History(c, conn[c].sent) = {}
     THEN conn' = [conn EXCEPT ![c].state = "live"]
     ELSE conn' = [conn EXCEPT ![c].page = Page(c, conn[c].sent)]
  /\ UNCHANGED <<wire, seen, drops>> /\ Feed

(* A page is sent oldest first.                                            *)
Fill(c, i) ==
  /\ conn[c].state = "filling"
  /\ i \in conn[c].page /\ \A j \in conn[c].page : i <= j
  /\ Sends(c, i)
  /\ conn' = [conn EXCEPT ![c].page = @ \ {i}, ![c].sent = i]
  /\ UNCHANGED <<seen, drops>> /\ Feed

(* Mutant: what the backfill has sent is sent again when it is received.   *)
Skips_Filter(c, i) == ~Wanted(c, log[i])

Skips(c, i) == (conn[c].sent # None /\ i <= conn[c].sent) \/ ~Wanted(c, log[i])

Receive(c) ==
  LET i == conn[c].next IN
  /\ conn[c].state = "live" /\ i <= Last /\ ~Lags(i)
  /\ IF Skips(c, i)
     THEN conn' = [conn EXCEPT ![c].next = i + 1] /\ UNCHANGED wire
     ELSE conn' = [conn EXCEPT ![c].next = i + 1, ![c].sent = i] /\ Sends(c, i)
  /\ UNCHANGED <<seen, drops>> /\ Feed

(* A relay that lags closes, and the client comes back with its cursor.    *)
Lagged(c) ==
  /\ conn[c].state = "live" /\ Lags(conn[c].next)
  /\ conn' = [conn EXCEPT ![c].state = "closing"]
  /\ UNCHANGED <<wire, seen, drops>> /\ Feed

Closed(c) ==
  /\ conn[c].state = "closing" /\ wire[c] = <<>>
  /\ conn' = [conn EXCEPT ![c] = Off]
  /\ UNCHANGED <<wire, seen, drops>> /\ Feed

(* stream_once, onmessage                                                  *)
Read(c) ==
  /\ wire[c] # <<>>
  /\ seen' = [seen EXCEPT ![c] = Head(wire[c])]
  /\ wire' = [wire EXCEPT ![c] = Tail(@)]
  /\ UNCHANGED <<conn, drops>> /\ Feed

(* The socket fails, with what is on it.                                   *)
Drop(c) ==
  /\ conn[c].state # "off" /\ drops < MaxDrops /\ drops' = drops + 1
  /\ conn' = [conn EXCEPT ![c] = Off] /\ wire' = [wire EXCEPT ![c] = <<>>]
  /\ UNCHANGED seen /\ Feed

-----------------------------------------------------------------------------
(* Hooks                                                                   *)

HooksOnly == UNCHANGED <<log, conn, wire, seen, push, drops, restarts>>

(* script_for, is_script_name: what the file names for an event's kind, if *)
(* it is the name of a script.                                             *)
ScriptFor(e) == e \in Scripted

(* Mutant: the permit is dropped as soon as the hook is started.           *)
Fire_NoPermit ==
  LET i == hooks.next IN
  /\ i <= Last /\ ~Lags(i)
  /\ hooks' = IF ScriptFor(log[i]) /\ hooks.admitted < Concurrency + Queue
              THEN [hooks EXCEPT !.next = i + 1, !.waiting = Append(@, i)]
              ELSE [hooks EXCEPT !.next = i + 1]
  /\ HooksOnly

(* Hooks::fire: a hook that finds no permit is dropped.                    *)
Fire ==
  LET i == hooks.next IN
  /\ i <= Last /\ ~Lags(i)
  /\ hooks' = IF ScriptFor(log[i]) /\ hooks.admitted < Concurrency + Queue
              THEN [hooks EXCEPT !.next = i + 1, !.waiting = Append(@, i), !.admitted = @ + 1]
              ELSE [hooks EXCEPT !.next = i + 1]
  /\ HooksOnly

(* watch_hooks: what was missed is skipped, and the loop goes on.          *)
FallBehind ==
  /\ Lags(hooks.next)
  /\ hooks' = [hooks EXCEPT !.next = Oldest]
  /\ HooksOnly

HookStarts ==
  /\ hooks.waiting # <<>> /\ Cardinality(hooks.running) < Concurrency
  /\ hooks' = [hooks EXCEPT !.waiting = Tail(@), !.running = @ \cup {Head(hooks.waiting)}]
  /\ HooksOnly

(* Mutant: a hook that had to be killed keeps its permit.                  *)
HookEnds_Leaks(i) ==
  /\ i \in hooks.running
  /\ hooks' = [hooks EXCEPT !.running = @ \ {i}]
  /\ HooksOnly

(* It ends, or is killed when its time is up, and its permits with it.     *)
HookEnds(i) ==
  /\ i \in hooks.running
  /\ hooks' = [hooks EXCEPT !.running = @ \ {i}, !.admitted = @ - 1]
  /\ HooksOnly

-----------------------------------------------------------------------------
(* The local machine's watch, which tells the bot                          *)

PushOnly == UNCHANGED <<log, conn, wire, seen, hooks, drops, restarts>>

Pushes ==
  /\ push.alive /\ push.next <= Last /\ ~Lags(push.next)
  /\ push' = [push EXCEPT !.next = @ + 1]
  /\ PushOnly

(* Any error of the receiver ends it.                                      *)
PushLags ==
  /\ push.alive /\ Lags(push.next)
  /\ push' = [push EXCEPT !.alive = FALSE]
  /\ PushOnly

-----------------------------------------------------------------------------
(* The daemon stops and starts again: the history is what is left.         *)
Restart ==
  /\ restarts < MaxRestarts /\ restarts' = restarts + 1
  /\ conn' = [c \in Client |-> Off] /\ wire' = [c \in Client |-> <<>>]
  /\ hooks' = NewHooks(Last + 1) /\ push' = [alive |-> TRUE, next |-> Last + 1]
  /\ UNCHANGED <<log, seen, drops>>

Init ==
  /\ log = <<>>
  /\ conn = [c \in Client |-> Off] /\ wire = [c \in Client |-> <<>>]
  /\ seen \in [Client -> {None, 0}]
  /\ hooks = NewHooks(1) /\ push = [alive |-> TRUE, next |-> 1]
  /\ drops = 0 /\ restarts = 0

Relays(c) ==
  \/ Connect(c) \/ Fetch(c) \/ (\E i \in conn[c].page : Fill(c, i))
  \/ Receive(c) \/ Lagged(c) \/ Closed(c)
Scripts == Fire \/ FallBehind \/ HookStarts
Ends    == \E i \in hooks.running : HookEnds(i)

Next ==
  \/ \E e \in Event : Publish(e)
  \/ \E c \in Client : Relays(c) \/ Read(c) \/ Drop(c)
  \/ Scripts \/ Ends
  \/ Pushes \/ PushLags
  \/ Restart

Spec == Init /\ [][Next]_vars

(* A client reconnects and reads, a relay and a loop are tasks of their    *)
(* own, and a hook has a timeout.                                          *)
FairSpec ==
  /\ Spec
  /\ \A c \in Client : WF_vars(Relays(c)) /\ WF_vars(Read(c))
  /\ WF_vars(Scripts) /\ WF_vars(Ends) /\ WF_vars(Pushes)

-----------------------------------------------------------------------------
(* What holds                                                              *)

(* The feed is a log that is read without gaps and without repetitions,    *)
(* from the first event a client has seen on, across lost sockets, lag     *)
(* and restarts of the daemon.                                             *)
Reader == INSTANCE LogReader WITH
  Reader <- Client, Entry <- Event, Concerns <- Wanted, at <- seen

FeedIsALog == Reader!Spec

(* A client that has a cursor is told everything in the end, however often *)
(* it has been cut off on the way.                                         *)
EverythingArrives == \A c \in Client :
  <>[](seen[c] # None => History(c, seen[c]) = {})

(* Hooks are bounded while they run and while they wait, whatever a burst  *)
(* of events asks for.                                                     *)
HooksAreBounded ==
  /\ Cardinality(hooks.running) <= Concurrency
  /\ Len(hooks.waiting) + Cardinality(hooks.running) <= Concurrency + Queue

(* A burst costs the hooks what they missed and what they dropped, never   *)
(* what comes after: while a script is named for an event, there is again  *)
(* room for it in the end.                                                 *)
HooksRecover == <>[](hooks.next > Last /\ hooks.waiting = <<>> /\ hooks.admitted = 0)
=============================================================================
