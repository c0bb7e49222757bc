------------------------------ MODULE Dispatch ------------------------------
(* The hub's queue and its dispatch loop                                   *)
(* (crates/forge-daemon/src/hub, store/queue.rs, http/hub.rs), with what   *)
(* the machines of the fleet do with the two requests it sends them:       *)
(* creating a task under the row's key and starting its agent              *)
(* (http/tasks.rs, fleet.rs).                                              *)
(*                                                                         *)
(* A machine is its position in the fleet; the hub is the first and is     *)
(* reached through its own handlers, the others over HTTP with a timeout.  *)
(* A request in flight is a call.  A machine carries one out step by step, *)
(* a step ending where its handler awaits or answers; a call nobody waits  *)
(* for any longer may be carried on with or dropped.                       *)
EXTENDS Integers, FiniteSets

CONSTANTS
  Row,          (* rows of the queue, by id                                *)
  Machines,     (* how many machines the fleet has                         *)
  Call,         (* requests that can be in flight at the same time         *)
  Anywhere,     (* the target of a row any machine may take                *)
  Blank,        (* the target of a row whose client sent white space       *)
  Id,           (* the ids a tasks table may give the task of a row        *)
  HasProject,   (* the machines that have the rows' project                *)
  MaxFailures,  (* bound: machines not answering, lost answers, failures   *)
  MaxCrashes    (* bound: crashes of a daemon                              *)

Machine == 1 .. Machines
Hub     == 1
Target  == Machine \cup {Anywhere, Blank}
NoCall  == [step |-> "free", machine |-> Hub, row |-> 0, heard |-> FALSE]

ASSUME DispatchAssumption ==
  /\ Row \subseteq Nat \ {0} /\ IsFiniteSet(Row)
  /\ 0 \notin Call
  /\ Machines \in Nat \ {0}
  /\ Anywhere \notin Machine /\ Blank \notin Machine /\ Anywhere # Blank
  /\ Id # {}
  /\ HasProject \subseteq Machine
  /\ MaxFailures \in Nat
  /\ MaxCrashes \in Nat

VARIABLES
  queue,      (* the queued_tasks table                                    *)
  made,       (* how many tasks each machine has under a row's key         *)
  agent,      (* what became of that task's agent: "none", "running",      *)
              (* "ended", which it also is when its task was deleted       *)
  given,      (* the id that task was last given                           *)
  git,        (* what git has there under the branch name of the row and   *)
              (* an id                                                     *)
  hub,        (* the dispatch loop: where it is, and its locals            *)
  calls,      (* requests in flight                                        *)
  failures,   (* how much has failed                                       *)
  crashes,    (* how many crashes there have been                          *)
  left        (* for the properties: the rows whose task the hub's own     *)
              (* daemon left behind without having started its agent       *)

machines == <<made, agent, given, git>>
past     == <<crashes, left>>
vars     == <<queue, machines, hub, calls, failures, past>>

-----------------------------------------------------------------------------
(* Types                                                                   *)

QueueRow == [state : {"none", "queued", "dispatched", "cancelled"},
             target : Target, machine : Machine \cup {0}]

(* `todo` is what is left of the rows the pass read, `asked` the machines  *)
(* still to be asked, `active` the answers of those that gave one; it has  *)
(* a request in flight exactly while it creates or starts a task.          *)
HubState == [step : {"asleep", "ask", "place", "create", "start", "mark"},
             todo : SUBSET Row, unasked : SUBSET Machine, reachable : SUBSET Machine,
             active : [Machine -> Nat], row : Row \cup {0}, machine : Machine,
             call : Call \cup {0}]

(* A worktree has its branch; a branch may be left without its worktree.   *)
Tree == {"nothing", "branch", "worktree"}

(* A call answers "found" or "created", "started" or "running", "refused". *)
Answers == {"found", "created", "started", "running", "refused"}
CallState == [step : {"free", "lookup", "insert", "provision", "rollback", "start"} \cup Answers,
              machine : Machine, row : Row \cup {0}, heard : BOOLEAN]

Asleep == [step |-> "asleep", todo |-> {}, unasked |-> {}, reachable |-> {},
           active |-> [m \in Machine |-> 0], row |-> 0, machine |-> Hub, call |-> 0]

TypeOK ==
  /\ queue \in [Row -> QueueRow]
  /\ \A r \in Row : queue[r].state = "dispatched" <=> queue[r].machine # 0
  /\ made \in [Machine -> [Row -> Nat]]
  /\ agent \in [Machine -> [Row -> {"none", "running", "ended"}]]
  /\ hub \in HubState
  /\ calls \in [Call -> CallState]
  /\ hub.call # 0 <=> hub.step \in {"create", "start"}
  /\ \A c \in Call : calls[c].heard <=> c = hub.call
  /\ failures \in 0 .. MaxFailures
  /\ crashes \in 0 .. MaxCrashes
  /\ left \subseteq Row

GitOK ==
  /\ given \in [Machine -> [Row -> Id]]
  /\ git \in [Machine -> [Row -> [Id -> Tree]]]

-----------------------------------------------------------------------------
(* Clients of the queue                                                    *)

(* enqueue: a new row.                                                     *)
Queued(target) == [state |-> "queued", target |-> target, machine |-> 0]

(* A name no machine of the fleet has is refused, but white space is not:  *)
(* it is stored trimmed, a target that is there and names nobody.          *)
Enqueue(r, target) ==
  /\ queue[r].state = "none"
  /\ \A q \in Row : q < r => queue[q].state # "none"
  /\ queue' = [queue EXCEPT ![r] = Queued(target)]
  /\ UNCHANGED <<machines, hub, calls, failures, past>>

(* cancel_queued: a row that has been dispatched is left alone.            *)
Cancelled(row) == IF row.state = "queued" THEN [row EXCEPT !.state = "cancelled"] ELSE row

Cancel(r) ==
  /\ queue[r].state # "none"
  /\ queue' = [queue EXCEPT ![r] = Cancelled(@)]
  /\ UNCHANGED <<machines, hub, calls, failures, past>>

-----------------------------------------------------------------------------
(* The pass                                                                *)

Fails     == failures < MaxFailures /\ failures' = failures + 1
FailsNot  == UNCHANGED failures
At(step)  == hub.step = step

(* pending_queue                                                           *)
Pending == {r \in Row : queue[r].state = "queued"}

(* The pass reads the rows that are queued, or sleeps on.                  *)
Wake ==
  /\ At("asleep")
  /\ Pending # {}
  /\ hub' = [Asleep EXCEPT !.step = "ask", !.unasked = Machine, !.todo = Pending]
  /\ UNCHANGED <<queue, machines, calls, failures, past>>

(* Of the tasks a machine answers with, those that are live.               *)
Active(m) == Cardinality({r \in Row : agent[m][r] = "running"})

(* take_inventory: machine by machine; one that does not answer, or whose  *)
(* store does not, is not reachable for the rest of the pass.              *)
Ask ==
  /\ At("ask")
  /\ \E m \in hub.unasked :
       /\ \A n \in hub.unasked : m <= n
       /\ LET rest   == hub.unasked \ {m}
              onward == [hub EXCEPT !.unasked = rest,
                                    !.step = IF rest = {} THEN "place" ELSE "ask"] IN
          \/ /\ hub' = [onward EXCEPT
                  !.reachable = @ \cup {m},
                  !.active[m] = Active(m)]
             /\ FailsNot
          \/ Fails /\ hub' = onward
  /\ UNCHANGED <<queue, machines, calls, past>>

(* Mutant: a named machine that cannot take the row is replaced.           *)
Eligible_Redirected(r) ==
  LET able == {m \in Machine : m \in hub.reachable /\ m \in HasProject} IN
  IF queue[r].target \in able THEN {queue[r].target} ELSE able

(* place: a named target is honoured or refused, never redirected.         *)
Eligible(r) == {m \in Machine : m \in hub.reachable /\ m \in HasProject
                                /\ queue[r].target \in {m, Anywhere}}

(* Fewest active sessions wins, ties go to the earlier machine.            *)
Best(ms) == {m \in ms : \A n \in ms :
  hub.active[m] < hub.active[n] \/ (hub.active[m] = hub.active[n] /\ m <= n)}

(* On to the next row; after the last one, to sleep.                       *)
NextRow == hub' = [hub EXCEPT !.step = "place", !.row = 0, !.machine = Hub, !.call = 0]

Send(c, m, r, step) ==
  calls' = [calls EXCEPT ![c] = [step |-> step, machine |-> m, row |-> r, heard |-> TRUE]]

(* dispatch_one: the oldest row the pass read, placed by what the machines *)
(* answered at its beginning, or left waiting.                             *)
Place ==
  /\ At("place") /\ hub.todo # {}
  /\ \E r \in hub.todo :
       /\ \A q \in hub.todo : r <= q
       /\ IF Eligible(r) = {}
          THEN hub' = [hub EXCEPT !.todo = @ \ {r}] /\ UNCHANGED calls
          ELSE \E m \in Best(Eligible(r)), c \in Call :
                 /\ calls[c].step = "free"
                 /\ hub' = [hub EXCEPT !.todo = @ \ {r}, !.step = "create", !.row = r,
                                       !.machine = m, !.call = c]
                 /\ Send(c, m, r, "lookup")
  /\ UNCHANGED <<queue, machines, failures, past>>

PassDone ==
  /\ At("place") /\ hub.todo = {}
  /\ hub' = Asleep
  /\ UNCHANGED <<queue, machines, calls, failures, past>>

Answered(answers) == hub.call # 0 /\ calls[hub.call].step \in answers
Hang(c) == calls' = [calls EXCEPT ![c] = NoCall]

(* The task is there: start its agent.  In the hub's own daemon a task     *)
(* that was found is taken to have been started.                           *)
Created ==
  /\ At("create")
  /\ Answered({"found", "created"})
  /\ IF hub.machine = Hub /\ Answered({"found"})
     THEN hub' = [hub EXCEPT !.step = "mark", !.call = 0] /\ Hang(hub.call)
     ELSE hub' = [hub EXCEPT !.step = "start"] /\ Send(hub.call, hub.machine, hub.row, "start")
  /\ UNCHANGED <<queue, machines, failures, past>>

(* The agent runs, or ran already, which another machine may answer.       *)
Started ==
  /\ At("start")
  /\ Answered({"started"}) \/ (hub.machine # Hub /\ Answered({"running"}))
  /\ hub' = [hub EXCEPT !.step = "mark", !.call = 0] /\ Hang(hub.call)
  /\ UNCHANGED <<queue, machines, failures, past>>

(* DispatchFailed: the row stays queued, with the reason.                  *)
Refused ==
  /\ At("create") \/ (At("start") /\ hub.machine # Hub)
  /\ Answered({"refused"})
  /\ NextRow /\ Hang(hub.call)
  /\ UNCHANGED <<queue, machines, failures, past>>

(* What is left of the row's attempt in the repository of machine m.       *)
Leaves(m, r, what) == git' = [git EXCEPT ![m][r][given[m][r]] = what]

(* create_and_start: a task of the hub's own daemon whose agent would not  *)
(* start is deleted again, by force and without its branch, unless a       *)
(* session of it runs.  When git or the store fails that is only logged,   *)
(* and the task stays, under its key.                                      *)
Undo ==
  /\ At("start") /\ hub.machine = Hub
  /\ Answered({"refused", "running"})
  /\ \/ agent[Hub][hub.row] = "running" /\ FailsNot /\ UNCHANGED <<made, git, left>>
     \/ /\ agent[Hub][hub.row] # "running" /\ FailsNot
        /\ made' = [made EXCEPT ![Hub][hub.row] = 0]
        /\ Leaves(Hub, hub.row, "branch")
        /\ UNCHANGED left
     \/ /\ agent[Hub][hub.row] # "running" /\ Fails
        /\ \E what \in {"worktree", "branch"} : Leaves(Hub, hub.row, what)
        /\ left' = left \cup {hub.row}
        /\ UNCHANGED made
  /\ NextRow /\ Hang(hub.call)
  /\ UNCHANGED <<queue, agent, given, crashes>>

(* The other machine does not answer in time, or its answer is lost; it    *)
(* may go on with the call.                                                *)
GiveUp ==
  /\ hub.step \in {"create", "start"} /\ hub.machine # Hub
  /\ Fails
  /\ NextRow
  /\ calls' = [calls EXCEPT ![hub.call].heard = FALSE]
  /\ UNCHANGED <<queue, machines, past>>

(* mark_dispatched: only a row that is still queued is claimed.            *)
Claimed(row, m) == IF row.state = "queued"
                   THEN [row EXCEPT !.state = "dispatched", !.machine = m] ELSE row

(* A claim that is lost, or that the store fails, is only logged.          *)
MarkDispatched ==
  /\ At("mark")
  /\ \/ queue' = [queue EXCEPT ![hub.row] = Claimed(@, hub.machine)] /\ FailsNot
     \/ UNCHANGED queue /\ Fails
  /\ NextRow
  /\ UNCHANGED <<machines, calls, past>>

-----------------------------------------------------------------------------
(* What a machine does with a call                                         *)

Serving(c, step) == calls[c].step = step
To(c, step)      == calls' = [calls EXCEPT ![c].step = step]
Key(c)           == made[calls[c].machine][calls[c].row]
Tried(c)         == LET m == calls[c].machine  r == calls[c].row IN git[m][r][given[m][r]]
Elsewhere        == UNCHANGED <<queue, hub, crashes>>

(* Mutant: a key that was used is not looked up.                           *)
Lookup_Not(c) ==
  /\ Serving(c, "lookup")
  /\ To(c, "insert")
  /\ UNCHANGED <<machines, failures, left>> /\ Elsewhere

(* create: a key that was used is answered with the task made under it.    *)
Lookup(c) ==
  /\ Serving(c, "lookup")
  /\ \/ To(c, IF Key(c) > 0 THEN "found" ELSE "insert") /\ FailsNot
     \/ To(c, "refused") /\ Fails
  /\ UNCHANGED <<machines, left>> /\ Elsewhere

(* Mutant: no unique index on the key.                                     *)
Insert_NoIndex(c) ==
  /\ Serving(c, "insert")
  /\ To(c, "provision")
  /\ made' = [made EXCEPT ![calls[c].machine][calls[c].row] = @ + 1]
  /\ UNCHANGED <<agent, given, git, failures, left>> /\ Elsewhere

(* create_task: git is asked for the base branch first, which can fail,    *)
(* and the unique index refuses a key used in the meantime.  The id is one *)
(* more than the highest in use: that of an earlier attempt again, or not, *)
(* as the other tasks of the machine have it.                              *)
Insert(c) ==
  /\ Serving(c, "insert")
  /\ LET m == calls[c].machine  r == calls[c].row IN
     \/ /\ Key(c) = 0
        /\ To(c, "provision") /\ FailsNot
        /\ made' = [made EXCEPT ![m][r] = @ + 1]
        /\ \E i \in Id : given' = [given EXCEPT ![m][r] = i]
     \/ Key(c) > 0 /\ To(c, "refused") /\ FailsNot /\ UNCHANGED <<made, given>>
     \/ To(c, "refused") /\ Fails /\ UNCHANGED <<made, given>>
  /\ UNCHANGED <<agent, git, left>> /\ Elsewhere

(* provision: git makes the branch and the worktree, and it is attached to *)
(* the task.  Git refuses a branch that is there; what else fails may      *)
(* leave the branch, or both.                                              *)
Provision(c) ==
  /\ Serving(c, "provision")
  /\ LET m == calls[c].machine  r == calls[c].row IN
     \/ Tried(c) # "nothing" /\ To(c, "rollback") /\ FailsNot /\ UNCHANGED git
     \/ Tried(c) = "nothing" /\ To(c, "created") /\ FailsNot /\ Leaves(m, r, "worktree")
     \/ /\ Tried(c) = "nothing" /\ To(c, "rollback") /\ Fails
        /\ \E what \in Tree : Leaves(m, r, what)
  /\ UNCHANGED <<made, agent, given, left>> /\ Elsewhere

(* What roll_back can leave in the repository: nothing of a worktree that  *)
(* is there, unless git fails; a branch without one is not looked for.     *)
Removed(c) ==
  LET m == calls[c].machine  r == calls[c].row IN
  \/ Tried(c) # "worktree" /\ UNCHANGED git /\ FailsNot
  \/ Tried(c) = "worktree" /\ Leaves(m, r, "nothing") /\ FailsNot
  \/ Tried(c) = "worktree" /\ Fails /\ \E what \in {"worktree", "branch"} : Leaves(m, r, what)

(* roll_back: what was provisioned is removed, then the row, though a      *)
(* retry may have found it and started its agent in the meantime; when the *)
(* store fails that is only logged, and the row stays.                     *)
RollBack(c) ==
  /\ Serving(c, "rollback")
  /\ LET m == calls[c].machine  r == calls[c].row IN
     \/ /\ Removed(c)
        /\ made' = [made EXCEPT ![m][r] = 0]
        /\ agent' = [agent EXCEPT ![m][r] = IF @ = "running" THEN "ended" ELSE @]
        /\ UNCHANGED left
     \/ /\ Fails
        /\ IF Tried(c) = "worktree" THEN Leaves(m, r, "nothing") ELSE UNCHANGED git
        /\ left' = IF m = Hub THEN left \cup {r} ELSE left
        /\ UNCHANGED <<made, agent>>
  /\ To(c, "refused")
  /\ UNCHANGED given /\ Elsewhere

(* Mutant: a start answers before the agent is up.                         *)
Start_Early(c) ==
  /\ Serving(c, "start")
  /\ To(c, "started")
  /\ UNCHANGED <<machines, failures, left>> /\ Elsewhere

(* start: a task that is there and does not run is started (Sessions).     *)
Start(c) ==
  /\ Serving(c, "start")
  /\ LET m == calls[c].machine  r == calls[c].row IN
     \/ /\ Key(c) > 0 /\ agent[m][r] # "running"
        /\ agent' = [agent EXCEPT ![m][r] = "running"]
        /\ To(c, "started") /\ FailsNot
     \/ /\ Key(c) > 0 /\ agent[m][r] = "running"
        /\ To(c, "running") /\ FailsNot /\ UNCHANGED agent
     \/ Key(c) = 0 /\ To(c, "refused") /\ FailsNot /\ UNCHANGED agent
     \/ To(c, "refused") /\ Fails /\ UNCHANGED agent
  /\ UNCHANGED <<made, given, git, left>> /\ Elsewhere

(* A call nobody waits for is dropped where it awaits, or has answered.    *)
Drop(c) ==
  /\ calls[c].step # "free" /\ ~calls[c].heard
  /\ Hang(c)
  /\ UNCHANGED <<queue, machines, hub, failures, past>>

-----------------------------------------------------------------------------
(* The world                                                               *)

AgentEnds(m, r) ==
  /\ agent[m][r] = "running"
  /\ agent' = [agent EXCEPT ![m][r] = "ended"]
  /\ UNCHANGED <<queue, made, given, git, hub, calls, failures, past>>

(* A daemon dies and starts again: its calls are gone, tasks and agents    *)
(* stay.  The hub's forgets its pass, with it that a task it made has not  *)
(* been started yet; another's breaks the connection.                      *)
Crash(m) ==
  /\ crashes < MaxCrashes
  /\ crashes' = crashes + 1
  /\ IF m = Hub
     THEN /\ hub' = Asleep
          /\ left' = left \cup {r \in Row : made[Hub][r] > 0 /\ agent[Hub][r] = "none"}
          /\ calls' = [c \in Call |-> IF calls[c].machine = Hub THEN NoCall
                                      ELSE [calls[c] EXCEPT !.heard = FALSE]]
     ELSE /\ UNCHANGED <<hub, left>>
          /\ calls' = [c \in Call |-> IF calls[c].machine # m THEN calls[c]
                                      ELSE IF calls[c].heard
                                      THEN [calls[c] EXCEPT !.step = "refused"]
                                      ELSE NoCall]
  /\ UNCHANGED <<queue, machines, failures>>

-----------------------------------------------------------------------------
Init ==
  /\ queue = [r \in Row |-> [state |-> "none", target |-> Anywhere, machine |-> 0]]
  /\ made = [m \in Machine |-> [r \in Row |-> 0]]
  /\ agent = [m \in Machine |-> [r \in Row |-> "none"]]
  /\ given = [m \in Machine |-> [r \in Row |-> CHOOSE i \in Id : TRUE]]
  /\ git = [m \in Machine |-> [r \in Row |-> [i \in Id |-> "nothing"]]]
  /\ hub = Asleep
  /\ calls = [c \in Call |-> NoCall]
  /\ failures = 0
  /\ crashes = 0
  /\ left = {}

Pass == \/ Wake \/ Ask \/ Place \/ PassDone \/ Created \/ Started
        \/ Refused \/ Undo \/ GiveUp \/ MarkDispatched

Serve(c) == Lookup(c) \/ Insert(c) \/ Provision(c) \/ RollBack(c) \/ Start(c)

Next ==
  \/ \E r \in Row : Cancel(r) \/ \E target \in Target : Enqueue(r, target)
  \/ Pass
  \/ \E c \in Call : Serve(c) \/ Drop(c)
  \/ \E m \in Machine : Crash(m) \/ \E r \in Row : AgentEnds(m, r)

Spec == Init /\ [][Next]_vars

(* The loop sleeps a bounded time and every request to another machine is  *)
(* given up after one; handlers run, and abandoned ones end.               *)
FairSpec ==
  /\ Spec
  /\ WF_vars(Pass)
  /\ \A c \in Call : WF_vars(Serve(c)) /\ WF_vars(Drop(c))

-----------------------------------------------------------------------------
(* What holds                                                              *)

(* However a retry overlaps an earlier attempt that is still being carried *)
(* out, a machine makes one task for a row: the key is unique there.       *)
OneTaskPerKey == \A m \in Machine, r \in Row : made[m][r] <= 1

(* A row that names its machine leaves nothing on any other, whatever      *)
(* fails: with OneTaskPerKey, such a row is dispatched exactly once.       *)
NamedStaysPut == \A r \in Row, m \in Machine :
  queue[r].target \notin {m, Anywhere} => made[m][r] = 0 /\ agent[m][r] = "none"

(* What the queue says was dispatched was: its agent was started on the    *)
(* machine recorded.  The hub's own daemon is wrong about that exactly     *)
(* when it died between creating the task and starting it, or could not    *)
(* delete it again after a failure; the next pass finds the task there and *)
(* takes it to have been started (create_and_start).                       *)
DispatchedWasStarted == \A r \in Row : queue[r].state = "dispatched" =>
  \/ agent[queue[r].machine][r] # "none"
  \/ queue[r].machine = Hub /\ r \in left

(* A row that was cancelled stays cancelled, and one that was dispatched   *)
(* keeps the machine it was dispatched to, whichever stale pass comes      *)
(* late (both updates ask for `state = 'queued'`).                         *)
PlacedIsFinal == [][\A r \in Row :
  queue[r].state \in {"dispatched", "cancelled"} => queue'[r] = queue[r]]_vars

(* A branch an earlier attempt left on a machine the row may go to, under  *)
(* a name the next may have again.                                         *)
BranchInTheWay(r) == \E m \in HasProject, i \in Id :
  queue[r].target \in {m, Anywhere} /\ git[m][r][i] = "branch"

(* A row some machine can take does not stay queued for ever once nothing  *)
(* fails any more: it is retried, by the next pass and under the same key. *)
(* Only a branch that an attempt left behind without its worktree can hold *)
(* it up for good: git refuses it, and nothing removes it.                 *)
QueueDrains == \A r \in Row :
  (queue[r].state = "queued" /\ queue[r].target \in HasProject \cup {Anywhere})
    ~> (queue[r].state # "queued" \/ BranchInTheWay(r))

-----------------------------------------------------------------------------
(* Why it holds: the inductive invariant                                   *)

(* A row the hub or a call deals with was put on the queue, for machine m  *)
(* or for any.                                                             *)
RowOK(r, m) == r \in Row /\ queue[r].state # "none" /\ queue[r].target \in {m, Anywhere}

(* Nothing has been done for a row that is not on the queue yet.           *)
UntouchedOK == \A r \in Row : queue[r].state = "none" =>
  \A m \in Machine : made[m][r] = 0 /\ agent[m][r] = "none"

(* A call is about a row its machine may take, the hub waits for all calls *)
(* of its own daemon, and an agent that was said to run was started.       *)
CallsOK == \A c \in Call : calls[c].step # "free" =>
  /\ RowOK(calls[c].row, calls[c].machine)
  /\ calls[c].machine = Hub => calls[c].heard
  /\ calls[c].step \in {"started", "running"} => agent[calls[c].machine][calls[c].row] # "none"

CreateSteps == {"lookup", "insert", "provision", "rollback", "found", "created", "refused"}
StartSteps  == {"start", "started", "running", "refused"}

(* The hub waits for a call of the row and machine it is at.               *)
HubOK ==
  /\ \A r \in hub.todo : queue[r].state # "none"
  /\ hub.step \in {"create", "start", "mark"} => RowOK(hub.row, hub.machine)
  /\ hub.step = "create" => calls[hub.call].step \in CreateSteps
  /\ hub.step = "start" => calls[hub.call].step \in StartSteps
  /\ hub.call # 0 => calls[hub.call].machine = hub.machine /\ calls[hub.call].row = hub.row
  /\ hub.step = "mark" => \/ agent[hub.machine][hub.row] # "none"
                          \/ hub.machine = Hub /\ hub.row \in left

(* But for those it left, the hub's own daemon has no task whose agent was *)
(* never started but the one being created or started now.                 *)
OwnTaskOK ==
  /\ hub.machine = Hub /\ hub.step = "create" /\ calls[hub.call].step = "found" =>
       made[Hub][hub.row] > 0
  /\ \A r \in Row \ left : made[Hub][r] > 0 /\ agent[Hub][r] = "none" =>
       /\ hub.machine = Hub /\ hub.row = r
       /\ \/ hub.step = "start"
          \/ hub.step = "create" /\ calls[hub.call].step \in {"provision", "rollback", "created"}

(* Everything the proofs maintain.                                         *)
IInv == /\ TypeOK /\ UntouchedOK /\ CallsOK /\ HubOK /\ OwnTaskOK
        /\ OneTaskPerKey /\ NamedStaysPut /\ DispatchedWasStarted
=============================================================================
