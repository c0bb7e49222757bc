------------------------------ MODULE Sessions ------------------------------
(***************************************************************************)
(* The session manager of the daemon (crates/forge-daemon/src/sessions.rs) *)
(* with the rows it keeps in SQLite, the tmux sessions it drives, the      *)
(* single poller that watches them, the HTTP requests that start, stop and *)
(* restart them, and the daemon's crashes and restarts.                    *)
(*                                                                         *)
(* One step is one store transaction (`Store::with` holds the connection's *)
(* mutex) or one answer of tmux.  Between two steps of one process any     *)
(* other process may run: handlers are futures on a multi-threaded tokio   *)
(* runtime, and no lock is held across an await.                           *)
(***************************************************************************)
EXTENDS Integers

CONSTANTS
  Task,          (* tasks; a task's tmux session is named forge-<task id>  *)
  Request,       (* HTTP requests that can be in flight at the same time   *)
  Poller,        (* the watch loop; also runs the reconciliation at boot   *)
  MaxSessions,   (* bound: rows the sessions table may ever hold           *)
  MaxCrashes,    (* bound: crashes of the daemon                           *)
  Readings,      (* the statuses a screen can be classified as             *)
  Kinds,         (* the requests clients make                              *)
  Readable,      (* tasks whose adapter is loaded                          *)
  Prefix,        (* pairs of tasks, the first's name a prefix of the other's *)
  TmuxFails,     (* whether a tmux command may fail or time out            *)
  ClientsLeave,  (* whether a client may disconnect before its answer      *)
  NoTask, NoSession, NoTracker

Status    == {"idle", "working", "waiting", "error", "stopped"}
SessionId == 1 .. MaxSessions
Proc      == Request \cup {Poller}

ASSUME SessionsAssumption ==
  /\ Poller \notin Request
  /\ MaxSessions \in Nat
  /\ MaxCrashes \in Nat
  /\ Readings \subseteq Status \ {"stopped"}
  /\ Kinds \subseteq {"start", "stop", "restart"}
  /\ Readable \subseteq Task
  /\ Prefix \subseteq Task \X Task
  /\ TmuxFails \in BOOLEAN
  /\ ClientsLeave \in BOOLEAN
  /\ NoTask \notin Task
  /\ NoTracker \notin Status
  /\ NoSession \notin [owner : SessionId, pane : {"shell", "agent", "exited", "failed"}]

VARIABLES
  rows,        (* the sessions table                                       *)
  lastId,      (* the largest id in it                                     *)
  taskStatus,  (* tasks.status                                             *)
  tmux,        (* the tmux session of each task's name                     *)
  trackers,    (* what the poller believes of each session; not persisted  *)
  daemon,      (* "down", "booting" (reconciling before it serves) or "up" *)
  crashes,     (* how many crashes there have been                         *)
  pc,          (* where each process is                                    *)
  job,         (* the locals of each process                               *)
  listed,      (* the poller's answer from `list`                          *)
  todo,        (* the poller's snapshot of live rows still to be handled   *)
  started,     (* SessionStarted events published, per session             *)
  stopped      (* SessionStopped events published, per session             *)

store == <<rows, lastId, taskStatus>>
bus   == <<started, stopped>>
vars  == <<store, tmux, trackers, daemon, crashes, pc, job, listed, todo, bus>>

-----------------------------------------------------------------------------
(* Types                                                                   *)

Row  == [task : Task \cup {NoTask}, state : {"free", "live", "ended"},
         status : Status]
Pane == [owner : SessionId, pane : {"shell", "agent", "exited", "failed"}]

(* `why` says what a process is in the middle of: it names the call chain  *)
(* that shares the steps Close, Mirror and Announce.                       *)
Why == {"start", "requested", "exited", "vanished", "reading"}
Job == [task : Task \cup {NoTask}, id : SessionId \cup {0}, status : Status,
        why : Why, restart : BOOLEAN]

NoJob   == [task |-> NoTask, id |-> 0, status |-> "stopped", why |-> "requested",
            restart |-> FALSE]
FreeRow == [task |-> NoTask, state |-> "free", status |-> "stopped"]

(* The steps at which a request awaits tmux, and may be dropped with its   *)
(* connection.                                                             *)
AwaitingTmux == {"probe", "create", "launch", "teardown", "record", "exists", "kill"}
RequestSteps == AwaitingTmux \cup {"idle", "insert", "again", "find", "undo",
                                   "close", "mirror", "greet", "announce"}
PollerSteps  == {"idle", "list", "rows", "match", "scan", "next", "pane",
                 "screen", "apply", "tell", "alert", "reap", "report",
                 "close", "mirror", "announce"}
Step == RequestSteps \cup PollerSteps

Snapshot == [id : SessionId, status : Status]

TypeOK ==
  /\ rows \in [SessionId -> Row]
  /\ lastId \in 0 .. MaxSessions
  /\ taskStatus \in [Task -> Status]
  /\ tmux \in [Task -> Pane \cup {NoSession}]
  /\ trackers \in [SessionId -> Status \cup {NoTracker}]
  /\ daemon \in {"down", "booting", "up"}
  /\ crashes \in 0 .. MaxCrashes
  /\ pc \in [Proc -> Step]
  /\ job \in [Proc -> Job]
  /\ listed \subseteq Task
  /\ todo \subseteq Snapshot
  /\ started \in [SessionId -> Nat]
  /\ stopped \in [SessionId -> Nat]

-----------------------------------------------------------------------------
(* Reading the state                                                       *)

Live(s)       == rows[s].state = "live"
LiveRowsOf(t) == {s \in SessionId : Live(s) /\ rows[s].task = t}
IsDead(pane)  == pane \in {"exited", "failed"}
EndedAs(pane) == IF pane = "failed" THEN "error" ELSE "stopped"

(* What tmux takes `-t forge-<id>` to mean: the session of that name, or,  *)
(* while there is none, the only one whose name begins with it: forge-1    *)
(* finds forge-12.  `new-session -s` and the names `list` answers are      *)
(* exact.                                                                  *)
Target(t) ==
  LET near == {u \in Task : <<t, u>> \in Prefix /\ tmux[u] # NoSession}
  IN  IF tmux[t] = NoSession /\ \E u \in Task : near = {u}
      THEN CHOOSE u \in near : TRUE ELSE t

-----------------------------------------------------------------------------
(* Moving a process                                                        *)

Go(p, step)         == pc' = [pc EXCEPT ![p] = step]
GoWith(p, step, j)  == Go(p, step) /\ job' = [job EXCEPT ![p] = j]
Finish(p)           == GoWith(p, "idle", NoJob)
At(p, step)         == daemon # "down" /\ pc[p] = step
KeepPoll            == UNCHANGED <<listed, todo>>
KeepDaemon          == UNCHANGED <<daemon, crashes>>

(* What a request does once its session is over: `restart` is a stop and   *)
(* then a start, anything else is done.                                    *)
AfterStop(r) == IF job[r].restart
                THEN GoWith(r, "probe", [job[r] EXCEPT !.restart = FALSE, !.why = "start"])
                ELSE Finish(r)

(* Where a process goes once `close` has returned: the poller reports how  *)
(* an agent exited, whoever closed its row, or goes on reconciling.        *)
AfterClose(p) ==
  IF p # Poller THEN AfterStop(p)
  ELSE IF job[p].why = "exited" THEN Go(p, "report") /\ UNCHANGED job
  ELSE GoWith(p, "match", NoJob)

-----------------------------------------------------------------------------
(* Requests                                                                *)

(* A client asks for a session of t to be started, stopped or restarted.   *)
Begin(r, t, kind) ==
  /\ daemon = "up"
  /\ pc[r] = "idle"
  /\ kind \in Kinds
  /\ GoWith(r, CASE kind = "start" -> "probe" [] kind = "stop" -> "find" [] OTHER -> "again",
            [NoJob EXCEPT !.task = t, !.restart = (kind = "restart"),
                          !.why = IF kind = "start" THEN "start" ELSE "requested"])
  /\ UNCHANGED <<store, tmux, trackers, bus>> /\ KeepDaemon /\ KeepPoll

(* start: a session tmux finds by that name means the task is already      *)
(* running.                                                                *)
Probe(r) ==
  /\ At(r, "probe")
  /\ \/ tmux[Target(job[r].task)] = NoSession /\ Go(r, "insert") /\ UNCHANGED job
     \/ tmux[Target(job[r].task)] # NoSession /\ Finish(r)
     \/ TmuxFails /\ Finish(r)
  /\ UNCHANGED <<store, tmux, trackers, bus>> /\ KeepDaemon /\ KeepPoll

(* Mutant: neither the look-up nor the index on live rows.                 *)
Insert_Unchecked(r) ==
  /\ At(r, "insert")
  /\ IF lastId = MaxSessions
     THEN Finish(r) /\ UNCHANGED <<rows, lastId>>
     ELSE /\ lastId' = lastId + 1
          /\ rows' = [rows EXCEPT ![lastId + 1] =
                        [task |-> job[r].task, state |-> "live", status |-> "idle"]]
          /\ GoWith(r, "create", [job[r] EXCEPT !.id = lastId + 1, !.status = "idle"])
  /\ UNCHANGED <<taskStatus, tmux, trackers, bus>> /\ KeepDaemon /\ KeepPoll

(* start: look for a live row, then insert one.  The partial unique index  *)
(* on live rows refuses what a concurrent insert slips past the look-up,   *)
(* with the same answer.                                                   *)
Insert(r) ==
  /\ At(r, "insert")
  /\ IF LiveRowsOf(job[r].task) # {} \/ lastId = MaxSessions
     THEN Finish(r) /\ UNCHANGED <<rows, lastId>>
     ELSE /\ lastId' = lastId + 1
          /\ rows' = [rows EXCEPT ![lastId + 1] =
                        [task |-> job[r].task, state |-> "live", status |-> "idle"]]
          /\ GoWith(r, "create", [job[r] EXCEPT !.id = lastId + 1, !.status = "idle"])
  /\ UNCHANGED <<taskStatus, tmux, trackers, bus>> /\ KeepDaemon /\ KeepPoll

(* start: `tmux new-session` fails when the name is taken.                 *)
Create(r) ==
  /\ At(r, "create")
  /\ \/ /\ tmux[job[r].task] = NoSession
        /\ tmux' = [tmux EXCEPT ![job[r].task] = [owner |-> job[r].id, pane |-> "shell"]]
        /\ Go(r, "launch")
     \/ /\ tmux[job[r].task] # NoSession \/ TmuxFails
        /\ Go(r, "undo")
        /\ UNCHANGED tmux
  /\ UNCHANGED <<store, trackers, bus, job>> /\ KeepDaemon /\ KeepPoll

(* start: set remain-on-exit and respawn the pane with the agent.  Every   *)
(* command names the session, whoever's it is by then (Target).            *)
Launch(r) ==
  /\ At(r, "launch")
  /\ \/ /\ tmux[Target(job[r].task)] # NoSession
        /\ tmux' = [tmux EXCEPT ![Target(job[r].task)].pane = "agent"]
        /\ Go(r, "record")
     \/ /\ tmux[Target(job[r].task)] = NoSession \/ TmuxFails
        /\ Go(r, "teardown")
        /\ UNCHANGED tmux
  /\ UNCHANGED <<store, trackers, bus, job>> /\ KeepDaemon /\ KeepPoll

(* start: take a half-built session down again; failing to is only logged. *)
Teardown(r) ==
  /\ At(r, "teardown")
  /\ \/ tmux' = [tmux EXCEPT ![Target(job[r].task)] = NoSession]
     \/ TmuxFails /\ UNCHANGED tmux
  /\ Go(r, "undo")
  /\ UNCHANGED <<store, trackers, bus, job>> /\ KeepDaemon /\ KeepPoll

(* close_session: only a live row is ended, and the caller is told.        *)
EndRow(s, status) ==
  rows' = [rows EXCEPT ![s] = IF Live(s)
                              THEN [@ EXCEPT !.state = "ended", !.status = status]
                              ELSE @]

(* start: the row of a session that could not be created is closed, and    *)
(* nothing is announced.                                                   *)
Undo(r) ==
  /\ At(r, "undo")
  /\ EndRow(job[r].id, "error")
  /\ Finish(r)
  /\ UNCHANGED <<lastId, taskStatus, tmux, trackers, bus>> /\ KeepDaemon /\ KeepPoll

(* start: record_pane asks tmux for the pid, whose answer does not matter  *)
(* here, and another process may run while it waits.                       *)
Record(r) ==
  /\ At(r, "record")
  /\ Go(r, "mirror")
  /\ UNCHANGED <<store, tmux, trackers, bus, job>> /\ KeepDaemon /\ KeepPoll

(* start: SessionStarted.                                                  *)
Greet(r) ==
  /\ At(r, "greet")
  /\ started' = [started EXCEPT ![job[r].id] = @ + 1]
  /\ Finish(r)
  /\ UNCHANGED <<store, tmux, trackers, stopped>> /\ KeepDaemon /\ KeepPoll

(* restart: stop what runs, if anything does.                              *)
Again(r) ==
  /\ At(r, "again")
  /\ IF LiveRowsOf(job[r].task) # {}
     THEN Go(r, "find") /\ UNCHANGED job
     ELSE AfterStop(r)
  /\ UNCHANGED <<store, tmux, trackers, bus>> /\ KeepDaemon /\ KeepPoll

(* stop: find the live row; without one the task is not running, which     *)
(* ends a restart too.                                                     *)
Find(r) ==
  /\ At(r, "find")
  /\ \/ \E s \in LiveRowsOf(job[r].task) :
          GoWith(r, "exists", [job[r] EXCEPT !.id = s, !.status = "stopped"])
     \/ LiveRowsOf(job[r].task) = {} /\ Finish(r)
  /\ UNCHANGED <<store, tmux, trackers, bus>> /\ KeepDaemon /\ KeepPoll

(* stop: a session that is there is interrupted and given its grace; a     *)
(* runtime that cannot answer does not keep the row open.                  *)
Exists(r) ==
  /\ At(r, "exists")
  /\ \/ tmux[Target(job[r].task)] # NoSession /\ Go(r, "kill")
     \/ tmux[Target(job[r].task)] = NoSession /\ Go(r, "close")
     \/ TmuxFails /\ Go(r, "close")
  /\ UNCHANGED <<store, tmux, trackers, bus, job>> /\ KeepDaemon /\ KeepPoll

(* Mutant: a kill that fails still closes the row, and stops there.        *)
Kill_ClosesAnyway(r) ==
  /\ At(r, "kill")
  /\ \/ /\ tmux' = [tmux EXCEPT ![Target(job[r].task)] = NoSession]
        /\ Go(r, "close") /\ UNCHANGED <<job, rows>>
     \/ TmuxFails /\ Finish(r) /\ UNCHANGED tmux /\ EndRow(job[r].id, "stopped")
  /\ UNCHANGED <<lastId, taskStatus, trackers, bus>> /\ KeepDaemon /\ KeepPoll

(* stop: kill the session of that name once the grace is over.  A kill     *)
(* that fails leaves the row open and fails the request.                   *)
Kill(r) ==
  /\ At(r, "kill")
  /\ \/ /\ tmux' = [tmux EXCEPT ![Target(job[r].task)] = NoSession]
        /\ Go(r, "close") /\ UNCHANGED job
     \/ TmuxFails /\ Finish(r) /\ UNCHANGED tmux
  /\ UNCHANGED <<store, trackers, bus>> /\ KeepDaemon /\ KeepPoll

(* The client's connection goes away: the handler is dropped where it      *)
(* awaits tmux, and a command it had sent may have been carried out.       *)
Abandon(r) ==
  /\ ClientsLeave /\ daemon # "down" /\ pc[r] \in AwaitingTmux
  /\ \/ UNCHANGED tmux
     \/ /\ pc[r] \in {"kill", "teardown"}
        /\ tmux' = [tmux EXCEPT ![Target(job[r].task)] = NoSession]
  /\ Finish(r)
  /\ UNCHANGED <<store, trackers, bus>> /\ KeepDaemon /\ KeepPoll

-----------------------------------------------------------------------------
(* Closing a session: shared by stop, reconcile and the reader             *)

(* Mutant: the caller does not ask whether it closed the row.              *)
Close_Regardless(p) ==
  /\ At(p, "close")
  /\ EndRow(job[p].id, job[p].status)
  /\ Go(p, "mirror")
  /\ UNCHANGED <<lastId, taskStatus, tmux, trackers, job, bus>> /\ KeepDaemon /\ KeepPoll

Close(p) ==
  /\ At(p, "close")
  /\ EndRow(job[p].id, job[p].status)
  /\ IF Live(job[p].id)
     THEN Go(p, "mirror") /\ UNCHANGED <<job, trackers>>
     ELSE /\ AfterClose(p)
          /\ trackers' = [trackers EXCEPT ![job[p].id] = NoTracker]
  /\ UNCHANGED <<lastId, taskStatus, tmux, bus>> /\ KeepDaemon /\ KeepPoll

(* set_task_status: unconditional, whatever the session has become.        *)
Mirror(p) ==
  /\ At(p, "mirror")
  /\ taskStatus' = [taskStatus EXCEPT ![job[p].task] = job[p].status]
  /\ Go(p, CASE job[p].why = "start"   -> "greet"
             [] job[p].why = "reading" -> "tell"
             [] OTHER                  -> "announce")
  /\ UNCHANGED <<rows, lastId, tmux, trackers, bus, job>> /\ KeepDaemon /\ KeepPoll

(* SessionStopped, and the tracker is forgotten.                           *)
Announce(p) ==
  /\ At(p, "announce")
  /\ stopped' = [stopped EXCEPT ![job[p].id] = @ + 1]
  /\ trackers' = [trackers EXCEPT ![job[p].id] = NoTracker]
  /\ AfterClose(p)
  /\ UNCHANGED <<store, tmux, started>> /\ KeepDaemon /\ KeepPoll

-----------------------------------------------------------------------------
(* The poller: reconcile                                                   *)

LiveSnapshot == {[id |-> s, status |-> rows[s].status] : s \in {x \in SessionId : Live(x)}}
Oldest(e)    == e \in todo /\ \A f \in todo : e.id <= f.id

(* Mutant: a pane held by remain-on-exit is not listed.                    *)
List_RunningOnly ==
  /\ At(Poller, "list")
  /\ listed' = {t \in Task : tmux[t] # NoSession /\ ~IsDead(tmux[t].pane)}
  /\ Go(Poller, "rows")
  /\ UNCHANGED <<store, tmux, trackers, bus, job, todo, daemon, crashes>>

(* `list` reads any refusal of tmux as "no sessions"; a command that       *)
(* cannot be run at all gives up the pass.                                 *)
List ==
  /\ At(Poller, "list")
  /\ \/ listed' = {t \in Task : tmux[t] # NoSession} /\ Go(Poller, "rows") /\ UNCHANGED daemon
     \/ TmuxFails /\ listed' = {} /\ Go(Poller, "rows") /\ UNCHANGED daemon
     \/ TmuxFails /\ listed' = {} /\ Go(Poller, "list") /\ daemon' = "up"
  /\ UNCHANGED <<store, tmux, trackers, bus, job, todo, crashes>>

Rows ==
  /\ At(Poller, "rows")
  /\ todo' = LiveSnapshot
  /\ Go(Poller, "match")
  /\ UNCHANGED <<store, tmux, trackers, bus, job, listed>> /\ KeepDaemon

(* Each live row: adopt it if its name was listed, close it otherwise.     *)
Match ==
  /\ At(Poller, "match")
  /\ \E e \in todo :
       /\ Oldest(e)
       /\ todo' = todo \ {e}
       /\ IF rows[e.id].task \in listed
          THEN UNCHANGED <<pc, job>>
          ELSE GoWith(Poller, "close", [NoJob EXCEPT
                 !.task = rows[e.id].task, !.id = e.id, !.why = "vanished"])
  /\ UNCHANGED <<store, tmux, trackers, bus, listed>> /\ KeepDaemon

(* Mutant: the sessions are reconciled at boot and not watched after it.   *)
Reconciled_NoWatch ==
  /\ At(Poller, "match")
  /\ todo = {}
  /\ listed' = {}
  /\ daemon' = "up"
  /\ Go(Poller, "idle")
  /\ UNCHANGED <<store, tmux, trackers, bus, job, todo, crashes>>

(* The boot's reconciliation ends here and the daemon serves; a poll goes  *)
(* on to read the sessions.                                                *)
Reconciled ==
  /\ At(Poller, "match")
  /\ todo = {}
  /\ listed' = {}
  /\ daemon' = "up"
  /\ Go(Poller, IF daemon = "booting" THEN "list" ELSE "scan")
  /\ UNCHANGED <<store, tmux, trackers, bus, job, todo, crashes>>

-----------------------------------------------------------------------------
(* The poller: read every live session                                     *)

Scan ==
  /\ At(Poller, "scan")
  /\ todo' = LiveSnapshot
  /\ Go(Poller, "next")
  /\ UNCHANGED <<store, tmux, trackers, bus, job, listed>> /\ KeepDaemon

(* Mutant: the polls after the first do not reconcile.                     *)
PickNext_NoReconcile ==
  /\ At(Poller, "next")
  /\ \/ \E e \in todo :
          /\ Oldest(e)
          /\ todo' = todo \ {e}
          /\ GoWith(Poller, "pane",
                    [NoJob EXCEPT !.task = rows[e.id].task, !.id = e.id,
                                  !.status = e.status, !.why = "reading"])
     \/ todo = {} /\ Go(Poller, "scan") /\ UNCHANGED <<todo, job>>
  /\ UNCHANGED <<store, tmux, trackers, bus, listed>> /\ KeepDaemon

(* `status` of the job holds the snapshot's status until it is read.       *)
PickNext ==
  /\ At(Poller, "next")
  /\ \/ \E e \in todo :
          /\ Oldest(e)
          /\ todo' = todo \ {e}
          /\ GoWith(Poller, "pane",
                    [NoJob EXCEPT !.task = rows[e.id].task, !.id = e.id,
                                  !.status = e.status, !.why = "reading"])
     \/ todo = {} /\ Go(Poller, "list") /\ UNCHANGED <<todo, job>>
  /\ UNCHANGED <<store, tmux, trackers, bus, listed>> /\ KeepDaemon

(* Mutant: a tracker always starts from idle.                              *)
Belief_FromIdle == IF trackers[job[Poller].id] = NoTracker THEN "idle"
                                                          ELSE trackers[job[Poller].id]

(* The belief before a reading: a tracker is made from the snapshot.       *)
Belief == IF trackers[job[Poller].id] = NoTracker THEN job[Poller].status
                                                  ELSE trackers[job[Poller].id]

Believe(status) == trackers' = [trackers EXCEPT ![job[Poller].id] = status]

(* pane_state, and the verdict on a pane whose process has gone.  A task   *)
(* without its adapter is not read at all.                                 *)
PaneState ==
  /\ At(Poller, "pane")
  /\ LET there == tmux[Target(job[Poller].task)] IN
     \/ /\ there = NoSession \/ job[Poller].task \notin Readable \/ TmuxFails
        /\ GoWith(Poller, "next", NoJob)
        /\ UNCHANGED trackers
     \/ /\ there # NoSession /\ job[Poller].task \in Readable
        /\ IF IsDead(there.pane)
           THEN /\ Believe(EndedAs(there.pane))
                /\ GoWith(Poller, "reap", [job[Poller] EXCEPT
                     !.why = "exited", !.status = EndedAs(there.pane)])
           ELSE Go(Poller, "screen") /\ UNCHANGED <<job, trackers>>
  /\ UNCHANGED <<store, tmux, bus>> /\ KeepDaemon /\ KeepPoll

(* The screen is captured and the tracker decides: it keeps its belief,    *)
(* decays to idle, or settles on what it recognised (module Tracker).      *)
Screen ==
  /\ At(Poller, "screen")
  /\ \E seen \in Readings \cup {"idle", Belief} :
       /\ Believe(seen)
       /\ IF seen = Belief
          THEN GoWith(Poller, "next", NoJob)
          ELSE GoWith(Poller, "apply", [job[Poller] EXCEPT !.status = seen])
  /\ UNCHANGED <<store, tmux, bus>> /\ KeepDaemon /\ KeepPoll

(* act_on: set_session_status touches a live row only.                     *)
Apply ==
  /\ At(Poller, "apply")
  /\ rows' = [rows EXCEPT ![job[Poller].id].status =
                IF Live(job[Poller].id) THEN job[Poller].status ELSE @]
  /\ Go(Poller, "mirror")
  /\ UNCHANGED <<lastId, taskStatus, tmux, trackers, bus, job>> /\ KeepDaemon /\ KeepPoll

(* act_on: StatusChanged.                                                  *)
Tell ==
  /\ At(Poller, "tell")
  /\ IF job[Poller].status \in {"waiting", "error"}
     THEN Go(Poller, "alert") /\ UNCHANGED job
     ELSE GoWith(Poller, "next", NoJob)
  /\ UNCHANGED <<store, tmux, trackers, bus>> /\ KeepDaemon /\ KeepPoll

(* act_on: AgentWaiting or AgentError, once the screen has been captured   *)
(* again for its text.                                                     *)
Alert ==
  /\ At(Poller, "alert")
  /\ GoWith(Poller, "next", NoJob)
  /\ UNCHANGED <<store, tmux, trackers, bus>> /\ KeepDaemon /\ KeepPoll

(* read_session: the agent's process is gone, so its tmux session is       *)
(* removed, by name; failing to is only logged.                            *)
Reap ==
  /\ At(Poller, "reap")
  /\ \/ tmux' = [tmux EXCEPT ![Target(job[Poller].task)] = NoSession]
     \/ TmuxFails /\ UNCHANGED tmux
  /\ Go(Poller, "close")
  /\ UNCHANGED <<store, trackers, bus, job>> /\ KeepDaemon /\ KeepPoll

(* report_ending: StatusChanged, and AgentError or TaskFinished.           *)
Report ==
  /\ At(Poller, "report")
  /\ GoWith(Poller, "next", NoJob)
  /\ UNCHANGED <<store, tmux, trackers, bus>> /\ KeepDaemon /\ KeepPoll

-----------------------------------------------------------------------------
(* The world outside the daemon                                            *)

(* An agent's process ends; remain-on-exit keeps its pane.                 *)
AgentExits(t) ==
  /\ tmux[t] # NoSession /\ tmux[t].pane = "agent"
  /\ \E how \in {"exited", "failed"} : tmux' = [tmux EXCEPT ![t].pane = how]
  /\ UNCHANGED <<store, trackers, pc, job, bus>> /\ KeepDaemon /\ KeepPoll

(* A person runs `tmux kill-session`, or the tmux server goes.             *)
KilledByHand(t) ==
  /\ tmux[t] # NoSession
  /\ tmux' = [tmux EXCEPT ![t] = NoSession]
  /\ UNCHANGED <<store, trackers, pc, job, bus>> /\ KeepDaemon /\ KeepPoll

(* The daemon dies: rows and tmux sessions stay, everything else is lost.  *)
Crash ==
  /\ daemon # "down" /\ crashes < MaxCrashes
  /\ daemon' = "down"
  /\ crashes' = crashes + 1
  /\ pc' = [p \in Proc |-> "idle"]
  /\ job' = [p \in Proc |-> NoJob]
  /\ trackers' = [s \in SessionId |-> NoTracker]
  /\ listed' = {} /\ todo' = {}
  /\ UNCHANGED <<store, tmux, bus>>

Boot ==
  /\ daemon = "down"
  /\ daemon' = "booting"
  /\ Go(Poller, "list")
  /\ UNCHANGED <<store, tmux, trackers, crashes, job, listed, todo, bus>>

-----------------------------------------------------------------------------
Init ==
  /\ rows = [s \in SessionId |-> FreeRow]
  /\ lastId = 0
  /\ taskStatus = [t \in Task |-> "stopped"]
  /\ tmux = [t \in Task |-> NoSession]
  /\ trackers = [s \in SessionId |-> NoTracker]
  /\ daemon = "down"
  /\ crashes = 0
  /\ pc = [p \in Proc |-> "idle"]
  /\ job = [p \in Proc |-> NoJob]
  /\ listed = {} /\ todo = {}
  /\ started = [s \in SessionId |-> 0]
  /\ stopped = [s \in SessionId |-> 0]

Serve(r) ==
  \/ Probe(r) \/ Insert(r) \/ Create(r) \/ Launch(r) \/ Teardown(r) \/ Undo(r)
  \/ Record(r) \/ Greet(r) \/ Again(r) \/ Find(r) \/ Exists(r) \/ Kill(r)

Finalise(p) == Close(p) \/ Mirror(p) \/ Announce(p)

Watch ==
  \/ List \/ Rows \/ Match \/ Reconciled
  \/ Scan \/ PickNext \/ PaneState \/ Screen \/ Apply \/ Tell
  \/ Alert \/ Reap \/ Report

World == Crash \/ Boot \/ \E t \in Task : AgentExits(t) \/ KilledByHand(t)

Next ==
  \/ \E r \in Request :
       \/ \E t \in Task, kind \in {"start", "stop", "restart"} : Begin(r, t, kind)
       \/ Serve(r)
       \/ Abandon(r)
  \/ \E p \in Proc : Finalise(p)
  \/ Watch
  \/ World

Spec == Init /\ [][Next]_vars

(* tokio keeps polling what is ready, and launchd starts the daemon again. *)
FairSpec ==
  /\ Spec
  /\ \A r \in Request : WF_vars(Serve(r) \/ Finalise(r))
  /\ WF_vars(Watch \/ Finalise(Poller))
  /\ WF_vars(Boot)
-----------------------------------------------------------------------------
(* What holds                                                              *)

(* A task never has two live rows, whatever starts and restarts race: the  *)
(* look-up in `start` and the partial unique index on live rows.           *)
OneLiveRow == \A s, u \in SessionId :
  Live(s) /\ Live(u) /\ rows[s].task = rows[u].task => s = u

(* A stop request and a poll that sees the process gone may both decide    *)
(* that a session is over; only one of them announces it, after the row is *)
(* closed (`close_session` tells its caller whether it was the one).       *)
AnnouncedOnce == \A s \in SessionId :
  stopped[s] <= 1 /\ (stopped[s] = 1 => rows[s].state = "ended")

(* A row that has ended keeps the status it ended with and never lives     *)
(* again, even when a slower process still holds it (`close_session` and   *)
(* `set_session_status` both require `ended_at IS NULL`).                  *)
EndedIsFinal == [][\A s \in SessionId : rows[s].state = "ended" =>
  rows'[s].state = "ended" /\ rows'[s].status = rows[s].status]_rows

(* Without a crash no ending goes unannounced: a session announced as      *)
(* started whose row has ended has its SessionStopped published, or the    *)
(* process that closed the row is about to publish it.  A dropped request  *)
(* cannot come between: there is no await in `close`.                      *)
EndingIsAnnounced == crashes = 0 => \A s \in SessionId :
  started[s] > 0 /\ rows[s].state = "ended" =>
    \/ stopped[s] = 1
    \/ \E p \in Proc : job[p].id = s /\ pc[p] \in {"mirror", "announce"}

(* Reconciling at boot never gives up on an agent that survived the        *)
(* restart: the row it closes has no tmux session (docs/runtime.md,        *)
(* Recovery).  Nothing creates sessions before the daemon serves, which is *)
(* what makes listing before reading the rows safe there.                  *)
BootAdopts == [][\A s \in SessionId :
  daemon = "booting" /\ Live(s) /\ rows'[s].state = "ended"
    => tmux[rows[s].task] = NoSession]_vars

(* Between readings the tracker of a live session believes exactly what    *)
(* its row says, so a change is never announced from a status the API did  *)
(* not show, also when the tracker is rebuilt after a restart.             *)
BeliefIsStored == \A s \in SessionId :
  Live(s) /\ trackers[s] # NoTracker =>
    \/ trackers[s] = rows[s].status
    \/ job[Poller].id = s /\ pc[Poller] \in {"apply", "reap", "close"}

(* An agent whose process is gone is noticed: its row does not stay live.  *)
ExitIsNoticed == \A s \in SessionId :
  (/\ Live(s) /\ tmux[rows[s].task] # NoSession
   /\ tmux[rows[s].task].owner = s /\ IsDead(tmux[rows[s].task].pane)) ~> ~Live(s)

(* A session killed by hand is noticed: its row does not stay live without *)
(* a tmux session of its name.                                             *)
AbsenceIsNoticed == \A s \in SessionId :
  (Live(s) /\ tmux[rows[s].task] = NoSession) ~>
    (~Live(s) \/ tmux[rows[s].task] # NoSession)

-----------------------------------------------------------------------------
(* Why it holds: the inductive invariant                                   *)

StartSteps   == {"probe", "insert", "create", "launch", "teardown", "undo", "record", "greet"}
StopSteps    == {"again", "find", "exists", "kill", "reap", "close", "announce", "report"}
ReadSteps    == {"pane", "screen", "apply", "tell", "alert"}
SessionSteps == {"create", "launch", "teardown", "undo", "record", "greet", "exists", "kill",
                 "reap", "close", "mirror", "announce", "report"} \cup ReadSteps
TaskSteps    == SessionSteps \cup {"probe", "insert", "again", "find"}
StopReasons  == {"requested", "exited", "vanished"}

(* Process p carries session s from its row's insertion to SessionStarted, *)
(* or from closing the row to SessionStopped.                              *)
Starting(p, s) == job[p].id = s /\ job[p].why = "start" /\ pc[p] \in SessionSteps
Closing(p, s)  == job[p].id = s /\ job[p].why \in StopReasons /\ pc[p] \in {"mirror", "announce"}

(* What a process is in the middle of, it has the task and the row for.    *)
JobFits(p, step, j, last) ==
  /\ step \in TaskSteps => j.task \in Task
  /\ step \in SessionSteps => j.id \in 1 .. last
  /\ step \in StartSteps => j.why = "start"
  /\ step \in StopSteps => j.why \in StopReasons
  /\ step \in ReadSteps => j.why = "reading"
  /\ p = Poller => j.why # "start"
JobOK == \A p \in Proc : JobFits(p, pc[p], job[p], lastId)

(* The ids handed out are exactly those of the rows in the table.          *)
RowsOK ==
  /\ \A s \in SessionId : IF s <= lastId THEN rows[s].state # "free" /\ rows[s].task \in Task
                                          ELSE rows[s].state = "free"
  /\ \A e \in todo : e.id <= lastId

(* Closing a row is won once, and only the winner goes on to announce it.  *)
ClosingOK == \A s \in SessionId :
  /\ stopped[s] <= 1
  /\ stopped[s] = 1 => rows[s].state = "ended"
  /\ \A p \in Proc : Closing(p, s) => rows[s].state = "ended" /\ stopped[s] = 0
  /\ \A p, q \in Proc : Closing(p, s) /\ Closing(q, s) => p = q

(* A session is started by the one request that inserted its row.          *)
StartingOK == \A s \in SessionId :
  /\ s > lastId => started[s] = 0
  /\ \A p \in Proc : Starting(p, s) => started[s] = 0
  /\ \A p, q \in Proc : Starting(p, s) /\ Starting(q, s) => p = q

(* Until the daemon crashes, a row ends announced, about to be announced,  *)
(* or as the row of a session that never started and never will.           *)
EndingOK == crashes = 0 => \A s \in SessionId : rows[s].state = "ended" =>
  \/ stopped[s] = 1
  \/ \E p \in Proc : Closing(p, s)
  \/ started[s] = 0 /\ \A p \in Proc : ~Starting(p, s)

IInv == TypeOK /\ JobOK /\ RowsOK /\ OneLiveRow /\ ClosingOK /\ StartingOK /\ EndingOK

-----------------------------------------------------------------------------
(* What a comment claims, and the code does not keep                       *)

(* runtime/tmux.rs, kill: killing something already gone is the state the  *)
(* caller wanted, so a kill, a clean-up or a reaping of a session that is  *)
(* gone leaves every session there is alone.                               *)
KillingTheGoneIsNothing == [][\A p \in Proc :
  (/\ pc[p] \in {"kill", "teardown", "reap"} /\ pc'[p] # pc[p]
   /\ tmux[job[p].task] = NoSession) => tmux' = tmux]_vars
=============================================================================
