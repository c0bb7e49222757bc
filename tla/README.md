# Rubick Forge in TLA+

Rubick Forge runs coding agents in tmux. A daemon (`crates/forge-daemon`) on every machine keeps
projects, tasks and sessions in SQLite, starts an agent per task in a tmux session, reads what the
agents are doing off their terminals, and tells clients: a desktop application, a Telegram bot,
hooks. One of the daemons may be the *hub*: it keeps a queue of tasks for the whole fleet and hands
them to machines.

This directory holds TLA+ modules translated from that code, the TLC configurations that
model-check them on small instances, and theorems about them that TLAPS proves for every instance.
`PROJECT.json` is the index: which definition stands for which lines, what each run checks, how each
checked property can be broken by a bug (`mutants`), what is hard to test and where (`hazards`), and
where the code and its comments or documents disagree (`findings`). Source paths below are relative
to `crates/forge-daemon/src`.

## 1. Inventory

| Component | State it keeps | Operations | Talks to |
|---|---|---|---|
| Session manager (`sessions.rs`, `store/sessions.rs`) | `sessions` rows, `tasks.status`, one tracker per live session | `start`, `stop`, `restart`, `reconcile`, `read_sessions`, answers and instructions | tmux, store, bus, status tracker |
| tmux runtime (`runtime/`) | none: tmux has it | create (with teardown), kill, has-session, list, pane state, capture, keys | tmux processes with a timeout |
| Status tracker (`adapters/status.rs`, `markers.rs`) | belief, staleness clock, debounce, last activity marker | `new`, `poll`, `is_unchanged_since` | called by the session manager |
| Task handlers (`http/tasks.rs`, `store/tasks.rs`) | `tasks` rows | create (idempotent by key), provision, roll back, delete, cleanup, start, stop, restart, patch | session manager, git, store |
| Worktrees and git (`worktree.rs`, `git.rs`) | directories, branches, git's record of them | add, remove, prune, delete a branch | git processes |
| Hub (`hub/`, `store/queue.rs`, `http/hub.rs`) | `queued_tasks` rows | enqueue, cancel, the pass: inventory, placement, dispatch, claim | fleet, store |
| Fleet (`fleet.rs`) | HTTP clients of the other machines | tasks, start, watch | other daemons, with timeouts |
| Event bus and feed (`bus.rs`, `http/events.rs`) | `events` rows, a bounded broadcast channel, a cursor per client | publish, subscribe, backfill, relay | all publishers; clients, bot, hooks |
| Hooks (`hooks.rs`) | permits | run a script per event | bus |
| Telegram (`telegram/`) | update offset (stored), outstanding questions (in memory) | commands, taps, notifications | fleet, Telegram's API |
| GitHub poller (`github/`) | `task_github` rows; a client with its ETags, budget and token | poll, record, announce; open a pull request | GitHub's API, bus, keychain |
| Adapter registry (`adapters/`) | the manifests that were loaded; settings of projects | load, reload, validate, compose a command | a directory of files |
| Process and configuration (`server.rs`, `launchd.rs`, `config.rs`, `token.rs`, `store/migrations.rs`, `tailnet.rs`) | `daemon.toml`, the token file, the schema | start up, bind, drain, install, uninstall, migrate | launchd, Tailscale, file system |
| Live terminal (`terminal.rs`, `http/terminal.rs`) | a pty, a bounded backlog and a socket per viewer | attach, relay, type, switch to read-only, ping | tmux, WebSocket clients |
| Desktop app (`apps/desktop`) | event cursor, the token, a terminal's socket; query cache | presentation | HTTP API |

Components meet in three ways: calls inside one process (handlers and loops are futures on a
multi-threaded tokio runtime and interleave at every `await`), the SQLite connection behind a mutex
(each `Store::with` is one atomic step), and HTTP and WebSockets between processes.

### What is hard, and what must hold

* **Sessions.** No lock is held across an `await`, so request handlers, the single watch loop and
  a crash interleave everywhere. One live session per task; an ending is final, announced, and
  announced once; what the poller believes is what the rows say; a restart of the daemon adopts the
  agents that survived it; an agent that goes away is noticed.
* **Status reading.** Polls are skipped when tmux reports no activity, a question is believed
  only when it stays, a belief that nothing confirms grows stale. A human is called for confirmed
  questions and only for them; no belief outlives its confirmation.
* **Tasks.** Creating, undoing, deleting and cleaning up each await git several times, may fail at
  each, and a request may be dropped. Work is not destroyed by accident; no worktree is lost sight
  of; no failed creation leaves a task without its worktree; the check for a live agent cannot be
  skipped.
* **Dispatch.** A request to another machine can be lost, answered late, or carried out after the
  hub gave it up; its retry overlaps the first attempt; daemons crash. At most one task per key on a
  machine; a named target is honoured; what is recorded as dispatched was started; the queue drains.
* **Events.** Backfill and live subscription overlap, the channel lags, streams reconnect, hooks are
  outrun. A client with a cursor sees every event once, in order; hooks stay bounded and recover.
* **Telegram.** Updates are delivered again after a crash, several people tap one prompt, questions
  are answered elsewhere. One answer per prompt; a tap is compared with the latest news; a crash
  repeats one update at most; none blocks those behind it.
* **GitHub.** A 304 vouches for what was stored, while storing may have failed; a rate limit and a
  token that end; requests that write the same rows. An ETag vouches only for what is recorded; news is
  said once; a merge is heard of.
* **Processes.** A second daemon, a crash at any line of the start-up, an upgrade, Tailscale going
  down. The schema is whole; an app that was let in stays let in; twins part; the daemon comes back.
* **Adapters.** Files change under a load and between two look-ups of a start. No file is ignored
  silently; the registry is a reading of the directory; an agent's command has only arguments its
  manifest and its project's settings declare.
* **Terminal.** A reader thread that must not block, a viewer that may. No holes in the output, no
  key against the viewer's own wish, an attach that is reaped.

The complete list, line by line, is `hazards` in `PROJECT.json`.

## 2. Plan

Built, in order of importance: `Sessions`; `StatusReader` and `Tracker`; `Dispatch`; `Tasks`;
`LogReader` and `EventFeed`; `Telegram`; `GitHubPoll`; `Daemon`; `Manifests` and `Adapters`;
`Terminal`. Two are abstract specifications that a detailed one is shown to implement
(`StatusReader` by `Tracker`, `LogReader` by `EventFeed`).

Proved, beyond the model checking: every safety property and both refinements. What is left to TLC
is liveness (section 5). The proofs of a component are in the module named after it (`SessionsProofs`
and so on), those of the two modules about adapters in `AdapterProofs`, those of the two that serve
WebSockets, `EventFeed` and `Terminal`, in `SocketProofs`.

Further: the composition of `Tasks` with the inside of starting an agent, which is one step there.

## 3. The modules

How the modules divide the system: `Sessions` has the inside of starting, stopping and reading a
session; `Tracker` the inside of one reading, which `Sessions` leaves as a choice (`Screen`);
`Dispatch` and `Tasks` have what surrounds a start, for which it is one step; `EventFeed` carries to
its readers what `Sessions`, `GitHubPoll` and the hub publish; `Telegram` is one such reader and
calls back into sessions; `Daemon` is the process all of them live in. Each module's `TypeOK` says
what its variables hold.

### Sessions

One step is one store transaction or one answer of tmux. Every process (`Request`s and the one
`Poller`) has a program counter `pc[p]` and its locals `job[p]`; any other process may step between
two of its steps.

| TLA+ | Code |
|---|---|
| `rows`, `lastId`, `taskStatus` | `sessions` table, its ids, `tasks.status` |
| `tmux[t]` | the tmux session named `forge-<t>`: whose agent it holds and what became of its process |
| `Target(t)` | the session tmux takes `-t forge-<t>` to mean, by `Prefix`: which tasks' names begin other tasks' names |
| `trackers[s]` | the poller's map of trackers; lost in a crash |
| `Begin`, `Probe`, `Insert`, `Create`, `Launch`, `Teardown`, `Undo`, `Record`, `Greet` | the task handlers and `SessionManager::start`, with `TmuxRuntime::create` and `finish_create` |
| `Find`, `Exists`, `Kill`, `Close`, `Mirror`, `Announce`, `Again` | `stop`, `restart` and `close` |
| `List`, `Rows`, `Match`, `Reconciled` | `reconcile` |
| `Scan`, `PickNext`, `PaneState`, `Screen`, `Apply`, `Tell`, `Alert`, `Reap`, `Report` | `read_sessions`, `read_session`, `examine`, `act_on`, `report_ending` |
| `Abandon` | axum drops a handler whose client disconnects, at the `await` it is in |
| `AgentExits`, `KilledByHand`, `Crash`, `Boot` | the world |

Abstractions: a screen is one of `Readings` or nothing recognised; which status the tracker
announces is a choice here and is refined by `Tracker`; errors of the store are left out.

### StatusReader and Tracker

`StatusReader` is what reading a status promises: a belief changes freely, except that `waiting` is
believed only out of a doubt an earlier look raised, and that the process's end is the last word.
`Tracker` is the code: `tracker` is `Tracker`'s four fields, a poll is the
steps `LookAtPane` (is the process alive), `AskActivity` (skip when nothing moved) and `Capture`
(classify, debounce, age), and an agent writes to its pane between any two of them. `Tracker`
implements `StatusReader` with `belief <- tracker.status`, `doubt <- tracker.pending > 0`,
`over <- phase = "over"`. `shown`, `unread` and `missed` (what is on screen was last captured by a
command that failed, the one escape of `QuestionIsNoticed`) are history variables the code does not
have; no step reads them.

Markers of tmux are seconds. `Marks` holds the seconds that the state can remember at once (the one
remembered, the one just read, the last write, the current one), and a second nothing remembers may
come again: that keeps an unbounded clock finite without identifying two remembered seconds.

### Dispatch

| TLA+ | Code |
|---|---|
| `queue` | `queued_tasks` on the hub |
| `made[m][r]`, `agent[m][r]` | the task machine `m` holds under key `forge-queue-<r>`, and its agent |
| `given[m][r]`, `git[m][r][i]` | the id that task was given, and what git has there under the branch of the row's title and id `i`: nothing, a branch, or a worktree with its branch |
| `hub` | the dispatch loop: where its pass is, the inventory it took, the request it waits for |
| `calls` | requests in flight. `heard` says whether the hub still waits for the answer |
| `Enqueue`, `Cancel` | `http/hub.rs` |
| `Wake`, `Ask`, `Place`, `PassDone` | `hub::dispatch::run`, `pass`, `take_inventory`, `placement::place` |
| `Created`, `Started`, `Refused`, `Undo`, `GiveUp`, `MarkDispatched` | `dispatch_one` with `Machine::create_and_start`, remote and in the hub's own daemon |
| `Lookup`, `Insert`, `Provision`, `RollBack`, `Start` | `create`, `provision`, `roll_back` and `start` in `http/tasks.rs` on the machine |
| `Drop`, `Crash`, `AgentEnds` | the world |

A call outlives the hub's patience: after `GiveUp` its machine may go on with it or drop it, so a
retry under the same key meets an attempt that is still running. Of the load that placement
compares, only tasks of the queue are counted; starting an agent is one step (its inside is
`Sessions`). A branch is named for a title and an id, and an id comes again once its task is deleted:
`Insert` gives out any of `Id`, `Provision` refuses a branch that is there, `Undo` keeps the branch
(`BranchDisposal::Keep`) and `RollBack` removes one only together with its worktree. Every step that
asks git or the store may fail, `Undo` and `RollBack` included, whose failures are only logged; `left`
is history: the rows whose task the hub's own daemon left behind unstarted. What fails, fails a bounded
number of times (`MaxFailures`): a row nothing can be done about, as its adapter is not loaded or its
base branch is missing, is outside. A target of white space is `Blank`.

### Tasks

One project, tasks of one title, and worktree roots between which the setting moves. `task`, `live`
and `project` are the rows; `agent[i]` the tmux session of a task's name and the directory it runs
in; `tree` git's record of worktrees, with a directory that is clean, dirty or `"deleted"`; `branch`
the tasks' branches. A request holds its locals in `req[c]`, and its steps end where its handler
awaits git or tmux: `Create` to `Attach` with `Undo` and `Unmake` are `create`, `provision` and
`roll_back`; `Delete`, `Cleanup`, `IsDirty` and `Remove` are the removals; `Start` and `Launch` a
start. Ids of deleted tasks are given out again (`AUTOINCREMENT` is not used): `serial`, which the code does not have,
tells apart the tasks that had one id. `Mishap` counts the failures of git after a part of its work, dropped
requests, directories deleted by hand and moves of the root.

### LogReader and EventFeed

`LogReader` is what the feed promises: a log that grows, and readers each of which moves to the next
entry that concerns it. In `EventFeed`, since an event is stored and broadcast under one lock, the
history is the broadcast too: a receiver is a position in it, of which the last `Capacity` entries
can be received. `conn[c]` is the daemon's relay of a client (`filling` pages of history, then
`live`, with `last_sent`), `wire[c]` what it sent and the client has not read, `seen[c]` the client's
cursor. `hooks` is the loop that fires scripts, its waiting and running hooks and the permits they
hold; `push` is `LocalMachine::watch`. Sockets fail, the daemon restarts.

### Telegram

Machines number their sessions alike. `Asks`, `Answered`, `Notices`, `Announces`, `Ends`, `Starts`
are an agent, the person at its keyboard and the poller, cut down to what a question needs; `Push`
is `push_from` on the next event of a machine; `GetUpdates`, `Ignore`, `Expire`, `Claim`, `Answer`,
`Hear`, `Find`, `Act` and `Remember` are the loop of the bot. `stored` is the offset in the store,
`outstanding` the questions in memory. An offset that cannot be stored is only logged, and the bot goes
on. `claimed`, `handled` and `unwritten` (updates whose offset was not stored) are history.

### GitHubPoll

GitHub (`pull`, `runs`, `quota`, `valid`) changes on its own; a version stands for an ETag. The loop
(`Tick`, `AskPull`, `AskChecks`, `Record`, `Mark`, `Say`) takes a snapshot of the links when its pass
begins, and awaits or writes between any two of its steps. `Post` and `RecordOpened` are a request
that opens a pull request, the latter as late as it likes. `behind`, `dropped` and `unsaid` are history:
the tasks whose link says less than the loop had read, those of which the client remembers the ETag
of an answer that was lost, and those whose link says news that was not published.

### Daemon

Two processes run `Run(p)` over one directory: `LoadConfig`, `LoadToken` (with `OpenToken` and
`WriteToken`), `OpenStore`, `Migrate`, `Attend`, `Resolve`, `Bind`, `Serve` (`Advance`), and then drain
(`Drained`). An address that is bound answers while the next is being bound. launchd starts its agent again; a person starts the other, edits the
configuration, deletes the token, installs another build or removes the agent; Tailscale goes up
and down; the Mac reboots. The desktop app remembers the token that it read.

### Manifests and Adapters

`Manifests` has the pure part: validation, placeholders and the composition of a command line, on
texts cut into tokens (braces, blanks, words), which is as far as templates look. The loops of
`fill`, `check_placeholders` and of `split_whitespace` go through a text from place to place:
`Gather(adds, goesOn)` is such a loop, which adds `adds[i]` at place `i` and goes on at `goesOn[i]`.
`Adapters` has the registry: a load lists the directory, reads its files one by one and swaps its
result in, while files change. A listing gives any of the files that are there (`Listings`), since an
entry that cannot be read is left out and a directory that cannot be listed is one without files, both
without an error. A start reads the task and its settings (`Begin`), awaits tmux, and looks its adapter
up before and after it probes the binary; settings are saved under one registry and used under another. `Filled`, `Words` and `Declared` state
without a loop what the command line is to be: every token of a template stands for itself unless it
belongs to a `{name}`. They refer to nothing `Fill` and `SplitWhitespace` are made of but the text a
placeholder stands for.

### Terminal

One viewer. A chunk of output is its number. `reader` is the thread that reads the pty into
`backlog`, also after the attach has ended, `loop` the task that carries `backlog` to the socket and the viewer's messages to the pty,
one at a time; `net` and `socket` are the connection, which may be stalled, broken or gone without a
word, and what it holds.

## 4. The runs

Every passing run explores its instance completely; between them they fire every action.

| Run | Shows | Bounds, and why they are enough |
|---|---|---|
| `SessionsRaces` | one live row, and every ending announced, once, under racing start and stop requests and failing tmux commands | two requests, one task, two rows: the races are between two requests, or a request and the poller; the second row lets a session be replaced under a process that holds the first |
| `SessionsCrash` | beliefs after a restart, adoption at boot, and that exits and kills are noticed, with restarts, a disconnecting client and a crash at any step | one request: with a crash at every point its races with the poller remain; one crash, since a second one meets a state the first could have left; tmux answers, since a command that failed for ever would hide anything |
| `KillingTheGone` | a comment of the tmux runtime that the code does not keep (section 6) | tasks 1 and 12, one request |
| `Tracker` | debounce, staleness, questions noticed, and that `Tracker` implements `StatusReader` | `STALENESS_CAP` 2 and `WAITING_DEBOUNCE` 1 for the code's 15 and 1: the counter reaches its cap, passes it and starts again; four marks (above); one restart |
| `Dispatch` | one task per key, named rows stay put, claims are true, the queue drains | one row, three machines of which one lacks the project, two calls (an attempt and its retry), two ids (an earlier attempt's again, or not), two failures (one, and one of its undoing), one crash. The proofs are for any number of rows |
| `Tasks` | work survives, trees stay accounted for, nothing half made, agents keep their trees | two requests, two ids and two creations, so that a request meets another on its own task, or the task that took its id; two roots; one mishap. A deletion that is outrun by an attachment takes three requests (section 6): the proof has them |
| `EventFeed` | the feed implements `LogReader`, everything arrives, hooks stay bounded and recover | a bus and pages of two with four events: a receiver lags, and history takes several pages; one dropped socket, one restart |
| `Telegram` | one answer per prompt, taps compared with the latest news, what a crash repeats, no update blocks the rest | two machines with coinciding ids, two questions on one of them, two updates (two taps of one prompt, or a tap and a command), one mishap. An offset that could not be stored and a crash after it take two: the proof of `ReplaysTheLastOnly` has them |
| `GitHubPoll` | ETags vouch for what is recorded, news is said once, merges are heard of | one task with two pull requests, three changes, a budget of three with one reserved (a pass takes two), two failures, so that one may meet the retry of another, one crash, one racing request |
| `Daemon` | schema, token, twins, coming back | two builds, two configurations and a broken one, two processes, one edit, one start by hand, one mishap |
| `Adapters` | no file hidden, the registry a reading of the directory, commands declared | two files, five texts (a built-in's id, two of one other id, a third id, one that is refused), the first load and one reload, one edit: files of one id or of two in either order, an edit between any two steps of a reload, and a start that meets a reload with the other text between any two of its steps |
| `Terminal` | output without holes, keys as allowed, what is gone is reaped | three chunks over a backlog and a window of one: the backlog fills while a chunk is on its way; two messages |

Deadlock is checked in the two passing runs of `Sessions`. The other systems may really stop, when
their bounds are used up: the queue is settled, the session over, the history complete.

### Fairness

* `SessionsCrash`: weak fairness of every process, since tokio polls what is ready and every tmux
  command has a timeout; of the watch loop, whose ticker (`server.rs`) goes on after a failed
  poll; and of `Boot`, since launchd restarts the daemon (`KeepAlive`, `docs/daemon.md`).
* `Tracker`: weak fairness of the poll, from the same ticker. Nothing is assumed of the agent.
* `Dispatch`: weak fairness of the pass (the loop sleeps 15 s and every remote request has
  `REMOTE_TIMEOUT`) and of every call. Nothing is assumed of clients, and failures are never
  forced; `QueueDrains` is true because `MaxFailures` bounds how much goes wrong: a machine that
  refuses for ever keeps its row queued, as it should. A branch left behind without its worktree is such
  a refusal, made by the hub itself, and `BranchInTheWay` excepts it (section 6).
* `EventFeed`: weak fairness of each relay, of a client's reading and reconnecting (it retries with
  a delay that is capped), of the hooks' loop, of their ends (a hook has a timeout) and of the watch.
  The timeout covers the wait for a hook and not the write to its stdin before it (`hooks.rs:256`): a
  hook that never reads an event larger than the pipe is outside `HooksRecover`.
* `Telegram`: weak fairness of the bot's loop; its requests have timeouts. Nothing is assumed of
  people or agents.
* `GitHubPoll`: weak fairness of the loop, and of GitHub's
  reset, which is every hour. `MergeIsHeard` excepts, by name, a merge whose own ETag outlived its answer
  (`dropped`), one that was recorded and not published (`unsaid`), a pull request another took the place
  of or whose closing was recorded late, and a loop that asks nothing more or whose token is refused:
  the code does lose those (section 6). Any other failure or crash it has to survive.
* `Daemon`: weak fairness of each process up to serving, of launchd, which also kills an agent that does
  not leave, and of the steps of an installation that was begun. None of the draining of a daemon run by
  hand: `serve_until` waits for its last request without a limit, and `TwinsPart` excepts that. Tailscale and people do as they like: `Blocked` names what they have
  to do something about.
* `Terminal`: weak fairness of the loop, of the end of an attach whose session is gone, and of TCP
  giving up on a peer that is gone. Strong fairness of the pty and of delivery to a viewer that reads:
  both may be disabled in between, by a full channel or a stalled viewer, and each is a thread or a
  kernel that does not starve. Nothing makes a stalled viewer read.

## 5. The proofs

All proofs are checked by TLAPS from the assumptions each module names (`SessionsAssumption`,
`TrackerAssumption`, `DispatchAssumption`, `TasksAssumption`, `FeedAssumption`, `TelegramAssumption`,
`GitHubAssumption`, `DaemonAssumption`: sets of naturals, distinct model values, nothing about sizes;
`BoundsAssumption`: a backlog and a window hold something; those of `Adapters`, below).
TLC evaluates those assumptions in every run.

**Sessions.** `TypeCorrect`, `OneLiveRowAlways`, `EndedForever`,
`EndingsAnnouncedOnce`, `EndingsAnnounced`, `BeliefStaysStored`, `BootAdoptsAgents`: every safety
property of the module. A type
invariant alone is not inductive: the close of a row indexes `rows` by a local of a process, so
`JobOK` says which locals each step has. `ClosingOK` is what makes the announcement unique: between
closing and announcing, the row has ended, nothing was announced, and nobody else is closing
it. `OneLiveRow` needs only the transaction of `Insert`, and that no step brings a row back to
life. All of it holds whatever tmux takes a name to mean.

`EndingIsAnnounced` adds where a start stands: `StartingOK` says that a session which is not
announced yet belongs to the one request that inserted its row, and `EndingOK` that until a crash a
row that ended is announced, about to be announced, or of a session that never started. For
`BeliefIsStored`, `BeliefOK` says that the poller's list holds each session once, with the status its
row has for as long as it lives, and that nobody but the poller writes that status: requests end rows,
which frees the belief, and never change the status of a live one. `BootAdopts` rests on `BootOK`: until
the daemon serves only the poller steps, and its list of tmux sessions holds every one there is. That
last theorem assumes `~TmuxFails`, since `list` takes a command that failed for "no sessions". `DownOK`
(no process is in the middle of anything while the daemon is down) serves all three.

**Tracker.** `BeliefStaysRecent`, `WaitingConfirmed`, `TrackerReads`. The invariant `CountsOK` ties
the code's two counters to the history: the debounce counts no more than the captures that showed
a question, and the staleness clock counts exactly the captures that recognised nothing. The
refinement theorem maps every step of the tracker to a step of `StatusReader` or a stutter.

**Dispatch.** `Invariant` (all of `IInv`), `KeyIsUnique`, `NamedIsHonoured`, `DispatchedRan`,
`PlacedStays`. `DispatchedWasStarted` is the hard one: in the hub's own daemon a task that is
*found* under its key is recorded as dispatched without being started, which is right only
because of `OwnTaskOK`: but for those that a crash, or an undoing that failed, left behind (`left`),
the hub's own daemon never has an unstarted task except the one it is making at this moment, because
the hub waits for its own calls to end (`CallsOK`) and deletes a task whose agent would not start
(`Undo`). What git has of each id is typed apart (`GitOK`, `GitIsTyped`), since nothing else of the
invariant speaks of it. `CallsOK` also says that calls the hub has given up are
still about rows their machine may take, which is what `NamedStaysPut` needs. The proof handles the
steps of a call with one lemma (`ServeOK`) and the steps of the pass with two: the hub comes to wait
for nothing (`SettlesOK`), or it goes on with a row (`GoesOnOK`). `PlacedStays` (`PlacedIsFinal`) is what makes a
late pass harmless: no statement touches a row that is no longer queued.

**Tasks.** `TasksInvariant`, `TasksTypeOK`, `WorkIsNotLost`, `AgentsKeepTheirTrees`,
`TreesAreAccountedFor`, `NoTaskIsLeftHalfMade`: every property of the module. Each is about one
step, and what such a step does is decided by locals that a request read several steps ago: `Fits`
says which of them it holds at each step, and `PathsOf` that a path it holds, a task's tree or the
directory an agent runs in tells the id it is for, whatever the roots have been. `PastOK` is the
one that takes a history: whoever may still remove the tree of a live agent was there before that
agent was started, since a request that comes later finds it live and refuses, and `Launch` finds a
tree that is still there. The id that is given out is free, as a bounded set has a greatest element
(`Greatest`, from the well-foundedness of `<`).

`TreesStayAccounted` was restated because of its proof: it had allowed for ids that are given out
again and for roots that moved, and the proof of `RowLost` showed a third way to lose a tree, which takes three
requests. A deletion removes the tree it loaded and then the row, whichever tree that row has been
given in between.

**EventFeed.** `FeedInv`, `FeedTypeOK`, `HooksStayBounded`, `FeedImplementsLog`. The refinement needs
to know where everything stands: what is on a client's wire is what lies, unfiltered, between its
cursor and its relay's `last_sent`, and between `last_sent` and the page or the receiver there is
nothing it wants. The permits held are exactly the hooks that wait or run, which bounds them.

**Telegram.** `TelegramInvariant`, `TelegramTypeOK`, `TapsMeetTheNews`, `PromptsAnsweredOnce`,
`CrashReplaysTheLast`. A question that is outstanding is an event's place in its machine's log, a
prompt that was shown names one that was passed (`PromptsOK`), and what is remembered later has a
later place: so a prompt that was claimed is never outstanding again, although a crash forgets
everything in memory and Telegram delivers the tap again. `BotOK` and `OffsetOK` say what was
handled beyond the offset in the store: the update in hand, or those whose own offset could not be
stored (`unwritten`).

**GitHubPoll.** `GitHubInvariant`, `GitHubTypeOK`, `UnchangedStaysRecorded`, `NewsSaidOnce`. A pass
works from a snapshot of the links while requests write the same rows. Versions grow, so what the
pass has read is never newer than GitHub and never older than what it remembers an ETag of; a link
it began with says less than it has read, and what it has stored and announced stays stored until
something newer is. `RecordedOK` extends `UnchangedIsRecorded` to the steps between reading and
recording, where the link is behind and the pass is about to write it; a pass that gives an answer up instead
puts its task in `dropped` in the same step. The tasks are taken in order
(the least that is left, again from well-foundedness), so that what a pass holds is about one of
them.

**Daemon.** `DaemonTypeOK`, `SchemaStaysWhole`, `ClientStaysLetIn`. A process in the middle of the
migrations has read a version that others may have passed since; what holds for it is
that a migration and its version are one transaction, and that it has made or found every table up
to its own build once it is past them. A token a process holds is the file's, unless one
was deleted or two were made at once.

**Adapters.** `RegistryTypeCorrect`, `NothingHidden`, `RegistryShowsDirectory`, `LaunchesAreDeclared`:
every property of the module, from `RegistryIInv` (`RegistryTypeOK`, `LoadsOK`, `LaunchOK`). None of the
three properties is inductive, as each speaks of what was swapped in and a load under way decides it.
The first two are about the files a load *listed*; what a listing leaves out is any choice.
`LoadOK` says of a load that the files it has gone through are exactly its adapters and errors, that
those it has yet to read come later, and that the built-ins are first; `AsOfOK`, that while nobody has
edited the directory since it was listed, what was gone through is as the directory has it, and that
an id which a sound file claims is answered by somebody. An edit makes the second say nothing and the
first stays. That a load reads the least file left is what makes the first by name win.

`LaunchIsDeclared` compares two ways to compose a command, the loop of the code and the definition
without one. `GatherFlattens` is the bridge: a loop whose every step goes forward, and which adds at a
place what its stretch of a sequence flattens to, gathers what the sequence flattens to (from the
well-foundedness of `<` on the places, since the prover cannot do induction over sequences).
`SplitIsWords` is one use of it, for every text. `FillIsFilled` is the other, and needs the check a
manifest passed when it was loaded: without it the loop takes `{` to `}` for one name where
the definition sees literal braces. `LaunchOK` supplies that the manifest is sound and that the
settings were well-formed when they were saved; it does not supply that they fit the manifest,
which they need not. Assumed are the shapes of what people write (`TextAssumption`,
`BlobAssumption`, `TaskAssumption`) and that the built-ins are sound and have different ids
(`BuiltInAssumption`), as in the test
`the_built_ins_are_manifests_and_they_parse` of `registry.rs`.

**Terminal.** `TerminalTypeCorrect`, `ViewersSeeNoHoles`, `KeysTypedAsAllowed`: every safety property of
the module. `ChunksOK` says where the output is: what the viewer has, what the connection holds, the
message being sent and the backlog are one run of numbers without a gap, and up to what was read from
the pty for as long as the thread reads and the loop sends; pings in between are no part of it. `InboxOK` does the same for what the viewer sends: the
inbox is the rest of it. `WishOK` ties the `read_only` the loop keeps to the last wish among what it
has taken, so that a key is typed or dropped by the wish that was sent before it and by no later one.

**Only model-checked.** Liveness (`ExitIsNoticed`, `AbsenceIsNoticed`, `QuestionIsNoticed`,
`QueueDrains`, `EverythingArrives`, `HooksRecover`, `UpdatesAreHandled`, `MergeIsHeard`,
`TwinsPart`, `ComesBack`, `GoneIsReaped`): it rests on fairness, so on ENABLED, which the prover cannot
do. Every invariant and every action property of every passing run is a theorem.

## 6. Where the code and its words differ

`KillingTheGone` is checked by a run. The others were met while the modules were written, and each
shows as a behaviour of the module named.

* **tmux names match by prefix** (`runtime/tmux.rs`; run `KillingTheGone`). `-t forge-1` without `=`
  finds `forge-12` once `forge-1` has gone. Stopping task 1 then kills task 12's agent, where
  the comment of `kill` says "Killing something already gone is the state the caller wanted"; a
  start of task 1 is refused as already running; its captures and its terminal show the other agent.
* **Sessions.** `reconcile` lists tmux before it reads the rows, on every poll: a start in between
  loses its row while its agent runs, which `tmux.rs` calls "unreachable from the API"; only at boot is
  the order safe (`BootAdopts`). A stop between the poller's reading and its update makes it announce
  a status no row has ("Writes come before events", `sessions.rs`), and report an ending that is
  the stop's. With its manifest gone, an agent's exit is never noticed, as the adapter is looked up
  before the pane (`Readable`).
* **Tracker.** Output in the same second as a capture is taken for no output
  (`is_unchanged_since`). The staleness clock stops on a motionless screen, the one case
  `docs/adapters.md` gives for it.
* **Dispatch.** A row for any machine whose answer is lost can be dispatched to a second machine,
  where `docs/hub.md` says "Dispatching exactly once"; one that names its machine cannot. A task found
  under its key is taken to be running: "The task already existed, so it was already started too"
  (`http/tasks.rs:434`), and one "whose agent will not start is deleted again" (410-411). But that
  deletion stops when git will not remove the worktree (567, 625) or the store fails, which is only
  logged (443-455), as is a failure of `roll_back` (502-519): with no crash at all, the unstarted task
  stays, the next pass finds it, and the row is recorded as dispatched though no agent ever ran
  (`left`). A deletion that succeeds keeps the branch (`BranchDisposal::Keep`), and `roll_back` removes
  none whose directory is missing; with the id given out again, `git worktree add -b` (`git.rs`)
  refuses at every later pass, and the row stays queued for ever (`BranchInTheWay`). A target of white
  space escapes the check that is there because "it will never become placeable" (`http/hub.rs:82`)
  and is stored as an empty name (109): no machine is ever eligible.
* **Tasks.** "so a failed create leaves nothing behind" (`http/tasks.rs`): git leaves the branch when
  the worktree fails after it. "Fails rather than adopts" (`git.rs`): a project that is
  registered anew reuses ids, and undoing a creation that failed on the old directory destroys it.
  A deletion that is outrun by a creation which attaches another tree to its task (the root moved, the
  task's id was given out again) deletes the row and leaves that tree to nobody.
* **EventFeed.** `LocalMachine::watch` ends at the first lag, where `fleet.rs` says "Never
  returns". A stream that has seen no event yet has no cursor to reconnect with and loses
  what came in between.
* **Telegram.** "A tap answers only if the session is still waiting on the same question"
  (`callbacks.rs`): a question answered at the keyboard and followed by another between two polls
  is no event, and the old button answers the new question. A crash between handling an update and
  storing its offset handles it twice; an offset that cannot be stored is only logged, so that a later
  crash repeats every update since. A command is not ambiguous to the bot when the machine that would make
  it so is asleep. An answer that could not be delivered has used its prompt up.
* **GitHub.** The budget is compared with the last answer and never with its reset, so a loop
  that stopped for lack of budget asks nothing more ("Polling will resume when it resets",
  `api.rs:489`; "Polling resumes when the window resets", `docs/github.md:28`), before the daemon is
  restarted: `MergeIsHeard` has to except it (`Starved`). "Dropped when GitHub rejects it" (`poll.rs:118`)
  is not true of a revoked token, as the refusal does not leave `poll_once` (181): the same client is
  refused for ever, and a new token is not taken up (`Refused`). A request that fails after the ETag was stored loses a merge. A pull request that
  was closed and reopened is not polled. A crash between storing and publishing loses the news.
* **Daemon.** "Loopback stays whatever happens to the tailnet" (`server.rs`): a daemon that is to
  listen on the tailnet exits when Tailscale is down, and is started again and again. A crash between
  creating and writing the token file leaves an empty one, which every start refuses. Two first starts
  at once can serve a token that is not the file's. A drain waits for its last request without a limit.
  Nothing locks the state directory: a second
  daemon polls, reconciles and attends until it fails to bind, and with another port it stays.
* **Adapters.** "Running sessions keep the adapter they started with" (`registry.rs`) is true of
  their command only: their markers and answer keys are those of the registry of the moment. Overlapping
  reloads can leave the older reading. External adapters come in the order of their files' names, not
  "by id" (`registry.rs:49`): `InOrder` states what `load_dir` does. A directory that exists and cannot be
  listed loads nothing and reports nothing, as if there were none ("the ordinary case, not an error",
  `registry.rs:124`), and an entry that cannot be read is dropped (`flatten`). `GET /adapters` reads adapters and errors at two moments. A
  `{prompt}` or `{value}` in `launch_args` is filled with nothing.
* **Terminal.** A viewer that stops reading without leaving is never cut off, since the loop is then
  in `send` and neither pings nor reads the backlog; `terminal.rs` speaks of "how many chunks may be
  waiting for a slow viewer before it is disconnected". The app does not tell the daemon what it
  was told to be (read-only, its size) while its socket was connecting.

## 7. Not modelled

* Sending keys and text to a pane, as its own operation of the session manager: it keeps no state;
  `Telegram` and `Terminal` model what it does to the agent.
* Marker texts, slugs, parsing of commands and formatting: pure functions on text with unit tests and
  nothing concurrent. Diffs, statuses and pushes of `git.rs`; commit and push of `http/github.rs`;
  editing a task (`patch`); the hub's view of the fleet: they read, or write one field.
* Errors of the store, in general: the daemon treats them as failures of the request, and the modules
  with failures of another kind have the same exits. `Dispatch`, `Telegram` and `GitHubPoll` are the
  exceptions, since there a handler goes on after a write that failed.
* The desktop application but for its event cursor, its terminal's socket and its token: presentation.
