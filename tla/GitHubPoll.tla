----------------------------- MODULE GitHubPoll -----------------------------
(* The loop that polls GitHub for the tasks' pull requests (github/poll.rs,*)
(* github/api.rs, store/github.rs), next to the requests that open them    *)
(* and change the token (http/github.rs), and to GitHub itself: pull       *)
(* requests, the check runs of their commits, ETags and a rate limit that  *)
(* all requests share.                                                     *)
(*                                                                         *)
(* A step ends where the loop awaits an answer, or between two writes to   *)
(* the store.  What GitHub holds carries a version, its ETag; the loop's   *)
(* client remembers the last it saw of each, and the rate limit.           *)
EXTENDS Integers, FiniteSets

CONSTANTS
  Task,         (* tasks, by id                                            *)
  Request,      (* requests to open a pull request in flight at a time     *)
  Token,        (* personal access tokens                                  *)
  NoToken,
  MaxSha,       (* bound: commits a branch's head can be at                *)
  MaxPulls,     (* bound: pull requests of a branch                        *)
  MaxChanges,   (* bound: what happens on GitHub                           *)
  Quota,        (* requests GitHub answers between two resets              *)
  Reserve,      (* POLL_RESERVE, of which the loop leaves so many          *)
  MaxFaults,    (* bound: requests, answers and writes that fail           *)
  MaxCrashes    (* bound: crashes of the daemon                            *)

Sha    == 1 .. MaxSha
Number == 0 .. MaxPulls           (* 0: no pull request                    *)
Ver    == 0 .. MaxChanges         (* 0: no ETag                            *)
NoRate == Quota + 1               (* GitHub has not said what is left      *)

ASSUME GitHubAssumption ==
  /\ Task \subseteq Nat /\ IsFiniteSet(Task) /\ NoToken \notin Token
  /\ MaxSha \in Nat \ {0} /\ MaxPulls \in Nat /\ MaxChanges \in Nat
  /\ Quota \in Nat /\ Reserve \in 0 .. Quota
  /\ MaxFaults \in Nat /\ MaxCrashes \in Nat

VARIABLES
  pull,       (* GitHub: the newest pull request of a task's branch        *)
  runs,       (* GitHub: the check runs of its commits                     *)
  quota,      (* GitHub: requests left until the reset                     *)
  valid,      (* GitHub: the tokens it accepts                             *)
  keychain,   (* the token that is stored                                  *)
  link,       (* the task_github table                                     *)
  client,     (* the loop's client                                         *)
  poll,       (* the loop: where it is, and its locals                     *)
  req,        (* requests in flight                                        *)
  news,       (* what has been published                                   *)
  behind,     (* tasks whose link says less than the loop had read: a      *)
              (* request that opened their pull request wrote it later, or *)
              (* a write of the loop failed                                *)
  dropped,    (* history: tasks of which the client remembers the ETag of  *)
              (* an answer that their link does not say                    *)
  unsaid,     (* history: tasks whose link says news that was not published*)
  changes, faults, crashes

github  == <<pull, runs, valid>>
lost    == <<dropped, unsaid>>
counted == <<changes, faults, crashes>>
vars    == <<github, quota, keychain, link, client, poll, req, news, behind, lost, counted>>

-----------------------------------------------------------------------------
(* Types                                                                   *)

Checks == {"none", "running", "passed", "failed"}
States == {"open", "closed", "merged"}

(* `head` is the version in which the head became `sha`.                   *)
Pull   == [num : Number, state : States, sha : Sha, head : Ver, ver : Ver]
Outcome == {"good", "bad", "going"}
Runs   == [of : SUBSET Outcome, ver : Ver]
Run    == [state : Checks, ver : Ver]
Link   == [num : Number, state : States \cup {"none"}, sha : Sha \cup {0}, checks : Checks]
NoLink == [num |-> 0, state |-> "none", sha |-> 0, checks |-> "none"]

Client == [token : Token \cup {NoToken}, left : 0 .. NoRate,
           pulls : [Task -> Ver], checks : [Task -> [Sha -> Ver]]]
NewClient(token) == [token |-> token, left |-> NoRate, pulls |-> [t \in Task |-> 0],
                     checks |-> [t \in Task |-> [s \in Sha |-> 0]]]

(* `before` are the links as the pass read them, `seen` and `checks` what  *)
(* GitHub said of the task at hand, the least of `todo`.                   *)
Changes == {"merged", "closed", "passed", "failed", "quiet"}
Poll    == [step : {"asleep", "pull", "checks", "record", "mark", "say"}, todo : SUBSET Task,
            before : [Task -> Link], seen : Pull, checks : Run, change : Changes]
NoPull  == [num |-> 0, state |-> "open", sha |-> 1, head |-> 0, ver |-> 0]
NoRun   == [state |-> "none", ver |-> 0]
Asleep  == [step |-> "asleep", todo |-> {}, before |-> [t \in Task |-> NoLink],
            seen |-> NoPull, checks |-> NoRun, change |-> "quiet"]

(* A request has pushed its branch, or has the answer to its POST.         *)
OpenRequest == [step : {"free", "post", "record"}, task : Task \cup {0}, num : Number,
                sha : Sha \cup {0}, ver : Ver]
Free == [step |-> "free", task |-> 0, num |-> 0, sha |-> 0, ver |-> 0]

(* Of a pull request for its fate, of a version of the check runs for a    *)
(* push.                                                                   *)
News == [task : Task, what : (Changes \ {"quiet"}) \cup {"opened"}, num : Number, head : Ver, ver : Ver]

TypeOK ==
  /\ pull \in [Task -> Pull]
  /\ runs \in [Task -> [Sha -> Runs]]
  /\ quota \in 0 .. Quota
  /\ valid \subseteq Token /\ keychain \in Token \cup {NoToken}
  /\ link \in [Task -> Link]
  /\ \A t \in Task : link[t].num = 0 <=> link[t].state = "none"
  /\ client \in Client
  /\ poll \in Poll
  /\ poll.step # "asleep" => poll.todo # {} /\ client.token # NoToken
  /\ req \in [Request -> OpenRequest]
  /\ news \subseteq News /\ behind \subseteq Task
  /\ dropped \subseteq Task /\ unsaid \subseteq Task
  /\ changes \in 0 .. MaxChanges /\ faults \in 0 .. MaxFaults /\ crashes \in 0 .. MaxCrashes

-----------------------------------------------------------------------------
(* GitHub                                                                  *)

Change    == changes < MaxChanges /\ changes' = changes + 1
Fault     == faults < MaxFaults /\ faults' = faults + 1
GitHubOnly == UNCHANGED <<quota, keychain, link, client, poll, req, news, behind, lost, faults, crashes>>

Set(t, p) == pull' = [pull EXCEPT ![t] = [p EXCEPT !.ver = changes + 1]]

(* Somebody merges, closes or reopens a pull request, or pushes to it,     *)
(* which may bring back a commit it was at before.                         *)
Moves(t) ==
  /\ pull[t].num # 0 /\ pull[t].state # "merged" /\ Change
  /\ \/ pull[t].state = "open" /\ \E s \in {"merged", "closed"} :
          Set(t, [pull[t] EXCEPT !.state = s])
     \/ pull[t].state = "closed" /\ Set(t, [pull[t] EXCEPT !.state = "open"])
     \/ pull[t].state = "open" /\ \E s \in Sha \ {pull[t].sha} :
          Set(t, [pull[t] EXCEPT !.sha = s, !.head = changes + 1])
  /\ UNCHANGED <<runs, valid>> /\ GitHubOnly

ChecksRun(t) ==
  /\ pull[t].num # 0 /\ Change
  /\ \E of \in {{"going"}, {"good"}, {"good", "bad", "going"}} \ {runs[t][pull[t].sha].of} :
       runs' = [runs EXCEPT ![t][pull[t].sha] = [of |-> of, ver |-> changes + 1]]
  /\ UNCHANGED <<pull, valid>> /\ GitHubOnly

Reset ==
  /\ quota < Quota /\ quota' = Quota
  /\ UNCHANGED <<github, keychain, link, client, poll, req, news, behind, lost, counted>>

Revoke(k) ==
  /\ k \in valid /\ valid' = valid \ {k} /\ Change
  /\ UNCHANGED <<pull, runs>> /\ GitHubOnly

-----------------------------------------------------------------------------
(* Requests of the API                                                     *)

(* set_token: stored once GitHub has accepted it; forget_token.            *)
SetToken(k) ==
  /\ keychain # k /\ k \in valid \cup {NoToken}
  /\ IF k = NoToken THEN UNCHANGED quota ELSE quota > 0 /\ quota' = quota - 1
  /\ keychain' = k
  /\ Change
  /\ UNCHANGED <<github, link, client, poll, req, news, behind, lost, faults, crashes>>

Requests == UNCHANGED <<runs, valid, keychain, client, poll, unsaid, crashes>>

(* open_pull: the branch is pushed, then GitHub is asked, with a client    *)
(* made of the token stored now.                                           *)
OpenPull(c, t) ==
  /\ req[c].step = "free" /\ keychain # NoToken
  /\ req' = [req EXCEPT ![c] = [Free EXCEPT !.step = "post", !.task = t]]
  /\ UNCHANGED <<pull, quota, link, news, behind, dropped, changes, faults>> /\ Requests

(* GitHub refuses a second open one, and an answer can be lost.            *)
Post(c) ==
  LET t == req[c].task  opened == [pull[t] EXCEPT !.num = @ + 1, !.state = "open"] IN
  /\ req[c].step = "post"
  /\ IF /\ keychain \in valid /\ quota > 0
        /\ pull[t].num = 0 \/ pull[t].state # "open"
        /\ pull[t].num < MaxPulls /\ changes < MaxChanges
     THEN /\ Change /\ Set(t, opened) /\ quota' = quota - 1
          /\ \/ Fault /\ req' = [req EXCEPT ![c] = Free]
             \/ /\ req' = [req EXCEPT ![c] = [@ EXCEPT !.step = "record",
                             !.num = opened.num, !.sha = opened.sha, !.ver = changes + 1]]
                /\ UNCHANGED faults
     ELSE req' = [req EXCEPT ![c] = Free] /\ UNCHANGED <<pull, quota, changes, faults>>
  /\ UNCHANGED <<link, news, behind, dropped>> /\ Requests

(* set_task_pull leaves the checks as they are.                            *)
SetPull(t, num, state, sha) ==
  link' = [link EXCEPT ![t].num = num, ![t].state = state, ![t].sha = sha]

RecordOpened(c) ==
  LET late == {t \in {req[c].task} : client.pulls[t] > req[c].ver} IN
  /\ req[c].step = "record"
  /\ SetPull(req[c].task, req[c].num, "open", req[c].sha)
  /\ behind' = behind \cup late /\ dropped' = dropped \cup late
  /\ news' = news \cup {[task |-> req[c].task, what |-> "opened", num |-> req[c].num,
                         head |-> 0, ver |-> 0]}
  /\ req' = [req EXCEPT ![c] = Free]
  /\ UNCHANGED <<pull, quota, changes, faults>> /\ Requests

-----------------------------------------------------------------------------
(* The loop                                                                *)

At(step) == poll.step = step
Current  == CHOOSE t \in poll.todo : \A u \in poll.todo : t <= u
Loop     == UNCHANGED <<github, keychain, req, behind, changes, crashes>>

(* poll_task is done with the task at hand, whatever came of it.           *)
Onward == poll' = IF poll.todo = {Current} THEN Asleep
                  ELSE [Asleep EXCEPT !.step = "pull", !.before = poll.before,
                                      !.todo = poll.todo \ {Current}]

AllowsPolling(c) == c.left > Reserve

(* tasks_with_open_pulls                                                   *)
OpenPulls == {t \in Task : link[t].state = "open"}

(* watch, poll_once: a client is made when there is none, also when there  *)
(* is nothing to ask.  Without a token, or without the budget it last      *)
(* heard of, nothing is asked.                                             *)
Tick ==
  LET c == IF client.token = NoToken THEN NewClient(keychain) ELSE client IN
  /\ At("asleep") /\ c.token # NoToken
  /\ AllowsPolling(c)
  /\ client' = c
  /\ poll' = IF OpenPulls = {} THEN poll
             ELSE [Asleep EXCEPT !.step = "pull", !.todo = OpenPulls, !.before = link]
  /\ UNCHANGED <<quota, link, news, lost, faults>> /\ Loop

(* A task whose repository is gone, or a request that gets no body.  The   *)
(* token is refused, as any failure, for this task only; a used-up budget  *)
(* ends the pass.                                                          *)
Fails ==
  /\ \/ Fault /\ Onward /\ UNCHANGED client
     \/ /\ client.token \notin valid /\ Onward /\ UNCHANGED faults
        /\ client' = [client EXCEPT !.left = NoRate]
     \/ /\ client.token \in valid /\ quota = 0
        /\ poll' = Asleep /\ client' = [client EXCEPT !.left = 0] /\ UNCHANGED faults
  /\ UNCHANGED quota

Answers == client.token \in valid /\ quota > 0

(* conditional: an ETag that still holds costs no budget.  The new one is  *)
(* remembered before the body has been read.                               *)
Spend == quota' = quota - 1

(* The answer is gone, though its ETag is remembered.                      *)
Drop == dropped' = dropped \cup {Current}

(* pull_for_branch; "unchanged" and "no pull request" are one answer.      *)
AskPull ==
  LET t == Current IN
  /\ At("pull")
  /\ \/ Fails /\ UNCHANGED dropped
     \/ /\ Answers /\ client.pulls[t] # 0 /\ client.pulls[t] = pull[t].ver
        /\ client' = [client EXCEPT !.left = quota]
        /\ Onward /\ UNCHANGED <<quota, faults, dropped>>
     \/ /\ Answers /\ (client.pulls[t] = 0 \/ client.pulls[t] # pull[t].ver)
        /\ Spend /\ client' = [client EXCEPT !.left = quota - 1, !.pulls[t] = pull[t].ver]
        /\ \/ Fault /\ Onward /\ Drop
           \/ /\ poll' = [poll EXCEPT !.step = "checks", !.seen = pull[t]]
              /\ UNCHANGED <<faults, dropped>>
  /\ UNCHANGED <<link, news, unsaid>> /\ Loop

(* An unchanged answer keeps what was stored.                              *)
Kept(t) == poll.before[t].checks

(* roll_up: one failure decides, then one that still runs.                 *)
RollUp(of) ==
  CASE of = {}        -> "none"
    [] "bad" \in of   -> "failed"
    [] "going" \in of -> "running"
    [] OTHER          -> "passed"

AskChecks ==
  LET t == Current  s == poll.seen.sha IN
  /\ At("checks")
  /\ \/ Fails /\ Drop
     \/ /\ Answers /\ client.checks[t][s] # 0 /\ client.checks[t][s] = runs[t][s].ver
        /\ client' = [client EXCEPT !.left = quota]
        /\ poll' = [poll EXCEPT !.step = "record", !.checks = [NoRun EXCEPT !.state = Kept(t)]]
        /\ UNCHANGED <<quota, faults, dropped>>
     \/ /\ Answers /\ (client.checks[t][s] = 0 \/ client.checks[t][s] # runs[t][s].ver)
        /\ Spend /\ client' = [client EXCEPT !.left = quota - 1, !.checks[t][s] = runs[t][s].ver]
        /\ \/ Fault /\ Onward /\ Drop
           \/ poll' = [poll EXCEPT !.step = "record",
                          !.checks = [state |-> RollUp(runs[t][s].of), ver |-> runs[t][s].ver]]
              /\ UNCHANGED <<faults, dropped>>
  /\ UNCHANGED <<link, news, unsaid>> /\ Loop

(* compare: only transitions are news, and a pull request's fate more so   *)
(* than its checks.                                                        *)
Compare(before, state, checks) ==
  CASE state \in {"merged", "closed"} /\ before.state # state -> state
    [] checks # before.checks /\ checks \in {"passed", "failed"} -> checks
    [] OTHER -> "quiet"

(* Mutant: a pull request is recorded only when there is news of it.       *)
Record_News ==
  LET t == Current  change == Compare(poll.before[t], poll.seen.state, poll.checks.state) IN
  /\ At("record")
  /\ IF change # "quiet"
     THEN /\ SetPull(t, poll.seen.num, poll.seen.state, poll.seen.sha)
          /\ poll' = [poll EXCEPT !.step = "mark", !.change = change]
     ELSE Onward /\ UNCHANGED link
  /\ dropped' = dropped \ {t} /\ unsaid' = unsaid \ {t}
  /\ UNCHANGED <<quota, client, news, faults>> /\ Loop

(* What was read is compared with the link as it was when the pass began,  *)
(* and written over what it is now; when that fails, there is no news.     *)
Record ==
  LET t == Current IN
  /\ At("record")
  /\ \/ /\ SetPull(t, poll.seen.num, poll.seen.state, poll.seen.sha)
        /\ poll' = [poll EXCEPT !.step = "mark",
             !.change = Compare(poll.before[t], poll.seen.state, poll.checks.state)]
        /\ dropped' = dropped \ {t} /\ unsaid' = unsaid \ {t}
        /\ UNCHANGED faults
     \/ Fault /\ Onward /\ Drop /\ UNCHANGED <<link, unsaid>>
  /\ UNCHANGED <<quota, client, news>> /\ Loop

(* Mutant: the checks are announced and never stored.                      *)
Mark_Not ==
  /\ At("mark") /\ poll' = [poll EXCEPT !.step = "say"]
  /\ UNCHANGED <<github, keychain, req, changes, crashes, quota, link, faults, behind, client, news, lost>>

(* A failure to store the checks does not keep the news back.              *)
Mark ==
  /\ At("mark")
  /\ poll' = [poll EXCEPT !.step = "say"]
  /\ \/ link' = [link EXCEPT ![Current].checks = poll.checks.state] /\ UNCHANGED <<faults, behind>>
     \/ Fault /\ behind' = behind \cup {Current} /\ UNCHANGED link
  /\ UNCHANGED <<github, keychain, req, changes, crashes, quota, client, news, lost>>

(* event_for, Bus::publish                                                 *)
Told ==
  LET fate == poll.change \in {"merged", "closed"} IN
  [task |-> Current, what |-> poll.change, num |-> poll.seen.num,
   head |-> IF fate THEN 0 ELSE poll.seen.head, ver |-> IF fate THEN 0 ELSE poll.checks.ver]

(* Mutant: the pass ends before it has said what it recorded.              *)
Say_Not == At("say") /\ Onward /\ UNCHANGED <<quota, link, client, news, lost, faults>> /\ Loop

Say ==
  /\ At("say") /\ Onward
  /\ \/ news' = (IF poll.change = "quiet" THEN news ELSE news \cup {Told}) /\ UNCHANGED <<faults, unsaid>>
     \/ Fault /\ poll.change # "quiet" /\ unsaid' = unsaid \cup {Current} /\ UNCHANGED news
  /\ UNCHANGED <<quota, link, client, dropped>> /\ Loop

(* The client is forgotten, its ETags with it, and what the pass had       *)
(* stored and was about to say.                                            *)
Crash ==
  /\ crashes < MaxCrashes /\ crashes' = crashes + 1
  /\ client' = NewClient(NoToken) /\ poll' = Asleep
  /\ req' = [c \in Request |-> Free]
  /\ dropped' = {}
  /\ unsaid' = unsaid \cup (IF poll.step \in {"mark", "say"} THEN {Current} ELSE {})
  /\ UNCHANGED <<github, quota, keychain, link, news, behind, changes, faults>>

-----------------------------------------------------------------------------
Init ==
  /\ pull = [t \in Task |-> NoPull]
  /\ runs = [t \in Task |-> [s \in Sha |-> [of |-> {}, ver |-> 0]]]
  /\ quota = Quota
  /\ valid = Token /\ keychain \in Token
  /\ link = [t \in Task |-> NoLink]
  /\ client = NewClient(NoToken) /\ poll = Asleep
  /\ req = [c \in Request |-> Free]
  /\ news = {} /\ behind = {} /\ dropped = {} /\ unsaid = {}
  /\ changes = 0 /\ faults = 0 /\ crashes = 0

Polls == Tick \/ AskPull \/ AskChecks \/ Record \/ Mark \/ Say

Next ==
  \/ \E t \in Task : Moves(t) \/ ChecksRun(t)
  \/ Reset
  \/ \E k \in Token \cup {NoToken} : Revoke(k) \/ SetToken(k)
  \/ \E c \in Request : Post(c) \/ RecordOpened(c) \/ \E t \in Task : OpenPull(c, t)
  \/ Polls
  \/ Crash

Spec == Init /\ [][Next]_vars

(* The loop sleeps a bounded time, its requests have a timeout, and the    *)
(* budget is reset every hour.                                             *)
FairSpec == Spec /\ WF_vars(Polls) /\ WF_vars(Reset)

-----------------------------------------------------------------------------
(* What holds                                                              *)

(* News is said once: a merge, or one outcome of the checks of a push, is  *)
(* not announced again, by a later pass or after a restart (a pull request *)
(* that was reopened may close again).                                     *)
NewsIsSaidOnce == [][
  At("say") /\ poll.change # "quiet" /\ poll'.step # "say" /\ ~(crashes' # crashes) =>
    \/ Told \notin news
    \/ poll.change = "closed" \/ Current \in behind]_vars

(* Whether polling can go on at all.                                       *)
Starved == ~AllowsPolling(client)
Refused == client.token \notin valid

(* What an unchanged answer leaves in place is right: once an ETag is      *)
(* remembered, the link says what GitHub said with it.  For the two to     *)
(* differ it takes a pass that lost its answer after the ETag was          *)
(* remembered, to a body, a question about its checks or a write that      *)
(* failed (conditional, poll_task), or a request that opened the pull      *)
(* request and recorded that too late (open_pull); nothing else, and no    *)
(* longer than until an answer is recorded or the daemon restarts.         *)
UnchangedIsRecorded == \A t \in Task :
  (At("asleep") /\ client.pulls[t] # 0 /\ client.pulls[t] = pull[t].ver) =>
    \/ link[t].num = pull[t].num /\ link[t].state = pull[t].state /\ link[t].sha = pull[t].sha
    \/ t \in dropped

(* A merge of a pull request that is watched is heard of: announced, in    *)
(* the end, through failures, crashes and refusals, unless                 *)
(* - its own ETag is remembered and its answer lost, as above;             *)
(* - it was recorded, and publishing it failed or a crash came before;     *)
(* - another pull request takes its place, or a closing is recorded that   *)
(*   was read before it was reopened, since a closed one is not polled;    *)
(* - nothing is asked any more: the token is gone for good, or the client  *)
(*   heard that its budget was at the reserve, which only a restart undoes *)
(*   (allows_polling).                                                     *)
Lost(t) ==
  \/ t \in dropped /\ client.pulls[t] = pull[t].ver
  \/ t \in unsaid /\ link[t].state = "merged"
MergeIsHeard == \A t \in Task, n \in Number \ {0} :
  (pull[t].num = n /\ pull[t].state = "merged" /\ link[t].num = n /\ link[t].state = "open") ~>
    \/ \E m \in news : m.task = t /\ m.num = n /\ m.what = "merged"
    \/ Lost(t)
    \/ pull[t].num # n \/ link[t].num # n \/ link[t].state = "closed"
    \/ [](At("asleep") /\ Starved) \/ []Refused
=============================================================================
