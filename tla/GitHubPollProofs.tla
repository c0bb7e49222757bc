-------------------------- MODULE GitHubPollProofs --------------------------
(* What TLAPS proves of GitHubPoll, for every set of tasks, requests and   *)
(* tokens and every bound: types, that news is said once, and that what an *)
(* unchanged answer leaves in place is right.                              *)
EXTENDS GitHubPoll, TLAPS, WellFoundedInduction

(* The loop is in a pass; it has read the pull request of the task at      *)
(* hand; and its check runs.                                               *)
Busy    == poll.step # "asleep"
Reading == poll.step \in {"checks", "record", "mark", "say"}
Checked == poll.step \in {"record", "mark", "say"}
Stored  == poll.step \in {"mark", "say"}

(* Versions grow, and nobody knows of a later one than there is.           *)
VersionsOK == \A t \in Task :
  /\ pull[t].ver <= changes /\ pull[t].head <= changes
  /\ \A s \in Sha : runs[t][s].ver <= changes
  /\ client.pulls[t] <= pull[t].ver
  /\ client.token = NoToken => client.pulls[t] = 0
  /\ link[t].num <= pull[t].num

(* A pull request that a request has opened is the newest until another    *)
(* version says otherwise.                                                 *)
OpenedOK == \A c \in Request : LET r == req[c] t == r.task IN
  /\ r.step # "free" => t \in Task
  /\ r.step = "record" =>
       /\ r.num \in 1 .. pull[t].num /\ r.sha \in Sha /\ r.ver <= pull[t].ver
       /\ pull[t].ver = r.ver =>
            pull[t].num = r.num /\ pull[t].state = "open" /\ pull[t].sha = r.sha

(* What the pass knows of the links it began with.                         *)
BeforeOK == Busy => \A t \in poll.todo :
  /\ poll.before[t].num \in 1 .. pull[t].num
  /\ (At("say") /\ t = Current) \/ poll.before[t].checks = link[t].checks

(* What it read is what was there, and as new as what the client remembers.*)
SeenOK == Reading => LET t == Current seen == poll.seen IN
  /\ seen.ver = client.pulls[t]
  /\ poll.before[t].num <= seen.num /\ seen.num <= pull[t].num
  /\ seen.head <= pull[t].head
  /\ seen.head = pull[t].head => seen.sha = pull[t].sha
  /\ seen.ver = pull[t].ver => seen = pull[t]
  /\ \A c \in Request : req[c].step = "record" /\ req[c].task = t =>
       /\ seen.ver < req[c].ver => seen.num < req[c].num
       /\ seen.ver = req[c].ver => seen.num = req[c].num /\ seen.state = "open"

ChecksOK == Checked => LET run == runs[Current][poll.seen.sha] IN
  /\ poll.checks.ver <= run.ver
  /\ poll.checks.ver = run.ver => poll.checks.state = RollUp(run.of)

(* What it has stored, unless a request or a failed write is in the way.   *)
StoredOK == Stored => LET t == Current IN
  /\ poll.change = Compare(poll.before[t], poll.seen.state, poll.checks.state)
  /\ \/ t \in behind \/ link[t].num > poll.seen.num
     \/ link[t].num = poll.seen.num /\ link[t].state = poll.seen.state
  /\ At("say") => t \in behind \/ link[t].checks = poll.checks.state

(* An outcome that was announced is of the head it names: it is stored     *)
(* until there is a later one.                                             *)
Outdated(m, head, sha) == m.head = head =>
  /\ m.ver <= runs[m.task][sha].ver
  /\ m.ver = runs[m.task][sha].ver =>
       m.what = RollUp(runs[m.task][sha].of) /\ m.what = link[m.task].checks
OutcomesOK == \A m \in news : LET t == m.task seen == poll.seen IN
  m.what \in {"passed", "failed"} /\ t \notin behind =>
    /\ m.head <= pull[t].head
    /\ Outdated(m, pull[t].head, pull[t].sha)
    /\ Reading /\ t = Current =>
         /\ m.head <= seen.head
         /\ At("checks") => Outdated(m, seen.head, seen.sha)
         /\ Checked /\ m.head = seen.head =>
              m.ver < poll.checks.ver \/ poll.checks.state = poll.before[t].checks

(* A merge that was announced is stored until there is another pull request*)
MergesOK == \A m \in news : LET t == m.task IN
  m.what = "merged" /\ t \notin behind =>
    /\ m.num <= pull[t].num
    /\ m.num < link[t].num \/ (m.num = link[t].num /\ link[t].state = "merged")
    /\ Busy /\ t \in poll.todo => m.num < poll.before[t].num
    /\ \A c \in Request : req[c].step = "record" /\ req[c].task = t =>
         m.num < req[c].num \/ req[c].ver < client.pulls[t]

(* UnchangedIsRecorded, while the loop is about as well.                   *)
Recorded(t) ==
  link[t].num = pull[t].num /\ link[t].state = pull[t].state /\ link[t].sha = pull[t].sha
RecordedOK == \A t \in Task : client.pulls[t] # 0 /\ client.pulls[t] = pull[t].ver =>
  \/ Recorded(t) \/ t \in dropped
  \/ poll.step \in {"checks", "record"} /\ t = Current

IInv == TypeOK /\ VersionsOK /\ OpenedOK /\ BeforeOK /\ SeenOK /\ ChecksOK
        /\ StoredOK /\ OutcomesOK /\ MergesOK /\ RecordedOK

-----------------------------------------------------------------------------
(* What things are                                                         *)

LEMMA Bounds ==
  /\ Task \subseteq Nat /\ MaxSha \in Nat \ {0} /\ MaxPulls \in Nat /\ MaxChanges \in Nat
  /\ Quota \in Nat /\ Reserve \in Nat /\ Reserve <= Quota /\ MaxFaults \in Nat
  /\ MaxCrashes \in Nat /\ NoToken \notin Token
BY GitHubAssumption

(* A pass is at the least of the tasks it has to do.                       *)
LEMMA CurrentIs == ASSUME TypeOK, Busy PROVE Current \in poll.todo /\ Current \in Task
<1>1. poll.todo \in SUBSET Task /\ poll.todo # {}  BY DEF TypeOK, Poll, Busy
<1>2. poll.todo \in SUBSET Nat  BY <1>1, Bounds
<1>3. PICK t \in poll.todo : \A u \in poll.todo : <<u, t>> \notin OpToRel(<, Nat)
  BY <1>1, <1>2, NatLessThanWellFounded, WFMin
<1>4. \A u \in poll.todo : ~(u < t)  BY <1>2, <1>3 DEF OpToRel
<1>5. \A u \in poll.todo : t <= u  BY <1>2, <1>4
<1>6. Current \in poll.todo  BY <1>5 DEF Current
<1>. QED  BY <1>1, <1>6

(* The values of the variables.                                            *)
LEMMA PullIs == ASSUME TypeOK, NEW t \in Task
  PROVE /\ pull[t] \in Pull /\ pull[t].num \in Nat /\ pull[t].ver \in Nat /\ pull[t].head \in Nat
        /\ pull[t].sha \in Sha /\ pull[t].state \in States
        /\ pull \in [Task -> Pull]
BY Bounds DEF TypeOK, Pull, Number, Ver

LEMMA RunIs == ASSUME TypeOK, NEW t \in Task, NEW s \in Sha
  PROVE /\ runs[t][s] \in Runs /\ runs[t][s].ver \in Nat /\ runs[t][s].of \in SUBSET Outcome
        /\ runs[t][s].ver \in Ver /\ runs \in [Task -> [Sha -> Runs]]
<1>1. runs[t][s] \in Runs  BY DEF TypeOK
<1>. QED  BY <1>1, Bounds DEF TypeOK, Runs, Ver

LEMMA LinkIs == ASSUME TypeOK, NEW t \in Task
  PROVE /\ link[t] \in Link /\ link[t].num \in Nat /\ link \in [Task -> Link]
        /\ link[t].checks \in Checks /\ (link[t].num = 0 <=> link[t].state = "none")
BY Bounds DEF TypeOK, Link, Number

LEMMA ClientIs == ASSUME TypeOK
  PROVE /\ client \in Client /\ client.token \in Token \cup {NoToken} /\ client.left \in 0 .. NoRate
        /\ client.pulls \in [Task -> Ver] /\ client.checks \in [Task -> [Sha -> Ver]]
        /\ \A t \in Task : client.pulls[t] \in Nat
BY Bounds DEF TypeOK, Client, Ver

LEMMA PollIs == ASSUME TypeOK
  PROVE /\ poll \in Poll /\ poll.todo \in SUBSET Task /\ poll.before \in [Task -> Link]
        /\ poll.seen \in Pull /\ poll.seen.num \in Nat /\ poll.seen.ver \in Nat
        /\ poll.seen.head \in Nat /\ poll.seen.sha \in Sha /\ poll.seen.state \in States
        /\ poll.checks \in Run /\ poll.checks.ver \in Nat /\ poll.checks.state \in Checks
        /\ poll.change \in Changes
        /\ \A t \in Task : poll.before[t] \in Link /\ poll.before[t].num \in Nat
                           /\ poll.before[t].checks \in Checks
<1>1. /\ poll \in Poll /\ poll.todo \in SUBSET Task /\ poll.before \in [Task -> Link]
      /\ poll.seen \in Pull /\ poll.checks \in Run /\ poll.change \in Changes
  BY DEF TypeOK, Poll
<1>2. \A t \in Task : poll.before[t] \in Link /\ poll.before[t].num \in Nat
                      /\ poll.before[t].checks \in Checks
  BY <1>1, Bounds DEF Link, Number
<1>3. poll.seen.num \in Nat /\ poll.seen.ver \in Nat /\ poll.seen.head \in Nat
      /\ poll.seen.sha \in Sha /\ poll.seen.state \in States
  BY <1>1, Bounds DEF Pull, Number, Ver
<1>4. poll.checks.ver \in Nat /\ poll.checks.state \in Checks
  BY <1>1, Bounds DEF Run, Ver
<1>. QED  BY <1>1, <1>2, <1>3, <1>4

LEMMA RequestIs == ASSUME TypeOK, NEW c \in Request
  PROVE /\ req[c] \in OpenRequest /\ req[c].num \in Nat /\ req[c].ver \in Nat
        /\ req \in [Request -> OpenRequest]
BY Bounds DEF TypeOK, OpenRequest, Number, Ver

LEMMA NewsIs == ASSUME TypeOK, NEW m \in news
  PROVE m \in News /\ m.task \in Task /\ m.num \in Nat /\ m.head \in Nat /\ m.ver \in Nat
BY Bounds DEF TypeOK, News, Number, Ver

LEMMA Counts == ASSUME TypeOK
  PROVE changes \in Nat /\ faults \in Nat /\ crashes \in Nat /\ quota \in Nat
BY Bounds DEF TypeOK

LEMMA FreeIs == Free \in OpenRequest /\ NoPull \in Pull
BY Bounds DEF Free, OpenRequest, Number, Ver, NoPull, Pull, States, Sha

LEMMA NewIs ==
  /\ \A token \in Token \cup {NoToken} : NewClient(token) \in Client /\ NewClient(token).token = token
  /\ Asleep \in Poll /\ Asleep.step = "asleep"
<1>1. 0 \in Ver /\ NoRate \in 0 .. NoRate  BY Bounds DEF Ver, NoRate
<1>2. ASSUME NEW token \in Token \cup {NoToken}
      PROVE  NewClient(token) \in Client /\ NewClient(token).token = token
  BY <1>1 DEF NewClient, Client
<1>3. NoLink \in Link /\ NoRun \in Run
  BY Bounds DEF NoLink, Link, NoRun, Run, Number, Checks, Ver
<1>4. Asleep \in Poll  BY <1>3, FreeIs DEF Asleep, Poll, Changes
<1>. QED  BY <1>2, <1>4 DEF Asleep

(* What the checks come to, and what the comparison can say.               *)
LEMMA RollUpIs == ASSUME NEW of \in SUBSET Outcome PROVE RollUp(of) \in Checks
BY DEF RollUp, Checks

LEMMA CompareIs ==
  ASSUME NEW before, NEW state, NEW checks
  PROVE  /\ Compare(before, state, checks) \in Changes
         /\ Compare(before, state, checks) = "merged" => state = "merged"
         /\ Compare(before, state, checks) \in {"passed", "failed"} =>
              checks = Compare(before, state, checks) /\ checks # before.checks
BY DEF Compare, Changes

-----------------------------------------------------------------------------
(* GitHub and the requests                                                 *)

LEMMA CurrentStays == ASSUME poll'.todo = poll.todo PROVE Current' = Current
BY DEF Current

(* What the loop does not see changes nothing that is known of it.         *)
LEMMA NeutralOK ==
  ASSUME IInv, UNCHANGED <<pull, runs, link, client, poll, req, news, behind, lost, faults, crashes>>,
         valid' \subseteq valid, keychain' \in Token \cup {NoToken}, quota' \in 0 .. Quota,
         UNCHANGED changes \/ Change
  PROVE  IInv'
<1>1. TypeOK /\ Current' = Current  BY CurrentStays DEF IInv
<1>2. changes' \in 0 .. MaxChanges /\ changes <= changes'  BY <1>1, Bounds DEF TypeOK, Change
<1>3. TypeOK'  BY <1>1, <1>2 DEF TypeOK, lost
<1>4. VersionsOK'
  <2>1. ASSUME NEW t \in Task
        PROVE pull[t].ver <= changes' /\ pull[t].head <= changes' /\ \A s \in Sha : runs[t][s].ver <= changes'
    <3>1. pull[t].ver <= changes /\ pull[t].head <= changes /\ \A s \in Sha : runs[t][s].ver <= changes
      BY DEF IInv, VersionsOK
    <3>. QED  BY <1>1, <1>2, <3>1, PullIs, RunIs, Counts, Bounds
  <2>. QED  BY <2>1 DEF IInv, VersionsOK
<1>5. OpenedOK'  BY DEF IInv, OpenedOK
<1>6. BeforeOK'  BY <1>1 DEF IInv, BeforeOK, Busy, At
<1>7. SeenOK'  BY <1>1 DEF IInv, SeenOK, Reading
<1>8. ChecksOK' /\ StoredOK'  BY <1>1 DEF IInv, ChecksOK, StoredOK, Checked, Stored, At
<1>9. OutcomesOK'  BY <1>1 DEF IInv, OutcomesOK, Outdated, Reading, Checked, At
<1>10. MergesOK'  BY DEF IInv, MergesOK, Busy
<1>11. RecordedOK'  BY <1>1 DEF IInv, RecordedOK, Recorded, lost
<1>. QED  BY <1>3, <1>4, <1>5, <1>6, <1>7, <1>8, <1>9, <1>10, <1>11 DEF IInv

(* Requests that end, or begin, know nothing yet.                          *)
LEMMA RequestsLeave ==
  ASSUME IInv, req' \in [Request -> OpenRequest],
         \A c \in Request :
           \/ req'[c] = req[c]
           \/ req'[c].step = "free"
           \/ req'[c].step = "post" /\ req'[c].task \in Task,
         UNCHANGED <<pull, runs, valid, quota, keychain, link, client, poll, news, behind>>,
         UNCHANGED <<lost, changes, faults, crashes>>
  PROVE  IInv'
<1>1. TypeOK /\ Current' = Current  BY CurrentStays DEF IInv
<1>2. TypeOK'  BY <1>1 DEF TypeOK, lost
<1>3. VersionsOK'  BY DEF IInv, VersionsOK
<1>4. OpenedOK'
  <2>1. ASSUME NEW c \in Request, req'[c] = req[c]
        PROVE  LET r == req[c] t == r.task IN
               /\ r.step # "free" => t \in Task
               /\ r.step = "record" =>
                    /\ r.num \in 1 .. pull[t].num /\ r.sha \in Sha /\ r.ver <= pull[t].ver
                    /\ pull[t].ver = r.ver =>
                         pull[t].num = r.num /\ pull[t].state = "open" /\ pull[t].sha = r.sha
    BY DEF IInv, OpenedOK
  <2>. QED  BY <2>1 DEF OpenedOK
<1>5. BeforeOK'  BY <1>1 DEF IInv, BeforeOK, Busy, At
<1>6. \A c \in Request : req'[c].step = "record" => req'[c] = req[c]  OBVIOUS
<1>7. SeenOK'  BY <1>1, <1>6 DEF IInv, SeenOK, Reading
<1>8. ChecksOK' /\ StoredOK'  BY <1>1 DEF IInv, ChecksOK, StoredOK, Checked, Stored, At
<1>9. OutcomesOK'  BY <1>1 DEF IInv, OutcomesOK, Outdated, Reading, Checked, At
<1>10. MergesOK'  BY <1>6 DEF IInv, MergesOK, Busy
<1>11. RecordedOK'  BY <1>1 DEF IInv, RecordedOK, Recorded, lost
<1>. QED  BY <1>2, <1>3, <1>4, <1>5, <1>7, <1>8, <1>9, <1>10, <1>11 DEF IInv

(* A pull request is another version of itself, or a newer one, which the  *)
(* request that opened it may know of.                                     *)
LEMMA PullChanges ==
  ASSUME IInv, NEW t \in Task, NEW p \in Pull, pull' = [pull EXCEPT ![t] = p],
         p.ver = changes + 1, pull[t].num <= p.num,
         (p.head = pull[t].head /\ p.sha = pull[t].sha) \/ p.head = changes + 1,
         Change, quota' \in 0 .. Quota, faults' \in 0 .. MaxFaults, faults <= faults',
         req' \in [Request -> OpenRequest],
         \A c \in Request :
           \/ req'[c] = req[c] \/ req'[c] = Free
           \/ /\ req'[c].step = "record" /\ req'[c].task = t /\ req'[c].num = p.num
              /\ pull[t].num < p.num /\ req'[c].ver = changes + 1 /\ p.state = "open"
              /\ req'[c].sha = p.sha,
         UNCHANGED <<runs, valid, keychain, link, client, poll, news, behind, lost, crashes>>
  PROVE  IInv'
<1>1. TypeOK /\ VersionsOK /\ Current' = Current  BY CurrentStays DEF IInv
<1>2. changes' = changes + 1 /\ changes' \in 0 .. MaxChanges /\ changes \in Nat
  BY <1>1, Bounds DEF TypeOK, Change
<1>3. \A u \in Task : pull'[u] = IF u = t THEN p ELSE pull[u]  BY <1>1, PullIs
<1>4. TypeOK'
  <2>1. pull' \in [Task -> Pull]  BY <1>1, PullIs
  <2>. QED  BY <1>1, <1>2, <2>1 DEF TypeOK, lost
<1>5. ASSUME NEW u \in Task
      PROVE  /\ pull[u].num <= pull'[u].num /\ pull'[u].num \in Nat
             /\ pull[u].ver <= changes /\ pull[u].head <= changes /\ client.pulls[u] <= pull[u].ver
             /\ pull'[u].ver = pull[u].ver \/ pull'[u].ver = changes + 1
             /\ pull'[u].ver = pull[u].ver => pull'[u] = pull[u]
             /\ pull'[u].ver \in Nat /\ pull'[u].head \in Nat
             /\ (pull'[u].head = pull[u].head /\ pull'[u].sha = pull[u].sha) \/ pull'[u].head = changes + 1
             /\ pull[u].num \in Nat /\ pull[u].ver \in Nat /\ pull[u].head \in Nat
             /\ client.pulls[u] \in Nat
  <2>1. /\ pull[u].num \in Nat /\ pull[u].ver \in Nat /\ pull[u].head \in Nat
        /\ client.pulls[u] \in Nat  BY <1>1, PullIs, ClientIs
  <2>2. pull[u].ver <= changes /\ pull[u].head <= changes /\ client.pulls[u] <= pull[u].ver
    BY <1>1 DEF VersionsOK
  <2>3. p.num \in Nat /\ p.head \in Nat  BY Bounds DEF Pull, Number, Ver
  <2>. QED  BY <1>2, <1>3, <2>1, <2>2, <2>3
<1>6. VersionsOK'
  <2>1. ASSUME NEW u \in Task
        PROVE /\ pull'[u].ver <= changes' /\ pull'[u].head <= changes'
              /\ client.pulls[u] <= pull'[u].ver /\ link[u].num <= pull'[u].num
              /\ \A s \in Sha : runs[u][s].ver <= changes'
    <3>1. link[u].num <= pull[u].num /\ \A s \in Sha : runs[u][s].ver <= changes
      BY <1>1 DEF VersionsOK
    <3>. QED  BY <1>1, <1>2, <1>5, <3>1, LinkIs, RunIs
  <2>. QED  BY <1>1, <2>1 DEF VersionsOK
<1>7. OpenedOK'
  <2>1. ASSUME NEW c \in Request, req'[c].step # "free" PROVE req'[c].task \in Task
    BY <2>1 DEF IInv, OpenedOK, Free
  <2>2. ASSUME NEW c \in Request, req'[c].step = "record"
        PROVE  LET r == req'[c] u == r.task IN
               /\ r.num \in 1 .. pull'[u].num /\ r.sha \in Sha /\ r.ver <= pull'[u].ver
               /\ pull'[u].ver = r.ver =>
                    pull'[u].num = r.num /\ pull'[u].state = "open" /\ pull'[u].sha = r.sha
    <3>1. CASE req'[c] = req[c]
      <4> DEFINE u == req[c].task
      <4>1. /\ u \in Task /\ req[c].num \in 1 .. pull[u].num /\ req[c].sha \in Sha
            /\ req[c].ver <= pull[u].ver
            /\ pull[u].ver = req[c].ver =>
                    pull[u].num = req[c].num /\ pull[u].state = "open" /\ pull[u].sha = req[c].sha
        BY <2>2, <3>1 DEF IInv, OpenedOK
      <4>2. req[c].ver \in Nat /\ req[c].num \in Nat  BY <1>1, RequestIs
      <4> HIDE DEF u
      <4>3. req[c].num \in 1 .. pull'[u].num /\ req[c].ver <= pull'[u].ver  BY <1>2, <1>5, <4>1, <4>2
      <4>4. pull'[u].ver = req[c].ver => pull'[u] = pull[u]  BY <1>2, <1>5, <4>1, <4>2
      <4>. QED  BY <3>1, <4>1, <4>3, <4>4 DEF u
    <3>2. CASE req'[c] # req[c]
      <4>1. /\ req'[c].task = t /\ req'[c].num = p.num /\ pull[t].num < p.num
            /\ req'[c].ver = changes + 1 /\ p.state = "open" /\ req'[c].sha = p.sha
        BY <2>2, <3>2 DEF Free
      <4>2. p.num \in Nat /\ p.sha \in Sha /\ pull[t].num \in Nat /\ pull'[t] = p
        BY <1>1, <1>3, Bounds, PullIs DEF Pull, Number
      <4>. QED  BY <1>2, <4>1, <4>2
    <3>. QED  BY <3>1, <3>2
  <2>. QED  BY <2>1, <2>2 DEF OpenedOK
<1>8. BeforeOK'
  <2>1. ASSUME Busy, NEW u \in poll.todo
        PROVE  /\ poll.before[u].num \in 1 .. pull'[u].num
               /\ (At("say") /\ u = Current) \/ poll.before[u].checks = link[u].checks
    <3>1. /\ poll.before[u].num \in 1 .. pull[u].num
          /\ (At("say") /\ u = Current) \/ poll.before[u].checks = link[u].checks
      BY <2>1 DEF IInv, BeforeOK
    <3>2. u \in Task  BY <1>1, PollIs
    <3>. QED  BY <1>5, <3>1, <3>2
  <2>. QED  BY <1>1, <2>1 DEF BeforeOK, Busy, At
<1>9. SeenOK'
  <2> DEFINE u == Current  seen == poll.seen
  <2>1. SUFFICES ASSUME Reading PROVE SeenOK'  BY DEF SeenOK, Reading
  <2>2. u \in Task  BY <1>1, <2>1, CurrentIs DEF Reading, Busy
  <2>3. /\ seen.ver = client.pulls[u]
        /\ poll.before[u].num <= seen.num /\ seen.num <= pull[u].num
        /\ seen.head <= pull[u].head
        /\ seen.head = pull[u].head => seen.sha = pull[u].sha
        /\ seen.ver = pull[u].ver => seen = pull[u]
    BY <2>1 DEF IInv, SeenOK
  <2>4. seen.num \in Nat /\ seen.head \in Nat /\ seen.ver \in Nat  BY <1>1, PollIs
  <2> HIDE DEF u, seen
  <2>5. /\ seen.num <= pull'[u].num /\ seen.head <= pull'[u].head
        /\ seen.head = pull'[u].head => seen.sha = pull'[u].sha
        /\ seen.ver = pull'[u].ver => seen = pull'[u]
    BY <1>2, <1>5, <2>2, <2>3, <2>4
  <2>6. ASSUME NEW c \in Request, req'[c].step = "record", req'[c].task = u
        PROVE  /\ seen.ver < req'[c].ver => seen.num < req'[c].num
               /\ seen.ver = req'[c].ver => seen.num = req'[c].num /\ seen.state = "open"
    <3>1. CASE req'[c] = req[c]  BY <2>1, <2>6, <3>1 DEF IInv, SeenOK, u, seen
    <3>2. CASE req'[c] # req[c]
      <4>1. /\ u = t /\ req'[c].num = p.num /\ pull[t].num < p.num /\ req'[c].ver = changes + 1
        BY <2>6, <3>2 DEF Free
      <4>2. p.num \in Nat  BY Bounds DEF Pull, Number
      <4>. QED  BY <1>2, <1>5, <2>2, <2>3, <2>4, <4>1, <4>2
    <3>. QED  BY <3>1, <3>2
  <2>. QED  BY <1>1, <2>3, <2>5, <2>6 DEF SeenOK, u, seen
<1>10. ChecksOK' /\ StoredOK'
  BY <1>1 DEF IInv, ChecksOK, StoredOK, Checked, Stored, At
<1>11. OutcomesOK'
  <2>1. SUFFICES ASSUME NEW m \in news, m.what \in {"passed", "failed"}, m.task \notin behind
                 PROVE  m.head <= pull'[m.task].head
                        /\ Outdated(m, pull'[m.task].head, pull'[m.task].sha)
    BY <1>1 DEF IInv, OutcomesOK, Outdated, Reading, Checked, At
  <2>2. m.head <= pull[m.task].head /\ Outdated(m, pull[m.task].head, pull[m.task].sha)
    BY <2>1 DEF IInv, OutcomesOK
  <2>3. m.task \in Task /\ m.head \in Nat  BY <1>1, NewsIs
  <2>4. CASE pull'[m.task].head = pull[m.task].head /\ pull'[m.task].sha = pull[m.task].sha
    BY <2>2, <2>4
  <2>5. CASE pull'[m.task].head = changes + 1
    <3>1. m.head < changes + 1  BY <1>2, <1>5, <2>2, <2>3
    <3>. QED  BY <1>2, <2>3, <2>5, <3>1 DEF Outdated
  <2>. QED  BY <1>5, <2>3, <2>4, <2>5
<1>12. MergesOK'
  <2>1. SUFFICES ASSUME NEW m \in news, m.what = "merged", m.task \notin behind
                 PROVE  /\ m.num <= pull'[m.task].num
                        /\ \A c \in Request : req'[c].step = "record" /\ req'[c].task = m.task =>
                             m.num < req'[c].num \/ req'[c].ver < client.pulls[m.task]
    BY <1>1 DEF IInv, MergesOK, Busy
  <2>2. /\ m.num <= pull[m.task].num
        /\ \A c \in Request : req[c].step = "record" /\ req[c].task = m.task =>
             m.num < req[c].num \/ req[c].ver < client.pulls[m.task]
    BY <2>1 DEF IInv, MergesOK
  <2>3. m.task \in Task /\ m.num \in Nat  BY <1>1, NewsIs
  <2>4. m.num <= pull'[m.task].num  BY <1>5, <2>2, <2>3
  <2>5. ASSUME NEW c \in Request, req'[c].step = "record", req'[c].task = m.task
        PROVE m.num < req'[c].num \/ req'[c].ver < client.pulls[m.task]
    <3>1. CASE req'[c] = req[c]  BY <2>2, <2>5, <3>1
    <3>2. CASE req'[c] # req[c]
      <4>1. m.task = t /\ req'[c].num = p.num /\ pull[t].num < p.num  BY <2>5, <3>2 DEF Free
      <4>2. p.num \in Nat  BY Bounds DEF Pull, Number
      <4>. QED  BY <1>5, <2>2, <2>3, <4>1, <4>2
    <3>. QED  BY <3>1, <3>2
  <2>. QED  BY <2>4, <2>5
<1>13. RecordedOK'
  <2>1. SUFFICES ASSUME NEW u \in Task, client.pulls[u] # 0, client.pulls[u] = pull'[u].ver
                 PROVE  \/ Recorded(u)' \/ u \in dropped
                        \/ poll.step \in {"checks", "record"} /\ u = Current
    BY <1>1 DEF RecordedOK, lost
  <2>2. client.pulls[u] = pull[u].ver /\ pull'[u] = pull[u]  BY <1>2, <1>5, <2>1
  <2>3. Recorded(u) => Recorded(u)'  BY <2>2 DEF Recorded
  <2>. QED  BY <2>1, <2>2, <2>3 DEF IInv, RecordedOK
<1>. QED  BY <1>4, <1>6, <1>7, <1>8, <1>9, <1>10, <1>11, <1>12, <1>13 DEF IInv

LEMMA MovesOK == ASSUME IInv, NEW t \in Task, Moves(t) PROVE IInv'
<1>1. TypeOK /\ pull[t] \in Pull /\ pull[t].num \in Nat  BY PullIs DEF IInv
<1>2. changes + 1 \in Ver /\ changes' = changes + 1
  <2>1. Change  BY DEF Moves
  <2>. QED  BY <1>1, <2>1, Bounds DEF Change, TypeOK, Ver
<1>3. \E q \in Pull : /\ Set(t, q) /\ q.num = pull[t].num
                      /\ (q.head = pull[t].head /\ q.sha = pull[t].sha) \/ q.head = changes + 1
  <2>1. CASE \E s \in {"merged", "closed"} : Set(t, [pull[t] EXCEPT !.state = s])
    BY <1>1, <2>1 DEF Pull, States
  <2>2. CASE Set(t, [pull[t] EXCEPT !.state = "open"])
    BY <1>1, <2>2 DEF Pull, States
  <2>3. CASE \E s \in Sha : Set(t, [pull[t] EXCEPT !.sha = s, !.head = changes + 1])
    <3>1. PICK s \in Sha : Set(t, [pull[t] EXCEPT !.sha = s, !.head = changes + 1])  BY <2>3
    <3> DEFINE q == [pull[t] EXCEPT !.sha = s, !.head = changes + 1]
    <3>2. q \in Pull /\ q.num = pull[t].num /\ q.head = changes + 1  BY <1>1, <1>2 DEF Pull
    <3>. QED  BY <3>1, <3>2
  <2>. QED  BY <2>1, <2>2, <2>3 DEF Moves
<1>4. PICK q \in Pull : /\ Set(t, q) /\ q.num = pull[t].num
                        /\ (q.head = pull[t].head /\ q.sha = pull[t].sha) \/ q.head = changes + 1
  BY <1>3
<1> DEFINE p == [q EXCEPT !.ver = changes + 1]
<1>5. /\ p \in Pull /\ p.ver = changes + 1 /\ p.num = q.num /\ p.head = q.head /\ p.sha = q.sha
  BY <1>2 DEF Pull
<1>6. pull' = [pull EXCEPT ![t] = p]  BY <1>4 DEF Set
<1> HIDE DEF p
<1>7. /\ Change /\ UNCHANGED <<runs, valid, keychain, link, client, poll, news, behind, lost, crashes>>
      /\ UNCHANGED <<quota, faults, req>>
  BY DEF Moves, GitHubOnly
<1>8. quota' \in 0 .. Quota /\ faults' \in 0 .. MaxFaults /\ faults <= faults'
      /\ req' \in [Request -> OpenRequest]
  BY <1>1, <1>7, Bounds DEF TypeOK
<1>9. \A c \in Request : req'[c] = req[c]  BY <1>7
<1>10. pull[t].num <= p.num  BY <1>1, <1>4, <1>5
<1>11. (p.head = pull[t].head /\ p.sha = pull[t].sha) \/ p.head = changes + 1  BY <1>4, <1>5
<1>. QED  BY <1>5, <1>6, <1>7, <1>8, <1>9, <1>10, <1>11, PullChanges

LEMMA PostOK == ASSUME IInv, NEW c \in Request, Post(c) PROVE IInv'
<1> DEFINE t == req[c].task
           opened == [pull[t] EXCEPT !.num = @ + 1, !.state = "open"]
           p == [opened EXCEPT !.ver = changes + 1]
           r == [req[c] EXCEPT !.step = "record", !.num = opened.num, !.sha = opened.sha,
                               !.ver = changes + 1]
<1>1. TypeOK /\ t \in Task  BY DEF IInv, OpenedOK, Post
<1>2. pull[t] \in Pull /\ pull[t].num \in Nat  BY <1>1, PullIs
<1>3. UNCHANGED <<link, news, behind, lost>> /\ UNCHANGED <<runs, valid, keychain, client, poll, crashes>>
  BY DEF Post, Requests, lost
<1>4. CASE req' = [req EXCEPT ![c] = Free] /\ UNCHANGED <<pull, quota, changes, faults>>
  <2>1. Free \in OpenRequest  BY FreeIs
  <2>2. req' \in [Request -> OpenRequest]
        /\ \A d \in Request : req'[d] = req[d] \/ (req'[d] = Free /\ Free.step = "free")
    BY <1>1, <1>4, <2>1, RequestIs DEF Free
  <2>. QED  BY <1>3, <1>4, <2>2, RequestsLeave
<1>5. CASE /\ pull[t].num < MaxPulls /\ Change /\ Set(t, opened) /\ quota > 0 /\ quota' = quota - 1
           /\ \/ Fault /\ req' = [req EXCEPT ![c] = Free]
              \/ req' = [req EXCEPT ![c] = [@ EXCEPT !.step = "record",
                             !.num = opened.num, !.sha = opened.sha, !.ver = changes + 1]]
                 /\ UNCHANGED faults
  <2>1. changes + 1 \in Ver /\ changes' = changes + 1
    BY <1>1, <1>5, Bounds DEF Change, TypeOK, Ver
  <2>2. pull[t].num + 1 \in Number  BY <1>2, <1>5, Bounds DEF Number
  <2>3. /\ opened \in Pull /\ opened.num = pull[t].num + 1 /\ opened.state = "open"
        /\ opened.head = pull[t].head /\ opened.sha = pull[t].sha
    BY <1>2, <2>2 DEF Pull, States
  <2>4. pull' = [pull EXCEPT ![t] = p]  BY <1>5 DEF Set
  <2> HIDE DEF opened
  <2>5. /\ p \in Pull /\ p.ver = changes + 1 /\ p.num = pull[t].num + 1 /\ p.state = "open"
        /\ p.head = pull[t].head /\ p.sha = pull[t].sha
    BY <2>1, <2>3 DEF Pull
  <2> HIDE DEF p
  <2>6. quota' \in 0 .. Quota /\ faults' \in 0 .. MaxFaults /\ faults <= faults'
    BY <1>1, <1>5, Bounds DEF TypeOK, Fault
  <2>7. Free \in OpenRequest  BY FreeIs
  <2>8. r \in OpenRequest /\ r.step = "record" /\ r.task = t /\ r.num = p.num
        /\ r.sha = p.sha /\ r.ver = changes + 1
    <3>1. req[c] \in OpenRequest  BY <1>1, RequestIs
    <3>2. opened.num \in Number /\ opened.sha \in Sha  BY <2>3 DEF Pull
    <3>3. opened.num = p.num /\ opened.sha = p.sha  BY <2>3, <2>5
    <3>. QED  BY <2>1, <3>1, <3>2, <3>3 DEF OpenRequest
  <2>9. req' \in [Request -> OpenRequest]
        /\ \A d \in Request : req'[d] = req[d] \/ req'[d] = Free \/ req'[d] = r
    <3>1. req' = [req EXCEPT ![c] = Free] \/ req' = [req EXCEPT ![c] = r]
      BY <1>1, <1>5, RequestIs
    <3> HIDE DEF r, t
    <3>. QED  BY <1>1, <2>7, <2>8, <3>1, RequestIs
  <2> HIDE DEF r, t
  <2>10. pull[t].num < p.num /\ pull[t].num <= p.num  BY <1>2, <2>5
  <2>11. ASSUME NEW d \in Request
         PROVE  \/ req'[d] = req[d] \/ req'[d] = Free
                \/ /\ req'[d].step = "record" /\ req'[d].task = t /\ req'[d].num = p.num
                   /\ pull[t].num < p.num /\ req'[d].ver = changes + 1 /\ p.state = "open"
                   /\ req'[d].sha = p.sha
    BY <2>5, <2>8, <2>9, <2>10
  <2>12. (p.head = pull[t].head /\ p.sha = pull[t].sha) \/ p.head = changes + 1  BY <2>5
  <2>13. Change  BY <1>5
  <2>. QED  BY <1>1, <1>3, <2>4, <2>5, <2>6, <2>9, <2>10, <2>11, <2>12, <2>13, PullChanges
<1>. QED  BY <1>4, <1>5 DEF Post

LEMMA ChecksRunOK == ASSUME IInv, NEW t \in Task, ChecksRun(t) PROVE IInv'
<1> DEFINE s == pull[t].sha
<1>1. TypeOK /\ VersionsOK /\ Current' = Current
  BY CurrentStays DEF IInv, ChecksRun, GitHubOnly
<1>2. /\ UNCHANGED <<pull, valid>> /\ Change
      /\ UNCHANGED <<quota, keychain, link, client, poll, req, news, behind, lost, faults, crashes>>
  BY DEF ChecksRun, GitHubOnly
<1>3. changes' = changes + 1 /\ changes' \in 0 .. MaxChanges /\ changes \in Nat
  BY <1>1, <1>2, Bounds DEF TypeOK, Change
<1>4. s \in Sha /\ runs \in [Task -> [Sha -> Runs]]  BY <1>1, PullIs DEF TypeOK
<1>5. PICK of \in SUBSET Outcome : runs' = [runs EXCEPT ![t][s] = [of |-> of, ver |-> changes + 1]]
  BY DEF ChecksRun, Outcome
<1> DEFINE run == [of |-> of, ver |-> changes + 1]
<1>6. run \in Runs /\ run.ver = changes + 1  BY <1>3 DEF Runs, Ver
<1> HIDE DEF run, s
<1>7. \A u \in Task, v \in Sha :
        runs'[u][v] = IF u = t /\ v = s THEN run ELSE runs[u][v]
  BY <1>4, <1>5 DEF run
<1>8. TypeOK'
  <2>1. runs' \in [Task -> [Sha -> Runs]]  BY <1>4, <1>5, <1>6 DEF run
  <2>. QED  BY <1>1, <1>2, <1>3, <2>1 DEF TypeOK, lost
<1>9. ASSUME NEW u \in Task, NEW v \in Sha
      PROVE  /\ runs[u][v].ver <= changes /\ runs[u][v].ver \in Nat /\ runs'[u][v].ver \in Nat
             /\ runs'[u][v] = runs[u][v] \/ runs'[u][v].ver = changes + 1
  <2>1. runs[u][v].ver <= changes /\ runs[u][v].ver \in Nat  BY <1>1, RunIs DEF VersionsOK
  <2>. QED  BY <1>3, <1>6, <1>7, <2>1
<1>10. VersionsOK'
  <2>1. ASSUME NEW u \in Task
        PROVE /\ pull[u].ver <= changes' /\ pull[u].head <= changes'
              /\ \A v \in Sha : runs'[u][v].ver <= changes'
    <3>1. pull[u].ver <= changes /\ pull[u].head <= changes  BY <1>1 DEF VersionsOK
    <3>. QED  BY <1>1, <1>3, <1>9, <3>1, PullIs
  <2>. QED  BY <1>1, <1>2, <2>1 DEF VersionsOK
<1>11. OpenedOK' /\ MergesOK'  BY <1>2 DEF IInv, OpenedOK, MergesOK, Busy
<1>12. BeforeOK'  BY <1>1, <1>2 DEF IInv, BeforeOK, Busy, At
<1>13. SeenOK'  BY <1>1, <1>2 DEF IInv, SeenOK, Reading
<1>14. StoredOK'  BY <1>1, <1>2 DEF IInv, StoredOK, Stored, At
<1>15. ChecksOK'
  <2>1. SUFFICES ASSUME Checked PROVE ChecksOK'  BY <1>2 DEF ChecksOK, Checked
  <2> DEFINE u == Current  v == poll.seen.sha
  <2>2. u \in Task /\ v \in Sha /\ poll.checks.ver \in Nat
    BY <1>1, <2>1, CurrentIs, PollIs DEF Checked, Busy
  <2>3. /\ poll.checks.ver <= runs[u][v].ver
        /\ poll.checks.ver = runs[u][v].ver => poll.checks.state = RollUp(runs[u][v].of)
    BY <2>1 DEF IInv, ChecksOK
  <2> HIDE DEF u, v
  <2>4. /\ poll.checks.ver <= runs'[u][v].ver
        /\ poll.checks.ver = runs'[u][v].ver => poll.checks.state = RollUp(runs'[u][v].of)
    BY <1>3, <1>9, <2>2, <2>3
  <2>. QED  BY <1>1, <1>2, <2>4 DEF ChecksOK, u, v
<1>16. OutcomesOK'
  <2>1. ASSUME NEW m \in news, NEW head, NEW sha \in Sha, Outdated(m, head, sha)
        PROVE  Outdated(m, head, sha)'
    <3>1. m.task \in Task /\ m.ver \in Nat  BY <1>1, NewsIs
    <3>. QED  BY <1>2, <1>3, <1>9, <2>1, <3>1 DEF Outdated
  <2>2. \A u \in Task : pull[u].sha \in Sha  BY <1>1, PullIs
  <2>3. poll.seen.sha \in Sha /\ \A m \in news : m.task \in Task  BY <1>1, PollIs, NewsIs
  <2>4. ASSUME NEW m \in news, m.what \in {"passed", "failed"}, m.task \notin behind
        PROVE  /\ m.head <= pull[m.task].head
               /\ Outdated(m, pull[m.task].head, pull[m.task].sha)'
               /\ Reading /\ m.task = Current =>
                    /\ m.head <= poll.seen.head
                    /\ At("checks") => Outdated(m, poll.seen.head, poll.seen.sha)'
                    /\ Checked /\ m.head = poll.seen.head =>
                         m.ver < poll.checks.ver \/ poll.checks.state = poll.before[m.task].checks
    <3>1. /\ m.head <= pull[m.task].head
          /\ Outdated(m, pull[m.task].head, pull[m.task].sha)
          /\ Reading /\ m.task = Current =>
               /\ m.head <= poll.seen.head
               /\ At("checks") => Outdated(m, poll.seen.head, poll.seen.sha)
               /\ Checked /\ m.head = poll.seen.head =>
                    m.ver < poll.checks.ver \/ poll.checks.state = poll.before[m.task].checks
      BY <2>4 DEF IInv, OutcomesOK
    <3>2. Outdated(m, pull[m.task].head, pull[m.task].sha)'
      BY <1>2, <2>1, <2>2, <2>3, <3>1 DEF Outdated
    <3>3. Outdated(m, poll.seen.head, poll.seen.sha) => Outdated(m, poll.seen.head, poll.seen.sha)'
      BY <1>2, <2>1, <2>3 DEF Outdated
    <3>. QED  BY <3>1, <3>2, <3>3
  <2>. QED  BY <1>1, <1>2, <2>4 DEF OutcomesOK, Reading, Checked, At, Outdated
<1>17. RecordedOK'  BY <1>1, <1>2 DEF IInv, RecordedOK, Recorded, lost
<1>. QED  BY <1>8, <1>10, <1>11, <1>12, <1>13, <1>14, <1>15, <1>16, <1>17 DEF IInv

LEMMA TokensOK ==
  ASSUME IInv, Reset \/ \E k \in Token \cup {NoToken} : Revoke(k) \/ SetToken(k)
  PROVE  IInv'
<1>1. TypeOK  BY DEF IInv
<1>2. CASE Reset
  BY <1>1, <1>2, Bounds, NeutralOK DEF Reset, github, counted, TypeOK
<1>3. CASE \E k \in Token \cup {NoToken} : Revoke(k)
  BY <1>1, <1>3, NeutralOK DEF Revoke, GitHubOnly, TypeOK
<1>4. CASE \E k \in Token \cup {NoToken} : SetToken(k)
  <2>1. PICK k \in Token \cup {NoToken} : SetToken(k)  BY <1>4
  <2>2. quota' \in 0 .. Quota  BY <1>1, <2>1, Bounds DEF SetToken, TypeOK
  <2>. QED  BY <1>1, <2>1, <2>2, NeutralOK DEF SetToken, github
<1>. QED  BY <1>2, <1>3, <1>4

LEMMA OpenPullOK == ASSUME IInv, NEW c \in Request, NEW t \in Task, OpenPull(c, t) PROVE IInv'
<1> DEFINE r == [Free EXCEPT !.step = "post", !.task = t]
<1>1. r \in OpenRequest /\ r.step = "post" /\ r.task = t
  BY FreeIs DEF Free, OpenRequest
<1>2. /\ req' = [req EXCEPT ![c] = r] /\ UNCHANGED <<quota, pull, link, news, behind, changes, faults>>
      /\ UNCHANGED <<runs, valid, keychain, client, poll, lost, crashes>>
  BY DEF OpenPull, Requests, lost
<1> HIDE DEF r
<1>3. req \in [Request -> OpenRequest]  BY DEF IInv, TypeOK
<1>4. req' \in [Request -> OpenRequest]
      /\ \A d \in Request : req'[d] = IF d = c THEN r ELSE req[d]
  BY <1>1, <1>2, <1>3
<1>. QED  BY <1>1, <1>2, <1>4, RequestsLeave

LEMMA CrashOK == ASSUME IInv, Crash PROVE IInv'
<1>1. /\ client' = NewClient(NoToken) /\ poll' = Asleep /\ req' = [c \in Request |-> Free]
      /\ UNCHANGED <<pull, runs, valid, quota, keychain, link, news, behind, changes, faults>>
      /\ crashes < MaxCrashes /\ crashes' = crashes + 1
      /\ dropped' = {} /\ unsaid' = unsaid \cup (IF poll.step \in {"mark", "say"} THEN {Current} ELSE {})
  BY DEF Crash, github
<1>2. TypeOK /\ VersionsOK  BY DEF IInv
<1>3. NewClient(NoToken) \in Client /\ Asleep \in Poll  BY NewIs
<1>4. TypeOK'
  <2>1. crashes' \in 0 .. MaxCrashes  BY <1>1, <1>2, Bounds DEF TypeOK
  <2>2. poll'.step = "asleep"  BY <1>1 DEF Asleep
  <2>3. req' \in [Request -> OpenRequest]  BY <1>1, FreeIs
  <2>4. poll.step \in {"mark", "say"} => Current \in Task  BY <1>2, CurrentIs DEF Busy
  <2>5. unsaid' \subseteq Task  BY <1>1, <1>2, <2>4 DEF TypeOK
  <2>. QED  BY <1>1, <1>2, <1>3, <2>1, <2>2, <2>3, <2>5 DEF TypeOK
<1>5. client'.token = NoToken /\ \A t \in Task : client'.pulls[t] = 0
  BY <1>1 DEF NewClient
<1>6. VersionsOK'  BY <1>1, <1>2, <1>5, PullIs DEF VersionsOK
<1>7. \A c \in Request : req'[c].step = "free"  BY <1>1 DEF Free
<1>8. OpenedOK'  BY <1>7 DEF OpenedOK
<1>9. poll'.step = "asleep"  BY <1>1 DEF Asleep
<1>10. BeforeOK' /\ SeenOK' /\ ChecksOK' /\ StoredOK'
  BY <1>9 DEF BeforeOK, SeenOK, ChecksOK, StoredOK, Busy, Reading, Checked, Stored
<1>11. OutcomesOK'  BY <1>1, <1>9 DEF IInv, OutcomesOK, Outdated, Reading
<1>12. MergesOK'  BY <1>1, <1>7, <1>9 DEF IInv, MergesOK, Busy
<1>13. RecordedOK'  BY <1>5 DEF RecordedOK
<1>. QED  BY <1>4, <1>6, <1>8, <1>10, <1>11, <1>12, <1>13 DEF IInv

(* What a request has opened is written over what the loop has stored: it  *)
(* is older than what the loop has read, and the task is behind, or it is  *)
(* a later pull request, or the same.                                      *)
LEMMA RecordOpenedOK == ASSUME IInv, NEW c \in Request, RecordOpened(c) PROVE IInv'
<1> DEFINE r == req[c]  t == r.task
           l == [link[t] EXCEPT !.num = r.num, !.state = "open", !.sha = r.sha]
           said == [task |-> t, what |-> "opened", num |-> r.num, head |-> 0, ver |-> 0]
<1>1. TypeOK /\ VersionsOK /\ Current' = Current
  BY CurrentStays DEF IInv, RecordOpened, Requests
<1>2. /\ r.step = "record" /\ req' = [req EXCEPT ![c] = Free] /\ news' = news \cup {said}
      /\ behind' = behind \cup {u \in {t} : client.pulls[u] > r.ver}
      /\ dropped' = dropped \cup {u \in {t} : client.pulls[u] > r.ver} /\ UNCHANGED unsaid
      /\ UNCHANGED <<pull, quota, changes, faults, runs, valid, keychain, client, poll, crashes>>
  BY DEF RecordOpened, Requests
<1>3. /\ t \in Task /\ r.num \in 1 .. pull[t].num /\ r.sha \in Sha /\ r.ver <= pull[t].ver
      /\ pull[t].ver = r.ver =>
           pull[t].num = r.num /\ pull[t].state = "open" /\ pull[t].sha = r.sha
  BY <1>2 DEF IInv, OpenedOK
<1>4. /\ r.num \in Nat /\ r.ver \in Nat /\ r \in OpenRequest /\ req \in [Request -> OpenRequest]
      /\ pull[t].num \in Nat /\ pull[t].ver \in Nat /\ client.pulls[t] \in Nat /\ link[t] \in Link
      /\ r.num \in Number /\ r.num # 0
  <2>1. /\ r.num \in Nat /\ r.ver \in Nat /\ r \in OpenRequest /\ req \in [Request -> OpenRequest]
        /\ pull[t].num \in Nat /\ pull[t].ver \in Nat /\ client.pulls[t] \in Nat /\ link[t] \in Link
    BY <1>1, <1>3, PullIs, ClientIs, LinkIs, RequestIs
  <2>2. r.num \in Number  BY <2>1 DEF OpenRequest
  <2>. QED  BY <1>3, <2>1, <2>2
<1>5. link' = [link EXCEPT ![t] = l]  BY <1>1, <1>3, LinkIs DEF RecordOpened, SetPull
<1>6. l \in Link /\ l.num = r.num /\ l.state = "open" /\ l.sha = r.sha /\ l.checks = link[t].checks
  BY <1>3, <1>4 DEF Link, States
<1>7. said \in News /\ said.what = "opened"  BY <1>3, <1>4, Bounds DEF News, Ver
<1>8. \A d \in Request : req'[d] = IF d = c THEN Free ELSE req[d]  BY <1>2, <1>4
<1>9. t \notin behind' \/ t \notin dropped' => client.pulls[t] <= r.ver  BY <1>2, <1>4
<1> HIDE DEF l, said
<1>10. \A u \in Task : link'[u] = IF u = t THEN l ELSE link[u]  BY <1>1, <1>5, LinkIs
<1>11. TypeOK'
  <2>0. link \in [Task -> Link]  BY <1>1 DEF TypeOK
  <2>1. link' \in [Task -> Link]  BY <1>5, <1>6, <2>0
  <2>2. \A u \in Task : link'[u].num = 0 <=> link'[u].state = "none"
    BY <1>1, <1>4, <1>6, <1>10 DEF TypeOK
  <2>3. req' \in [Request -> OpenRequest]  BY <1>2, <1>4, FreeIs
  <2>4. news' \subseteq News /\ behind' \subseteq Task /\ dropped' \subseteq Task
    BY <1>1, <1>2, <1>3, <1>7 DEF TypeOK
  <2>. QED  BY <1>1, <1>2, <2>1, <2>2, <2>3, <2>4 DEF TypeOK
<1> HIDE DEF r, t
<1>12. \A u \in Task : link'[u].num <= pull[u].num /\ link'[u].checks = link[u].checks
  BY <1>1, <1>3, <1>4, <1>6, <1>10 DEF VersionsOK
<1>13. VersionsOK'  BY <1>1, <1>2, <1>12 DEF VersionsOK
<1>14. \A d \in Request : req'[d].step = "record" => req'[d] = req[d]  BY <1>8 DEF Free
<1>15. OpenedOK'
  <2>1. ASSUME NEW d \in Request, d # c
        PROVE  LET q == req[d] u == q.task IN
               /\ q.step # "free" => u \in Task
               /\ q.step = "record" =>
                    /\ q.num \in 1 .. pull[u].num /\ q.sha \in Sha /\ q.ver <= pull[u].ver
                    /\ pull[u].ver = q.ver =>
                         pull[u].num = q.num /\ pull[u].state = "open" /\ pull[u].sha = q.sha
    BY DEF IInv, OpenedOK
  <2>2. req'[c].step = "free"  BY <1>8 DEF Free
  <2>. QED  BY <1>2, <1>8, <2>1, <2>2 DEF OpenedOK
<1>16. BeforeOK'
  <2>1. \A u \in poll.todo : link'[u].checks = link[u].checks  BY <1>1, <1>12, PollIs
  <2>. QED  BY <1>1, <1>2, <2>1 DEF IInv, BeforeOK, Busy, At
<1>17. SeenOK'  BY <1>1, <1>2, <1>14 DEF IInv, SeenOK, Reading
<1>18. ChecksOK'  BY <1>1, <1>2 DEF IInv, ChecksOK, Checked
<1>19. StoredOK'
  <2>1. SUFFICES ASSUME Stored PROVE StoredOK'  BY <1>2 DEF StoredOK, Stored
  <2> DEFINE u == Current  seen == poll.seen
  <2>2. u \in Task /\ Reading /\ seen.num \in Nat /\ seen.ver \in Nat
    BY <1>1, <2>1, CurrentIs, PollIs DEF Reading, Busy, Stored
  <2>3. /\ poll.change = Compare(poll.before[u], seen.state, poll.checks.state)
        /\ \/ u \in behind \/ link[u].num > seen.num
           \/ link[u].num = seen.num /\ link[u].state = seen.state
        /\ At("say") => u \in behind \/ link[u].checks = poll.checks.state
    BY <2>1 DEF IInv, StoredOK
  <2>4. seen.ver = client.pulls[u] /\ (u = t =>
             /\ seen.ver < r.ver => seen.num < r.num
             /\ seen.ver = r.ver => seen.num = r.num /\ seen.state = "open")
    BY <1>2, <2>2 DEF IInv, SeenOK, r, t
  <2>5. \/ u \in behind' \/ link'[u].num > seen.num
        \/ link'[u].num = seen.num /\ link'[u].state = seen.state
    <3>1. CASE u # t  BY <1>2, <1>10, <2>2, <2>3, <3>1
    <3>2. CASE u = t
      <4>1. u \in behind' \/ seen.ver <= r.ver  BY <1>9, <2>4, <3>2
      <4>2. seen.ver <= r.ver => seen.ver < r.ver \/ seen.ver = r.ver  BY <1>4, <2>2
      <4>3. link'[u].num = r.num /\ link'[u].state = "open"  BY <1>6, <1>10, <2>2, <3>2
      <4>. QED  BY <1>4, <2>2, <2>4, <3>2, <4>1, <4>2, <4>3
    <3>. QED  BY <3>1, <3>2
  <2>6. behind \subseteq behind' /\ link'[u].checks = link[u].checks  BY <1>2, <1>12, <2>2
  <2> HIDE DEF u, seen
  <2>7. At("say")' = At("say")  BY <1>2 DEF At
  <2>. QED  BY <1>1, <1>2, <2>3, <2>5, <2>6, <2>7 DEF StoredOK, u, seen
<1>20. OutcomesOK'
  <2>2. ASSUME NEW m \in news', m.what \in {"passed", "failed"}, m.task \notin behind'
        PROVE  m \in news /\ m.task \notin behind
    BY <1>2, <1>7, <2>2
  <2>3. ASSUME NEW m \in news, m.what \in {"passed", "failed"}, m.task \notin behind
        PROVE  /\ m.head <= pull[m.task].head
               /\ Outdated(m, pull[m.task].head, pull[m.task].sha)
               /\ Reading /\ m.task = Current =>
                    /\ m.head <= poll.seen.head
                    /\ At("checks") => Outdated(m, poll.seen.head, poll.seen.sha)
                    /\ Checked /\ m.head = poll.seen.head =>
                         m.ver < poll.checks.ver \/ poll.checks.state = poll.before[m.task].checks
    BY <2>3 DEF IInv, OutcomesOK
  <2>4. ASSUME NEW m \in news
        PROVE  /\ Outdated(m, pull[m.task].head, pull[m.task].sha)
                  => Outdated(m, pull[m.task].head, pull[m.task].sha)'
               /\ Outdated(m, poll.seen.head, poll.seen.sha)
                  => Outdated(m, poll.seen.head, poll.seen.sha)'
    <3>1. link'[m.task].checks = link[m.task].checks  BY <1>1, <1>12, NewsIs
    <3>2. Outdated(m, pull[m.task].head, pull[m.task].sha)
            => Outdated(m, pull[m.task].head, pull[m.task].sha)'
      BY <1>2, <3>1 DEF Outdated
    <3>3. Outdated(m, poll.seen.head, poll.seen.sha) => Outdated(m, poll.seen.head, poll.seen.sha)'
      BY <1>2, <3>1 DEF Outdated
    <3>. QED  BY <3>2, <3>3
  <2>. QED  BY <1>1, <1>2, <2>2, <2>3, <2>4 DEF OutcomesOK, Reading, Checked, At
<1>21. MergesOK'
  <2>1. ASSUME NEW m \in news', m.what = "merged", m.task \notin behind'
        PROVE  m \in news /\ m.task \notin behind
    BY <1>2, <1>7, <2>1
  <2>2. ASSUME NEW m \in news, m.what = "merged", m.task \notin behind'
        PROVE  m.num < link'[m.task].num
               \/ (m.num = link'[m.task].num /\ link'[m.task].state = "merged")
    <3>1. m.task \notin behind  BY <1>2, <2>2
    <3>2. /\ m.num < link[m.task].num \/ (m.num = link[m.task].num /\ link[m.task].state = "merged")
          /\ m.task = t => m.num < r.num \/ r.ver < client.pulls[t]
      BY <1>2, <2>2, <3>1 DEF IInv, MergesOK, r, t
    <3>3. m.task \in Task /\ m.num \in Nat  BY <1>1, NewsIs
    <3>4. CASE m.task # t  BY <1>10, <3>2, <3>3, <3>4
    <3>5. CASE m.task = t
      <4>1. ~(r.ver < client.pulls[t])  BY <1>4, <1>9, <2>2, <3>5
      <4>. QED  BY <1>6, <1>10, <3>2, <3>3, <3>5, <4>1
    <3>. QED  BY <3>4, <3>5
  <2>3. ASSUME NEW m \in news, m.what = "merged", m.task \notin behind
        PROVE  /\ m.num <= pull[m.task].num
               /\ Busy /\ m.task \in poll.todo => m.num < poll.before[m.task].num
               /\ \A d \in Request : req[d].step = "record" /\ req[d].task = m.task =>
                    m.num < req[d].num \/ req[d].ver < client.pulls[m.task]
    BY <2>3 DEF IInv, MergesOK
  <2>. QED  BY <1>2, <1>14, <2>1, <2>2, <2>3 DEF MergesOK, Busy
<1>22. RecordedOK'
  <2>1. SUFFICES ASSUME NEW u \in Task, client.pulls[u] # 0, client.pulls[u] = pull[u].ver
                 PROVE  \/ Recorded(u)' \/ u \in dropped'
                        \/ poll.step \in {"checks", "record"} /\ u = Current
    BY <1>1, <1>2 DEF RecordedOK
  <2>2. CASE u # t
    <3>1. Recorded(u) => Recorded(u)'  BY <1>2, <1>10, <2>1, <2>2 DEF Recorded
    <3>. QED  BY <1>2, <2>1, <3>1 DEF IInv, RecordedOK
  <2>3. CASE u = t
    <3>1. u \in dropped' \/ pull[t].ver <= r.ver  BY <1>9, <2>1, <2>3
    <3>2. pull[t].ver <= r.ver => pull[t].ver = r.ver  BY <1>3, <1>4
    <3>3. pull[t].ver = r.ver => Recorded(u)'
      BY <1>2, <1>3, <1>6, <1>10, <2>3 DEF Recorded
    <3>. QED  BY <3>1, <3>2, <3>3
  <2>. QED  BY <2>2, <2>3
<1>. QED  BY <1>11, <1>13, <1>15, <1>16, <1>17, <1>18, <1>19, <1>20, <1>21, <1>22 DEF IInv
-----------------------------------------------------------------------------
(* The loop                                                                *)

(* A task that is done with, or the whole pass.                            *)
LEMMA OnwardIs ==
  ASSUME TypeOK, Busy, Onward \/ poll' = Asleep
  PROVE  /\ poll' \in Poll /\ poll'.step \in {"asleep", "pull"}
         /\ poll'.step # "asleep" =>
              /\ poll'.todo = poll.todo \ {Current} /\ poll'.todo # {}
              /\ poll'.before = poll.before
<1>1. CASE poll' = Asleep  BY <1>1, NewIs
<1>2. CASE poll' # Asleep
  <2> DEFINE left == poll.todo \ {Current}
             q == [Asleep EXCEPT !.step = "pull", !.before = poll.before, !.todo = left]
  <2>1. poll' = q /\ poll.todo # {Current}  BY <1>2 DEF Onward
  <2>2. left \in SUBSET Task /\ left # {} /\ poll.before \in [Task -> Link]
    BY <2>1, CurrentIs, PollIs
  <2>3. Asleep \in Poll  BY NewIs
  <2> HIDE DEF left
  <2>4. q \in Poll /\ q.step = "pull" /\ q.todo = left /\ q.before = poll.before
    BY <2>2, <2>3 DEF Poll
  <2>. QED  BY <2>1, <2>2, <2>4 DEF left
<1>. QED  BY <1>1, <1>2

(* What must be so of news for it to be of the past when it is said.       *)
SaidOK(m) == LET t == m.task IN t \notin behind =>
  /\ m.what \in {"passed", "failed"} =>
       m.head <= pull[t].head /\ Outdated(m, pull[t].head, pull[t].sha)
  /\ m.what = "merged" =>
       /\ m.num <= pull[t].num
       /\ m.num < link[t].num \/ (m.num = link[t].num /\ link[t].state = "merged")
       /\ t \notin poll.todo \ {Current}
       /\ \A c \in Request : req[c].step = "record" /\ req[c].task = t =>
            m.num < req[c].num \/ req[c].ver < client.pulls[t]

LEMMA LeaveOK ==
  ASSUME IInv, Busy, Onward \/ poll' = Asleep,
         client' \in Client, client'.token = client.token,
         \A u \in Task : \/ client'.pulls[u] = client.pulls[u]
                         \/ client'.pulls[u] = pull[u].ver /\ u \in dropped',
         poll.step \in {"checks", "record"} => Current \in dropped',
         dropped \subseteq dropped', dropped' \subseteq Task, unsaid' \subseteq Task,
         news' \subseteq News, \A m \in news' : m \in news \/ SaidOK(m),
         quota' \in 0 .. Quota, faults' \in 0 .. MaxFaults,
         UNCHANGED <<pull, runs, valid, keychain, link, req, behind, changes, crashes>>
  PROVE  IInv'
<1>1. TypeOK /\ VersionsOK  BY DEF IInv
<1>2. /\ poll' \in Poll /\ poll'.step \in {"asleep", "pull"}
      /\ poll'.step # "asleep" =>
           /\ poll'.todo = poll.todo \ {Current} /\ poll'.todo # {}
           /\ poll'.before = poll.before
  BY <1>1, OnwardIs
<1>3. TypeOK'  BY <1>1, <1>2 DEF TypeOK, Busy
<1>4. ~Reading' /\ ~Checked' /\ ~Stored' /\ ~At("say")'
  BY <1>2 DEF Reading, Checked, Stored, At
<1>5. \A u \in Task : /\ client.pulls[u] <= client'.pulls[u] /\ client'.pulls[u] <= pull[u].ver
                      /\ client'.pulls[u] \in Nat
  BY <1>1, PullIs, ClientIs DEF VersionsOK
<1>6. VersionsOK'
  <2>1. client.token # NoToken  BY <1>1 DEF TypeOK, Busy
  <2>. QED  BY <1>1, <1>5, <2>1 DEF VersionsOK
<1>7. OpenedOK'  BY DEF IInv, OpenedOK
<1>8. BeforeOK'
  <2>1. SUFFICES ASSUME Busy', NEW u \in poll.todo, u # Current
                 PROVE  /\ poll.before[u].num \in 1 .. pull[u].num
                        /\ poll.before[u].checks = link[u].checks
    BY <1>2 DEF BeforeOK, Busy
  <2>. QED  BY <2>1 DEF IInv, BeforeOK
<1>9. SeenOK' /\ ChecksOK' /\ StoredOK'  BY <1>4 DEF SeenOK, ChecksOK, StoredOK
<1>10. OutcomesOK'
  <2>1. SUFFICES ASSUME NEW m \in news', m.what \in {"passed", "failed"}, m.task \notin behind
                 PROVE  /\ m.head <= pull[m.task].head
                        /\ Outdated(m, pull[m.task].head, pull[m.task].sha)
    BY <1>4 DEF OutcomesOK, Outdated
  <2>2. CASE m \in news  BY <2>1, <2>2 DEF IInv, OutcomesOK
  <2>3. CASE SaidOK(m)  BY <2>1, <2>3 DEF SaidOK
  <2>. QED  BY <2>2, <2>3
<1>11. MergesOK'
  <2>1. ASSUME NEW m \in news', m.what = "merged", m.task \notin behind
        PROVE  /\ m.num <= pull[m.task].num
               /\ m.num < link[m.task].num \/ (m.num = link[m.task].num /\ link[m.task].state = "merged")
               /\ Busy' /\ m.task \in poll'.todo => m.num < poll'.before[m.task].num
               /\ \A c \in Request : req[c].step = "record" /\ req[c].task = m.task =>
                    m.num < req[c].num \/ req[c].ver < client.pulls[m.task]
    <3>1. CASE m \in news
      <4>1. /\ m.num <= pull[m.task].num
            /\ m.num < link[m.task].num \/ (m.num = link[m.task].num /\ link[m.task].state = "merged")
            /\ m.task \in poll.todo => m.num < poll.before[m.task].num
            /\ \A c \in Request : req[c].step = "record" /\ req[c].task = m.task =>
                 m.num < req[c].num \/ req[c].ver < client.pulls[m.task]
        BY <2>1, <3>1 DEF IInv, MergesOK
      <4>. QED  BY <1>2, <4>1 DEF Busy
    <3>2. CASE SaidOK(m)  BY <1>2, <2>1, <3>2 DEF SaidOK, Busy
    <3>. QED  BY <3>1, <3>2
  <2>2. ASSUME NEW m \in news', NEW c \in Request, req[c].ver < client.pulls[m.task]
        PROVE  req[c].ver < client'.pulls[m.task]
    <3>1. m.task \in Task  BY DEF News
    <3>2. req[c].ver \in Nat /\ client.pulls[m.task] \in Nat  BY <1>1, <3>1, RequestIs, ClientIs
    <3>3. client'.pulls[m.task] \in Nat  BY <1>5, <3>1
    <3>. QED  BY <1>5, <2>2, <3>1, <3>2, <3>3
  <2>. QED  BY <2>1, <2>2 DEF MergesOK
<1>12. RecordedOK'
  <2>1. SUFFICES ASSUME NEW u \in Task, client'.pulls[u] # 0, client'.pulls[u] = pull[u].ver,
                        u \notin dropped'
                 PROVE  Recorded(u)
    BY DEF RecordedOK, Recorded
  <2>2. client.pulls[u] = client'.pulls[u] /\ u \notin dropped  BY <2>1
  <2>3. ~(poll.step \in {"checks", "record"} /\ u = Current)  BY <2>1
  <2>. QED  BY <2>1, <2>2, <2>3 DEF IInv, RecordedOK
<1>. QED  BY <1>3, <1>6, <1>7, <1>8, <1>9, <1>10, <1>11, <1>12 DEF IInv

(* A pass begins with the links as they are.                               *)
LEMMA TickOK == ASSUME IInv, Tick PROVE IInv'
<1> DEFINE c == IF client.token = NoToken THEN NewClient(keychain) ELSE client
           q == [Asleep EXCEPT !.step = "pull", !.todo = OpenPulls, !.before = link]
<1>1. TypeOK /\ VersionsOK  BY DEF IInv
<1>2. /\ At("asleep") /\ c.token # NoToken /\ client' = c
      /\ \/ poll' = poll
         \/ poll' = q /\ OpenPulls # {}
      /\ UNCHANGED <<pull, runs, valid, keychain, req, behind, changes, crashes, quota, link, news, faults>>
      /\ UNCHANGED <<dropped, unsaid>>
  BY DEF Tick, Loop, github, lost
<1>3. c \in Client
  <2>1. keychain \in Token \cup {NoToken}  BY <1>1 DEF TypeOK
  <2>. QED  BY <1>1, <2>1, NewIs, ClientIs
<1>4. OpenPulls \in SUBSET Task /\ link \in [Task -> Link]  BY <1>1 DEF OpenPulls, TypeOK
<1>5. q \in Poll /\ q.step = "pull" /\ q.todo = OpenPulls /\ q.before = link
  <2>1. Asleep \in Poll  BY NewIs
  <2>. QED  BY <1>4, <2>1 DEF Poll
<1>6. \A u \in Task : \/ c.pulls[u] = client.pulls[u] /\ c.token = client.token
                      \/ c.pulls[u] = 0 /\ client.pulls[u] = 0
  BY <1>1 DEF NewClient, VersionsOK
<1> HIDE DEF c, q
<1>7. TypeOK'
  <2>1. poll' \in Poll /\ (poll'.step # "asleep" => poll'.todo # {})
    BY <1>1, <1>2, <1>5 DEF TypeOK, At
  <2>. QED  BY <1>1, <1>2, <1>3, <2>1 DEF TypeOK
<1>8. ~Reading' /\ ~Checked' /\ ~Stored' /\ ~At("say")' /\ ~Busy
      /\ (Busy' => poll'.todo = OpenPulls /\ poll'.before = link)
  BY <1>2, <1>5 DEF Reading, Checked, Stored, At, Busy
<1>9. \A u \in Task : client'.pulls[u] = client.pulls[u]  BY <1>2, <1>6
<1>10. VersionsOK'  BY <1>1, <1>2, <1>9 DEF VersionsOK
<1>11. OpenedOK'  BY <1>2 DEF IInv, OpenedOK
<1>12. BeforeOK'
  <2>1. ASSUME NEW u \in OpenPulls PROVE link[u].num \in 1 .. pull[u].num
    <3>1. u \in Task /\ link[u].state = "open"  BY <2>1 DEF OpenPulls
    <3>2. link[u].num \in Nat /\ link[u].num # 0 /\ link[u].num <= pull[u].num /\ pull[u].num \in Nat
      BY <1>1, <3>1, LinkIs, PullIs DEF VersionsOK
    <3>. QED  BY <3>2
  <2>. QED  BY <1>2, <1>8, <2>1 DEF BeforeOK
<1>13. SeenOK' /\ ChecksOK' /\ StoredOK'  BY <1>8 DEF SeenOK, ChecksOK, StoredOK
<1>14. OutcomesOK'  BY <1>2, <1>8 DEF IInv, OutcomesOK, Outdated
<1>15. MergesOK'
  <2>1. ASSUME NEW m \in news, m.what = "merged", m.task \notin behind
        PROVE  /\ m.num <= pull[m.task].num
               /\ m.num < link[m.task].num \/ (m.num = link[m.task].num /\ link[m.task].state = "merged")
               /\ m.task \in OpenPulls => m.num < link[m.task].num
               /\ \A d \in Request : req[d].step = "record" /\ req[d].task = m.task =>
                    m.num < req[d].num \/ req[d].ver < client'.pulls[m.task]
    <3>1. m.task \in Task  BY <1>1, NewsIs
    <3>2. /\ m.num <= pull[m.task].num
          /\ m.num < link[m.task].num \/ (m.num = link[m.task].num /\ link[m.task].state = "merged")
          /\ \A d \in Request : req[d].step = "record" /\ req[d].task = m.task =>
               m.num < req[d].num \/ req[d].ver < client.pulls[m.task]
      BY <2>1 DEF IInv, MergesOK
    <3>. QED  BY <1>9, <3>1, <3>2 DEF OpenPulls
  <2>. QED  BY <1>2, <1>8, <2>1 DEF MergesOK
<1>16. RecordedOK'
  <2>1. SUFFICES ASSUME NEW u \in Task, client'.pulls[u] # 0, client'.pulls[u] = pull[u].ver
                 PROVE  Recorded(u) \/ u \in dropped
    BY <1>2 DEF RecordedOK, Recorded
  <2>2. client.pulls[u] # 0 /\ client.pulls[u] = pull[u].ver  BY <1>9, <2>1
  <2>. QED  BY <1>2, <2>1, <2>2 DEF IInv, RecordedOK, At
<1>. QED  BY <1>7, <1>10, <1>11, <1>12, <1>13, <1>14, <1>15, <1>16 DEF IInv

(* A request that fails leaves the task, or the pass.                      *)
LEMMA FailsIs ==
  ASSUME IInv, Busy, Fails
  PROVE  /\ Onward \/ poll' = Asleep
         /\ client' \in Client /\ client'.token = client.token /\ client'.pulls = client.pulls
         /\ quota' \in 0 .. Quota /\ faults' \in 0 .. MaxFaults
<1>1. TypeOK  BY DEF IInv
<1>2. client \in Client /\ NoRate \in 0 .. NoRate /\ 0 \in 0 .. NoRate
  BY <1>1, Bounds DEF TypeOK, NoRate
<1>3. client' \in Client /\ client'.token = client.token /\ client'.pulls = client.pulls
  <2>1. client' = client \/ \E n \in 0 .. NoRate : client' = [client EXCEPT !.left = n]
    BY <1>2 DEF Fails
  <2>. QED  BY <1>2, <2>1 DEF Client
<1>4. faults' \in 0 .. MaxFaults /\ quota' \in 0 .. Quota
  <2>1. Fault \/ UNCHANGED faults  BY DEF Fails
  <2>2. UNCHANGED quota  BY DEF Fails
  <2>. QED  BY <1>1, <2>1, <2>2, Bounds DEF TypeOK, Fault
<1>5. Onward \/ poll' = Asleep  BY DEF Fails
<1>. QED  BY <1>3, <1>4, <1>5

(* What an answer leaves in the client.                                    *)
LEMMA AnswerIs ==
  ASSUME TypeOK, NEW n \in 0 .. Quota, NEW t \in Task, NEW s \in Sha, NEW v \in Ver
  PROVE  /\ [client EXCEPT !.left = n] \in Client
         /\ [client EXCEPT !.left = n, !.pulls[t] = v] \in Client
         /\ [client EXCEPT !.left = n, !.checks[t][s] = v] \in Client
<1>1. client \in Client  BY DEF TypeOK
<1>2. n \in 0 .. NoRate  BY Bounds DEF NoRate
<1>3. [client EXCEPT !.left = n] \in Client  BY <1>1, <1>2 DEF Client
<1>4. [client EXCEPT !.left = n, !.pulls[t] = v] \in Client  BY <1>1, <1>2 DEF Client
<1>5. [client EXCEPT !.left = n, !.checks[t][s] = v] \in Client  BY <1>1, <1>2 DEF Client
<1>. QED  BY <1>3, <1>4, <1>5

(* The pull request that is read is the one there is, and the client       *)
(* remembers it.                                                           *)
LEMMA ReadPullOK ==
  ASSUME IInv, At("pull"), NEW n \in 0 .. Quota,
         client' = [client EXCEPT !.left = n, !.pulls[Current] = pull[Current].ver],
         poll' = [poll EXCEPT !.step = "checks", !.seen = pull[Current]],
         quota' \in 0 .. Quota,
         UNCHANGED <<pull, runs, valid, keychain, link, req, news, behind, changes, faults, crashes>>,
         UNCHANGED <<dropped, unsaid>>
  PROVE  IInv'
<1> DEFINE t == Current
<1>1. TypeOK /\ VersionsOK /\ Busy  BY DEF IInv, At, Busy
<1>2. t \in Task /\ t \in poll.todo  BY <1>1, CurrentIs
<1>3. pull[t] \in Pull /\ pull[t].ver \in Ver /\ pull[t].num \in Nat /\ pull[t].ver \in Nat
      /\ pull[t].head \in Nat
  BY <1>1, <1>2, PullIs DEF Pull
<1>4. client' \in Client
  <2>1. 1 \in Sha  BY Bounds DEF Sha
  <2>. QED  BY <1>1, <1>2, <1>3, <2>1, AnswerIs
<1>5. client'.token = client.token
      /\ \A u \in Task : client'.pulls[u] = IF u = t THEN pull[t].ver ELSE client.pulls[u]
  <2>1. client.pulls \in [Task -> Ver]  BY <1>1, ClientIs
  <2>2. client \in Client  BY <1>1 DEF TypeOK
  <2>. QED  BY <1>2, <2>1, <2>2 DEF Client
<1>6. /\ poll' \in Poll /\ poll'.step = "checks" /\ poll'.seen = pull[t] /\ poll'.todo = poll.todo
      /\ poll'.before = poll.before
  <2>1. poll \in Poll  BY <1>1 DEF TypeOK
  <2>. QED  BY <1>3, <2>1 DEF Poll
<1>7. Current' = t  BY <1>6, CurrentStays
<1> HIDE DEF t
<1>8. ~Checked' /\ ~Stored' /\ ~At("say")' /\ At("checks")' /\ Busy' /\ Reading'
  BY <1>6 DEF Reading, Checked, Stored, At, Busy
<1>9. TypeOK'  BY <1>1, <1>4, <1>5, <1>6 DEF TypeOK, Busy
<1>10. \A u \in Task : /\ client.pulls[u] <= client'.pulls[u] /\ client'.pulls[u] <= pull[u].ver
                       /\ client'.pulls[u] \in Nat
  BY <1>1, <1>5, PullIs, ClientIs DEF VersionsOK
<1>11. VersionsOK'
  <2>1. client.token # NoToken  BY <1>1 DEF TypeOK, Busy
  <2>. QED  BY <1>1, <1>5, <1>10, <2>1 DEF VersionsOK
<1>12. OpenedOK'  BY DEF IInv, OpenedOK
<1>13. BeforeOK'
  <2>1. ASSUME NEW u \in poll.todo
        PROVE  /\ poll.before[u].num \in 1 .. pull[u].num
               /\ poll.before[u].checks = link[u].checks
    BY <1>1 DEF IInv, BeforeOK, At
  <2>. QED  BY <1>6, <2>1 DEF BeforeOK
<1>14. SeenOK'
  <2>1. poll.before[t].num <= pull[t].num
    <3>1. poll.before[t].num \in 1 .. pull[t].num  BY <1>1, <1>2 DEF IInv, BeforeOK
    <3>. QED  BY <1>3, <3>1
  <2>2. ASSUME NEW c \in Request, req[c].step = "record", req[c].task = t
        PROVE  /\ pull[t].ver < req[c].ver => pull[t].num < req[c].num
               /\ pull[t].ver = req[c].ver => pull[t].num = req[c].num /\ pull[t].state = "open"
    <3>1. /\ req[c].ver <= pull[t].ver
          /\ pull[t].ver = req[c].ver => pull[t].num = req[c].num /\ pull[t].state = "open"
      BY <2>2 DEF IInv, OpenedOK
    <3>2. req[c].ver \in Nat  BY <1>1, RequestIs
    <3>. QED  BY <1>3, <3>1, <3>2
  <2>3. client'.pulls[t] = pull[t].ver  BY <1>2, <1>5
  <2>. QED  BY <1>3, <1>6, <1>7, <2>1, <2>2, <2>3 DEF SeenOK
<1>15. ChecksOK' /\ StoredOK'  BY <1>8 DEF ChecksOK, StoredOK
<1>16. OutcomesOK'
  <2>1. ASSUME NEW m \in news, m.what \in {"passed", "failed"}, m.task \notin behind
        PROVE  m.head <= pull[m.task].head /\ Outdated(m, pull[m.task].head, pull[m.task].sha)
    BY <2>1 DEF IInv, OutcomesOK
  <2>2. ASSUME NEW m \in news, m.what \in {"passed", "failed"}, m.task \notin behind
        PROVE  Outdated(m, pull[m.task].head, pull[m.task].sha)'
    BY <2>1, <2>2 DEF Outdated
  <2>3. ASSUME NEW m \in news, m.what \in {"passed", "failed"}, m.task \notin behind, m.task = t
        PROVE  m.head <= poll'.seen.head /\ Outdated(m, poll.seen.head, poll.seen.sha)'
    BY <1>6, <2>1, <2>3 DEF Outdated
  <2>. QED  BY <1>7, <1>8, <2>1, <2>2, <2>3 DEF OutcomesOK, Outdated
<1>17. MergesOK'
  <2>1. ASSUME NEW m \in news, m.what = "merged", m.task \notin behind
        PROVE  /\ m.num <= pull[m.task].num
               /\ m.num < link[m.task].num \/ (m.num = link[m.task].num /\ link[m.task].state = "merged")
               /\ m.task \in poll.todo => m.num < poll.before[m.task].num
               /\ \A c \in Request : req[c].step = "record" /\ req[c].task = m.task =>
                    m.num < req[c].num \/ req[c].ver < client.pulls[m.task]
    BY <1>1, <2>1 DEF IInv, MergesOK
  <2>2. ASSUME NEW m \in news, NEW c \in Request, req[c].ver < client.pulls[m.task]
        PROVE  req[c].ver < client'.pulls[m.task]
    <3>1. m.task \in Task /\ req[c].ver \in Nat  BY <1>1, NewsIs, RequestIs
    <3>2. client.pulls[m.task] \in Nat  BY <1>1, <3>1, ClientIs
    <3>. QED  BY <1>10, <2>2, <3>1, <3>2
  <2>. QED  BY <1>6, <2>1, <2>2 DEF MergesOK
<1>18. RecordedOK'
  <2>1. SUFFICES ASSUME NEW u \in Task, u # t, client'.pulls[u] # 0, client'.pulls[u] = pull[u].ver
                 PROVE  Recorded(u) \/ u \in dropped
    BY <1>5, <1>6, <1>7 DEF RecordedOK, Recorded
  <2>2. client'.pulls[u] = client.pulls[u]  BY <1>5, <2>1
  <2>. QED  BY <1>1, <2>1, <2>2 DEF IInv, RecordedOK, At, Busy
<1>. QED  BY <1>9, <1>11, <1>12, <1>13, <1>14, <1>15, <1>16, <1>17, <1>18 DEF IInv

LEMMA AskPullOK == ASSUME IInv, AskPull PROVE IInv'
<1> DEFINE t == Current
<1>1. TypeOK /\ Busy /\ poll.step \notin {"checks", "record"}  BY DEF IInv, AskPull, At, Busy
<1>2. UNCHANGED <<pull, runs, valid, keychain, link, req, news, unsaid, behind, changes, crashes>>
  BY DEF AskPull, Loop, github
<1>3. t \in Task /\ client \in Client /\ quota \in 0 .. Quota /\ 1 \in Sha /\ faults \in Nat
  BY <1>1, CurrentIs, Counts, Bounds DEF TypeOK, Sha
<1>4. /\ news \subseteq News /\ faults \in 0 .. MaxFaults
      /\ dropped \subseteq Task /\ unsaid \subseteq Task
  BY <1>1 DEF TypeOK
<1>5. pull[t].ver \in Ver  BY <1>1, <1>3, PullIs DEF Pull
<1> HIDE DEF t
<1>6. CASE Fails /\ UNCHANGED dropped
  <2>1. \A u \in Task : client'.pulls[u] = client.pulls[u]  BY <1>1, <1>6, FailsIs
  <2>. QED  BY <1>1, <1>2, <1>4, <1>6, <2>1, FailsIs, LeaveOK
<1>7. CASE /\ client' = [client EXCEPT !.left = quota] /\ Onward
           /\ UNCHANGED <<quota, faults, dropped>>
  <2>1. client' \in Client  BY <1>1, <1>3, <1>5, <1>7, AnswerIs
  <2>2. client'.token = client.token /\ client'.pulls = client.pulls  BY <1>3, <1>7 DEF Client
  <2>. QED  BY <1>1, <1>2, <1>3, <1>4, <1>7, <2>1, <2>2, LeaveOK
<1>8. CASE /\ quota > 0 /\ quota' = quota - 1
           /\ client' = [client EXCEPT !.left = quota - 1, !.pulls[t] = pull[t].ver]
           /\ \/ Fault /\ Onward /\ Drop
              \/ /\ poll' = [poll EXCEPT !.step = "checks", !.seen = pull[t]]
                 /\ UNCHANGED <<faults, dropped>>
  <2>1. quota - 1 \in 0 .. Quota  BY <1>3, <1>8, Bounds
  <2>2. CASE /\ poll' = [poll EXCEPT !.step = "checks", !.seen = pull[t]]
             /\ UNCHANGED <<faults, dropped>>
    BY <1>2, <1>8, <2>1, <2>2, ReadPullOK DEF AskPull, t
  <2>3. CASE Fault /\ Onward /\ Drop
    <3>1. client' \in Client  BY <1>1, <1>3, <1>5, <1>8, <2>1, AnswerIs
    <3>2. client'.token = client.token
          /\ \A u \in Task : client'.pulls[u] = client.pulls[u]
                             \/ (client'.pulls[u] = pull[u].ver /\ u = t)
      <4>1. client.pulls \in [Task -> Ver]  BY <1>1, ClientIs
      <4>. QED  BY <1>3, <1>8, <4>1 DEF Client
    <3>3. faults' \in 0 .. MaxFaults  BY <1>3, <2>3, Bounds DEF Fault
    <3>4. dropped' = dropped \cup {t}  BY <2>3 DEF Drop, t
    <3>5. dropped \subseteq dropped' /\ dropped' \subseteq Task /\ t \in dropped'
      BY <1>3, <1>4, <3>4
    <3>6. \A u \in Task : client'.pulls[u] = client.pulls[u]
                          \/ (client'.pulls[u] = pull[u].ver /\ u \in dropped')
      BY <3>2, <3>5
    <3>7. news' \subseteq News /\ unsaid' \subseteq Task /\ \A m \in news' : m \in news
      BY <1>2, <1>4
    <3>8. quota' \in 0 .. Quota  BY <1>8, <2>1
    <3>. QED  BY <1>1, <1>2, <2>3, <3>1, <3>2, <3>3, <3>5, <3>6, <3>7, <3>8, LeaveOK
  <2>. QED  BY <1>8, <2>2, <2>3
<1>. QED  BY <1>6, <1>7, <1>8 DEF AskPull, Answers, Spend, t

(* So are its check runs, or what was stored of them stands.               *)
LEMMA ReadChecksOK ==
  ASSUME IInv, At("checks"), NEW checks \in Run,
         poll' = [poll EXCEPT !.step = "record", !.checks = checks],
         client' \in Client, client'.token = client.token, client'.pulls = client.pulls,
         LET run == runs[Current][poll.seen.sha] IN
           \/ checks.state = RollUp(run.of) /\ checks.ver = run.ver
           \/ checks.state = Kept(Current) /\ checks.ver = 0 /\ run.ver # 0,
         quota' \in 0 .. Quota,
         UNCHANGED <<pull, runs, valid, keychain, link, req, news, behind, changes, faults, crashes>>,
         UNCHANGED <<dropped, unsaid>>
  PROVE  IInv'
<1> DEFINE t == Current  seen == poll.seen  run == runs[t][seen.sha]
<1>1. TypeOK /\ VersionsOK /\ Busy /\ Reading  BY DEF IInv, At, Busy, Reading
<1>2. t \in Task /\ t \in poll.todo /\ seen.sha \in Sha  BY <1>1, CurrentIs, PollIs
<1>3. run.ver \in Nat  BY <1>1, <1>2, RunIs
<1>4. /\ poll' \in Poll /\ poll'.step = "record" /\ poll'.seen = seen /\ poll'.todo = poll.todo
      /\ poll'.before = poll.before /\ poll'.checks = checks
  <2>1. poll \in Poll  BY <1>1 DEF TypeOK
  <2>. QED  BY <2>1 DEF Poll
<1>5. Current' = t  BY <1>4, CurrentStays
<1>6. \/ checks.state = RollUp(run.of) /\ checks.ver = run.ver
      \/ checks.state = poll.before[t].checks /\ checks.ver = 0 /\ run.ver # 0
  BY DEF Kept
<1> HIDE DEF t, seen, run
<1>7. Checked' /\ ~Stored' /\ ~At("say")' /\ ~At("checks")' /\ Busy' /\ Reading'
  BY <1>4 DEF Reading, Checked, Stored, At, Busy
<1>8. TypeOK'  BY <1>1, <1>4 DEF TypeOK, Busy
<1>9. VersionsOK'  BY <1>1 DEF VersionsOK
<1>10. OpenedOK'  BY DEF IInv, OpenedOK
<1>11. ASSUME NEW u \in poll.todo
       PROVE  /\ poll.before[u].num \in 1 .. pull[u].num
              /\ poll.before[u].checks = link[u].checks
  BY <1>1 DEF IInv, BeforeOK, At
<1>12. BeforeOK'  BY <1>4, <1>11 DEF BeforeOK
<1>13. SeenOK'
  <2>1. SeenOK  BY DEF IInv
  <2>. QED  BY <1>1, <1>4, <1>5, <2>1 DEF SeenOK, t, seen
<1>14. ChecksOK'
  <2>1. checks.ver <= run.ver /\ (checks.ver = run.ver => checks.state = RollUp(run.of))
    BY <1>3, <1>6
  <2>. QED  BY <1>4, <1>5, <2>1 DEF ChecksOK, run
<1>15. StoredOK'  BY <1>7 DEF StoredOK
<1>16. OutcomesOK'
  <2>1. ASSUME NEW m \in news, m.what \in {"passed", "failed"}, m.task \notin behind
        PROVE  /\ m.head <= pull[m.task].head
               /\ Outdated(m, pull[m.task].head, pull[m.task].sha)
               /\ m.task = t => m.head <= seen.head /\ Outdated(m, seen.head, seen.sha)
    BY <1>1, <2>1 DEF IInv, OutcomesOK, t, seen
  <2>2. ASSUME NEW m \in news, m.what \in {"passed", "failed"}, m.task \notin behind,
               m.task = t, m.head = seen.head
        PROVE  m.ver < checks.ver \/ checks.state = poll.before[t].checks
    <3>1. m.ver <= run.ver /\ (m.ver = run.ver => m.what = RollUp(run.of) /\ m.what = link[t].checks)
      BY <2>1, <2>2 DEF Outdated, run
    <3>2. m.ver \in Nat  BY <1>1, NewsIs
    <3>3. poll.before[t].checks = link[t].checks  BY <1>2, <1>11
    <3>. QED  BY <1>3, <1>6, <3>1, <3>2, <3>3
  <2>. QED  BY <1>4, <1>5, <1>7, <2>1, <2>2 DEF OutcomesOK, Outdated
<1>17. MergesOK'  BY <1>1, <1>4 DEF IInv, MergesOK, Busy
<1>18. RecordedOK'
  BY <1>1, <1>4, <1>5 DEF IInv, RecordedOK, Recorded, At, Busy, t
<1>. QED  BY <1>8, <1>9, <1>10, <1>12, <1>13, <1>14, <1>15, <1>16, <1>17, <1>18 DEF IInv

LEMMA AskChecksOK == ASSUME IInv, AskChecks PROVE IInv'
<1> DEFINE t == Current  s == poll.seen.sha  run == runs[t][s]
           kept == [NoRun EXCEPT !.state = Kept(t)]
           fresh == [state |-> RollUp(run.of), ver |-> run.ver]
<1>1. TypeOK /\ Busy /\ At("checks")  BY DEF IInv, AskChecks, At, Busy
<1>2. UNCHANGED <<pull, runs, valid, keychain, link, req, news, unsaid, behind, changes, crashes>>
  BY DEF AskChecks, Loop, github
<1>3. t \in Task /\ client \in Client /\ quota \in 0 .. Quota /\ s \in Sha /\ faults \in Nat
  BY <1>1, CurrentIs, PollIs, Counts DEF TypeOK
<1>4. /\ news \subseteq News /\ faults \in 0 .. MaxFaults
      /\ dropped \subseteq Task /\ unsaid \subseteq Task
  BY <1>1 DEF TypeOK
<1>5. run.ver \in Ver /\ run.of \in SUBSET Outcome  BY <1>1, <1>3, RunIs
<1>6. kept \in Run /\ kept.state = Kept(t) /\ kept.ver = 0
  BY <1>1, <1>3, PollIs, Bounds DEF NoRun, Run, Kept, Ver
<1>7. fresh \in Run /\ fresh.state = RollUp(run.of) /\ fresh.ver = run.ver
  BY <1>5, RollUpIs DEF Run
<1>8. Drop => t \in dropped' /\ dropped \subseteq dropped' /\ dropped' \subseteq Task
  BY <1>3, <1>4 DEF Drop
<1>9. CASE Fails /\ Drop
  <2>1. \A u \in Task : client'.pulls[u] = client.pulls[u]  BY <1>1, <1>9, FailsIs
  <2>2. Current \in dropped' /\ dropped \subseteq dropped' /\ dropped' \subseteq Task  BY <1>8, <1>9
  <2>3. news' \subseteq News /\ unsaid' \subseteq Task /\ \A m \in news' : m \in news
    BY <1>2, <1>4
  <2>. QED  BY <1>1, <1>2, <1>9, <2>1, <2>2, <2>3, FailsIs, LeaveOK
<1> HIDE DEF kept, fresh
<1>10. CASE /\ client.checks[t][s] # 0 /\ client.checks[t][s] = run.ver
           /\ client' = [client EXCEPT !.left = quota]
           /\ poll' = [poll EXCEPT !.step = "record", !.checks = kept]
           /\ UNCHANGED <<quota, faults, dropped>>
  <2>1. client' \in Client  BY <1>1, <1>3, <1>5, <1>10, AnswerIs
  <2>2. client'.token = client.token /\ client'.pulls = client.pulls  BY <1>3, <1>10 DEF Client
  <2>. QED  BY <1>1, <1>2, <1>3, <1>6, <1>10, <2>1, <2>2, ReadChecksOK
<1>11. CASE /\ quota > 0 /\ quota' = quota - 1
            /\ client' = [client EXCEPT !.left = quota - 1, !.checks[t][s] = run.ver]
            /\ \/ Fault /\ Onward /\ Drop
               \/ /\ poll' = [poll EXCEPT !.step = "record", !.checks = fresh]
                  /\ UNCHANGED <<faults, dropped>>
  <2>1. quota - 1 \in 0 .. Quota  BY <1>3, <1>11, Bounds
  <2>2. client' \in Client  BY <1>1, <1>3, <1>5, <1>11, <2>1, AnswerIs
  <2>3. client'.token = client.token /\ client'.pulls = client.pulls  BY <1>3, <1>11 DEF Client
  <2>4. CASE /\ poll' = [poll EXCEPT !.step = "record", !.checks = fresh]
             /\ UNCHANGED <<faults, dropped>>
    BY <1>1, <1>2, <1>7, <1>11, <2>1, <2>2, <2>3, <2>4, ReadChecksOK
  <2>5. CASE Fault /\ Onward /\ Drop
    <3>1. faults' \in 0 .. MaxFaults  BY <1>3, <1>4, <2>5, Bounds DEF Fault
    <3>2. Current \in dropped' /\ dropped \subseteq dropped' /\ dropped' \subseteq Task
      BY <1>8, <2>5
    <3>3. news' \subseteq News /\ unsaid' \subseteq Task /\ \A m \in news' : m \in news
      BY <1>2, <1>4
    <3>4. quota' \in 0 .. Quota  BY <1>11, <2>1
    <3>. QED  BY <1>1, <1>2, <2>2, <2>3, <2>5, <3>1, <3>2, <3>3, <3>4, LeaveOK
  <2>. QED  BY <1>11, <2>4, <2>5
<1>. QED  BY <1>9, <1>10, <1>11 DEF AskChecks, Answers, Spend, kept, fresh

(* What was read is written over the link.                                 *)
LEMMA RecordOK == ASSUME IInv, Record PROVE IInv'
<1> DEFINE t == Current  seen == poll.seen
           change == Compare(poll.before[t], seen.state, poll.checks.state)
           l == [link[t] EXCEPT !.num = seen.num, !.state = seen.state, !.sha = seen.sha]
<1>1. TypeOK /\ VersionsOK /\ Busy /\ Reading /\ Checked
  BY DEF IInv, Record, At, Busy, Reading, Checked
<1>2. UNCHANGED <<pull, runs, valid, quota, keychain, client, req, news, behind, changes, crashes>>
  BY DEF Record, Loop, github
<1>3. t \in Task /\ t \in poll.todo /\ link \in [Task -> Link] /\ link[t] \in Link
  BY <1>1, CurrentIs, LinkIs
<1>4. /\ news \subseteq News /\ faults \in 0 .. MaxFaults /\ faults \in Nat /\ quota \in 0 .. Quota
      /\ client \in Client /\ dropped \subseteq Task /\ unsaid \subseteq Task
  BY <1>1, Counts DEF TypeOK
<1>5. CASE Fault /\ Onward /\ Drop /\ UNCHANGED <<link, unsaid>>
  <2>1. faults' \in 0 .. MaxFaults  BY <1>4, <1>5, Bounds DEF Fault
  <2>2. Current \in dropped' /\ dropped \subseteq dropped' /\ dropped' \subseteq Task
    BY <1>3, <1>4, <1>5 DEF Drop
  <2>. QED  BY <1>1, <1>2, <1>4, <1>5, <2>1, <2>2, LeaveOK
<1>6. CASE /\ SetPull(t, seen.num, seen.state, seen.sha) /\ UNCHANGED faults
           /\ dropped' = dropped \ {t} /\ unsaid' = unsaid \ {t}
           /\ poll' = [poll EXCEPT !.step = "mark", !.change = change]
  <2>1. link' = [link EXCEPT ![t] = l]  BY <1>3, <1>6 DEF SetPull
  <2>2. change \in Changes  BY CompareIs
  <2>3. /\ poll' \in Poll /\ poll'.step = "mark" /\ poll'.seen = seen /\ poll'.todo = poll.todo
        /\ poll'.before = poll.before /\ poll'.checks = poll.checks /\ poll'.change = change
    <3>1. poll \in Poll  BY <1>1 DEF TypeOK
    <3> HIDE DEF change
    <3>. QED  BY <1>6, <2>2, <3>1 DEF Poll
  <2>4. Current' = t  BY <2>3, CurrentStays
  <2>5. /\ seen.num \in Number /\ seen.num \in Nat /\ seen.state \in States /\ seen.sha \in Sha
        /\ seen.ver \in Nat
    BY <1>1, PollIs DEF Pull
  <2>6. l \in Link /\ l.num = seen.num /\ l.state = seen.state /\ l.sha = seen.sha
        /\ l.checks = link[t].checks
    BY <1>3, <2>5 DEF Link
  <2>7. /\ poll.before[t].num \in 1 .. pull[t].num /\ poll.before[t].num <= seen.num
        /\ seen.num <= pull[t].num /\ seen.ver = client.pulls[t]
        /\ seen.ver = pull[t].ver => seen = pull[t]
    BY <1>1, <1>3 DEF IInv, BeforeOK, SeenOK
  <2> HIDE DEF l, t, seen, change
  <2>8. \A u \in Task : link'[u] = IF u = t THEN l ELSE link[u]  BY <1>3, <2>1
  <2>9. \A u \in Task : link'[u].checks = link[u].checks  BY <2>6, <2>8
  <2>10. Checked' /\ Stored' /\ ~At("say")' /\ ~At("checks")' /\ Busy' /\ Reading'
    BY <2>3 DEF Reading, Checked, Stored, At, Busy
  <2>11. TypeOK'
    <3>1. link' \in [Task -> Link]  BY <1>3, <2>1, <2>6
    <3>2. seen.num # 0 /\ seen.state # "none"  BY <1>1, <1>3, <2>5, <2>7, PullIs, PollIs DEF States
    <3>3. \A u \in Task : link'[u].num = 0 <=> link'[u].state = "none"
      BY <1>1, <2>6, <2>8, <3>2 DEF TypeOK
    <3>4. dropped' \subseteq Task /\ unsaid' \subseteq Task  BY <1>4, <1>6
    <3>. QED  BY <1>1, <1>2, <1>6, <2>3, <3>1, <3>3, <3>4 DEF TypeOK, Busy
  <2>12. VersionsOK'
    <3>1. \A u \in Task : link'[u].num <= pull[u].num  BY <1>1, <2>6, <2>7, <2>8 DEF VersionsOK
    <3>. QED  BY <1>1, <1>2, <3>1 DEF VersionsOK
  <2>13. OpenedOK'  BY <1>2 DEF IInv, OpenedOK
  <2>14. BeforeOK'
    <3>1. ASSUME NEW u \in poll.todo
          PROVE  /\ poll.before[u].num \in 1 .. pull[u].num
                 /\ poll.before[u].checks = link'[u].checks
      <4>1. u \in Task  BY <1>1, PollIs
      <4>. QED  BY <1>1, <2>9, <4>1 DEF IInv, BeforeOK, Record, At
    <3>. QED  BY <1>2, <2>3, <3>1 DEF BeforeOK
  <2>15. SeenOK'
    <3>1. SeenOK  BY DEF IInv
    <3>. QED  BY <1>1, <1>2, <2>3, <2>4, <3>1 DEF SeenOK, t, seen
  <2>16. ChecksOK'
    <3>1. ChecksOK  BY DEF IInv
    <3>. QED  BY <1>1, <1>2, <2>3, <2>4, <3>1 DEF ChecksOK, t, seen
  <2>17. StoredOK'
    <3>1. link'[t].num = seen.num /\ link'[t].state = seen.state  BY <1>3, <2>6, <2>8
    <3>. QED  BY <2>3, <2>4, <2>10, <3>1 DEF StoredOK, change
  <2>18. OutcomesOK'
    <3>1. ASSUME NEW m \in news, NEW head, NEW sha, Outdated(m, head, sha)
          PROVE  Outdated(m, head, sha)'
      <4>1. m.task \in Task  BY <1>1, NewsIs
      <4>. QED  BY <1>2, <2>9, <3>1, <4>1 DEF Outdated
    <3>2. ASSUME NEW m \in news, m.what \in {"passed", "failed"}, m.task \notin behind
          PROVE  /\ m.head <= pull[m.task].head
                 /\ Outdated(m, pull[m.task].head, pull[m.task].sha)
                 /\ m.task = t =>
                      /\ m.head <= seen.head
                      /\ m.head = seen.head =>
                           m.ver < poll.checks.ver \/ poll.checks.state = poll.before[t].checks
      BY <1>1, <3>2 DEF IInv, OutcomesOK, t, seen
    <3>3. ASSUME NEW m \in news, m.what \in {"passed", "failed"}, m.task \notin behind
          PROVE  Outdated(m, pull[m.task].head, pull[m.task].sha)'
      BY <1>2, <3>1, <3>2, <3>3 DEF Outdated
    <3>. QED  BY <1>2, <2>3, <2>4, <2>10, <3>2, <3>3 DEF OutcomesOK, Outdated
  <2>19. MergesOK'
    <3>1. ASSUME NEW m \in news, m.what = "merged", m.task \notin behind
          PROVE  /\ m.num <= pull[m.task].num
                 /\ m.num < link[m.task].num \/ (m.num = link[m.task].num /\ link[m.task].state = "merged")
                 /\ m.task \in poll.todo => m.num < poll.before[m.task].num
                 /\ \A c \in Request : req[c].step = "record" /\ req[c].task = m.task =>
                      m.num < req[c].num \/ req[c].ver < client.pulls[m.task]
      BY <1>1, <3>1 DEF IInv, MergesOK
    <3>2. ASSUME NEW m \in news, m.what = "merged", m.task \notin behind
          PROVE m.num < link'[m.task].num \/ (m.num = link'[m.task].num /\ link'[m.task].state = "merged")
      <4>1. m.task \in Task /\ m.num \in Nat  BY <1>1, NewsIs
      <4>2. CASE m.task = t
        <5>1. m.num < poll.before[t].num /\ poll.before[t].num \in Nat
          BY <1>1, <1>3, <3>1, <3>2, <4>2, PollIs
        <5>2. m.num < seen.num  BY <2>5, <2>7, <4>1, <5>1
        <5>. QED  BY <1>3, <2>6, <2>8, <4>2, <5>2
      <4>. QED  BY <2>8, <3>1, <3>2, <4>1, <4>2
    <3>. QED  BY <1>2, <2>3, <3>1, <3>2 DEF MergesOK
  <2>20. RecordedOK'
    <3>1. SUFFICES ASSUME NEW u \in Task, client.pulls[u] # 0, client.pulls[u] = pull[u].ver
                   PROVE  Recorded(u)' \/ u \in dropped'
      BY <1>2 DEF RecordedOK
    <3>2. CASE u = t
      <4>1. seen = pull[t]  BY <2>7, <3>1, <3>2
      <4>. QED  BY <1>2, <1>3, <2>6, <2>8, <3>2, <4>1 DEF Recorded
    <3>3. CASE u # t
      <4>1. Recorded(u)' <=> Recorded(u)  BY <1>2, <2>8, <3>1, <3>3 DEF Recorded
      <4>2. u \in dropped => u \in dropped'  BY <1>6, <3>3
      <4>. QED  BY <1>1, <3>1, <3>3, <4>1, <4>2 DEF IInv, RecordedOK, t, At, Busy
    <3>. QED  BY <3>2, <3>3
  <2>. QED  BY <2>11, <2>12, <2>13, <2>14, <2>15, <2>16, <2>17, <2>18, <2>19, <2>20 DEF IInv
<1>. QED  BY <1>5, <1>6 DEF Record

(* Then the checks are, and that does not contradict what was announced of *)
(* them.                                                                   *)
LEMMA MarkOK == ASSUME IInv, Mark PROVE IInv'
<1> DEFINE t == Current  seen == poll.seen  checks == poll.checks
           l == [link[t] EXCEPT !.checks = checks.state]
<1>1. TypeOK /\ VersionsOK /\ Busy /\ Reading /\ Checked /\ Stored
  BY DEF IInv, Mark, At, Busy, Reading, Checked, Stored
<1>2. /\ UNCHANGED <<pull, runs, valid, keychain, req, changes, crashes, quota, client, news>>
      /\ UNCHANGED <<dropped, unsaid>> /\ poll' = [poll EXCEPT !.step = "say"]
  BY DEF Mark, github, lost
<1>3. t \in Task /\ t \in poll.todo /\ link \in [Task -> Link] /\ link[t] \in Link
  BY <1>1, CurrentIs, LinkIs
<1>4. \/ link' = [link EXCEPT ![t] = l] /\ behind' = behind /\ faults' = faults
      \/ link' = link /\ behind' = behind \cup {t} /\ Fault
  BY <1>3 DEF Mark
<1>5. /\ poll' \in Poll /\ poll'.step = "say" /\ poll'.seen = seen /\ poll'.todo = poll.todo
      /\ poll'.before = poll.before /\ poll'.checks = checks /\ poll'.change = poll.change
  <2>1. poll \in Poll  BY <1>1 DEF TypeOK
  <2>. QED  BY <1>2, <2>1 DEF Poll
<1>6. Current' = t  BY <1>5, CurrentStays
<1>7. checks.state \in Checks /\ checks.ver \in Nat /\ seen.sha \in Sha /\ seen.head \in Nat
  BY <1>1, PollIs
<1>8. l \in Link /\ l.num = link[t].num /\ l.state = link[t].state /\ l.sha = link[t].sha
      /\ l.checks = checks.state
  BY <1>3, <1>7 DEF Link
<1>9. SeenOK /\ ChecksOK /\ StoredOK  BY DEF IInv
<1>10. /\ seen.head <= pull[t].head
       /\ seen.head = pull[t].head => seen.sha = pull[t].sha
       /\ checks.ver <= runs[t][seen.sha].ver
       /\ checks.ver = runs[t][seen.sha].ver => checks.state = RollUp(runs[t][seen.sha].of)
  BY <1>1, <1>9 DEF SeenOK, ChecksOK
<1>11. pull[t].head \in Nat /\ pull[t].sha \in Sha /\ runs[t][pull[t].sha].ver \in Nat
  BY <1>1, <1>3, PullIs, RunIs
<1>12. \A u \in poll.todo : /\ poll.before[u].num \in 1 .. pull[u].num
                            /\ poll.before[u].checks = link[u].checks
  BY <1>1 DEF IInv, BeforeOK, Mark, At
<1> HIDE DEF l, t, seen, checks
<1>13. /\ \A u \in Task : u # t => link'[u] = link[u]
       /\ link'[t] = l \/ (link'[t] = link[t] /\ t \in behind')
       /\ behind \subseteq behind' /\ behind' \subseteq behind \cup {t}
  BY <1>3, <1>4
<1>14. \A u \in Task : /\ link'[u].num = link[u].num /\ link'[u].state = link[u].state
                       /\ link'[u].sha = link[u].sha
  BY <1>8, <1>13
<1>15. faults' \in 0 .. MaxFaults
  BY <1>1, <1>4, Bounds DEF TypeOK, Fault
<1>16. Checked' /\ Stored' /\ At("say")' /\ ~At("checks")' /\ Busy' /\ Reading'
  BY <1>5 DEF Reading, Checked, Stored, At, Busy
<1>17. TypeOK'
  <2>1. link' \in [Task -> Link]  BY <1>3, <1>4, <1>8
  <2>2. \A u \in Task : link'[u].num = 0 <=> link'[u].state = "none"  BY <1>1, <1>14 DEF TypeOK
  <2>3. behind' \subseteq Task  BY <1>1, <1>3, <1>13 DEF TypeOK
  <2>. QED  BY <1>1, <1>2, <1>5, <1>15, <2>1, <2>2, <2>3 DEF TypeOK, Busy
<1>18. VersionsOK'  BY <1>1, <1>2, <1>14 DEF VersionsOK
<1>19. OpenedOK'  BY <1>2 DEF IInv, OpenedOK
<1>20. BeforeOK'
  <2>1. \A u \in poll.todo : u # t => link'[u] = link[u]  BY <1>1, <1>13, PollIs
  <2>. QED  BY <1>2, <1>5, <1>6, <1>12, <1>16, <2>1 DEF BeforeOK
<1>21. SeenOK'  BY <1>1, <1>2, <1>5, <1>6, <1>9 DEF SeenOK, t, seen
<1>22. ChecksOK'  BY <1>1, <1>2, <1>5, <1>6, <1>9 DEF ChecksOK, t, seen, checks
<1>23. StoredOK'
  <2>1. /\ poll.change = Compare(poll.before[t], seen.state, checks.state)
        /\ \/ t \in behind \/ link[t].num > seen.num
           \/ link[t].num = seen.num /\ link[t].state = seen.state
    BY <1>1, <1>9 DEF StoredOK, t, seen, checks
  <2>2. \/ t \in behind' \/ link'[t].num > seen.num
        \/ link'[t].num = seen.num /\ link'[t].state = seen.state
    BY <1>3, <1>13, <1>14, <2>1
  <2>3. t \in behind' \/ link'[t].checks = checks.state  BY <1>8, <1>13
  <2>. QED  BY <1>5, <1>6, <2>1, <2>2, <2>3 DEF StoredOK
<1>24. OutcomesOK'
  <2>1. ASSUME NEW m \in news, m.what \in {"passed", "failed"}, m.task \notin behind
        PROVE  /\ m.head <= pull[m.task].head
               /\ Outdated(m, pull[m.task].head, pull[m.task].sha)
               /\ m.task = t =>
                    /\ m.head <= seen.head
                    /\ m.head = seen.head =>
                         m.ver < checks.ver \/ checks.state = poll.before[t].checks
    BY <1>1, <2>1 DEF IInv, OutcomesOK, t, seen, checks
  <2>2. ASSUME NEW m \in news, m.what \in {"passed", "failed"}, m.task \notin behind'
        PROVE  Outdated(m, pull[m.task].head, pull[m.task].sha)'
    <3>1. m.task \in Task /\ m.task \notin behind /\ m.head \in Nat /\ m.ver \in Nat
      BY <1>1, <1>13, <2>2, NewsIs
    <3>2. Outdated(m, pull[m.task].head, pull[m.task].sha)  BY <2>1, <2>2, <3>1
    <3>3. CASE m.task # t  BY <1>2, <1>13, <3>1, <3>2, <3>3 DEF Outdated
    <3>4. CASE m.task = t
      <4>1. SUFFICES ASSUME m.head = pull[t].head
                     PROVE  /\ m.ver <= runs[t][pull[t].sha].ver
                            /\ m.ver = runs[t][pull[t].sha].ver =>
                                 m.what = RollUp(runs[t][pull[t].sha].of) /\ m.what = link'[t].checks
        BY <1>2, <3>4 DEF Outdated
      <4>2. /\ m.ver <= runs[t][pull[t].sha].ver
            /\ m.ver = runs[t][pull[t].sha].ver =>
                 m.what = RollUp(runs[t][pull[t].sha].of) /\ m.what = link[t].checks
        BY <3>2, <3>4, <4>1 DEF Outdated
      <4>3. m.head = seen.head  BY <1>7, <1>10, <1>11, <2>1, <2>2, <3>1, <3>4, <4>1
      <4>4. seen.sha = pull[t].sha  BY <1>10, <4>1, <4>3
      <4>5. m.ver < checks.ver \/ checks.state = link[t].checks
        BY <1>3, <1>12, <2>1, <2>2, <3>1, <3>4, <4>3
      <4>6. link'[t].checks = checks.state  BY <1>8, <1>13, <2>2, <3>4
      <4>7. m.ver = runs[t][pull[t].sha].ver => ~(m.ver < checks.ver)
        BY <1>7, <1>10, <1>11, <3>1, <4>4
      <4>. QED  BY <4>2, <4>5, <4>6, <4>7
    <3>. QED  BY <3>3, <3>4
  <2>3. \A m \in news : m.task \notin behind' => m.task \notin behind  BY <1>13
  <2>. QED  BY <1>2, <1>5, <1>6, <1>16, <2>1, <2>2, <2>3 DEF OutcomesOK, Outdated
<1>25. MergesOK'
  <2>1. ASSUME NEW m \in news, m.what = "merged", m.task \notin behind'
        PROVE  /\ m.num <= pull[m.task].num
               /\ m.num < link[m.task].num \/ (m.num = link[m.task].num /\ link[m.task].state = "merged")
               /\ m.task \in poll.todo => m.num < poll.before[m.task].num
               /\ \A c \in Request : req[c].step = "record" /\ req[c].task = m.task =>
                    m.num < req[c].num \/ req[c].ver < client.pulls[m.task]
    BY <1>1, <1>13, <2>1 DEF IInv, MergesOK
  <2>2. \A m \in news : m.task \in Task  BY <1>1, NewsIs
  <2>. QED  BY <1>2, <1>5, <1>14, <2>1, <2>2 DEF MergesOK
<1>26. RecordedOK'
  <2>1. \A u \in Task : Recorded(u)' <=> Recorded(u)  BY <1>2, <1>14 DEF Recorded
  <2>2. poll.step = "mark" /\ RecordedOK  BY DEF Mark, At, IInv
  <2>. QED  BY <1>2, <2>1, <2>2 DEF RecordedOK
<1>. QED  BY <1>17, <1>18, <1>19, <1>20, <1>21, <1>22, <1>23, <1>24, <1>25, <1>26 DEF IInv

(* What is said has been stored, and what the client remembers is as late. *)
LEMMA ToldIs ==
  ASSUME IInv, At("say"), poll.change # "quiet"
  PROVE  Told \in News /\ SaidOK(Told)
<1> DEFINE t == Current  seen == poll.seen  checks == poll.checks  change == poll.change
<1>1. TypeOK /\ Busy /\ Reading /\ Checked /\ Stored
  BY DEF IInv, At, Busy, Reading, Checked, Stored
<1>2. t \in Task  BY <1>1, CurrentIs
<1>3. /\ change \in Changes /\ seen \in Pull /\ checks \in Run /\ seen.num \in Nat /\ seen.ver \in Nat
      /\ seen.head \in Nat /\ checks.ver \in Nat
  BY <1>1, PollIs
<1>4. /\ seen.ver = client.pulls[t] /\ seen.num <= pull[t].num /\ seen.head <= pull[t].head
      /\ seen.head = pull[t].head => seen.sha = pull[t].sha
      /\ \A c \in Request : req[c].step = "record" /\ req[c].task = t =>
           /\ seen.ver < req[c].ver => seen.num < req[c].num
           /\ seen.ver = req[c].ver => seen.num = req[c].num /\ seen.state = "open"
  BY <1>1 DEF IInv, SeenOK
<1>5. /\ checks.ver <= runs[t][seen.sha].ver
      /\ checks.ver = runs[t][seen.sha].ver => checks.state = RollUp(runs[t][seen.sha].of)
  BY <1>1 DEF IInv, ChecksOK
<1>6. /\ change = Compare(poll.before[t], seen.state, checks.state)
      /\ \/ t \in behind \/ link[t].num > seen.num
         \/ link[t].num = seen.num /\ link[t].state = seen.state
      /\ t \in behind \/ link[t].checks = checks.state
  BY <1>1 DEF IInv, StoredOK
<1>7. (change = "merged" => seen.state = "merged")
      /\ (change \in {"passed", "failed"} => checks.state = change)
  BY <1>6, CompareIs
<1>8. link[t].num \in Nat  BY <1>1, <1>2, LinkIs
<1>9. /\ Told.task = t /\ Told.what = change /\ Told.num = seen.num
      /\ change \in {"passed", "failed"} => Told.head = seen.head /\ Told.ver = checks.ver
  BY DEF Told
<1>10. Told \in News
  <2>1. seen.num \in Number /\ seen.head \in Ver /\ checks.ver \in Ver /\ 0 \in Ver
    BY <1>3, Bounds DEF Pull, Run, Ver
  <2>. QED  BY <1>2, <1>3, <2>1 DEF Told, News
<1> HIDE DEF t, seen, checks, change
<1>11. ASSUME t \notin behind, change \in {"passed", "failed"}
       PROVE  Told.head <= pull[t].head /\ Outdated(Told, pull[t].head, pull[t].sha)
  BY <1>4, <1>5, <1>6, <1>7, <1>9, <1>11 DEF Outdated
<1>12. ASSUME t \notin behind, change = "merged"
       PROVE  /\ Told.num <= pull[t].num
              /\ Told.num < link[t].num \/ (Told.num = link[t].num /\ link[t].state = "merged")
              /\ t \notin poll.todo \ {Current}
              /\ \A c \in Request : req[c].step = "record" /\ req[c].task = t =>
                   Told.num < req[c].num \/ req[c].ver < client.pulls[t]
  <2>1. Told.num <= pull[t].num  BY <1>4, <1>9
  <2>2. Told.num < link[t].num \/ (Told.num = link[t].num /\ link[t].state = "merged")
    BY <1>3, <1>6, <1>7, <1>8, <1>9, <1>12
  <2>3. ASSUME NEW c \in Request, req[c].step = "record", req[c].task = t
        PROVE  Told.num < req[c].num \/ req[c].ver < client.pulls[t]
    <3>1. /\ seen.ver < req[c].ver => seen.num < req[c].num
          /\ seen.ver = req[c].ver => seen.state = "open"
      BY <1>4, <2>3
    <3>2. req[c].ver \in Nat  BY <1>1, RequestIs
    <3>3. seen.ver < req[c].ver \/ seen.ver = req[c].ver \/ req[c].ver < seen.ver  BY <1>3, <3>2
    <3>. QED  BY <1>4, <1>7, <1>9, <1>12, <3>1, <3>3
  <2>. QED  BY <2>1, <2>2, <2>3 DEF t
<1>. QED  BY <1>9, <1>10, <1>11, <1>12 DEF SaidOK

LEMMA SayOK == ASSUME IInv, Say PROVE IInv'
<1>1. TypeOK /\ Busy /\ Onward /\ poll.step \notin {"checks", "record"} /\ At("say")
  BY DEF IInv, Say, At, Busy
<1>2. /\ UNCHANGED <<pull, runs, valid, keychain, req, behind, changes, crashes, quota, link, client>>
      /\ UNCHANGED dropped
  BY DEF Say, Loop, github
<1>3. /\ client \in Client /\ quota \in 0 .. Quota /\ faults \in 0 .. MaxFaults /\ faults \in Nat
      /\ news \subseteq News /\ dropped \subseteq Task /\ unsaid \subseteq Task
  BY <1>1, Counts DEF TypeOK
<1>4. faults' \in 0 .. MaxFaults /\ unsaid' \subseteq Task
  <2>1. Current \in Task  BY <1>1, CurrentIs
  <2>2. unsaid' = unsaid \/ unsaid' = unsaid \cup {Current}  BY DEF Say
  <2>3. faults' = faults \/ Fault  BY DEF Say
  <2>4. faults' \in 0 .. MaxFaults  BY <1>3, <2>3, Bounds DEF Fault
  <2>. QED  BY <1>3, <2>1, <2>2, <2>4
<1>5. news' \subseteq News /\ \A m \in news' : m \in news \/ SaidOK(m)
  <2>1. news' = news \/ (poll.change # "quiet" /\ news' = news \cup {Told})  BY DEF Say
  <2>. QED  BY <1>1, <1>3, <2>1, ToldIs
<1>. QED  BY <1>1, <1>2, <1>3, <1>4, <1>5, LeaveOK

-----------------------------------------------------------------------------
(* The invariant, and what it says                                         *)

LEMMA InitOK == Init => IInv
<1> SUFFICES ASSUME Init PROVE IInv  OBVIOUS
<1>1. /\ NoPull \in Pull /\ Asleep \in Poll /\ Asleep.step = "asleep" /\ Free \in OpenRequest
      /\ NewClient(NoToken) \in Client
  BY FreeIs, NewIs
<1>2. [of |-> {}, ver |-> 0] \in Runs /\ NoLink \in Link
  BY Bounds DEF Runs, Ver, NoLink, Link, Number, Checks
<1>3. TypeOK
  <2>1. pull \in [Task -> Pull] /\ link \in [Task -> Link] /\ req \in [Request -> OpenRequest]
    BY <1>1, <1>2 DEF Init
  <2>2. runs \in [Task -> [Sha -> Runs]]  BY <1>2 DEF Init
  <2>3. \A t \in Task : link[t].num = 0 /\ link[t].state = "none"  BY DEF Init, NoLink
  <2>4. /\ quota \in 0 .. Quota /\ valid \subseteq Token /\ keychain \in Token \cup {NoToken}
        /\ news \subseteq News /\ behind \subseteq Task /\ dropped \subseteq Task /\ unsaid \subseteq Task
        /\ changes \in 0 .. MaxChanges /\ faults \in 0 .. MaxFaults /\ crashes \in 0 .. MaxCrashes
    BY Bounds DEF Init
  <2>5. client \in Client /\ poll \in Poll /\ poll.step = "asleep"  BY <1>1 DEF Init
  <2>. QED  BY <2>1, <2>2, <2>3, <2>4, <2>5 DEF TypeOK
<1>4. VersionsOK
  <2>1. ASSUME NEW t \in Task
        PROVE  pull[t].ver = 0 /\ pull[t].head = 0 /\ pull[t].num = 0 /\ link[t].num = 0
               /\ client.pulls[t] = 0 /\ \A s \in Sha : runs[t][s].ver = 0
    BY DEF Init, NoPull, NoLink, NewClient
  <2>. QED  BY <2>1 DEF VersionsOK, Init
<1>5. OpenedOK  BY DEF Init, OpenedOK, Free
<1>6. BeforeOK /\ SeenOK /\ ChecksOK /\ StoredOK
  BY <1>1 DEF Init, BeforeOK, SeenOK, ChecksOK, StoredOK, Busy, Reading, Checked, Stored
<1>7. OutcomesOK /\ MergesOK  BY DEF Init, OutcomesOK, MergesOK
<1>8. RecordedOK  BY DEF Init, RecordedOK, NewClient
<1>. QED  BY <1>3, <1>4, <1>5, <1>6, <1>7, <1>8 DEF IInv

LEMMA Keeps == IInv /\ [Next]_vars => IInv'
<1> SUFFICES ASSUME IInv, [Next]_vars PROVE IInv'  OBVIOUS
<1>1. CASE \E t \in Task : Moves(t) \/ ChecksRun(t)  BY <1>1, MovesOK, ChecksRunOK
<1>2. CASE Reset \/ \E k \in Token \cup {NoToken} : Revoke(k) \/ SetToken(k)  BY <1>2, TokensOK
<1>3. CASE \E c \in Request : Post(c) \/ RecordOpened(c) \/ \E t \in Task : OpenPull(c, t)
  BY <1>3, PostOK, RecordOpenedOK, OpenPullOK
<1>4. CASE Polls  BY <1>4, TickOK, AskPullOK, AskChecksOK, RecordOK, MarkOK, SayOK DEF Polls
<1>5. CASE Crash  BY <1>5, CrashOK
<1>6. CASE UNCHANGED vars
  <2>1. TypeOK  BY DEF IInv
  <2>2. /\ UNCHANGED <<pull, runs, link, client, poll, req, news, behind, lost, faults, crashes>>
        /\ UNCHANGED <<valid, keychain, quota, changes>>
    BY <1>6 DEF vars, github, counted
  <2>. QED  BY <2>1, <2>2, NeutralOK DEF TypeOK
<1>. QED  BY <1>1, <1>2, <1>3, <1>4, <1>5, <1>6 DEF Next

(* The loop knows how old each thing is that it compares: what it has read *)
(* is what it remembers the ETag of, the links it began with say less, and *)
(* what it has stored stays until there is something newer.                *)
THEOREM GitHubInvariant == Spec => []IInv
<1>1. Init => IInv  BY InitOK
<1>2. IInv /\ [Next]_vars => IInv'  BY Keeps
<1>. QED  BY <1>1, <1>2, PTL DEF Spec

(* Every variable stays in its type: a link has a state exactly when it    *)
(* has a pull request, and a pass has a task to do and a token.            *)
THEOREM GitHubTypeOK == Spec => []TypeOK
<1>1. IInv => TypeOK  BY DEF IInv
<1>. QED  BY <1>1, GitHubInvariant, PTL

(* When GitHub answers "unchanged" to the ETag that is remembered, the     *)
(* link holds what it said with that ETag, unless that answer was lost or  *)
(* a request that opened the pull request wrote over it.                   *)
THEOREM UnchangedStaysRecorded == Spec => []UnchangedIsRecorded
<1>1. IInv => UnchangedIsRecorded
  BY DEF IInv, UnchangedIsRecorded, RecordedOK, Recorded, At
<1>. QED  BY <1>1, GitHubInvariant, PTL

(* What is about to be said has not been said: what it is compared with    *)
(* holds every merge and every outcome that was.                           *)
LEMMA NotSaid ==
  ASSUME IInv, At("say"), poll.change \notin {"quiet", "closed"}, Current \notin behind
  PROVE  Told \notin news
<1> DEFINE t == Current  seen == poll.seen  checks == poll.checks  change == poll.change
<1>1. TypeOK /\ Busy /\ Reading /\ Checked /\ Stored
  BY DEF IInv, At, Busy, Reading, Checked, Stored
<1>2. t \in Task /\ t \in poll.todo  BY <1>1, CurrentIs
<1>3. change \in Changes /\ seen.num \in Nat /\ checks.ver \in Nat /\ poll.before[t].num \in Nat
  BY <1>1, <1>2, PollIs
<1>4. /\ Told.task = t /\ Told.what = change /\ Told.num = seen.num
      /\ change \in {"passed", "failed"} => Told.head = seen.head /\ Told.ver = checks.ver
  BY DEF Told
<1>5. SUFFICES ASSUME Told \in news PROVE FALSE  OBVIOUS
<1>6. CASE change = "merged"
  <2>1. Told.num < poll.before[t].num  BY <1>1, <1>2, <1>4, <1>5, <1>6 DEF IInv, MergesOK
  <2>2. poll.before[t].num <= seen.num  BY <1>1 DEF IInv, SeenOK
  <2>. QED  BY <1>3, <1>4, <2>1, <2>2
<1>7. CASE change \in {"passed", "failed"}
  <2>1. Told.ver < checks.ver \/ checks.state = poll.before[t].checks
    BY <1>1, <1>4, <1>5, <1>7 DEF IInv, OutcomesOK
  <2>2. change = Compare(poll.before[t], seen.state, checks.state)  BY <1>1 DEF IInv, StoredOK
  <2>3. checks.state # poll.before[t].checks  BY <1>7, <2>2, CompareIs
  <2>. QED  BY <1>3, <1>4, <1>7, <2>1, <2>3
<1>. QED  BY <1>3, <1>6, <1>7 DEF Changes

(* News is said once, by whichever pass, before a crash or after it: only  *)
(* a closing, or news of a task whose link is behind, can come again.      *)
THEOREM NewsSaidOnce == Spec => NewsIsSaidOnce
<1>1. IInv /\ At("say") /\ poll.change # "quiet" =>
        \/ Told \notin news
        \/ poll.change = "closed" \/ Current \in behind
  BY NotSaid
<1>2. IInv /\ [Next]_vars => [At("say") /\ poll.change # "quiet" /\ poll'.step # "say"
                              /\ ~(crashes' # crashes) =>
                                \/ Told \notin news
                                \/ poll.change = "closed" \/ Current \in behind]_vars
  BY <1>1
<1>. QED  BY <1>2, GitHubInvariant, PTL DEF Spec, NewsIsSaidOnce
=============================================================================
