--------------------------- MODULE SessionsProofs ---------------------------
(* What TLAPS proves of Sessions, for every set of tasks and of requests,  *)
(* every bound on the table and every number of crashes: types, one live   *)
(* row for each task, endings that are final and announced once, beliefs   *)
(* that are stored, and restarts that adopt the agents that survived.      *)
EXTENDS Sessions, TLAPS

(* The three parts of a well-shaped state: processes, store, the rest.    *)
ProcOK  == pc \in [Proc -> Step] /\ job \in [Proc -> Job] /\ JobOK
StoreOK == /\ rows \in [SessionId -> Row] /\ lastId \in 0 .. MaxSessions
           /\ taskStatus \in [Task -> Status] /\ RowsOK
WorldOK == /\ tmux \in [Task -> Pane \cup {NoSession}]
           /\ trackers \in [SessionId -> Status \cup {NoTracker}]
           /\ daemon \in {"down", "booting", "up"} /\ crashes \in 0 .. MaxCrashes
           /\ listed \subseteq Task /\ todo \subseteq Snapshot
           /\ started \in [SessionId -> Nat] /\ stopped \in [SessionId -> Nat]

(* A process that moves to a step, with a job that step can do, leaves     *)
(* every process fit for its step; rows are only ever added.               *)
LEMMA GoWithOK ==
  ASSUME NEW p \in Proc, NEW step \in Step, NEW j \in Job, ProcOK,
         lastId \in Nat, lastId' \in Nat, lastId' >= lastId,
         GoWith(p, step, j), JobFits(p, step, j, lastId')
  PROVE  ProcOK'
<1>1. /\ pc' = [pc EXCEPT ![p] = step] /\ job' = [job EXCEPT ![p] = j]
      /\ pc' \in [Proc -> Step] /\ job' \in [Proc -> Job]
  BY DEF ProcOK, GoWith, Go
<1>2. ASSUME NEW q \in Proc PROVE JobFits(q, pc'[q], job'[q], lastId')
  <2>1. CASE q = p  BY <1>1, <2>1 DEF ProcOK
  <2>2. CASE q # p
    <3>1. pc'[q] = pc[q] /\ job'[q] = job[q]  BY <1>1, <2>2 DEF ProcOK
    <3>2. JobFits(q, pc[q], job[q], lastId)  BY DEF ProcOK, JobOK
    <3>3. JobFits(q, pc[q], job[q], lastId')  BY <3>2 DEF JobFits
    <3>. QED  BY <3>1, <3>3
  <2>. QED  BY <2>1, <2>2
<1>. QED  BY <1>1, <1>2 DEF ProcOK, JobOK

(* The same for a process that moves on with the job it has.               *)
LEMMA GoOK ==
  ASSUME NEW p \in Proc, NEW step \in Step, ProcOK,
         lastId \in Nat, lastId' \in Nat, lastId' >= lastId,
         Go(p, step), UNCHANGED job, JobFits(p, step, job[p], lastId')
  PROVE  ProcOK'
<1>1. job' = [job EXCEPT ![p] = job[p]] /\ job[p] \in Job  BY DEF ProcOK
<1>2. GoWith(p, step, job[p])  BY <1>1 DEF GoWith
<1>. QED  BY <1>1, <1>2, GoWithOK

(* A process that has finished holds nothing and needs nothing.            *)
LEMMA FinishOK ==
  ASSUME NEW p \in Proc, ProcOK, lastId \in Nat, UNCHANGED lastId, Finish(p)
  PROVE  ProcOK'
<1>1. NoJob \in Job /\ "idle" \in Step /\ JobFits(p, "idle", NoJob, lastId')
  BY DEF NoJob, Job, Status, Why, Step, RequestSteps, JobFits, TaskSteps, SessionSteps, StartSteps,
         StopSteps, ReadSteps
<1>. QED  BY <1>1, GoWithOK DEF Finish

(* A restart goes on to start again, with the task it has.                 *)
LEMMA AfterStopOK ==
  ASSUME NEW r \in Request, ProcOK, lastId \in Nat, UNCHANGED lastId, job[r].task \in Task,
         AfterStop(r)
  PROVE  ProcOK'
<1>. r \in Proc /\ r # Poller  BY SessionsAssumption DEF Proc
<1>1. CASE Finish(r)  BY <1>1, FinishOK
<1>2. CASE GoWith(r, "probe", [job[r] EXCEPT !.restart = FALSE, !.why = "start"])
  <2>. DEFINE j == [job[r] EXCEPT !.restart = FALSE, !.why = "start"]
  <2>1. j \in Job /\ j.task = job[r].task /\ j.why = "start"  BY DEF ProcOK, Job, Why
  <2>. HIDE DEF j
  <2>2. JobFits(r, "probe", j, lastId')
    BY <2>1 DEF JobFits, TaskSteps, SessionSteps, StartSteps, StopSteps, ReadSteps
  <2>. QED  BY <1>2, <2>1, <2>2, GoWithOK DEF j, Step, RequestSteps, AwaitingTmux
<1>. QED  BY <1>1, <1>2 DEF AfterStop

(* Every step of a request keeps what it has in hand.                      *)
LEMMA RequestKeepsProcOK ==
  ASSUME NEW r \in Request, StoreOK, WorldOK, ProcOK,
         \/ Serve(r) \/ Abandon(r)
         \/ \E t \in Task, kind \in {"start", "stop", "restart"} : Begin(r, t, kind)
  PROVE  ProcOK'
<1>. USE SessionsAssumption DEF At, JobFits, TaskSteps, SessionSteps, StartSteps, StopSteps,
         ReadSteps, StopReasons, AwaitingTmux
<1>. DEFINE fits == JobFits(r, pc[r], job[r], lastId)
<1>0. /\ r \in Proc /\ r # Poller /\ lastId \in Nat /\ job[r] \in Job /\ fits
      /\ RequestSteps \subseteq Step
  BY DEF Proc, StoreOK, ProcOK, JobOK, Step
<1>. USE <1>0 DEF RequestSteps
<1>1. ASSUME NEW t \in Task, NEW kind \in {"start", "stop", "restart"}, Begin(r, t, kind) PROVE ProcOK'
  <2>. DEFINE j == [NoJob EXCEPT !.task = t, !.restart = (kind = "restart"),
                                 !.why = IF kind = "start" THEN "start" ELSE "requested"]
  <2>1. /\ j \in Job /\ j.task = t
        /\ kind = "start" => j.why = "start"
        /\ kind # "start" => j.why = "requested"
    BY DEF NoJob, Job, Status, Why
  <2>2. /\ kind = "start" => GoWith(r, "probe", j)
        /\ kind = "stop" => GoWith(r, "find", j)
        /\ kind = "restart" => GoWith(r, "again", j)
    BY <1>1 DEF Begin
  <2>. HIDE DEF j
  <2>3. /\ kind = "start" => JobFits(r, "probe", j, lastId)
        /\ kind # "start" => JobFits(r, "find", j, lastId) /\ JobFits(r, "again", j, lastId)
    BY <2>1
  <2>4. UNCHANGED lastId  BY <1>1 DEF Begin, store
  <2>5. {"probe", "find", "again"} \subseteq Step  OBVIOUS
  <2>. HIDE DEF JobFits
  <2>. QED  BY <2>1, <2>2, <2>3, <2>4, <2>5, GoWithOK
<1>2. CASE Probe(r)
  <2>. lastId' = lastId  BY <1>2 DEF Probe, store
  <2>1. CASE Go(r, "insert") /\ UNCHANGED job
    BY <1>2, <2>1, GoOK DEF Probe
  <2>2. CASE Finish(r)  BY <2>2, FinishOK
  <2>. QED  BY <1>2, <2>1, <2>2 DEF Probe
<1>3. CASE Insert(r)
  <2>1. CASE Finish(r) /\ UNCHANGED lastId  BY <2>1, FinishOK
  <2>2. CASE /\ lastId # MaxSessions /\ lastId' = lastId + 1
             /\ GoWith(r, "create", [job[r] EXCEPT !.id = lastId + 1, !.status = "idle"])
    <3>1. lastId + 1 \in SessionId /\ lastId + 1 \in 1 .. lastId'
      BY <2>2 DEF StoreOK, SessionId
    <3>. DEFINE j == [job[r] EXCEPT !.id = lastId + 1, !.status = "idle"]
    <3>2. j \in Job /\ j.id = lastId + 1 /\ j.task = job[r].task /\ j.why = job[r].why
      BY <3>1 DEF Job, Status
    <3>3. GoWith(r, "create", j)  BY <2>2
    <3>. HIDE DEF j
    <3>4. JobFits(r, "create", j, lastId')  BY <1>3, <2>2, <3>1, <3>2 DEF Insert
    <3>. QED  BY <2>2, <3>2, <3>3, <3>4, GoWithOK
  <2>. QED  BY <1>3, <2>1, <2>2 DEF Insert
<1>4. CASE Create(r)
  <2>. lastId' = lastId  BY <1>4 DEF Create, store
  <2>1. CASE Go(r, "launch") /\ UNCHANGED job
    BY <1>4, <2>1, GoOK DEF Create
  <2>2. CASE Go(r, "undo") /\ UNCHANGED job
    BY <1>4, <2>2, GoOK DEF Create
  <2>. QED  BY <1>4, <2>1, <2>2 DEF Create
<1>5. CASE Launch(r)
  <2>. lastId' = lastId  BY <1>5 DEF Launch, store
  <2>1. CASE Go(r, "record") /\ UNCHANGED job
    BY <1>5, <2>1, GoOK DEF Launch
  <2>2. CASE Go(r, "teardown") /\ UNCHANGED job
    BY <1>5, <2>2, GoOK DEF Launch
  <2>. QED  BY <1>5, <2>1, <2>2 DEF Launch
<1>6. CASE Teardown(r)
  <2>. lastId' = lastId  BY <1>6 DEF Teardown, store
  <2>1. CASE Go(r, "undo") /\ UNCHANGED job
    BY <1>6, <2>1, GoOK DEF Teardown
  <2>. QED  BY <1>6, <2>1 DEF Teardown
<1>7. CASE Undo(r)
  <2>. lastId' = lastId  BY <1>7 DEF Undo, store
  <2>1. CASE Finish(r)  BY <2>1, FinishOK
  <2>. QED  BY <1>7, <2>1 DEF Undo
<1>8. CASE Record(r)
  <2>. lastId' = lastId  BY <1>8 DEF Record, store
  <2>1. CASE Go(r, "mirror") /\ UNCHANGED job
    BY <1>8, <2>1, GoOK DEF Record
  <2>. QED  BY <1>8, <2>1 DEF Record
<1>9. CASE Greet(r)
  <2>. lastId' = lastId  BY <1>9 DEF Greet, store
  <2>1. CASE Finish(r)  BY <2>1, FinishOK
  <2>. QED  BY <1>9, <2>1 DEF Greet
<1>10. CASE Again(r)
  <2>. lastId' = lastId  BY <1>10 DEF Again, store
  <2>1. CASE Go(r, "find") /\ UNCHANGED job  BY <1>10, <2>1, GoOK DEF Again
  <2>2. CASE AfterStop(r)  BY <1>10, <2>2, AfterStopOK DEF Again
  <2>. QED  BY <1>10, <2>1, <2>2 DEF Again
<1>11. CASE Find(r)
  <2>. lastId' = lastId  BY <1>11 DEF Find, store
  <2>1. CASE Finish(r)  BY <2>1, FinishOK
  <2>2. ASSUME NEW s \in LiveRowsOf(job[r].task),
               GoWith(r, "exists", [job[r] EXCEPT !.id = s, !.status = "stopped"])
        PROVE ProcOK'
    <3>1. s \in SessionId /\ s \in 1 .. lastId
      BY DEF LiveRowsOf, Live, StoreOK, RowsOK, SessionId
    <3>. DEFINE j == [job[r] EXCEPT !.id = s, !.status = "stopped"]
    <3>2. j \in Job /\ j.id = s /\ j.task = job[r].task /\ j.why = job[r].why
      BY <3>1 DEF Job, Status
    <3>3. GoWith(r, "exists", j)  BY <2>2
    <3>. HIDE DEF j
    <3>4. JobFits(r, "exists", j, lastId')  BY <1>11, <3>1, <3>2 DEF Find
    <3>. QED  BY <3>2, <3>3, <3>4, GoWithOK
  <2>. QED  BY <1>11, <2>1, <2>2 DEF Find
<1>12. CASE Exists(r)
  <2>. lastId' = lastId  BY <1>12 DEF Exists, store
  <2>1. CASE Go(r, "kill") /\ UNCHANGED job
    BY <1>12, <2>1, GoOK DEF Exists
  <2>2. CASE Go(r, "close") /\ UNCHANGED job
    BY <1>12, <2>2, GoOK DEF Exists
  <2>. QED  BY <1>12, <2>1, <2>2 DEF Exists
<1>13. CASE Kill(r)
  <2>. lastId' = lastId  BY <1>13 DEF Kill, store
  <2>1. CASE Go(r, "close") /\ UNCHANGED job
    BY <1>13, <2>1, GoOK DEF Kill
  <2>2. CASE Finish(r)  BY <2>2, FinishOK
  <2>. QED  BY <1>13, <2>1, <2>2 DEF Kill
<1>14. CASE Abandon(r)
  <2>. lastId' = lastId  BY <1>14 DEF Abandon, store
  <2>1. CASE Finish(r)  BY <2>1, FinishOK
  <2>. QED  BY <1>14, <2>1 DEF Abandon
<1>. QED  BY <1>1, <1>2, <1>3, <1>4, <1>5, <1>6, <1>7, <1>8, <1>9, <1>10, <1>11, <1>12, <1>13, <1>14 DEF Serve

(* What `close` returns to: the rest of the pass, or of the request.       *)
LEMMA AfterCloseOK ==
  ASSUME NEW p \in Proc, ProcOK, lastId \in Nat, UNCHANGED lastId, job[p].task \in Task,
         job[p].id \in 1 .. lastId, AfterClose(p)
  PROVE  ProcOK'
<1>1. CASE p = Poller /\ job[p].why = "exited"
  <2>1. "report" \in Step  BY DEF Step, PollerSteps
  <2>2. JobFits(p, "report", job[p], lastId')
    BY <1>1 DEF JobFits, TaskSteps, SessionSteps, StartSteps, StopSteps, ReadSteps, StopReasons
  <2>. QED  BY <1>1, <2>1, <2>2, GoOK DEF AfterClose
<1>2. CASE p = Poller /\ job[p].why # "exited"
  <2>1. NoJob \in Job /\ NoJob.why = "requested"  BY DEF NoJob, Job, Status, Why
  <2>2. "match" \in Step /\ JobFits(p, "match", NoJob, lastId')
    BY <2>1 DEF Step, PollerSteps, JobFits, TaskSteps, SessionSteps, StartSteps, StopSteps, ReadSteps
  <2>. QED  BY <1>2, <2>1, <2>2, GoWithOK DEF AfterClose
<1>3. CASE p # Poller  BY <1>3, AfterStopOK DEF AfterClose, Proc
<1>. QED  BY <1>1, <1>2, <1>3

(* Closing, mirroring and announcing leave every process with what its next*)
(* step needs, whoever called them.                                        *)
LEMMA FinaliseKeepsProcOK ==
  ASSUME NEW p \in Proc, StoreOK, ProcOK, Finalise(p)
  PROVE  ProcOK'
<1>. DEFINE fits == JobFits(p, pc[p], job[p], lastId)
<1>0. lastId \in Nat /\ job[p] \in Job /\ fits /\ lastId' = lastId
  BY DEF StoreOK, ProcOK, JobOK, Finalise, Close, Mirror, Announce, store
<1>1. CASE Close(p)
  <2>1. pc[p] = "close" /\ job[p].task \in Task /\ job[p].id \in 1 .. lastId
    BY <1>0, <1>1 DEF Close, At, JobFits, TaskSteps, SessionSteps
  <2>2. CASE Go(p, "mirror") /\ UNCHANGED job
    <3>1. JobFits(p, "mirror", job[p], lastId')
      BY <1>0, <2>1 DEF JobFits, TaskSteps, SessionSteps, StartSteps, StopSteps, ReadSteps
    <3>. QED  BY <1>0, <2>2, <3>1, GoOK DEF Step, RequestSteps
  <2>3. CASE AfterClose(p)  BY <1>0, <2>1, <2>3, AfterCloseOK
  <2>. QED  BY <1>1, <2>2, <2>3 DEF Close
<1>2. CASE Mirror(p)
  <2>1. pc[p] = "mirror" /\ job[p].task \in Task /\ job[p].id \in 1 .. lastId
        /\ job[p].why \in Why /\ (p = Poller => job[p].why # "start")
    BY <1>0, <1>2 DEF Mirror, At, JobFits, TaskSteps, SessionSteps, Job
  <2>2. PICK step \in {"greet", "tell", "announce"} :
          /\ Go(p, step) /\ UNCHANGED job
          /\ step = "greet" => job[p].why = "start"
          /\ step = "tell" => job[p].why = "reading"
          /\ step = "announce" => job[p].why \in StopReasons
    BY <1>2, <2>1 DEF Mirror, Why, StopReasons
  <2>3. step \in Step  BY DEF Step, RequestSteps, PollerSteps
  <2>4. JobFits(p, step, job[p], lastId')
    BY <1>0, <2>1, <2>2 DEF JobFits, TaskSteps, SessionSteps, StartSteps, StopSteps, ReadSteps
  <2>. QED  BY <1>0, <2>2, <2>3, <2>4, GoOK
<1>3. CASE Announce(p)
  <2>1. job[p].task \in Task /\ job[p].id \in 1 .. lastId
    BY <1>0, <1>3 DEF Announce, At, JobFits, TaskSteps, SessionSteps
  <2>. QED  BY <1>0, <1>3, <2>1, AfterCloseOK DEF Announce
<1>. QED  BY <1>1, <1>2, <1>3 DEF Finalise

(* So does every step of the poller.                                       *)
LEMMA WatchKeepsProcOK ==
  ASSUME StoreOK, WorldOK, ProcOK, Watch
  PROVE  ProcOK'
<1>. USE SessionsAssumption DEF At, JobFits, TaskSteps, SessionSteps, StartSteps, StopSteps,
         ReadSteps, StopReasons
<1>. DEFINE fits == JobFits(Poller, pc[Poller], job[Poller], lastId)
<1>0. /\ Poller \in Proc /\ lastId \in Nat /\ job[Poller] \in Job /\ fits
      /\ PollerSteps \subseteq Step /\ NoJob \in Job /\ NoJob.why = "requested"
  BY DEF Proc, StoreOK, ProcOK, JobOK, Step, NoJob, Job, Status, Why
<1>. USE <1>0 DEF PollerSteps
<1>1. CASE List  BY <1>1, GoOK DEF List, store
<1>2. CASE Rows  BY <1>2, GoOK DEF Rows, store
<1>3. ASSUME NEW e \in todo,
             IF rows[e.id].task \in listed THEN UNCHANGED <<pc, job>>
             ELSE GoWith(Poller, "close", [NoJob EXCEPT
                    !.task = rows[e.id].task, !.id = e.id, !.why = "vanished"]),
             UNCHANGED store
      PROVE ProcOK'
  <2>. DEFINE j == [NoJob EXCEPT !.task = rows[e.id].task, !.id = e.id, !.why = "vanished"]
  <2>1. e.id \in SessionId /\ e.id <= lastId  BY DEF WorldOK, Snapshot, StoreOK, RowsOK
  <2>0. rows[e.id].task \in Task /\ e.id \in 1 .. lastId
    BY <2>1 DEF StoreOK, RowsOK, SessionId
  <2>2. j \in Job /\ j.task \in Task /\ j.id \in 1 .. lastId /\ j.why = "vanished"
    BY <2>0, <2>1 DEF NoJob, Job, Status, Why
  <2>3. lastId' = lastId  BY <1>3 DEF store
  <2>4. CASE UNCHANGED <<pc, job>>
    <3>. HIDE DEF JobFits
    <3>. QED  BY <2>3, <2>4 DEF ProcOK, JobOK
  <2>5. CASE GoWith(Poller, "close", j)
    <3>. HIDE DEF j
    <3>. QED  BY <2>2, <2>3, <2>5, GoWithOK
  <2>. QED  BY <1>3, <2>4, <2>5
<1>4. CASE Reconciled  BY <1>4, GoOK DEF Reconciled, store
<1>5. CASE Scan  BY <1>5, GoOK DEF Scan, store
<1>6. CASE PickNext
  <2>0. lastId' = lastId  BY <1>6 DEF PickNext, store
  <2>1. CASE Go(Poller, "list") /\ UNCHANGED job  BY <2>0, <2>1, GoOK
  <2>2. ASSUME NEW e \in todo,
               GoWith(Poller, "pane", [NoJob EXCEPT !.task = rows[e.id].task, !.id = e.id,
                                                    !.status = e.status, !.why = "reading"])
        PROVE ProcOK'
    <3>. DEFINE j == [NoJob EXCEPT !.task = rows[e.id].task, !.id = e.id,
                                   !.status = e.status, !.why = "reading"]
    <3>1. e \in Snapshot /\ e.id \in SessionId /\ e.id <= lastId
      BY DEF WorldOK, Snapshot, StoreOK, RowsOK
    <3>0. rows[e.id].task \in Task /\ e.id \in 1 .. lastId
      BY <3>1 DEF StoreOK, RowsOK, SessionId
    <3>2. j \in Job /\ j.task \in Task /\ j.id \in 1 .. lastId /\ j.why = "reading"
      BY <3>0, <3>1 DEF NoJob, Job, Status, Why, Snapshot
    <3>3. GoWith(Poller, "pane", j)  BY <2>2
    <3>. HIDE DEF j
    <3>. QED  BY <2>0, <3>2, <3>3, GoWithOK
  <2>. QED  BY <1>6, <2>1, <2>2 DEF PickNext
<1>7. CASE PaneState
  <2>0. lastId' = lastId /\ pc[Poller] = "pane" /\ Belief \in Status
    BY <1>7 DEF PaneState, store, Belief, WorldOK, Job, SessionId, StoreOK
  <2>1. CASE GoWith(Poller, "next", NoJob)  BY <2>0, <2>1, GoWithOK
  <2>2. CASE Go(Poller, "screen") /\ UNCHANGED job  BY <2>0, <2>2, GoOK
  <2>3. ASSUME NEW status \in Status,
               GoWith(Poller, "reap", [job[Poller] EXCEPT
                 !.why = "exited", !.status = status])
        PROVE ProcOK'
    <3>. DEFINE j == [job[Poller] EXCEPT !.why = "exited", !.status = status]
    <3>1. j \in Job /\ j.task = job[Poller].task /\ j.id = job[Poller].id /\ j.why = "exited"
      BY <2>0 DEF Job, Why
    <3>2. GoWith(Poller, "reap", j)  BY <2>3
    <3>. HIDE DEF j
    <3>. QED  BY <2>0, <3>1, <3>2, GoWithOK
  <2>. QED  BY <1>7, <2>1, <2>2, <2>3 DEF PaneState, EndedAs, Status
<1>8. CASE Screen
  <2>0. lastId' = lastId /\ pc[Poller] = "screen" /\ Belief \in Status
    BY <1>8 DEF Screen, store, Belief, WorldOK, Job, SessionId, StoreOK
  <2>1. CASE GoWith(Poller, "next", NoJob)  BY <2>0, <2>1, GoWithOK
  <2>2. ASSUME NEW seen \in Status,
               GoWith(Poller, "apply", [job[Poller] EXCEPT !.status = seen])
        PROVE ProcOK'
    <3>. DEFINE j == [job[Poller] EXCEPT !.status = seen]
    <3>1. j \in Job /\ j.task = job[Poller].task /\ j.id = job[Poller].id /\ j.why = job[Poller].why
      BY <2>0 DEF Job
    <3>2. GoWith(Poller, "apply", j)  BY <2>2
    <3>. HIDE DEF j
    <3>. QED  BY <2>0, <3>1, <3>2, GoWithOK
  <2>. QED  BY <1>8, <2>0, <2>1, <2>2 DEF Screen, Status
<1>9. CASE Apply  BY <1>9, GoOK DEF Apply
<1>10. CASE Tell
  <2>0. lastId' = lastId /\ pc[Poller] = "tell"  BY <1>10 DEF Tell, store
  <2>1. CASE GoWith(Poller, "next", NoJob)  BY <2>0, <2>1, GoWithOK
  <2>2. CASE Go(Poller, "alert") /\ UNCHANGED job  BY <2>0, <2>2, GoOK
  <2>. QED  BY <1>10, <2>1, <2>2 DEF Tell
<1>11. CASE Reap  BY <1>11, GoOK DEF Reap, store
<1>12. CASE Match  BY <1>3, <1>12 DEF Match
<1>13. CASE Alert  BY <1>13, GoWithOK DEF Alert, store
<1>14. CASE Report  BY <1>14, GoWithOK DEF Report, store
<1>. QED  BY <1>1, <1>2, <1>12, <1>4, <1>5, <1>6, <1>7, <1>8, <1>9, <1>10, <1>11, <1>13, <1>14 DEF Watch

(* Agents and people do not touch the processes; a crash drops them all.   *)
LEMMA WorldKeepsProcOK ==
  ASSUME StoreOK, ProcOK, World
  PROVE  ProcOK'
<1>. USE SessionsAssumption DEF JobFits, TaskSteps, SessionSteps, StartSteps, StopSteps, ReadSteps,
         Step, RequestSteps, PollerSteps, NoJob, Job, Status, Why, Proc
<1>1. CASE Crash  BY <1>1 DEF Crash, ProcOK, JobOK
<1>2. CASE Boot
  <2>1. JobFits(Poller, "list", job[Poller], lastId')  BY DEF ProcOK, JobOK
  <2>. QED  BY <1>2, <2>1, GoOK DEF Boot, StoreOK, store
<1>3. CASE \E t \in Task : AgentExits(t) \/ KilledByHand(t)
  BY <1>3 DEF AgentExits, KilledByHand, ProcOK, JobOK, store
<1>. QED  BY <1>1, <1>2, <1>3 DEF World

-----------------------------------------------------------------------------
(* How the sessions table moves                                            *)

Insertion == \E t \in Task :
  /\ lastId < MaxSessions /\ LiveRowsOf(t) = {}
  /\ lastId' = lastId + 1
  /\ rows' = [rows EXCEPT ![lastId + 1] = [task |-> t, state |-> "live", status |-> "idle"]]
Ending == \E s \in 1 .. lastId, status \in Status : EndRow(s, status) /\ UNCHANGED lastId
Reading == \E s \in 1 .. lastId, status \in Status :
  /\ rows' = [rows EXCEPT ![s].status = IF Live(s) THEN status ELSE @]
  /\ UNCHANGED lastId
TableStep == UNCHANGED <<rows, lastId>> \/ Insertion \/ Ending \/ Reading

(* Every step inserts a row for a task without a live one, ends one row,   *)
(* records a reading in one, or leaves the table alone.                    *)
LEMMA TableSteps ==
  ASSUME StoreOK, ProcOK, [Next]_vars
  PROVE  TableStep
<1>0. \A p \in Proc : job[p] \in Job /\ JobFits(p, pc[p], job[p], lastId)
  BY DEF ProcOK, JobOK
<1>. USE DEF TableStep
<1>1. ASSUME NEW r \in Request, Insert(r) PROVE TableStep
  <2>1. r \in Proc /\ pc[r] = "insert" /\ lastId \in 0 .. MaxSessions /\ MaxSessions \in Nat
    BY <1>1, SessionsAssumption DEF Insert, At, Proc, StoreOK
  <2>2. job[r].task \in Task  BY <1>0, <2>1 DEF JobFits, TaskSteps
  <2>3. CASE LiveRowsOf(job[r].task) # {} \/ lastId = MaxSessions  BY <1>1, <2>3 DEF Insert
  <2>4. CASE LiveRowsOf(job[r].task) = {} /\ lastId # MaxSessions
    BY <1>1, <2>1, <2>2, <2>4 DEF Insert, Insertion
  <2>. QED  BY <2>3, <2>4
<1>2. ASSUME NEW r \in Request, Undo(r) PROVE TableStep
  <2>1. r \in Proc /\ pc[r] = "undo"  BY <1>2 DEF Undo, At, Proc
  <2>2. job[r].id \in 1 .. lastId  BY <1>0, <2>1 DEF JobFits, SessionSteps
  <2>3. "error" \in Status  BY DEF Status
  <2>. QED  BY <1>2, <2>2, <2>3 DEF Undo, Ending
<1>3. ASSUME NEW p \in Proc, Close(p) PROVE TableStep
  <2>1. pc[p] = "close"  BY <1>3 DEF Close, At
  <2>2. job[p].id \in 1 .. lastId /\ job[p].status \in Status
    BY <1>0, <2>1 DEF JobFits, SessionSteps, Job
  <2>. QED  BY <1>3, <2>2 DEF Close, Ending
<1>4. CASE Apply
  <2>1. Poller \in Proc /\ pc[Poller] = "apply"  BY <1>4 DEF Apply, At, Proc
  <2>2. job[Poller].id \in 1 .. lastId /\ job[Poller].status \in Status
    BY <1>0, <2>1 DEF JobFits, SessionSteps, ReadSteps, Job
  <2>. QED  BY <1>4, <2>2 DEF Apply, Reading
<1>5. ASSUME NEW r \in Request, Serve(r), ~Insert(r), ~Undo(r) PROVE TableStep
  BY <1>5 DEF Serve, Probe, Create, Launch, Teardown, Record, Greet, Again, Find, Exists, Kill, store
<1>6. ASSUME NEW r \in Request,
             \/ Abandon(r)
             \/ \E t \in Task, kind \in {"start", "stop", "restart"} : Begin(r, t, kind)
      PROVE TableStep
  BY <1>6 DEF Abandon, Begin, store
<1>7. ASSUME NEW p \in Proc, Mirror(p) \/ Announce(p) PROVE TableStep
  BY <1>7 DEF Mirror, Announce, store
<1>8. ASSUME Watch, ~Apply PROVE TableStep
  BY <1>8 DEF Watch, List, Rows, Match, Reconciled, Scan, PickNext, PaneState, Screen, Tell,
         Alert, Reap, Report, store
<1>9. CASE World
  BY <1>9 DEF World, Crash, Boot, AgentExits, KilledByHand, store
<1>10. CASE UNCHANGED vars  BY <1>10 DEF vars, store
<1>. HIDE DEF TableStep
<1>. QED  BY <1>1, <1>2, <1>3, <1>4, <1>5, <1>6, <1>7, <1>8, <1>9, <1>10 DEF Next, Finalise

(* The table keeps its shape, and the snapshot of a pass holds no row the  *)
(* table does not.                                                         *)
LEMMA TableKept ==
  ASSUME StoreOK, TableStep, taskStatus' \in [Task -> Status], todo \subseteq Snapshot,
         todo' \subseteq todo \/ (todo' = LiveSnapshot /\ UNCHANGED <<rows, lastId>>)
  PROVE  StoreOK'
<1>0. /\ MaxSessions \in Nat /\ lastId \in 0 .. MaxSessions /\ rows \in [SessionId -> Row]
      /\ \A s \in SessionId : IF s <= lastId THEN rows[s].state # "free" /\ rows[s].task \in Task
                                              ELSE rows[s].state = "free"
      /\ \A e \in todo : e.id <= lastId
  BY SessionsAssumption DEF StoreOK, RowsOK
<1>1. lastId' \in 0 .. MaxSessions /\ lastId <= lastId'
  <2>1. CASE UNCHANGED lastId  BY <1>0, <2>1
  <2>2. CASE lastId < MaxSessions /\ lastId' = lastId + 1  BY <1>0, <2>2
  <2>. QED  BY <2>1, <2>2 DEF TableStep, Insertion, Ending, Reading
<1>2. rows' \in [SessionId -> Row] /\ \A s \in SessionId :
        IF s <= lastId' THEN rows'[s].state # "free" /\ rows'[s].task \in Task
                        ELSE rows'[s].state = "free"
  <2>1. CASE UNCHANGED <<rows, lastId>>  BY <1>0, <2>1
  <2>2. CASE Insertion
    <3>1. PICK t \in Task : lastId < MaxSessions /\ lastId' = lastId + 1 /\ rows' =
            [rows EXCEPT ![lastId + 1] = [task |-> t, state |-> "live", status |-> "idle"]]
      BY <2>2 DEF Insertion
    <3>2. [task |-> t, state |-> "live", status |-> "idle"] \in Row  BY DEF Row, Status
    <3>. QED  BY <1>0, <3>1, <3>2 DEF SessionId
  <2>3. CASE Ending
    <3>1. PICK s \in 1 .. lastId, status \in Status : EndRow(s, status) /\ UNCHANGED lastId
      BY <2>3 DEF Ending
    <3>2. s \in SessionId  BY <1>0, <3>1 DEF SessionId
    <3>3. [rows[s] EXCEPT !.state = "ended", !.status = status] \in Row  BY <1>0, <3>2 DEF Row
    <3>4. /\ rows'[s] \in {rows[s], [rows[s] EXCEPT !.state = "ended", !.status = status]}
          /\ \A u \in SessionId : u # s => rows'[u] = rows[u]
          /\ rows' \in [SessionId -> Row]
      BY <1>0, <3>1, <3>2, <3>3 DEF EndRow
    <3>5. rows'[s].state # "free" /\ rows'[s].task \in Task
      <4>1. rows[s] \in Row /\ rows[s].state # "free" /\ rows[s].task \in Task  BY <1>0, <3>1, <3>2
      <4>2. LET row == [rows[s] EXCEPT !.state = "ended", !.status = status]
            IN row.state = "ended" /\ row.task = rows[s].task
        BY <4>1 DEF Row
      <4>. QED  BY <3>4, <4>1, <4>2
    <3>. QED  BY <1>0, <3>1, <3>4, <3>5
  <2>4. CASE Reading
    <3>1. PICK s \in 1 .. lastId, status \in Status :
            /\ rows' = [rows EXCEPT ![s].status = IF Live(s) THEN status ELSE @]
            /\ UNCHANGED lastId
      BY <2>4 DEF Reading
    <3>. QED  BY <1>0, <3>1 DEF Row, SessionId
  <2>. QED  BY <2>1, <2>2, <2>3, <2>4 DEF TableStep
<1>3. \A e \in todo' : e.id <= lastId'
  <2>1. CASE todo' \subseteq todo
    <3>. TAKE e \in todo'
    <3>1. e.id \in SessionId /\ e.id <= lastId  BY <1>0, <2>1 DEF Snapshot
    <3>. QED  BY <1>0, <1>1, <3>1 DEF SessionId
  <2>2. CASE todo' = LiveSnapshot /\ UNCHANGED <<rows, lastId>>
    BY <1>0, <2>2 DEF LiveSnapshot, Live, SessionId
  <2>. QED  BY <2>1, <2>2
<1>. QED  BY <1>1, <1>2, <1>3 DEF StoreOK, RowsOK

-----------------------------------------------------------------------------
(* Types                                                                   *)

(* tmux sessions and the events published keep their types.                *)
LEMMA TmuxTyped ==
  ASSUME StoreOK, WorldOK, ProcOK, [Next]_vars
  PROVE  tmux' \in [Task -> Pane \cup {NoSession}]
<1>. DEFINE TmuxTypes == [Task -> Pane \cup {NoSession}]
<1>0. tmux \in TmuxTypes  BY DEF WorldOK
<1>1. ASSUME NEW r \in Request, Create(r) PROVE tmux' \in TmuxTypes
  <2>1. pc[r] = "create" /\ r \in Proc /\ job[r].id \in 1 .. lastId
    BY <1>1 DEF Create, At, Proc, ProcOK, JobOK, JobFits, SessionSteps
  <2>2. [owner |-> job[r].id, pane |-> "shell"] \in Pane
    BY <2>1, SessionsAssumption DEF Pane, StoreOK, SessionId
  <2>. QED  BY <1>0, <1>1, <2>2 DEF Create
<1>2. ASSUME NEW t, tmux[t] # NoSession,
             NEW pane \in {"shell", "agent", "exited", "failed"}, tmux' = [tmux EXCEPT ![t].pane = pane]
      PROVE tmux' \in TmuxTypes
  <2>1. CASE t \in Task
    <3>1. tmux[t] \in Pane  BY <1>0, <1>2, <2>1
    <3>2. [tmux[t] EXCEPT !.pane = pane] \in Pane  BY <3>1 DEF Pane
    <3>. QED  BY <1>0, <1>2, <3>2
  <2>2. CASE t \notin Task
    BY <1>0, <1>2, <2>2
  <2>. QED  BY <2>1, <2>2
<1>3. ASSUME NEW r \in Request, Launch(r) PROVE tmux' \in TmuxTypes
  BY <1>0, <1>2, <1>3 DEF Launch
<1>4. ASSUME NEW t \in Task, AgentExits(t) PROVE tmux' \in TmuxTypes
  BY <1>2, <1>4 DEF AgentExits
<1>5. ASSUME NEW t, tmux' = [tmux EXCEPT ![t] = NoSession] PROVE tmux' \in TmuxTypes
  BY <1>0, <1>5
<1>6. ASSUME UNCHANGED tmux PROVE tmux' \in TmuxTypes  BY <1>0, <1>6
<1>. HIDE DEF TmuxTypes
<1>7. ASSUME NEW r \in Request, Serve(r), ~Create(r), ~Launch(r) PROVE tmux' \in TmuxTypes
  BY <1>5, <1>6, <1>7 DEF Serve, Probe, Insert, Teardown, Undo, Record, Greet, Again, Find, Exists, Kill
<1>8. ASSUME NEW r \in Request,
             \/ Abandon(r)
             \/ \E t \in Task, kind \in {"start", "stop", "restart"} : Begin(r, t, kind)
      PROVE tmux' \in TmuxTypes
  BY <1>5, <1>6, <1>8 DEF Abandon, Begin
<1>9. ASSUME NEW p \in Proc, Finalise(p) PROVE tmux' \in TmuxTypes
  BY <1>6, <1>9 DEF Finalise, Close, Mirror, Announce
<1>10. ASSUME Watch PROVE tmux' \in TmuxTypes
  BY <1>5, <1>6, <1>10 DEF Watch, List, Rows, Match, Reconciled, Scan, PickNext, PaneState, Screen,
         Apply, Tell, Alert, Reap, Report
<1>11. ASSUME World PROVE tmux' \in TmuxTypes
  BY <1>4, <1>5, <1>6, <1>11 DEF World, Crash, Boot, KilledByHand
<1>12. ASSUME UNCHANGED vars PROVE tmux' \in TmuxTypes  BY <1>6, <1>12 DEF vars
<1>. QED  BY <1>1, <1>3, <1>7, <1>8, <1>9, <1>10, <1>11, <1>12 DEF Next, TmuxTypes

(* The task statuses, the daemon's own state, the poller's snapshot and    *)
(* the counts of events keep their types.                                  *)
LEMMA RestTyped ==
  ASSUME StoreOK, WorldOK, ProcOK, [Next]_vars
  PROVE  /\ taskStatus' \in [Task -> Status]
         /\ daemon' \in {"down", "booting", "up"} /\ crashes' \in 0 .. MaxCrashes
         /\ listed' \subseteq Task
         /\ todo' \subseteq todo \/ (todo' = LiveSnapshot /\ UNCHANGED <<rows, lastId>>)
         /\ todo' \subseteq Snapshot
         /\ started' \in [SessionId -> Nat] /\ stopped' \in [SessionId -> Nat]
<1>. DEFINE Goal == /\ taskStatus' \in [Task -> Status]
                    /\ daemon' \in {"down", "booting", "up"} /\ crashes' \in 0 .. MaxCrashes
                    /\ listed' \subseteq Task
                    /\ todo' \subseteq todo \/ (todo' = LiveSnapshot /\ UNCHANGED <<rows, lastId>>)
                    /\ todo' \subseteq Snapshot
                    /\ started' \in [SessionId -> Nat] /\ stopped' \in [SessionId -> Nat]
<1>0. /\ taskStatus \in [Task -> Status] /\ daemon \in {"down", "booting", "up"}
      /\ crashes \in 0 .. MaxCrashes /\ listed \subseteq Task /\ todo \subseteq Snapshot
      /\ started \in [SessionId -> Nat] /\ stopped \in [SessionId -> Nat] /\ MaxCrashes \in Nat
      /\ \A p \in Proc : job[p] \in Job /\ JobFits(p, pc[p], job[p], lastId)
      /\ LiveSnapshot \subseteq Snapshot
  BY SessionsAssumption DEF WorldOK, StoreOK, ProcOK, JobOK, LiveSnapshot, Snapshot, Row
<1>. DEFINE same == UNCHANGED <<taskStatus, daemon, crashes, listed, todo, started, stopped>>
<1>1. ASSUME same PROVE Goal
  <2>1. todo' \subseteq todo /\ todo' \subseteq Snapshot  BY <1>0, <1>1
  <2>2. started' \in [SessionId -> Nat] /\ stopped' \in [SessionId -> Nat]  BY <1>0, <1>1
  <2>. QED  BY <1>0, <1>1, <2>1, <2>2
<1>2. ASSUME NEW p \in Proc, Mirror(p) PROVE Goal
  <2>1. job[p].status \in Status  BY <1>0 DEF Job
  <2>. QED  BY <1>0, <1>2, <2>1 DEF Mirror, KeepDaemon, KeepPoll, bus
<1>3. ASSUME NEW p, Announce(p) \/ Greet(p) PROVE Goal
  <2>1. /\ UNCHANGED <<taskStatus, daemon, crashes, listed, todo>>
        /\ \/ stopped' = [stopped EXCEPT ![job[p].id] = @ + 1] /\ started' = started
           \/ started' = [started EXCEPT ![job[p].id] = @ + 1] /\ stopped' = stopped
    BY <1>3 DEF Announce, Greet, KeepDaemon, KeepPoll, store
  <2>2. started' \in [SessionId -> Nat] /\ stopped' \in [SessionId -> Nat]  BY <1>0, <2>1
  <2>3. todo' \subseteq todo /\ todo' \subseteq Snapshot  BY <1>0, <2>1
  <2>. QED  BY <1>0, <2>1, <2>2, <2>3
<1>4. ASSUME NEW p \in Proc, Close(p) PROVE Goal
  <2>1. same  BY <1>4 DEF Close, KeepDaemon, KeepPoll, bus
  <2>. QED  BY <1>1, <2>1
<1>5. ASSUME NEW r \in Request, Serve(r), ~Greet(r) PROVE Goal
  <2>1. same
    BY <1>5 DEF Serve, Probe, Insert, Create, Launch, Teardown, Undo, Record, Again, Find,
         Exists, Kill, KeepDaemon, KeepPoll, store, bus
  <2>. QED  BY <1>1, <2>1
<1>6. ASSUME NEW r \in Request,
             \/ Abandon(r)
             \/ \E t \in Task, kind \in {"start", "stop", "restart"} : Begin(r, t, kind)
      PROVE Goal
  <2>1. same  BY <1>6 DEF Abandon, Begin, KeepDaemon, KeepPoll, store, bus
  <2>. QED  BY <1>1, <2>1
<1>7. ASSUME List \/ Rows \/ Match \/ Reconciled PROVE Goal
  BY <1>0, <1>7 DEF List, Rows, Match, Reconciled, KeepDaemon, store, bus
<1>8. ASSUME Scan \/ PickNext PROVE Goal
  BY <1>0, <1>8 DEF Scan, PickNext, KeepDaemon, store, bus
<1>9. ASSUME PaneState \/ Screen \/ Apply \/ Tell \/ Alert \/ Reap \/ Report PROVE Goal
  <2>1. same
    BY <1>9 DEF PaneState, Screen, Apply, Tell, Alert, Reap, Report, KeepDaemon, KeepPoll, store, bus
  <2>. QED  BY <1>1, <2>1
<1>10. ASSUME World PROVE Goal
  BY <1>0, <1>10 DEF World, Crash, Boot, AgentExits, KilledByHand, KeepDaemon, KeepPoll, store, bus
<1>11. ASSUME UNCHANGED vars PROVE Goal  BY <1>0, <1>11 DEF vars, store, bus
<1>. HIDE DEF Goal
<1>12. Goal
  BY <1>2, <1>3, <1>4, <1>5, <1>6, <1>7, <1>8, <1>9, <1>10, <1>11 DEF Next, Finalise, Watch
<1>. QED  BY <1>12 DEF Goal

(* The poller believes a status of every session it has read.              *)
LEMMA TrackersTyped ==
  ASSUME StoreOK, WorldOK, ProcOK, [Next]_vars
  PROVE  trackers' \in [SessionId -> Status \cup {NoTracker}]
<1>. DEFINE TrackerTypes == [SessionId -> Status \cup {NoTracker}]
<1>0. trackers \in TrackerTypes  BY DEF WorldOK
<1>1. ASSUME NEW s, NEW status \in Status \cup {NoTracker}, trackers' = [trackers EXCEPT ![s] = status]
      PROVE trackers' \in TrackerTypes
  BY <1>0, <1>1
<1>2. ASSUME UNCHANGED trackers PROVE trackers' \in TrackerTypes  BY <1>0, <1>2
<1>3. ASSUME Crash PROVE trackers' \in TrackerTypes  BY <1>3 DEF Crash
<1>4. ASSUME Screen PROVE trackers' \in TrackerTypes
  <2>1. pc[Poller] = "screen" /\ Poller \in Proc  BY <1>4 DEF Screen, At, Proc
  <2>2. job[Poller] \in Job /\ job[Poller].id \in 1 .. lastId
    BY <2>1 DEF ProcOK, JobOK, JobFits, SessionSteps, ReadSteps
  <2>3. job[Poller].id \in SessionId  BY <2>2, SessionsAssumption DEF StoreOK, SessionId
  <2>4. Belief \in Status
    BY <1>0, <2>2, <2>3 DEF Belief, Job
  <2>5. Readings \cup {"idle", Belief} \subseteq Status  BY <2>4, SessionsAssumption DEF Status
  <2>6. PICK status \in Status : trackers' = [trackers EXCEPT ![job[Poller].id] = status]
    BY <1>4, <2>5 DEF Screen, Believe
  <2>. QED  BY <1>1, <2>6
<1>5. EndedAs("failed") \in Status /\ EndedAs("exited") \in Status /\ \A x : EndedAs(x) \in Status
  BY DEF EndedAs, Status
<1>. HIDE DEF TrackerTypes
<1>6. ASSUME PaneState PROVE trackers' \in TrackerTypes
  BY <1>1, <1>2, <1>5, <1>6 DEF PaneState, Believe
<1>7. ASSUME NEW p \in Proc, Finalise(p) PROVE trackers' \in TrackerTypes
  BY <1>1, <1>2, <1>7 DEF Finalise, Close, Mirror, Announce
<1>8. ASSUME NEW r \in Request,
             \/ Serve(r) \/ Abandon(r)
             \/ \E t \in Task, kind \in {"start", "stop", "restart"} : Begin(r, t, kind)
      PROVE trackers' \in TrackerTypes
  BY <1>2, <1>8 DEF Serve, Probe, Insert, Create, Launch, Teardown, Undo, Record, Greet, Again, Find,
         Exists, Kill, Abandon, Begin
<1>9. ASSUME Watch, ~Screen, ~PaneState PROVE trackers' \in TrackerTypes
  BY <1>2, <1>9 DEF Watch, List, Rows, Match, Reconciled, Scan, PickNext, Apply, Tell, Alert, Reap, Report
<1>10. ASSUME World, ~Crash PROVE trackers' \in TrackerTypes
  BY <1>2, <1>10 DEF World, Boot, AgentExits, KilledByHand
<1>11. ASSUME UNCHANGED vars PROVE trackers' \in TrackerTypes  BY <1>2, <1>11 DEF vars
<1>. QED  BY <1>3, <1>4, <1>6, <1>7, <1>8, <1>9, <1>10, <1>11 DEF Next, TrackerTypes

(* What every reachable state has: types, rows where the ids say, and      *)
(* processes that hold what their step needs.                              *)
Shape == ProcOK /\ StoreOK /\ WorldOK

(* An empty store, no tmux session and no process at work are well shaped. *)
LEMMA ShapeInit == Init => Shape
<1>. SUFFICES ASSUME Init PROVE Shape  OBVIOUS
<1>. USE SessionsAssumption DEF Init
<1>1. NoJob \in Job /\ FreeRow \in Row /\ FreeRow.state = "free" /\ NoJob.why = "requested"
  BY DEF NoJob, Job, FreeRow, Row, Status, Why
<1>2. ProcOK
  BY <1>1 DEF ProcOK, JobOK, JobFits, Step, RequestSteps, PollerSteps, TaskSteps, SessionSteps,
         StartSteps, StopSteps, ReadSteps
<1>3. StoreOK  BY <1>1 DEF StoreOK, RowsOK, SessionId, Status
<1>4. WorldOK  BY DEF WorldOK, Snapshot
<1>. QED  BY <1>2, <1>3, <1>4 DEF Shape

(* Every step keeps the state well shaped.                                 *)
LEMMA ShapeStep == Shape /\ [Next]_vars => Shape'
<1>. SUFFICES ASSUME Shape, [Next]_vars PROVE Shape'  OBVIOUS
<1>. USE DEF Shape
<1>1. ProcOK'
  <2>1. ASSUME UNCHANGED vars PROVE ProcOK'  BY <2>1 DEF vars, store, ProcOK, JobOK
  <2>. QED  BY <2>1, RequestKeepsProcOK, FinaliseKeepsProcOK, WatchKeepsProcOK, WorldKeepsProcOK DEF Next
<1>2. StoreOK'  BY TableSteps, TableKept, RestTyped DEF WorldOK
<1>3. WorldOK'  BY TmuxTyped, RestTyped, TrackersTyped DEF WorldOK
<1>. QED  BY <1>1, <1>2, <1>3

(* Every reachable state is well shaped.                                   *)
LEMMA Shaped == Spec => []Shape
<1>. QED  BY ShapeInit, ShapeStep, PTL DEF Spec

(* Every reachable state is of the right type, whatever the tasks, the     *)
(* number of concurrent requests, the failures of tmux and the crashes.    *)
THEOREM TypeCorrect == Spec => []TypeOK
<1>1. Shape => TypeOK  BY DEF Shape, ProcOK, StoreOK, WorldOK, TypeOK
<1>. QED  BY <1>1, Shaped, PTL

-----------------------------------------------------------------------------
(* One live row for each task                                              *)

(* Only an insertion makes a row live, and it asks for the task to have    *)
(* none.                                                                   *)
LEMMA OneLiveRowStep == Shape /\ OneLiveRow /\ [Next]_vars => OneLiveRow'
<1>. SUFFICES ASSUME Shape, OneLiveRow, [Next]_vars, NEW s \in SessionId, NEW u \in SessionId,
                     Live(s)', Live(u)', rows'[s].task = rows'[u].task
              PROVE s = u
  BY DEF OneLiveRow
<1>0. rows \in [SessionId -> Row] /\ lastId \in 0 .. MaxSessions /\ MaxSessions \in Nat
  BY SessionsAssumption DEF Shape, StoreOK
<1>1. TableStep  BY TableSteps DEF Shape
<1>2. ASSUME \A x \in {s, u} : Live(x) /\ rows[x].task = rows'[x].task PROVE s = u
  BY <1>2 DEF OneLiveRow
<1>3. CASE UNCHANGED <<rows, lastId>>  BY <1>2, <1>3 DEF Live
<1>4. CASE Insertion
  <2>1. PICK t \in Task : LiveRowsOf(t) = {} /\ lastId < MaxSessions /\ rows' =
          [rows EXCEPT ![lastId + 1] = [task |-> t, state |-> "live", status |-> "idle"]]
    BY <1>4 DEF Insertion
  <2>2. rows'[lastId + 1].task = t  BY <1>0, <2>1 DEF SessionId
  <2>3. \A x \in SessionId : x # lastId + 1 => rows'[x] = rows[x]  BY <1>0, <2>1
  <2>4. \A x \in {s, u} : x # lastId + 1 => Live(x) /\ rows[x].task # t
    BY <2>1, <2>3 DEF Live, LiveRowsOf
  <2>. QED  BY <1>2, <2>2, <2>3, <2>4
<1>5. CASE Ending
  <2>1. PICK e \in 1 .. lastId, status \in Status : EndRow(e, status)  BY <1>5 DEF Ending
  <2>2. e \in SessionId  BY <1>0, <2>1 DEF SessionId
  <2>3. \A x \in SessionId : Live(x)' => rows'[x] = rows[x]
    BY <1>0, <2>1, <2>2 DEF EndRow, Live, Row
  <2>. QED  BY <1>2, <2>3 DEF Live
<1>6. CASE Reading
  <2>1. PICK e \in 1 .. lastId, status \in Status :
          rows' = [rows EXCEPT ![e].status = IF Live(e) THEN status ELSE @]
    BY <1>6 DEF Reading
  <2>2. \A x \in SessionId : rows'[x].state = rows[x].state /\ rows'[x].task = rows[x].task
    BY <1>0, <2>1 DEF Row
  <2>. QED  BY <1>2, <2>2 DEF Live
<1>. QED  BY <1>1, <1>3, <1>4, <1>5, <1>6 DEF TableStep

(* No two live rows of the sessions table are of the same task, however    *)
(* many starts, restarts and polls race, and through every crash.          *)
THEOREM OneLiveRowAlways == Spec => []OneLiveRow
<1>1. Init => OneLiveRow  BY DEF Init, OneLiveRow, Live, FreeRow
<1>. QED  BY <1>1, OneLiveRowStep, Shaped, PTL DEF Spec

-----------------------------------------------------------------------------
(* An ending is final, and announced once                                  *)

(* No step changes a row that has ended: the two updates ask for a live    *)
(* row, and an insertion takes a new id.                                   *)
LEMMA EndedStays ==
  ASSUME Shape, [Next]_vars, NEW s \in SessionId, rows[s].state = "ended"
  PROVE  rows'[s].state = "ended" /\ rows'[s].status = rows[s].status
<1>0. /\ rows \in [SessionId -> Row] /\ lastId \in 0 .. MaxSessions /\ MaxSessions \in Nat
      /\ \A x \in SessionId : ~(x <= lastId) => rows[x].state = "free"
  BY SessionsAssumption DEF Shape, StoreOK, RowsOK
<1>1. TableStep  BY TableSteps DEF Shape
<1>2. CASE UNCHANGED <<rows, lastId>>  BY <1>2
<1>3. CASE Insertion
  <2>1. PICK t \in Task : rows' =
          [rows EXCEPT ![lastId + 1] = [task |-> t, state |-> "live", status |-> "idle"]]
    BY <1>3 DEF Insertion
  <2>2. s # lastId + 1  BY <1>0 DEF SessionId
  <2>. QED  BY <1>0, <2>1, <2>2
<1>4. CASE Ending
  <2>1. PICK e \in 1 .. lastId, status \in Status : EndRow(e, status)  BY <1>4 DEF Ending
  <2>. QED  BY <1>0, <2>1 DEF EndRow, Live
<1>5. CASE Reading
  <2>1. PICK e \in 1 .. lastId, status \in Status :
          rows' = [rows EXCEPT ![e].status = IF Live(e) THEN status ELSE @]
    BY <1>5 DEF Reading
  <2>. QED  BY <1>0, <2>1 DEF Live, Row
<1>. QED  BY <1>1, <1>2, <1>3, <1>4, <1>5 DEF TableStep

(* A session that has ended keeps the status it ended with and never lives *)
(* again: the guard on `ended_at` in both updates of the row is enough,    *)
(* whichever stale process comes late.                                     *)
THEOREM EndedForever == Spec => EndedIsFinal
<1>1. Shape /\ [Next]_vars => [\A s \in SessionId : rows[s].state = "ended" =>
        rows'[s].state = "ended" /\ rows'[s].status = rows[s].status]_rows
  BY EndedStays
<1>. QED  BY <1>1, Shaped, PTL DEF Spec, EndedIsFinal

-----------------------------------------------------------------------------
(* Who may announce an ending                                              *)

(* A process that moves to a step other than mirror and announce, or there *)
(* for another reason than an ending, leaves nobody newly closing.         *)
LEMMA MovesOn ==
  ASSUME ProcOK, NEW p \in Proc, NEW step \in Step, NEW j, GoWith(p, step, j),
         step \notin {"mirror", "announce"} \/ j.why \notin StopReasons
  PROVE  \A q \in Proc, s \in SessionId : Closing(q, s)' => Closing(q, s) /\ q # p
<1>. SUFFICES ASSUME NEW q \in Proc, NEW s \in SessionId, Closing(q, s)'
              PROVE Closing(q, s) /\ q # p
  OBVIOUS
<1>1. /\ q = p => pc'[q] = step /\ job'[q] = j
      /\ q # p => pc'[q] = pc[q] /\ job'[q] = job[q]
  BY DEF GoWith, Go, ProcOK
<1>. QED  BY <1>1 DEF Closing

(* Once a session is over its process goes on to a step of its own.        *)
LEMMA AfterCloseMovesOn ==
  ASSUME ProcOK, NEW p \in Proc, AfterClose(p) \/ AfterStop(p) \/ Finish(p)
  PROVE  \A q \in Proc, s \in SessionId : Closing(q, s)' => Closing(q, s) /\ q # p
<1>1. {"idle", "probe", "report", "match"} \subseteq Step
  BY DEF Step, RequestSteps, PollerSteps, AwaitingTmux
<1>2. PICK step, j : step \in {"idle", "probe", "report", "match"} /\ GoWith(p, step, j)
  <2>1. job = [job EXCEPT ![p] = job[p]]  BY DEF ProcOK
  <2>. QED  BY <2>1 DEF AfterClose, AfterStop, Finish, GoWith
<1>. QED  BY <1>1, <1>2, MovesOn

(* Nobody but `close` starts announcing.                                   *)
NobodyNew == \A q \in Proc, s \in SessionId : Closing(q, s)' => Closing(q, s)

(* A step other than closing and announcing leaves nobody newly closing,   *)
(* and publishes no SessionStopped.                                        *)
LEMMA OnlyCloseCloses ==
  ASSUME Shape, Next, \A p \in Proc : ~Close(p) /\ ~Announce(p)
  PROVE  NobodyNew /\ UNCHANGED stopped
<1>0. /\ ProcOK /\ Poller \in Proc /\ \A r \in Request : r \in Proc
      /\ AwaitingTmux \cup RequestSteps \cup PollerSteps \subseteq Step
  BY DEF Shape, Proc, Step, RequestSteps
<1>a. ASSUME UNCHANGED <<pc, job>> PROVE NobodyNew  BY <1>a DEF NobodyNew, Closing
<1>b. ASSUME NEW p \in Proc, NEW step \in Step \ {"mirror", "announce"}, NEW j, GoWith(p, step, j)
      PROVE NobodyNew
  BY <1>0, <1>b, MovesOn DEF NobodyNew
<1>c. ASSUME NEW p \in Proc, NEW step \in Step \ {"mirror", "announce"}, Go(p, step), UNCHANGED job
      PROVE NobodyNew
  <2>1. job' = [job EXCEPT ![p] = job[p]]  BY <1>0, <1>c DEF ProcOK
  <2>. QED  BY <1>b, <1>c, <2>1 DEF GoWith
<1>d. ASSUME NEW p \in Proc, AfterStop(p) \/ Finish(p) PROVE NobodyNew
  BY <1>0, <1>d, AfterCloseMovesOn DEF NobodyNew
<1>e. ASSUME NEW p \in Proc, Go(p, "mirror"), UNCHANGED job, job[p].why \notin StopReasons
      PROVE NobodyNew
  <2>1. job' = [job EXCEPT ![p] = job[p]] /\ "mirror" \in Step
    BY <1>0, <1>e DEF ProcOK, PollerSteps
  <2>. QED  BY <1>0, <1>e, <2>1, MovesOn DEF GoWith, NobodyNew
<1>1. ASSUME NEW r \in Request, \E t \in Task, kind \in {"start", "stop", "restart"} : Begin(r, t, kind)
      PROVE NobodyNew /\ UNCHANGED stopped
  <2>1. PICK kind, j :
          GoWith(r, CASE kind = "start" -> "probe" [] kind = "stop" -> "find" [] OTHER -> "again", j)
    BY <1>1 DEF Begin
  <2>2. \E step \in {"probe", "find", "again"} : GoWith(r, step, j)  BY <2>1
  <2>3. {"probe", "find", "again"} \subseteq Step \ {"mirror", "announce"}
    BY <1>0 DEF RequestSteps, AwaitingTmux
  <2>4. UNCHANGED stopped  BY <1>1 DEF Begin, bus
  <2>. QED  BY <1>0, <1>b, <2>2, <2>3, <2>4
<1>2. ASSUME NEW r \in Request, Abandon(r) PROVE NobodyNew /\ UNCHANGED stopped
  BY <1>0, <1>d, <1>2 DEF Abandon, bus
<1>3. ASSUME NEW r \in Request, Record(r) PROVE NobodyNew /\ UNCHANGED stopped
  <2>1. job[r].why \notin StopReasons
    BY <1>0, <1>3 DEF Record, At, ProcOK, JobOK, JobFits, StartSteps, StopReasons
  <2>. QED  BY <1>0, <1>3, <1>e, <2>1 DEF Record, bus
<1>4. ASSUME NEW r \in Request, Insert(r) PROVE NobodyNew /\ UNCHANGED stopped
  <2>1. Finish(r) \/ \E j : GoWith(r, "create", j)  BY <1>4 DEF Insert
  <2>2. "create" \in Step \ {"mirror", "announce"}  BY <1>0 DEF RequestSteps, AwaitingTmux
  <2>. QED  BY <1>0, <1>4, <1>b, <1>d, <2>1, <2>2 DEF Insert, bus
<1>5. ASSUME NEW r \in Request, Find(r) PROVE NobodyNew /\ UNCHANGED stopped
  <2>1. Finish(r) \/ \E j : GoWith(r, "exists", j)  BY <1>5 DEF Find
  <2>2. "exists" \in Step \ {"mirror", "announce"}  BY <1>0 DEF RequestSteps, AwaitingTmux
  <2>. QED  BY <1>0, <1>5, <1>b, <1>d, <2>1, <2>2 DEF Find, bus
<1>6. ASSUME NEW r \in Request, Serve(r), ~Record(r), ~Insert(r), ~Find(r)
      PROVE NobodyNew /\ UNCHANGED stopped
  <2>1. \/ AfterStop(r) \/ Finish(r)
        \/ /\ UNCHANGED job
           /\ \E step \in {"insert", "launch", "undo", "record", "teardown", "find", "kill", "close"} :
                Go(r, step)
    BY <1>6 DEF Serve, Probe, Create, Launch, Teardown, Undo, Greet, Again, Exists, Kill
  <2>2. {"insert", "launch", "undo", "record", "teardown", "find", "kill", "close"}
          \subseteq Step \ {"mirror", "announce"}
    BY <1>0 DEF RequestSteps, AwaitingTmux
  <2>3. UNCHANGED stopped
    BY <1>6 DEF Serve, Probe, Create, Launch, Teardown, Undo, Greet, Again, Exists, Kill, bus
  <2>. QED  BY <1>0, <1>c, <1>d, <2>1, <2>2, <2>3
<1>7. ASSUME NEW p \in Proc, Mirror(p) PROVE NobodyNew /\ UNCHANGED stopped
  <2>1. pc[p] = "mirror" /\ UNCHANGED job  BY <1>7 DEF Mirror, At
  <2>2. \A q \in Proc : q # p => pc'[q] = pc[q]  BY <1>0, <1>7 DEF Mirror, Go, ProcOK
  <2>3. \A s \in SessionId : Closing(p, s)' => Closing(p, s)  BY <2>1 DEF Closing
  <2>4. \A q \in Proc, s \in SessionId : q # p => (Closing(q, s)' => Closing(q, s))
    BY <2>1, <2>2 DEF Closing
  <2>. QED  BY <1>7, <2>3, <2>4 DEF Mirror, bus, NobodyNew
<1>8. ASSUME List \/ Rows \/ Reconciled \/ Scan \/ Reap PROVE NobodyNew /\ UNCHANGED stopped
  <2>1. {"list", "rows", "match", "scan", "next", "close"} \subseteq Step \ {"mirror", "announce"}
    BY <1>0 DEF PollerSteps
  <2>. QED  BY <1>0, <1>c, <1>8, <2>1 DEF List, Rows, Reconciled, Scan, Reap, bus
<1>9. ASSUME Match \/ PickNext \/ Screen \/ PaneState \/ Tell \/ Alert \/ Report PROVE NobodyNew /\ UNCHANGED stopped
  <2>1. {"list", "close", "pane", "next", "apply", "reap", "screen", "alert"} \subseteq Step \ {"mirror", "announce"}
    BY <1>0 DEF PollerSteps
  <2>2. UNCHANGED stopped  BY <1>9 DEF Match, PickNext, Screen, PaneState, Tell, Alert, Report, bus
  <2>3. \/ UNCHANGED <<pc, job>>
        \/ \E step \in {"list", "close", "pane", "next", "apply", "reap", "screen", "alert"} :
             \/ Go(Poller, step) /\ UNCHANGED job
             \/ \E j : GoWith(Poller, step, j)
    BY <1>9 DEF Match, PickNext, Screen, PaneState, Tell, Alert, Report
  <2>. QED  BY <1>0, <1>a, <1>b, <1>c, <2>1, <2>2, <2>3
<1>10. ASSUME Apply PROVE NobodyNew /\ UNCHANGED stopped
  <2>1. job[Poller].why \notin StopReasons
    BY <1>0, <1>10 DEF Apply, At, ProcOK, JobOK, JobFits, ReadSteps, StopReasons
  <2>. QED  BY <1>0, <1>10, <1>e, <2>1 DEF Apply, bus
<1>11. ASSUME World PROVE NobodyNew /\ UNCHANGED stopped
  <2>1. CASE Crash  BY <2>1 DEF Crash, NobodyNew, Closing, bus
  <2>2. CASE Boot
    <3>1. "list" \in Step \ {"mirror", "announce"}  BY <1>0 DEF PollerSteps
    <3>. QED  BY <1>0, <1>c, <2>2, <3>1 DEF Boot, bus
  <2>. QED  BY <1>a, <1>11, <2>1, <2>2 DEF World, AgentExits, KilledByHand, bus
<1>. QED  BY <1>1, <1>2, <1>3, <1>4, <1>5, <1>6, <1>7, <1>8, <1>9, <1>10, <1>11 DEF Next, Finalise, Watch

(* Every step keeps closing exclusive: who wins the row announces it, and  *)
(* nobody else does.                                                       *)
LEMMA ClosingStep == Shape /\ ClosingOK /\ [Next]_vars => ClosingOK'
<1>. SUFFICES ASSUME Shape, ClosingOK, [Next]_vars PROVE ClosingOK'  OBVIOUS
<1>0. /\ ProcOK /\ rows \in [SessionId -> Row] /\ stopped \in [SessionId -> Nat]
      /\ lastId \in 0 .. MaxSessions /\ MaxSessions \in Nat
      /\ \A s \in SessionId : rows[s].state = "ended" => rows'[s].state = "ended"
  BY EndedStays, SessionsAssumption DEF Shape, StoreOK, WorldOK
<1>1. ASSUME NobodyNew, UNCHANGED stopped PROVE ClosingOK'
  <2>. SUFFICES ASSUME NEW s \in SessionId
                PROVE /\ stopped'[s] <= 1
                      /\ stopped'[s] = 1 => rows'[s].state = "ended"
                      /\ \A p \in Proc : Closing(p, s)' => rows'[s].state = "ended" /\ stopped'[s] = 0
                      /\ \A p, q \in Proc : Closing(p, s)' /\ Closing(q, s)' => p = q
    BY DEF ClosingOK
  <2>1. /\ stopped[s] <= 1
        /\ stopped[s] = 1 => rows[s].state = "ended"
        /\ \A p \in Proc : Closing(p, s) => rows[s].state = "ended" /\ stopped[s] = 0
        /\ \A p, q \in Proc : Closing(p, s) /\ Closing(q, s) => p = q
    BY DEF ClosingOK
  <2>2. \A p \in Proc : Closing(p, s)' => Closing(p, s)  BY <1>1 DEF NobodyNew
  <2>. QED  BY <1>0, <1>1, <2>1, <2>2
<1>2. ASSUME NEW p \in Proc, Close(p) PROVE ClosingOK'
  <2>. DEFINE id == job[p].id
  <2>1. pc[p] = "close" /\ id \in SessionId /\ job[p].why \in StopReasons /\ UNCHANGED stopped
    <3>1. pc[p] = "close" /\ UNCHANGED stopped  BY <1>2 DEF Close, At, bus
    <3>2. id \in 1 .. lastId /\ job[p].why \in StopReasons
      BY <1>0, <3>1 DEF ProcOK, JobOK, JobFits, SessionSteps, StopSteps
    <3>. QED  BY <1>0, <3>1, <3>2 DEF SessionId
  <2>2. CASE ~Live(id)
    <3>1. AfterClose(p)  BY <1>2, <2>2 DEF Close
    <3>. QED  BY <1>0, <1>1, <2>1, <3>1, AfterCloseMovesOn DEF NobodyNew
  <2>3. CASE Live(id)
    <3>1. Go(p, "mirror") /\ UNCHANGED job /\ EndRow(id, job[p].status)  BY <1>2, <2>3 DEF Close
    <3>2. rows'[id].state = "ended"  BY <1>0, <2>1, <2>3, <3>1 DEF EndRow, Row
    <3>3. \A q \in Proc, s \in SessionId : Closing(q, s)' => Closing(q, s) \/ (q = p /\ s = id)
      <4>1. pc' = [pc EXCEPT ![p] = "mirror"] /\ job' = job /\ pc \in [Proc -> Step]
        BY <1>0, <3>1 DEF Go, ProcOK
      <4>. QED  BY <4>1 DEF Closing
    <3>4. rows[id].state # "ended" /\ stopped[id] = 0 /\ \A q \in Proc : ~Closing(q, id)
      <4>1. rows[id].state # "ended"  BY <2>3 DEF Live
      <4>2. stopped[id] <= 1 /\ stopped[id] \in Nat  BY <1>0, <2>1 DEF ClosingOK
      <4>. QED  BY <2>1, <4>1, <4>2 DEF ClosingOK
    <3>. SUFFICES ASSUME NEW s \in SessionId
                  PROVE /\ stopped'[s] <= 1
                        /\ stopped'[s] = 1 => rows'[s].state = "ended"
                        /\ \A q \in Proc : Closing(q, s)' => rows'[s].state = "ended" /\ stopped'[s] = 0
                        /\ \A q, o \in Proc : Closing(q, s)' /\ Closing(o, s)' => q = o
      BY DEF ClosingOK
    <3>5. /\ stopped[s] <= 1
          /\ stopped[s] = 1 => rows[s].state = "ended"
          /\ \A q \in Proc : Closing(q, s) => rows[s].state = "ended" /\ stopped[s] = 0
          /\ \A q, o \in Proc : Closing(q, s) /\ Closing(o, s) => q = o
      BY DEF ClosingOK
    <3>6. UNCHANGED stopped  BY <2>1
    <3>. HIDE DEF id
    <3>. QED  BY <1>0, <3>2, <3>3, <3>4, <3>5, <3>6
  <2>. QED  BY <2>2, <2>3
<1>3. ASSUME NEW p \in Proc, Announce(p) PROVE ClosingOK'
  <2>. DEFINE id == job[p].id
  <2>1. pc[p] = "announce" /\ id \in SessionId /\ Closing(p, id) /\ AfterClose(p)
        /\ stopped' = [stopped EXCEPT ![id] = @ + 1]
    <3>1. pc[p] = "announce" /\ AfterClose(p) /\ stopped' = [stopped EXCEPT ![id] = @ + 1]
      BY <1>3 DEF Announce, At
    <3>2. id \in 1 .. lastId /\ job[p].why \in StopReasons
      BY <1>0, <3>1 DEF ProcOK, JobOK, JobFits, SessionSteps, StopSteps
    <3>. QED  BY <1>0, <3>1, <3>2 DEF SessionId, Closing
  <2>2. \A q \in Proc, s \in SessionId : Closing(q, s)' => Closing(q, s) /\ q # p
    BY <1>0, <2>1, AfterCloseMovesOn
  <2>3. stopped[id] = 0 /\ rows[id].state = "ended" /\ \A q \in Proc : Closing(q, id) => q = p
    BY <2>1 DEF ClosingOK
  <2>. HIDE DEF id
  <2>4. stopped'[id] = 1 /\ \A s \in SessionId : s # id => stopped'[s] = stopped[s]
    BY <1>0, <2>1, <2>3
  <2>. SUFFICES ASSUME NEW s \in SessionId
                PROVE /\ stopped'[s] <= 1
                      /\ stopped'[s] = 1 => rows'[s].state = "ended"
                      /\ \A q \in Proc : Closing(q, s)' => rows'[s].state = "ended" /\ stopped'[s] = 0
                      /\ \A q, o \in Proc : Closing(q, s)' /\ Closing(o, s)' => q = o
    BY DEF ClosingOK
  <2>5. /\ stopped[s] <= 1
        /\ stopped[s] = 1 => rows[s].state = "ended"
        /\ \A q \in Proc : Closing(q, s) => rows[s].state = "ended" /\ stopped[s] = 0
        /\ \A q, o \in Proc : Closing(q, s) /\ Closing(o, s) => q = o
    BY DEF ClosingOK
  <2>. QED  BY <1>0, <2>2, <2>3, <2>4, <2>5
<1>4. CASE UNCHANGED vars
  <2>1. NobodyNew /\ UNCHANGED stopped  BY <1>4 DEF vars, bus, NobodyNew, Closing
  <2>. QED  BY <1>1, <2>1
<1>. QED  BY <1>1, <1>2, <1>3, <1>4, OnlyCloseCloses

(* However many processes decide that a session is over - stop requests,   *)
(* restarts, the poller - its SessionStopped is published at most once,    *)
(* and after its row has been closed.                                      *)
THEOREM EndingsAnnouncedOnce == Spec => []AnnouncedOnce
<1>1. Init => ClosingOK
  BY DEF Init, ClosingOK, Closing, NoJob
<1>2. ClosingOK => AnnouncedOnce  BY DEF ClosingOK, AnnouncedOnce
<1>. QED  BY <1>1, <1>2, ClosingStep, Shaped, PTL DEF Spec

-----------------------------------------------------------------------------
(* No ending goes unannounced                                              *)

(* Nobody takes up a session that is being started, or drops one that is   *)
(* being closed.                                                           *)
Undisturbed == \A q \in Proc, s \in SessionId :
  (Starting(q, s)' => Starting(q, s)) /\ (Closing(q, s) => Closing(q, s)')

(* A process that is not closing a session disturbs nobody, unless it goes *)
(* on to start one it was not starting before.                             *)
LEMMA GoesOn ==
  ASSUME ProcOK, NEW p \in Proc, NEW step \in Step, NEW j, GoWith(p, step, j),
         pc[p] \notin {"mirror", "announce"} \/ job[p].why \notin StopReasons,
         \/ step \notin SessionSteps \/ j.why # "start"
         \/ j.id = job[p].id /\ job[p].why = "start" /\ pc[p] \in SessionSteps
  PROVE  Undisturbed
<1>. SUFFICES ASSUME NEW q \in Proc, NEW s \in SessionId
              PROVE (Starting(q, s)' => Starting(q, s)) /\ (Closing(q, s) => Closing(q, s)')
  BY DEF Undisturbed
<1>1. /\ q = p => pc'[q] = step /\ job'[q] = j
      /\ q # p => pc'[q] = pc[q] /\ job'[q] = job[q]
  BY DEF GoWith, Go, ProcOK
<1>2. CASE q # p  BY <1>1, <1>2 DEF Starting, Closing
<1>3. CASE q = p  BY <1>1, <1>3 DEF Starting, Closing
<1>. QED  BY <1>2, <1>3

(* Once its session is over, a process starts nothing yet.                 *)
LEMMA AfterCloseGoesOn ==
  ASSUME ProcOK, NEW p \in Proc, AfterClose(p) \/ AfterStop(p) \/ Finish(p)
  PROVE  \A q \in Proc, s \in SessionId :
           /\ Starting(q, s)' => Starting(q, s) /\ q # p
           /\ Closing(q, s) /\ q # p => Closing(q, s)'
<1>. SUFFICES ASSUME NEW q \in Proc, NEW s \in SessionId
              PROVE /\ Starting(q, s)' => Starting(q, s) /\ q # p
                    /\ Closing(q, s) /\ q # p => Closing(q, s)'
  OBVIOUS
<1>1. PICK step, j : /\ GoWith(p, step, j)
                     /\ step \in {"idle", "probe", "match"} \/ (step = "report" /\ j.why = "exited")
  <2>1. job = [job EXCEPT ![p] = job[p]]  BY DEF ProcOK
  <2>. QED  BY <2>1 DEF AfterClose, AfterStop, Finish, GoWith
<1>2. /\ q = p => pc'[q] = step /\ job'[q] = j
      /\ q # p => pc'[q] = pc[q] /\ job'[q] = job[q]
  BY <1>1 DEF GoWith, Go, ProcOK
<1>3. CASE q # p  BY <1>2, <1>3 DEF Starting, Closing
<1>4. CASE q = p  BY <1>1, <1>2, <1>4 DEF Starting, Closing, SessionSteps, ReadSteps
<1>. QED  BY <1>3, <1>4

(* A daemon that is down runs no process.                                  *)
DownOK == daemon = "down" => \A p \in Proc : pc[p] = "idle"

(* What such a step leaves alone.                                          *)
Quiet == /\ Undisturbed /\ UNCHANGED <<lastId, started, crashes>>
         /\ \A s \in SessionId : rows'[s].state = "ended" => rows[s].state = "ended"

(* A step that neither inserts nor ends a row, publishes nothing and is no *)
(* crash disturbs nobody.                                                  *)
LEMMA QuietSteps ==
  ASSUME Shape, DownOK, Next, \A p \in Proc : ~Close(p) /\ ~Announce(p), ~Crash,
         \A r \in Request : ~Insert(r) /\ ~Undo(r) /\ ~Greet(r)
  PROVE  Quiet
<1>0. /\ ProcOK /\ DownOK /\ Poller \in Proc /\ \A r \in Request : r \in Proc
      /\ AwaitingTmux \cup RequestSteps \cup PollerSteps \subseteq Step
      /\ rows \in [SessionId -> Row]
  BY DEF Shape, Proc, Step, RequestSteps, StoreOK
<1>a. ASSUME UNCHANGED <<pc, job>> PROVE Undisturbed
  BY <1>a DEF Undisturbed, Starting, Closing
<1>b. ASSUME NEW p \in Proc, pc[p] \notin {"mirror", "announce"},
             NEW step \in Step \ SessionSteps, NEW j, GoWith(p, step, j)
      PROVE Undisturbed
  BY <1>0, <1>b, GoesOn
<1>c. ASSUME NEW p \in Proc, pc[p] \notin {"mirror", "announce"}, NEW step \in Step,
             Go(p, step), UNCHANGED job,
             pc[p] \in SessionSteps \/ step \notin SessionSteps \/ job[p].why # "start"
      PROVE Undisturbed
  <2>1. job' = [job EXCEPT ![p] = job[p]]  BY <1>0 , <1>c DEF ProcOK
  <2>2. GoWith(p, step, job[p])  BY <1>c, <2>1 DEF GoWith
  <2>. QED  BY <1>0, <1>c, <2>2, GoesOn
<1>d. ASSUME NEW p \in Proc, pc[p] \notin {"mirror", "announce"}, AfterStop(p) \/ Finish(p)
      PROVE Undisturbed
  <2>1. \A s \in SessionId : ~Closing(p, s)  BY <1>d DEF Closing
  <2>. QED  BY <1>0, <1>d, <2>1, AfterCloseGoesOn DEF Undisturbed
<1>e. ASSUME NEW p \in Proc, pc[p] \notin {"mirror", "announce"}, NEW step \in Step, NEW j,
             GoWith(p, step, j), j.why # "start"
      PROVE Undisturbed
  BY <1>0, <1>e, GoesOn
<1>f. ASSUME UNCHANGED <<store, started, crashes>>, Undisturbed PROVE Quiet
  BY <1>f DEF Quiet, store
<1>1. ASSUME NEW r \in Request, \E t \in Task, kind \in {"start", "stop", "restart"} : Begin(r, t, kind)
      PROVE Quiet
  <2>1. PICK kind, j :
          GoWith(r, CASE kind = "start" -> "probe" [] kind = "stop" -> "find" [] OTHER -> "again", j)
    BY <1>1 DEF Begin
  <2>2. \E step \in {"probe", "find", "again"} : GoWith(r, step, j)  BY <2>1
  <2>3. {"probe", "find", "again"} \subseteq Step \ SessionSteps
    BY <1>0 DEF RequestSteps, AwaitingTmux, SessionSteps, ReadSteps
  <2>4. pc[r] = "idle" /\ UNCHANGED <<store, started, crashes>>  BY <1>1 DEF Begin, bus, KeepDaemon
  <2>. QED  BY <1>0, <1>b, <1>f, <2>2, <2>3, <2>4
<1>2. ASSUME NEW r \in Request, Abandon(r) PROVE Quiet
  <2>1. pc[r] \notin {"mirror", "announce"} /\ Finish(r) /\ UNCHANGED <<store, started, crashes>>
    BY <1>2 DEF Abandon, AwaitingTmux, bus, KeepDaemon
  <2>. QED  BY <1>0, <1>d, <1>f, <2>1
<1>3. ASSUME NEW r \in Request, Probe(r) \/ Again(r) PROVE Quiet
  <2>1. /\ pc[r] \notin {"mirror", "announce"} /\ UNCHANGED <<store, started, crashes>>
        /\ \/ AfterStop(r) \/ Finish(r)
           \/ UNCHANGED job /\ \E step \in {"insert", "find"} : Go(r, step)
    BY <1>3 DEF Probe, Again, At, bus, KeepDaemon
  <2>2. {"insert", "find"} \subseteq Step \ SessionSteps
    BY <1>0 DEF RequestSteps, AwaitingTmux, SessionSteps, ReadSteps
  <2>. QED  BY <1>0, <1>c, <1>d, <1>f, <2>1, <2>2
<1>4. ASSUME NEW r \in Request, Find(r) PROVE Quiet
  <2>1. pc[r] = "find" /\ UNCHANGED <<store, started, crashes>>
    BY <1>4 DEF Find, At, bus, KeepDaemon
  <2>2. job[r] \in Job /\ job[r].why # "start"
    BY <1>0, <2>1 DEF ProcOK, JobOK, JobFits, StopSteps, StopReasons
  <2>3. CASE Finish(r)  BY <1>0, <1>d, <1>f, <2>1, <2>3
  <2>4. ASSUME NEW s \in SessionId, GoWith(r, "exists", [job[r] EXCEPT !.id = s, !.status = "stopped"])
        PROVE Quiet
    <3>. DEFINE j == [job[r] EXCEPT !.id = s, !.status = "stopped"]
    <3>1. GoWith(r, "exists", j) /\ j.why # "start"  BY <2>2, <2>4 DEF Job
    <3>2. "exists" \in Step  BY <1>0 DEF RequestSteps, AwaitingTmux
    <3>. HIDE DEF j
    <3>. QED  BY <1>0, <1>e, <1>f, <2>1, <3>1, <3>2
  <2>. QED  BY <1>4, <2>3, <2>4 DEF Find, LiveRowsOf
<1>5. ASSUME NEW r \in Request, Create(r) \/ Launch(r) \/ Teardown(r) \/ Record(r) \/ Exists(r) \/ Kill(r)
      PROVE Quiet
  <2>1. /\ pc[r] \in SessionSteps \ {"mirror", "announce"} /\ UNCHANGED <<store, started, crashes>>
        /\ \/ Finish(r)
           \/ /\ UNCHANGED job
              /\ \E step \in {"launch", "undo", "record", "teardown", "mirror", "kill", "close"} : Go(r, step)
    BY <1>5 DEF Create, Launch, Teardown, Record, Exists, Kill, At, bus, KeepDaemon, SessionSteps
  <2>2. {"launch", "undo", "record", "teardown", "mirror", "kill", "close"} \subseteq Step
    BY <1>0 DEF RequestSteps, AwaitingTmux
  <2>. QED  BY <1>0, <1>c, <1>d, <1>f, <2>1, <2>2
<1>6. ASSUME NEW p \in Proc, Mirror(p) PROVE Quiet
  <2>1. /\ pc[p] = "mirror" /\ UNCHANGED <<job, rows, lastId, started, crashes>>
        /\ pc' = [pc EXCEPT ![p] = CASE job[p].why = "start"   -> "greet"
                                     [] job[p].why = "reading" -> "tell"
                                     [] OTHER                  -> "announce"]
    BY <1>6 DEF Mirror, At, Go, bus, KeepDaemon
  <2>2. \A q \in Proc : q # p => pc'[q] = pc[q]  BY <1>0, <2>1 DEF ProcOK
  <2>3. job[p].why \in StopReasons => pc'[p] = "announce"
    BY <1>0, <2>1 DEF ProcOK, StopReasons
  <2>4. "mirror" \in SessionSteps  BY DEF SessionSteps
  <2>5. Undisturbed
    <3>. SUFFICES ASSUME NEW q \in Proc, NEW s \in SessionId
                  PROVE (Starting(q, s)' => Starting(q, s)) /\ (Closing(q, s) => Closing(q, s)')
      BY DEF Undisturbed
    <3>1. CASE q # p  BY <2>1, <2>2, <3>1 DEF Starting, Closing
    <3>2. CASE q = p  BY <2>1, <2>3, <2>4, <3>2 DEF Starting, Closing
    <3>. QED  BY <3>1, <3>2
  <2>. QED  BY <2>1, <2>5 DEF Quiet
<1>7. ASSUME List \/ Rows \/ Reconciled \/ Scan \/ Reap \/ Boot PROVE Quiet
  <2>1. /\ UNCHANGED <<store, started, crashes, job>> /\ pc[Poller] \notin {"mirror", "announce"}
        /\ \E step \in {"list", "rows", "match", "scan", "next", "close"} :
             Go(Poller, step) /\ (pc[Poller] = "reap" \/ step # "close")
    BY <1>0, <1>7 DEF List, Rows, Reconciled, Scan, Reap, Boot, At, bus, KeepDaemon, DownOK
  <2>2. /\ {"list", "rows", "match", "scan", "next", "close"} \subseteq Step
        /\ "reap" \in SessionSteps /\ {"list", "rows", "match", "scan", "next"} \cap SessionSteps = {}
    BY <1>0 DEF PollerSteps, SessionSteps, ReadSteps
  <2>. QED  BY <1>0, <1>c, <1>f, <2>1, <2>2
<1>8. ASSUME Match \/ PickNext PROVE Quiet
  <2>1. pc[Poller] \in {"match", "next"} /\ UNCHANGED <<store, started, crashes>>
    BY <1>8 DEF Match, PickNext, At, bus, KeepDaemon
  <2>2. {"list", "close", "pane"} \subseteq Step /\ "list" \notin SessionSteps
    BY <1>0 DEF PollerSteps, SessionSteps, ReadSteps
  <2>3. CASE UNCHANGED <<pc, job>>  BY <1>a, <1>f, <2>1, <2>3
  <2>4. CASE Go(Poller, "list") /\ UNCHANGED job  BY <1>0, <1>c, <1>f, <2>1, <2>2, <2>4
  <2>5. ASSUME NEW step \in {"close", "pane"}, NEW j, GoWith(Poller, step, j), j.why # "start"
        PROVE Quiet
    BY <1>0, <1>e, <1>f, <2>1, <2>2, <2>5
  <2>6. CASE Match
    <3>1. PICK e \in todo : \/ UNCHANGED <<pc, job>>
                            \/ GoWith(Poller, "close", [NoJob EXCEPT
                                 !.task = rows[e.id].task, !.id = e.id, !.why = "vanished"])
      BY <2>6 DEF Match
    <3>2. [NoJob EXCEPT !.task = rows[e.id].task, !.id = e.id, !.why = "vanished"].why # "start"
      BY DEF NoJob
    <3>. QED  BY <2>3, <2>5, <3>1, <3>2
  <2>7. CASE PickNext
    <3>1. \/ Go(Poller, "list") /\ UNCHANGED job
          \/ \E e \in todo : GoWith(Poller, "pane",
               [NoJob EXCEPT !.task = rows[e.id].task, !.id = e.id, !.status = e.status, !.why = "reading"])
      BY <2>7 DEF PickNext
    <3>2. ASSUME NEW e \in todo, GoWith(Poller, "pane",
               [NoJob EXCEPT !.task = rows[e.id].task, !.id = e.id, !.status = e.status, !.why = "reading"])
          PROVE Quiet
      <4>1. [NoJob EXCEPT !.task = rows[e.id].task, !.id = e.id, !.status = e.status,
                          !.why = "reading"].why # "start"
        BY DEF NoJob
      <4>. QED  BY <2>5, <3>2, <4>1
    <3>. QED  BY <2>4, <3>1, <3>2
  <2>. QED  BY <1>8, <2>6, <2>7
<1>9. ASSUME PaneState \/ Screen \/ Tell \/ Alert \/ Report PROVE Quiet
  <2>0. /\ pc[Poller] \in {"pane", "screen", "tell", "alert", "report"}
        /\ UNCHANGED <<store, started, crashes>>
    BY <1>9 DEF PaneState, Screen, Tell, Alert, Report, At, bus, KeepDaemon
  <2>1. job[Poller] \in Job /\ job[Poller].why # "start" /\ NoJob.why # "start"
    BY <1>0 DEF ProcOK, JobOK, JobFits, NoJob
  <2>2. {"screen", "alert", "next", "reap", "apply"} \subseteq Step  BY <1>0 DEF PollerSteps
  <2>3. ASSUME UNCHANGED job, NEW step \in {"screen", "alert"}, Go(Poller, step) PROVE Quiet
    BY <1>0, <1>c, <1>f, <2>0, <2>1, <2>2, <2>3
  <2>4. ASSUME NEW step \in {"next", "reap", "apply"}, NEW j, GoWith(Poller, step, j), j.why # "start"
        PROVE Quiet
    BY <1>0, <1>e, <1>f, <2>0, <2>2, <2>4
  <2>5. CASE PaneState
    <3>1. PICK a : \/ GoWith(Poller, "next", NoJob)
                   \/ GoWith(Poller, "reap", [job[Poller] EXCEPT !.why = "exited", !.status = a])
                   \/ Go(Poller, "screen") /\ UNCHANGED job
      BY <2>5 DEF PaneState
    <3>2. [job[Poller] EXCEPT !.why = "exited", !.status = a].why # "start"  BY <2>1 DEF Job
    <3>. QED  BY <2>1, <2>3, <2>4, <3>1, <3>2
  <2>6. CASE Screen
    <3>1. PICK a : \/ GoWith(Poller, "next", NoJob)
                   \/ GoWith(Poller, "apply", [job[Poller] EXCEPT !.status = a])
      BY <2>6 DEF Screen
    <3>2. [job[Poller] EXCEPT !.status = a].why # "start"  BY <2>1 DEF Job
    <3>. QED  BY <2>1, <2>4, <3>1, <3>2
  <2>. QED  BY <1>9, <2>1, <2>3, <2>4, <2>5, <2>6 DEF Tell, Alert, Report
<1>10. ASSUME Apply PROVE Quiet
  <2>1. /\ pc[Poller] = "apply" /\ UNCHANGED <<lastId, started, crashes, job>> /\ Go(Poller, "mirror")
        /\ rows' = [rows EXCEPT ![job[Poller].id].status = IF Live(job[Poller].id) THEN job[Poller].status ELSE @]
    BY <1>10 DEF Apply, At, bus, KeepDaemon
  <2>2. job[Poller].why # "start" /\ "mirror" \in Step
    BY <1>0 DEF ProcOK, JobOK, JobFits, PollerSteps
  <2>3. Undisturbed  BY <1>0, <1>c, <2>1, <2>2
  <2>4. \A s \in SessionId : rows'[s].state = rows[s].state  BY <1>0, <2>1 DEF Row
  <2>. QED  BY <2>1, <2>3, <2>4 DEF Quiet
<1>11. ASSUME NEW t \in Task, AgentExits(t) \/ KilledByHand(t) PROVE Quiet
  BY <1>a, <1>f, <1>11 DEF AgentExits, KilledByHand, bus, KeepDaemon
<1>. QED  BY <1>0, <1>1, <1>2, <1>3, <1>4, <1>5, <1>6, <1>7, <1>8, <1>9, <1>10, <1>11
  DEF Next, Serve, Finalise, Watch, World

(* While the daemon is down no process is at work.                         *)
LEMMA DownStep == Shape /\ DownOK /\ [Next]_vars => DownOK'
<1>. SUFFICES ASSUME Shape, DownOK, [Next]_vars, daemon' = "down"
              PROVE \A p \in Proc : pc'[p] = "idle"
  BY DEF DownOK
<1>0. ASSUME daemon # "down", UNCHANGED daemon PROVE FALSE  BY <1>0
<1>1. ASSUME NEW r \in Request, Serve(r) PROVE FALSE
  <2>1. daemon # "down" /\ UNCHANGED daemon
    <3>1. CASE Probe(r) \/ Insert(r) \/ Create(r) \/ Launch(r)
      BY <3>1 DEF Probe, Insert, Create, Launch, At, KeepDaemon
    <3>2. CASE Teardown(r) \/ Undo(r) \/ Record(r) \/ Greet(r)
      BY <3>2 DEF Teardown, Undo, Record, Greet, At, KeepDaemon
    <3>3. CASE Again(r) \/ Find(r) \/ Exists(r) \/ Kill(r)
      BY <3>3 DEF Again, Find, Exists, Kill, At, KeepDaemon
    <3>. QED  BY <1>1, <3>1, <3>2, <3>3 DEF Serve
  <2>. QED  BY <1>0, <2>1
<1>6. ASSUME NEW r \in Request,
             \/ Abandon(r)
             \/ \E t \in Task, kind \in {"start", "stop", "restart"} : Begin(r, t, kind)
      PROVE FALSE
  BY <1>0, <1>6 DEF Abandon, Begin, KeepDaemon
<1>2. ASSUME NEW p \in Proc, Finalise(p) PROVE FALSE
  BY <1>0, <1>2 DEF Finalise, Close, Mirror, Announce, At, KeepDaemon
<1>3. ASSUME Watch PROVE FALSE
  <2>1. CASE List \/ Reconciled  BY <2>1, <1>0 DEF List, Reconciled, At
  <2>2. CASE Rows \/ Match \/ Scan \/ PickNext
    BY <2>2, <1>0 DEF Rows, Match, Scan, PickNext, At, KeepDaemon
  <2>3. CASE PaneState \/ Screen \/ Apply \/ Tell
    BY <2>3, <1>0 DEF PaneState, Screen, Apply, Tell, At, KeepDaemon
  <2>4. CASE Alert \/ Reap \/ Report  BY <2>4, <1>0 DEF Alert, Reap, Report, At, KeepDaemon
  <2>. QED  BY <1>3, <2>1, <2>2, <2>3, <2>4 DEF Watch
<1>4. CASE World
  BY <1>4 DEF World, Crash, Boot, AgentExits, KilledByHand, KeepDaemon, DownOK
<1>5. CASE UNCHANGED vars  BY <1>5 DEF vars, DownOK
<1>. QED  BY <1>1, <1>2, <1>3, <1>4, <1>5, <1>6 DEF Next

(* A session that is started belongs to the request that inserted its row, *)
(* and has been announced by nobody yet.                                   *)
LEMMA StartingStep == Shape /\ DownOK /\ StartingOK /\ [Next]_vars => StartingOK'
<1>. SUFFICES ASSUME Shape, DownOK, StartingOK, [Next]_vars PROVE StartingOK'  OBVIOUS
<1>0. /\ ProcOK /\ lastId \in 0 .. MaxSessions /\ MaxSessions \in Nat
      /\ started \in [SessionId -> Nat] /\ \A r \in Request : r \in Proc
      /\ \A p \in Proc, s \in SessionId : Starting(p, s) => s <= lastId
  <2>1. ASSUME NEW p \in Proc, NEW s \in SessionId, Starting(p, s) PROVE s <= lastId
    BY <2>1 DEF Shape, ProcOK, JobOK, JobFits, Starting
  <2>. QED  BY <2>1, SessionsAssumption DEF Shape, StoreOK, WorldOK, Proc
<1>i. \A s \in SessionId :
        /\ s > lastId => started[s] = 0
        /\ \A p \in Proc : Starting(p, s) => started[s] = 0
        /\ \A p, q \in Proc : Starting(p, s) /\ Starting(q, s) => p = q
  BY DEF StartingOK
<1>1. ASSUME UNCHANGED <<lastId, started>>,
             \A q \in Proc, s \in SessionId : Starting(q, s)' => Starting(q, s)
      PROVE StartingOK'
  BY <1>i, <1>1 DEF StartingOK
<1>2. ASSUME Next, \A p \in Proc : ~Close(p) /\ ~Announce(p), ~Crash,
             \A r \in Request : ~Insert(r) /\ ~Undo(r) /\ ~Greet(r)
      PROVE StartingOK'
  BY <1>1, <1>2, QuietSteps DEF Quiet, Undisturbed
<1>3. ASSUME NEW p \in Proc, Close(p) PROVE StartingOK'
  <2>1. CASE AfterClose(p)
    BY <1>0, <1>1, <1>3, <2>1, AfterCloseGoesOn DEF Close, bus
  <2>2. CASE Go(p, "mirror") /\ UNCHANGED job
    <3>1. job[p].why # "start"
      BY <1>0, <1>3 DEF Close, At, ProcOK, JobOK, JobFits, StopSteps, StopReasons
    <3>2. \A q \in Proc, s \in SessionId : Starting(q, s)' => Starting(q, s)
      <4>1. \A q \in Proc : q # p => pc'[q] = pc[q]  BY <1>0, <2>2 DEF Go, ProcOK
      <4>. QED  BY <2>2, <3>1, <4>1 DEF Starting
    <3>. QED  BY <1>1, <1>3, <3>2 DEF Close, bus
  <2>. QED  BY <1>3, <2>1, <2>2 DEF Close
<1>4. ASSUME NEW p \in Proc, Announce(p) PROVE StartingOK'
  BY <1>0, <1>1, <1>4, AfterCloseGoesOn DEF Announce, store
<1>5. ASSUME NEW r \in Request, Undo(r) PROVE StartingOK'
  BY <1>0, <1>1, <1>5, AfterCloseGoesOn DEF Undo, bus
<1>6. ASSUME NEW r \in Request, Greet(r) PROVE StartingOK'
  <2>1. /\ Finish(r) /\ lastId' = lastId /\ pc[r] = "greet"
        /\ started' = [started EXCEPT ![job[r].id] = @ + 1]
    BY <1>6 DEF Greet, At, store
  <2>2. job[r].why = "start" /\ job[r].id \in 1 .. lastId
    BY <1>0, <2>1 DEF ProcOK, JobOK, JobFits, StartSteps, SessionSteps
  <2>3. Starting(r, job[r].id)  BY <2>1, <2>2 DEF Starting, SessionSteps
  <2>4. \A q \in Proc, s \in SessionId : Starting(q, s)' => Starting(q, s) /\ q # r
    BY <1>0, <2>1, AfterCloseGoesOn
  <2>5. job[r].id \in SessionId /\ job[r].id <= lastId  BY <1>0, <2>2 DEF SessionId
  <2>6. \A s \in SessionId : s # job[r].id => started'[s] = started[s]  BY <1>0, <2>1
  <2>. SUFFICES ASSUME NEW s \in SessionId
                PROVE /\ s > lastId' => started'[s] = 0
                      /\ \A p \in Proc : Starting(p, s)' => started'[s] = 0
                      /\ \A p, q \in Proc : Starting(p, s)' /\ Starting(q, s)' => p = q
    BY DEF StartingOK
  <2>7. s > lastId => s # job[r].id  BY <1>0, <2>5 DEF SessionId
  <2>8. ASSUME NEW p \in Proc, Starting(p, s)' PROVE s # job[r].id
    BY <1>0, <1>i, <2>3, <2>4, <2>8
  <2>. QED  BY <1>i, <2>1, <2>4, <2>6, <2>7, <2>8
<1>7. ASSUME NEW r \in Request, Insert(r) PROVE StartingOK'
  <2>1. CASE Finish(r) /\ UNCHANGED lastId
    BY <1>0, <1>1, <1>7, <2>1, AfterCloseGoesOn DEF Insert, bus
  <2>2. CASE /\ lastId # MaxSessions /\ lastId' = lastId + 1
             /\ GoWith(r, "create", [job[r] EXCEPT !.id = lastId + 1, !.status = "idle"])
    <3>1. /\ lastId + 1 \in SessionId /\ started' = started
          /\ \A s \in SessionId : s > lastId + 1 => s > lastId
      BY <1>0, <1>7, <2>2 DEF Insert, bus, SessionId
    <3>2. job'[r] = [job[r] EXCEPT !.id = lastId + 1, !.status = "idle"] /\ job[r] \in Job
          /\ \A q \in Proc : q # r => job'[q] = job[q] /\ pc'[q] = pc[q]
      BY <1>0, <2>2 DEF GoWith, Go, ProcOK
    <3>3. job'[r].id = lastId + 1  BY <3>2 DEF Job
    <3>4. \A q \in Proc, s \in SessionId :
            Starting(q, s)' => (Starting(q, s) /\ q # r) \/ (q = r /\ s = lastId + 1)
      BY <3>2, <3>3 DEF Starting
    <3>5. \A q \in Proc : ~Starting(q, lastId + 1)  BY <1>0, <3>1
    <3>6. started[lastId + 1] = 0  BY <1>0, <1>i, <3>1
    <3>. QED  BY <1>i, <2>2, <3>1, <3>4, <3>5, <3>6 DEF StartingOK
  <2>. QED  BY <1>7, <2>1, <2>2 DEF Insert
<1>8. CASE Crash
  <2>1. \A q \in Proc : pc'[q] = "idle"  BY <1>8 DEF Crash
  <2>2. UNCHANGED <<lastId, started>>  BY <1>8 DEF Crash, store, bus
  <2>. QED  BY <1>1, <2>1, <2>2 DEF Starting, SessionSteps, ReadSteps
<1>9. CASE UNCHANGED vars  BY <1>1, <1>9 DEF vars, store, bus, Starting
<1>. QED  BY <1>2, <1>3, <1>4, <1>5, <1>6, <1>7, <1>8, <1>9

(* A row that ends is about to be announced, or its session never started: *)
(* the only step that ends a row quietly is its own request's.             *)
LEMMA EndingStep == Shape /\ DownOK /\ ClosingOK /\ StartingOK /\ EndingOK /\ [Next]_vars => EndingOK'
<1>. DEFINE Ended(s) == \/ stopped[s] = 1
                        \/ \E p \in Proc : Closing(p, s)
                        \/ started[s] = 0 /\ \A p \in Proc : ~Starting(p, s)
<1>. SUFFICES ASSUME Shape, DownOK, ClosingOK, StartingOK, EndingOK, [Next]_vars, crashes' = 0,
                     NEW s \in SessionId, rows'[s].state = "ended"
              PROVE Ended(s)'
  BY DEF EndingOK
<1>0. /\ ProcOK /\ rows \in [SessionId -> Row] /\ crashes \in Nat /\ lastId \in 0 .. MaxSessions
      /\ MaxSessions \in Nat /\ started \in [SessionId -> Nat] /\ stopped \in [SessionId -> Nat]
      /\ \A r \in Request : r \in Proc
  BY SessionsAssumption DEF Shape, StoreOK, WorldOK, Proc
<1>i. crashes = 0 /\ rows[s].state = "ended" => Ended(s)  BY DEF EndingOK
<1>1. ASSUME Ended(s), UNCHANGED <<started, stopped>>, Undisturbed PROVE Ended(s)'
  BY <1>1 DEF Undisturbed
<1>2. ASSUME Next, \A p \in Proc : ~Close(p) /\ ~Announce(p), ~Crash,
             \A r \in Request : ~Insert(r) /\ ~Undo(r) /\ ~Greet(r)
      PROVE Ended(s)'
  <2>1. UNCHANGED stopped  BY <1>2, OnlyCloseCloses
  <2>2. Undisturbed /\ UNCHANGED <<started, crashes>> /\ rows[s].state = "ended"
    BY <1>2, QuietSteps DEF Quiet
  <2>. HIDE DEF Ended
  <2>. QED  BY <1>i, <1>1, <2>1, <2>2
<1>3. ASSUME NEW p \in Proc, Close(p) PROVE Ended(s)'
  <2>1. /\ pc[p] = "close" /\ UNCHANGED <<started, stopped, crashes>> /\ EndRow(job[p].id, job[p].status)
    BY <1>3 DEF Close, At, bus, KeepDaemon
  <2>2. job[p].why \in StopReasons /\ job[p].id \in 1 .. lastId
    BY <1>0, <2>1 DEF ProcOK, JobOK, JobFits, StopSteps, SessionSteps
  <2>3. CASE ~Live(job[p].id)
    <3>1. rows[s].state = "ended"  BY <1>0, <2>1, <2>3 DEF EndRow
    <3>2. AfterClose(p)  BY <1>3, <2>3 DEF Close
    <3>3. Undisturbed  BY <1>0, <2>1, <3>2, AfterCloseGoesOn DEF Undisturbed, Closing
    <3>. HIDE DEF Ended
    <3>. QED  BY <1>i, <1>1, <2>1, <3>1, <3>3
  <2>4. CASE Live(job[p].id)
    <3>1. pc' = [pc EXCEPT ![p] = "mirror"] /\ job' = job /\ pc \in [Proc -> Step]
      BY <1>0, <1>3, <2>4 DEF Close, Go, ProcOK
    <3>2. CASE s = job[p].id  BY <2>2, <3>1, <3>2 DEF Closing
    <3>3. CASE s # job[p].id
      <4>1. rows[s].state = "ended"  BY <1>0, <2>1, <3>3 DEF EndRow
      <4>2. Undisturbed
        <5>1. job = [job EXCEPT ![p] = job[p]] /\ "mirror" \in Step
          BY <1>0 DEF ProcOK, Step, RequestSteps
        <5>2. GoWith(p, "mirror", job[p])  BY <3>1, <5>1 DEF GoWith, Go
        <5>. QED  BY <1>0, <2>1, <2>2, <5>1, <5>2, GoesOn DEF StopReasons
      <4>. HIDE DEF Ended
      <4>. QED  BY <1>i, <1>1, <2>1, <4>1, <4>2
    <3>. QED  BY <3>2, <3>3
  <2>. QED  BY <2>3, <2>4
<1>4. ASSUME NEW p \in Proc, Announce(p) PROVE Ended(s)'
  <2>1. /\ pc[p] = "announce" /\ AfterClose(p) /\ UNCHANGED <<rows, started, crashes>>
        /\ stopped' = [stopped EXCEPT ![job[p].id] = @ + 1]
    BY <1>4 DEF Announce, At, store, KeepDaemon
  <2>2. job[p].why \in StopReasons /\ job[p].id \in 1 .. lastId
    BY <1>0, <2>1 DEF ProcOK, JobOK, JobFits, StopSteps, SessionSteps
  <2>3. CASE s = job[p].id
    <3>1. Closing(p, s)  BY <2>1, <2>2, <2>3 DEF Closing
    <3>2. stopped[s] = 0  BY <3>1 DEF ClosingOK
    <3>. QED  BY <1>0, <2>1, <2>3, <3>2
  <2>4. CASE s # job[p].id
    <3>1. stopped'[s] = stopped[s] /\ rows[s].state = "ended" /\ ~Closing(p, s)
      BY <1>0, <2>1, <2>4 DEF Closing
    <3>2. \A q \in Proc : (Starting(q, s)' => Starting(q, s)) /\ (Closing(q, s) => Closing(q, s)')
      BY <1>0, <2>1, <3>1, AfterCloseGoesOn
    <3>. QED  BY <1>i, <2>1, <3>1, <3>2
  <2>. QED  BY <2>3, <2>4
<1>5. ASSUME NEW r \in Request, Undo(r) PROVE Ended(s)'
  <2>1. /\ pc[r] = "undo" /\ Finish(r) /\ UNCHANGED <<started, stopped, crashes>>
        /\ EndRow(job[r].id, "error")
    BY <1>5 DEF Undo, At, bus, KeepDaemon
  <2>2. job[r].why = "start" /\ job[r].id \in 1 .. lastId
    BY <1>0, <2>1 DEF ProcOK, JobOK, JobFits, StartSteps, SessionSteps
  <2>3. \A q \in Proc : /\ Starting(q, s)' => Starting(q, s) /\ q # r
                        /\ Closing(q, s) => Closing(q, s)'
    BY <1>0, <2>1, AfterCloseGoesOn DEF Closing
  <2>4. CASE s = job[r].id
    <3>1. Starting(r, s)  BY <2>1, <2>2, <2>4 DEF Starting, SessionSteps
    <3>2. started[s] = 0 /\ \A q \in Proc : Starting(q, s) => q = r  BY <1>0, <3>1 DEF StartingOK
    <3>. QED  BY <2>1, <2>3, <3>2
  <2>5. CASE s # job[r].id
    <3>1. rows[s].state = "ended"  BY <1>0, <2>1, <2>5 DEF EndRow
    <3>. QED  BY <1>i, <2>1, <2>3, <3>1
  <2>. QED  BY <2>4, <2>5
<1>6. ASSUME NEW r \in Request, Greet(r) PROVE Ended(s)'
  <2>1. /\ pc[r] = "greet" /\ Finish(r) /\ UNCHANGED <<rows, stopped, crashes>>
        /\ started' = [started EXCEPT ![job[r].id] = @ + 1]
    BY <1>6 DEF Greet, At, store, KeepDaemon
  <2>2. job[r].why = "start"  BY <1>0, <2>1 DEF ProcOK, JobOK, JobFits, StartSteps
  <2>3. \A q \in Proc : /\ Starting(q, s)' => Starting(q, s)
                        /\ Closing(q, s) => Closing(q, s)'
    BY <1>0, <2>1, AfterCloseGoesOn DEF Closing
  <2>4. s = job[r].id => Starting(r, s)  BY <2>1, <2>2 DEF Starting, SessionSteps
  <2>5. s # job[r].id => started'[s] = started[s]  BY <1>0, <2>1
  <2>. QED  BY <1>0, <1>i, <2>1, <2>3, <2>4, <2>5
<1>7. ASSUME NEW r \in Request, Insert(r) PROVE Ended(s)'
  <2>0. pc[r] = "insert" /\ UNCHANGED <<started, stopped, crashes>>
    BY <1>7 DEF Insert, At, bus, KeepDaemon
  <2>1. CASE Finish(r) /\ UNCHANGED rows
    <3>1. Undisturbed  BY <1>0, <2>0, <2>1, AfterCloseGoesOn DEF Undisturbed, Closing
    <3>. HIDE DEF Ended
    <3>. QED  BY <1>i, <1>1, <2>0, <2>1, <3>1
  <2>2. CASE /\ rows' = [rows EXCEPT ![lastId + 1] =
                            [task |-> job[r].task, state |-> "live", status |-> "idle"]]
             /\ GoWith(r, "create", [job[r] EXCEPT !.id = lastId + 1, !.status = "idle"])
    <3>1. s # lastId + 1 /\ rows[s].state = "ended"  BY <1>0, <2>2
    <3>2. job'[r] = [job[r] EXCEPT !.id = lastId + 1, !.status = "idle"] /\ job[r] \in Job
          /\ \A q \in Proc : q # r => job'[q] = job[q] /\ pc'[q] = pc[q]
      BY <1>0, <2>2 DEF GoWith, Go, ProcOK
    <3>3. job'[r].id = lastId + 1  BY <3>2 DEF Job
    <3>4. \A q \in Proc : /\ Starting(q, s)' => Starting(q, s)
                          /\ Closing(q, s) => Closing(q, s)'
      BY <2>0, <3>1, <3>2, <3>3 DEF Starting, Closing
    <3>. QED  BY <1>i, <2>0, <3>1, <3>4
  <2>. QED  BY <1>7, <2>1, <2>2 DEF Insert
<1>8. CASE Crash  BY <1>0, <1>8 DEF Crash
<1>9. CASE UNCHANGED vars
  <2>1. Undisturbed /\ UNCHANGED <<started, stopped, crashes, rows>>
    BY <1>9 DEF vars, store, bus, Undisturbed, Starting, Closing
  <2>. HIDE DEF Ended
  <2>. QED  BY <1>i, <1>1, <2>1
<1>. QED  BY <1>2, <1>3, <1>4, <1>5, <1>6, <1>7, <1>8, <1>9

(* Until the daemon crashes, a session that was announced as started and   *)
(* has ended is announced as stopped, or a process that never awaits       *)
(* anything before it does so is about to.                                 *)
THEOREM EndingsAnnounced == Spec => []EndingIsAnnounced
<1>1. Init => DownOK /\ ClosingOK /\ StartingOK /\ EndingOK
  BY DEF Init, DownOK, ClosingOK, StartingOK, EndingOK, Starting, Closing, NoJob, FreeRow
<1>2. Shape /\ EndingOK => EndingIsAnnounced
  BY DEF EndingOK, EndingIsAnnounced, Closing, Shape, WorldOK
<1>. QED  BY <1>1, <1>2, DownStep, ClosingStep, StartingStep, EndingStep, Shaped, PTL DEF Spec

-----------------------------------------------------------------------------
(* What the poller believes is what the rows say                           *)

(* The snapshot of a pass has each session once, and its status for as     *)
(* long as the session lives: nobody but the poller writes it, to the one  *)
(* it has in hand.  What it has in hand it read from that snapshot, and    *)
(* what it is about to write it believes.                                  *)
BeliefOK ==
  /\ BeliefIsStored
  /\ \A s \in SessionId : s > lastId => trackers[s] = NoTracker
  /\ \A e, f \in todo : e.id = f.id => e = f
  /\ \A e \in todo : Live(e.id) => e.status = rows[e.id].status
  /\ pc[Poller] \in {"pane", "screen", "apply"} => \A e \in todo : e.id # job[Poller].id
  /\ pc[Poller] \in {"pane", "screen"} /\ Live(job[Poller].id)
       => job[Poller].status = rows[job[Poller].id].status
  /\ pc[Poller] = "apply" /\ Live(job[Poller].id)
       => trackers[job[Poller].id] \in {job[Poller].status, NoTracker}

(* A step that at most ends rows, forgets trackers and takes the poller    *)
(* away from a session it has nothing left to write to keeps all that.     *)
LEMMA BeliefKept ==
  ASSUME Shape, BeliefOK, lastId' = lastId,
         \A s \in SessionId : Live(s)' => Live(s) /\ rows'[s].status = rows[s].status,
         \A s \in SessionId : trackers'[s] \in {trackers[s], NoTracker},
         todo' \subseteq todo,
         \/ pc'[Poller] = pc[Poller] /\ job'[Poller] = job[Poller]
         \/ /\ pc'[Poller] \notin {"pane", "screen", "apply"}
            /\ \/ pc[Poller] \notin {"apply", "reap", "close"}
               \/ pc'[Poller] \in {"reap", "close"} /\ job'[Poller].id = job[Poller].id
               \/ rows'[job[Poller].id].state # "live"
  PROVE  BeliefOK'
<1>0. /\ Poller \in Proc /\ \A e \in todo : e.id \in SessionId
      /\ pc[Poller] \in {"pane", "screen", "apply"} => job[Poller].id \in SessionId
  BY SessionsAssumption DEF Shape, Proc, WorldOK, Snapshot, ProcOK, JobOK, JobFits, SessionSteps,
     ReadSteps, StoreOK, SessionId
<1>1. BeliefIsStored'
  <2>. SUFFICES ASSUME NEW s \in SessionId, Live(s)', trackers'[s] # NoTracker
                PROVE \/ trackers'[s] = rows'[s].status
                      \/ job'[Poller].id = s /\ pc'[Poller] \in {"apply", "reap", "close"}
    BY DEF BeliefIsStored
  <2>1. Live(s) /\ rows'[s].status = rows[s].status /\ trackers'[s] = trackers[s]  OBVIOUS
  <2>2. \/ trackers[s] = rows[s].status
        \/ job[Poller].id = s /\ pc[Poller] \in {"apply", "reap", "close"}
    BY <2>1 DEF BeliefOK, BeliefIsStored
  <2>. QED  BY <2>1, <2>2 DEF Live
<1>2. \A s \in SessionId : s > lastId' => trackers'[s] = NoTracker  BY DEF BeliefOK
<1>3. \A e, f \in todo' : e.id = f.id => e = f  BY DEF BeliefOK
<1>4. \A e \in todo' : Live(e.id)' => e.status = rows'[e.id].status  BY <1>0 DEF BeliefOK
<1>5. pc'[Poller] \in {"pane", "screen", "apply"} => \A e \in todo' : e.id # job'[Poller].id
  BY DEF BeliefOK
<1>6. pc'[Poller] \in {"pane", "screen"} /\ Live(job[Poller].id)'
       => job'[Poller].status = rows'[job'[Poller].id].status
  BY <1>0 DEF BeliefOK, Live
<1>7. pc'[Poller] = "apply" /\ Live(job[Poller].id)'
       => trackers'[job'[Poller].id] \in {job'[Poller].status, NoTracker}
  BY <1>0 DEF BeliefOK, Live
<1>. QED  BY <1>1, <1>2, <1>3, <1>4, <1>5, <1>6, <1>7 DEF BeliefOK

(* A step of a request that leaves the table and the trackers alone, or at *)
(* most ends a row and forgets a tracker.                                  *)
LEMMA RequestKeepsBelief ==
  ASSUME Shape, BeliefOK, NEW r \in Request,
         \/ Serve(r) \/ Abandon(r) \/ Finalise(r)
         \/ \E t \in Task, kind \in {"start", "stop", "restart"} : Begin(r, t, kind)
  PROVE  BeliefOK'
<1>0. /\ r \in Proc /\ Poller \in Proc /\ r # Poller /\ ProcOK
      /\ lastId \in 0 .. MaxSessions /\ MaxSessions \in Nat /\ rows \in [SessionId -> Row]
      /\ trackers \in [SessionId -> Status \cup {NoTracker}]
  BY SessionsAssumption DEF Proc, Shape, StoreOK, WorldOK
<1>a. ASSUME NEW step, NEW j, GoWith(r, step, j)
      PROVE pc'[Poller] = pc[Poller] /\ job'[Poller] = job[Poller]
  BY <1>0, <1>a DEF GoWith, Go, ProcOK
<1>b. ASSUME NEW step, Go(r, step), UNCHANGED job
      PROVE pc'[Poller] = pc[Poller] /\ job'[Poller] = job[Poller]
  BY <1>0, <1>b DEF Go, ProcOK
<1>c. ASSUME AfterClose(r) \/ AfterStop(r) \/ Finish(r)
      PROVE pc'[Poller] = pc[Poller] /\ job'[Poller] = job[Poller]
  BY <1>0, <1>a, <1>c DEF AfterClose, AfterStop, Finish
<1>d. ASSUME NEW s, NEW status, EndRow(s, status)
      PROVE \A x \in SessionId : Live(x)' => Live(x) /\ rows'[x].status = rows[x].status
  BY <1>0, <1>d DEF EndRow, Live, Row
<1>e. ASSUME UNCHANGED <<rows, lastId, trackers, todo>>,
             pc'[Poller] = pc[Poller] /\ job'[Poller] = job[Poller]
      PROVE BeliefOK'
  BY <1>0, <1>e, BeliefKept DEF Live
<1>1. ASSUME NEW t \in Task, NEW kind \in {"start", "stop", "restart"}, Begin(r, t, kind) PROVE BeliefOK'
  <2>1. UNCHANGED <<rows, lastId, trackers, todo>> /\ \E step, j : GoWith(r, step, j)
    BY <1>1 DEF Begin, store, KeepPoll
  <2>. QED  BY <1>a, <1>e, <2>1
<1>2. CASE Abandon(r)
  <2>1. UNCHANGED <<rows, lastId, trackers, todo>> /\ Finish(r)  BY <1>2 DEF Abandon, store, KeepPoll
  <2>. QED  BY <1>c, <1>e, <2>1
<1>3. CASE Probe(r) \/ Again(r) \/ Greet(r) \/ Kill(r)
  <2>1. /\ UNCHANGED <<rows, lastId, trackers, todo>>
        /\ AfterStop(r) \/ Finish(r) \/ (UNCHANGED job /\ \E step : Go(r, step))
    BY <1>3 DEF Probe, Again, Greet, Kill, store, KeepPoll
  <2>. QED  BY <1>b, <1>c, <1>e, <2>1
<1>4. CASE Create(r) \/ Launch(r) \/ Teardown(r) \/ Record(r) \/ Exists(r)
  <2>1. UNCHANGED <<rows, lastId, trackers, todo>> /\ UNCHANGED job /\ \E step : Go(r, step)
    BY <1>4 DEF Create, Launch, Teardown, Record, Exists, store, KeepPoll
  <2>. QED  BY <1>b, <1>e, <2>1
<1>5. CASE Find(r)
  <2>1. UNCHANGED <<rows, lastId, trackers, todo>>  BY <1>5 DEF Find, store, KeepPoll
  <2>2. CASE Finish(r)  BY <1>c, <1>e, <2>1, <2>2
  <2>3. ASSUME NEW s, GoWith(r, "exists", [job[r] EXCEPT !.id = s, !.status = "stopped"])
        PROVE BeliefOK'
    BY <1>a, <1>e, <2>1, <2>3
  <2>. QED  BY <1>5, <2>2, <2>3 DEF Find
<1>6. CASE Mirror(r)
  <2>1. UNCHANGED <<rows, lastId, trackers, todo>> /\ UNCHANGED job /\ \E step : Go(r, step)
    BY <1>6 DEF Mirror, KeepPoll
  <2>. QED  BY <1>b, <1>e, <2>1
<1>7. CASE Undo(r)
  <2>1. /\ UNCHANGED <<lastId, trackers, todo>> /\ Finish(r) /\ EndRow(job[r].id, "error")
    BY <1>7 DEF Undo, KeepPoll
  <2>. QED  BY <1>0, <1>c, <1>d, <2>1, BeliefKept
<1>8. CASE Close(r) \/ Announce(r)
  <2>1. UNCHANGED <<lastId, todo>>  BY <1>8 DEF Close, Announce, store, KeepPoll
  <2>2. \A s \in SessionId : Live(s)' => Live(s) /\ rows'[s].status = rows[s].status
    <3>1. CASE Close(r)  BY <1>d, <3>1 DEF Close
    <3>2. CASE Announce(r)  BY <3>2 DEF Announce, store, Live
    <3>. QED  BY <1>8, <3>1, <3>2
  <2>3. \A s \in SessionId : trackers'[s] \in {trackers[s], NoTracker}
    BY <1>0, <1>8 DEF Close, Announce
  <2>4. AfterClose(r) \/ (UNCHANGED job /\ Go(r, "mirror"))
    BY <1>8 DEF Close, Announce
  <2>. QED  BY <1>b, <1>c, <2>1, <2>2, <2>3, <2>4, BeliefKept
<1>9. CASE Insert(r)
  <2>1. UNCHANGED <<trackers, todo>>  BY <1>9 DEF Insert, KeepPoll
  <2>2. CASE Finish(r) /\ UNCHANGED <<rows, lastId>>  BY <1>c, <1>e, <2>1, <2>2
  <2>3. CASE /\ lastId # MaxSessions /\ lastId' = lastId + 1
             /\ rows' = [rows EXCEPT ![lastId + 1] =
                           [task |-> job[r].task, state |-> "live", status |-> "idle"]]
             /\ GoWith(r, "create", [job[r] EXCEPT !.id = lastId + 1, !.status = "idle"])
    <3>1. pc'[Poller] = pc[Poller] /\ job'[Poller] = job[Poller]  BY <1>a, <2>3
    <3>2. lastId + 1 \in SessionId /\ trackers[lastId + 1] = NoTracker
      BY <1>0, <2>3 DEF SessionId, BeliefOK
    <3>3. \A s \in SessionId : s # lastId + 1 => rows'[s] = rows[s]  BY <1>0, <2>3
    <3>4. \A e \in todo : e.id \in SessionId /\ e.id # lastId + 1
      BY <1>0 DEF Shape, WorldOK, Snapshot, StoreOK, RowsOK, SessionId
    <3>5. pc[Poller] \in {"pane", "screen", "apply"} =>
            job[Poller].id \in SessionId /\ job[Poller].id # lastId + 1
      BY <1>0 DEF ProcOK, JobOK, JobFits, SessionSteps, ReadSteps, SessionId
    <3>6. BeliefIsStored'
      BY <2>1, <3>1, <3>2, <3>3 DEF BeliefOK, BeliefIsStored, Live
    <3>7. \A s \in SessionId : s > lastId' => trackers'[s] = NoTracker
      BY <1>0, <2>1, <2>3 DEF BeliefOK, SessionId
    <3>. QED  BY <2>1, <3>1, <3>3, <3>4, <3>5, <3>6, <3>7 DEF BeliefOK, Live
  <2>. QED  BY <1>9, <2>2, <2>3 DEF Insert
<1>. QED  BY <1>1, <1>2, <1>3, <1>4, <1>5, <1>6, <1>7, <1>8, <1>9 DEF Serve, Finalise

(* A fresh snapshot has every live session once, with its status.          *)
LEMMA SnapshotBelief ==
  ASSUME Shape, BeliefOK, UNCHANGED <<rows, lastId, trackers>>, todo' = LiveSnapshot,
         pc'[Poller] \notin {"pane", "screen", "apply"},
         pc[Poller] \notin {"apply", "reap", "close"}
  PROVE  BeliefOK'
<1>1. \A e, f \in todo' : e.id = f.id => e = f  BY DEF LiveSnapshot
<1>2. \A e \in todo' : Live(e.id)' => e.status = rows'[e.id].status  BY DEF LiveSnapshot
<1>3. BeliefIsStored'  BY DEF BeliefOK, BeliefIsStored, Live
<1>. QED  BY <1>1, <1>2, <1>3 DEF BeliefOK

(* Closing, announcing and the steps of the poller that do not read keep   *)
(* it.                                                                     *)
LEMMA PollerKeepsBelief ==
  ASSUME Shape, BeliefOK,
         \/ Finalise(Poller) \/ List \/ Rows \/ Match \/ Reconciled \/ Scan \/ Tell \/ Alert
         \/ Reap \/ Report
  PROVE  BeliefOK'
<1>0. /\ Poller \in Proc /\ ProcOK /\ rows \in [SessionId -> Row]
      /\ trackers \in [SessionId -> Status \cup {NoTracker}]
      /\ lastId \in 0 .. MaxSessions /\ MaxSessions \in Nat
  BY SessionsAssumption DEF Proc, Shape, StoreOK, WorldOK
<1>a. ASSUME NEW step, Go(Poller, step) PROVE pc'[Poller] = step  BY <1>0, <1>a DEF Go, ProcOK
<1>b. ASSUME NEW step, NEW j, GoWith(Poller, step, j) PROVE pc'[Poller] = step
  BY <1>a, <1>b DEF GoWith
<1>c. ASSUME AfterClose(Poller) PROVE pc'[Poller] \in {"report", "match"}
  BY <1>a, <1>b, <1>c DEF AfterClose
<1>d. ASSUME NEW s, NEW status, EndRow(s, status)
      PROVE \A x \in SessionId : Live(x)' => Live(x) /\ rows'[x].status = rows[x].status
  BY <1>0, <1>d DEF EndRow, Live, Row
<1>1. CASE Close(Poller)
  <2>1. /\ pc[Poller] = "close" /\ UNCHANGED <<lastId, todo>>
        /\ EndRow(job[Poller].id, job[Poller].status)
        /\ AfterClose(Poller) \/ Go(Poller, "mirror")
    BY <1>1 DEF Close, At, KeepPoll
  <2>2. job[Poller].id \in 1 .. lastId
    BY <1>0, <2>1 DEF ProcOK, JobOK, JobFits, SessionSteps
  <2>3. job[Poller].id \in SessionId  BY <1>0, <2>2 DEF SessionId
  <2>4. rows'[job[Poller].id].state # "live"  BY <1>0, <2>1, <2>3 DEF EndRow, Live, Row
  <2>5. pc'[Poller] \notin {"pane", "screen", "apply"}  BY <1>a, <1>c, <2>1
  <2>6. \A s \in SessionId : trackers'[s] \in {trackers[s], NoTracker}
    BY <1>0, <1>1 DEF Close
  <2>. QED  BY <1>d, <2>1, <2>4, <2>5, <2>6, BeliefKept
<1>2. CASE Mirror(Poller)
  <2>1. /\ pc[Poller] = "mirror" /\ UNCHANGED <<rows, lastId, trackers, todo>>
        /\ \E step \in {"greet", "tell", "announce"} : Go(Poller, step)
    BY <1>2 DEF Mirror, At, KeepPoll
  <2>2. pc'[Poller] \notin {"pane", "screen", "apply"}  BY <1>a, <2>1
  <2>. QED  BY <2>1, <2>2, BeliefKept DEF Live
<1>3. CASE Announce(Poller)
  <2>1. pc[Poller] = "announce" /\ UNCHANGED <<rows, lastId, todo>> /\ AfterClose(Poller)
    BY <1>3 DEF Announce, At, KeepPoll, store
  <2>2. pc'[Poller] \notin {"pane", "screen", "apply"}  BY <1>c, <2>1
  <2>3. \A s \in SessionId : trackers'[s] \in {trackers[s], NoTracker}
    BY <1>0, <1>3 DEF Announce
  <2>. QED  BY <2>1, <2>2, <2>3, BeliefKept DEF Live
<1>4. CASE Rows \/ Scan
  <2>1. /\ UNCHANGED <<rows, lastId, trackers>> /\ todo' = LiveSnapshot
        /\ pc[Poller] \in {"rows", "scan"} /\ \E step \in {"match", "next"} : Go(Poller, step)
    BY <1>4 DEF Rows, Scan, At, store
  <2>2. pc'[Poller] \in {"match", "next"}  BY <1>a, <2>1
  <2>. QED  BY <2>1, <2>2, SnapshotBelief
<1>5. CASE List \/ Reconciled
  <2>1. /\ UNCHANGED <<rows, lastId, trackers, todo>> /\ pc[Poller] \in {"list", "match"}
        /\ \E step \in {"rows", "list", "scan"} : Go(Poller, step)
    BY <1>5 DEF List, Reconciled, At, store
  <2>2. pc'[Poller] \in {"rows", "list", "scan"}  BY <1>a, <2>1
  <2>. QED  BY <2>1, <2>2, BeliefKept DEF Live
<1>6. CASE Match
  <2>1. UNCHANGED <<rows, lastId, trackers>> /\ pc[Poller] = "match" /\ todo' \subseteq todo
    BY <1>6 DEF Match, At, store
  <2>2. PICK e \in todo : \/ UNCHANGED <<pc, job>>
                          \/ GoWith(Poller, "close", [NoJob EXCEPT
                               !.task = rows[e.id].task, !.id = e.id, !.why = "vanished"])
    BY <1>6 DEF Match
  <2>3. pc'[Poller] \in {"match", "close"}  BY <1>b, <2>1, <2>2
  <2>. QED  BY <2>1, <2>3, BeliefKept DEF Live
<1>7. CASE Tell \/ Alert \/ Report
  <2>1. /\ UNCHANGED <<rows, lastId, trackers, todo>> /\ pc[Poller] \in {"tell", "alert", "report"}
        /\ Go(Poller, "alert") \/ GoWith(Poller, "next", NoJob)
    BY <1>7 DEF Tell, Alert, Report, At, store, KeepPoll
  <2>2. pc'[Poller] \in {"alert", "next"}  BY <1>a, <1>b, <2>1
  <2>. QED  BY <2>1, <2>2, BeliefKept DEF Live
<1>8. CASE Reap
  <2>1. /\ UNCHANGED <<rows, lastId, trackers, todo, job>> /\ pc[Poller] = "reap"
        /\ Go(Poller, "close")
    BY <1>8 DEF Reap, At, store, KeepPoll
  <2>2. pc'[Poller] = "close"  BY <1>a, <2>1
  <2>. QED  BY <2>1, <2>2, BeliefKept DEF Live
<1>. QED  BY <1>1, <1>2, <1>3, <1>4, <1>5, <1>6, <1>7, <1>8 DEF Finalise

(* Reading a session does too: from the snapshot to the tracker, and from  *)
(* the tracker to the row.                                                 *)
LEMMA ReadingKeepsBelief ==
  ASSUME Shape, BeliefOK, PickNext \/ PaneState \/ Screen \/ Apply
  PROVE  BeliefOK'
<1>. DEFINE id == job[Poller].id
<1>0. /\ Poller \in Proc /\ ProcOK /\ rows \in [SessionId -> Row] /\ job[Poller] \in Job
      /\ trackers \in [SessionId -> Status \cup {NoTracker}]
      /\ lastId \in 0 .. MaxSessions /\ MaxSessions \in Nat
      /\ \A e \in todo : e \in Snapshot /\ e.id \in SessionId
  BY SessionsAssumption DEF Proc, Shape, ProcOK, StoreOK, WorldOK, Snapshot
<1>a. ASSUME NEW step, Go(Poller, step) PROVE pc'[Poller] = step  BY <1>0, <1>a DEF Go, ProcOK
<1>b. ASSUME NEW step, NEW j, GoWith(Poller, step, j) PROVE pc'[Poller] = step /\ job'[Poller] = j
  BY <1>0, <1>a, <1>b DEF GoWith, ProcOK
<1>c. pc[Poller] \in {"pane", "screen", "apply"} => id \in SessionId /\ id <= lastId
  BY <1>0 DEF ProcOK, JobOK, JobFits, SessionSteps, ReadSteps, SessionId
<1>d. /\ \A s \in SessionId : Live(s) /\ trackers[s] # NoTracker =>
           \/ trackers[s] = rows[s].status
           \/ id = s /\ pc[Poller] \in {"apply", "reap", "close"}
      /\ \A s \in SessionId : s > lastId => trackers[s] = NoTracker
      /\ \A e, f \in todo : e.id = f.id => e = f
      /\ \A e \in todo : Live(e.id) => e.status = rows[e.id].status
      /\ pc[Poller] \in {"pane", "screen", "apply"} => \A e \in todo : e.id # id
      /\ pc[Poller] \in {"pane", "screen"} /\ Live(id) => job[Poller].status = rows[id].status
      /\ pc[Poller] = "apply" /\ Live(id) => trackers[id] \in {job[Poller].status, NoTracker}
  BY DEF BeliefOK, BeliefIsStored
<1>. HIDE DEF id
<1>1. CASE PickNext
  <2>1. pc[Poller] = "next" /\ UNCHANGED <<rows, lastId, trackers>>
    BY <1>1 DEF PickNext, At, store
  <2>2. CASE Go(Poller, "list") /\ UNCHANGED todo
    <3>1. pc'[Poller] = "list"  BY <1>a, <2>2
    <3>. QED  BY <2>1, <2>2, <3>1, BeliefKept DEF Live
  <2>3. ASSUME NEW e \in todo, todo' = todo \ {e},
               GoWith(Poller, "pane", [NoJob EXCEPT !.task = rows[e.id].task, !.id = e.id,
                                                    !.status = e.status, !.why = "reading"])
        PROVE BeliefOK'
    <3>. DEFINE j == [NoJob EXCEPT !.task = rows[e.id].task, !.id = e.id,
                                   !.status = e.status, !.why = "reading"]
    <3>1. pc'[Poller] = "pane" /\ job'[Poller].id = e.id /\ job'[Poller].status = e.status
      <4>1. pc'[Poller] = "pane" /\ job'[Poller] = j  BY <1>b, <2>3
      <4>2. j.id = e.id /\ j.status = e.status  BY DEF NoJob
      <4>. QED  BY <4>1, <4>2
    <3>2. BeliefIsStored'  BY <1>d, <2>1 DEF BeliefIsStored, Live
    <3>3. \A f \in todo' : f.id # e.id  BY <1>d, <2>3
    <3>. QED  BY <1>d, <2>1, <2>3, <3>1, <3>2, <3>3 DEF BeliefOK, Live
  <2>. QED  BY <1>1, <2>2, <2>3 DEF PickNext
<1>2. CASE PaneState
  <2>1. pc[Poller] = "pane" /\ UNCHANGED <<rows, lastId, todo>>
    BY <1>2 DEF PaneState, At, store, KeepPoll
  <2>2. CASE GoWith(Poller, "next", NoJob) /\ UNCHANGED trackers
    <3>1. pc'[Poller] = "next"  BY <1>b, <2>2
    <3>. QED  BY <2>1, <2>2, <3>1, BeliefKept DEF Live
  <2>3. CASE Go(Poller, "screen") /\ UNCHANGED <<job, trackers>>
    <3>1. pc'[Poller] = "screen"  BY <1>a, <2>3
    <3>2. BeliefIsStored'  BY <1>d, <2>1, <2>3 DEF BeliefIsStored, Live
    <3>. QED  BY <1>d, <2>1, <2>3, <3>1, <3>2 DEF BeliefOK, Live, id
  <2>4. ASSUME NEW status, trackers' = [trackers EXCEPT ![id] = status],
               GoWith(Poller, "reap", [job[Poller] EXCEPT !.why = "exited", !.status = status])
        PROVE BeliefOK'
    <3>. DEFINE j == [job[Poller] EXCEPT !.why = "exited", !.status = status]
    <3>1. pc'[Poller] = "reap" /\ job'[Poller].id = id
      <4>1. pc'[Poller] = "reap" /\ job'[Poller] = j  BY <1>b, <2>4
      <4>2. j.id = id  BY <1>0 DEF Job, id
      <4>. QED  BY <4>1, <4>2
    <3>2. \A s \in SessionId : s # id => trackers'[s] = trackers[s]  BY <1>0, <2>4
    <3>3. BeliefIsStored'  BY <1>d, <2>1, <3>1, <3>2 DEF BeliefIsStored, Live
    <3>4. \A s \in SessionId : s > lastId' => trackers'[s] = NoTracker
      BY <1>0, <1>c, <1>d, <2>1, <3>2 DEF SessionId
    <3>. QED  BY <1>d, <2>1, <3>1, <3>3, <3>4 DEF BeliefOK, Live
  <2>5. CASE /\ Believe(EndedAs(tmux[Target(job[Poller].task)].pane))
             /\ GoWith(Poller, "reap", [job[Poller] EXCEPT
                  !.why = "exited", !.status = EndedAs(tmux[Target(job[Poller].task)].pane)])
    BY <2>4, <2>5 DEF Believe, id
  <2>. QED  BY <1>2, <2>2, <2>3, <2>5 DEF PaneState
<1>3. CASE Screen
  <2>1. pc[Poller] = "screen" /\ UNCHANGED <<rows, lastId, todo>>
    BY <1>3 DEF Screen, At, store, KeepPoll
  <2>2. PICK seen : /\ trackers' = [trackers EXCEPT ![id] = seen]
                    /\ IF seen = Belief THEN GoWith(Poller, "next", NoJob)
                       ELSE GoWith(Poller, "apply", [job[Poller] EXCEPT !.status = seen])
    BY <1>3 DEF Screen, Believe, id
  <2>3. /\ \A s \in SessionId : s # id => trackers'[s] = trackers[s]
        /\ trackers'[id] = seen
    BY <1>0, <1>c, <2>1, <2>2
  <2>4. \A s \in SessionId : s > lastId' => trackers'[s] = NoTracker
    BY <1>0, <1>c, <1>d, <2>1, <2>3 DEF SessionId
  <2>5. CASE seen = Belief
    <3>1. pc'[Poller] = "next"  BY <1>b, <2>2, <2>5
    <3>2. Live(id) => Belief = rows[id].status  BY <1>c, <1>d, <2>1 DEF Belief, id
    <3>3. BeliefIsStored'  BY <1>d, <2>1, <2>3, <2>5, <3>2 DEF BeliefIsStored, Live
    <3>. QED  BY <1>d, <2>1, <2>4, <3>1, <3>3 DEF BeliefOK, Live
  <2>6. CASE seen # Belief
    <3>. DEFINE j == [job[Poller] EXCEPT !.status = seen]
    <3>1. pc'[Poller] = "apply" /\ job'[Poller].id = id /\ job'[Poller].status = seen
      <4>1. pc'[Poller] = "apply" /\ job'[Poller] = j  BY <1>b, <2>2, <2>6
      <4>2. j.id = id /\ j.status = seen  BY <1>0 DEF Job, id
      <4>. QED  BY <4>1, <4>2
    <3>2. BeliefIsStored'  BY <1>d, <2>1, <2>3, <3>1 DEF BeliefIsStored, Live
    <3>. QED  BY <1>d, <2>1, <2>3, <2>4, <3>1, <3>2 DEF BeliefOK, Live
  <2>. QED  BY <2>5, <2>6
<1>4. CASE Apply
  <2>1. /\ pc[Poller] = "apply" /\ UNCHANGED <<lastId, todo, trackers>> /\ Go(Poller, "mirror")
        /\ rows' = [rows EXCEPT ![id].status = IF Live(id) THEN job[Poller].status ELSE @]
    BY <1>4 DEF Apply, At, KeepPoll, id
  <2>2. /\ \A s \in SessionId : s # id => rows'[s] = rows[s]
        /\ \A s \in SessionId : rows'[s].state = rows[s].state
        /\ Live(id) => rows'[id].status = job[Poller].status
    BY <1>0, <1>c, <2>1 DEF Row
  <2>3. pc'[Poller] = "mirror"  BY <1>a, <2>1
  <2>4. BeliefIsStored'  BY <1>d, <2>1, <2>2 DEF BeliefIsStored, Live
  <2>5. \A e \in todo' : Live(e.id)' => e.status = rows'[e.id].status
    BY <1>0, <1>d, <2>1, <2>2 DEF Live
  <2>. QED  BY <1>d, <2>1, <2>3, <2>4, <2>5 DEF BeliefOK
<1>. QED  BY <1>1, <1>2, <1>3, <1>4

(* And so does the world: a crash forgets every tracker, and a boot finds  *)
(* the poller at rest.                                                     *)
LEMMA BeliefStep == Shape /\ DownOK /\ BeliefOK /\ [Next]_vars => BeliefOK'
<1>. SUFFICES ASSUME Shape, DownOK, BeliefOK, [Next]_vars PROVE BeliefOK'  OBVIOUS
<1>0. Poller \in Proc /\ ProcOK /\ Proc = Request \cup {Poller}  BY DEF Proc, Shape
<1>1. CASE Crash
  <2>1. /\ UNCHANGED <<rows, lastId>> /\ todo' = {} /\ pc'[Poller] = "idle"
        /\ \A s \in SessionId : trackers'[s] = NoTracker
    BY <1>0, <1>1 DEF Crash, store
  <2>2. BeliefIsStored'  BY <2>1 DEF BeliefIsStored
  <2>. QED  BY <2>1, <2>2 DEF BeliefOK
<1>2. CASE Boot
  <2>1. /\ UNCHANGED <<rows, lastId, trackers, todo>> /\ pc[Poller] = "idle"
        /\ Go(Poller, "list")
    BY <1>0, <1>2 DEF Boot, store, DownOK
  <2>2. pc'[Poller] = "list"  BY <1>0, <2>1 DEF Go, ProcOK
  <2>. QED  BY <2>1, <2>2, BeliefKept DEF Live
<1>3. CASE \E t \in Task : AgentExits(t) \/ KilledByHand(t)
  BY <1>3, BeliefKept DEF AgentExits, KilledByHand, store, KeepPoll, Live
<1>4. CASE UNCHANGED vars  BY <1>4, BeliefKept DEF vars, store, Live
<1>. QED  BY <1>0, <1>1, <1>2, <1>3, <1>4, RequestKeepsBelief, PollerKeepsBelief, ReadingKeepsBelief
  DEF Next, Watch, World

(* Between two readings the tracker of a live session believes exactly     *)
(* what its row says, also when a restart rebuilt it from that row, and    *)
(* whichever requests end and begin sessions meanwhile.                    *)
THEOREM BeliefStaysStored == Spec => []BeliefIsStored
<1>1. Init => DownOK /\ BeliefOK
  BY SessionsAssumption DEF Init, DownOK, BeliefOK, BeliefIsStored, Proc, Live, FreeRow
<1>2. BeliefOK => BeliefIsStored  BY DEF BeliefOK
<1>. QED  BY <1>1, <1>2, DownStep, BeliefStep, Shaped, PTL DEF Spec

-----------------------------------------------------------------------------
(* A restart adopts what survived it                                       *)

(* Until the daemon serves only the poller is at work, and what it listed  *)
(* holds every tmux session there is: nothing makes one before then.       *)
BootOK == daemon = "booting" =>
  /\ \A r \in Request : pc[r] = "idle"
  /\ pc[Poller] \in {"list", "rows", "match", "close", "mirror", "announce"}
  /\ pc[Poller] \in {"close", "mirror", "announce"} => job[Poller].why = "vanished"
  /\ pc[Poller] # "list" => \A t \in Task : tmux[t] # NoSession => t \in listed
  /\ pc[Poller] = "close" => rows[job[Poller].id].task \notin listed

(* At boot no request takes a step, and the poller only reconciles.        *)
LEMMA BootSteps ==
  ASSUME Shape, BootOK, daemon = "booting", Next
  PROVE  List \/ Rows \/ Match \/ Reconciled \/ Finalise(Poller) \/ World
<1>0. /\ \A r \in Request : pc[r] = "idle" /\ r # Poller
      /\ pc[Poller] \in {"list", "rows", "match", "close", "mirror", "announce"}
  BY SessionsAssumption DEF BootOK
<1>1. ASSUME NEW r \in Request,
             \E t \in Task, kind \in {"start", "stop", "restart"} : Begin(r, t, kind)
      PROVE FALSE
  BY <1>1 DEF Begin
<1>2. ASSUME NEW r \in Request, Abandon(r) PROVE FALSE
  BY <1>0, <1>2 DEF Abandon, AwaitingTmux
<1>3. ASSUME NEW r \in Request, Serve(r) PROVE FALSE
  <2>1. CASE Probe(r) \/ Insert(r) \/ Create(r) \/ Launch(r)
    BY <1>0, <2>1 DEF Probe, Insert, Create, Launch, At
  <2>2. CASE Teardown(r) \/ Undo(r) \/ Record(r) \/ Greet(r)
    BY <1>0, <2>2 DEF Teardown, Undo, Record, Greet, At
  <2>3. CASE Again(r) \/ Find(r) \/ Exists(r) \/ Kill(r)
    BY <1>0, <2>3 DEF Again, Find, Exists, Kill, At
  <2>. QED  BY <1>3, <2>1, <2>2, <2>3 DEF Serve
<1>4. ASSUME NEW r \in Request, Finalise(r) PROVE FALSE
  BY <1>0, <1>4 DEF Finalise, Close, Mirror, Announce, At
<1>5. ASSUME Scan \/ PickNext \/ PaneState \/ Screen \/ Apply \/ Tell \/ Alert \/ Reap \/ Report
      PROVE FALSE
  <2>1. CASE Scan \/ PickNext \/ PaneState \/ Screen
    BY <1>0, <2>1 DEF Scan, PickNext, PaneState, Screen, At
  <2>2. CASE Apply \/ Tell \/ Alert \/ Reap \/ Report
    BY <1>0, <2>2 DEF Apply, Tell, Alert, Reap, Report, At
  <2>. QED  BY <1>5, <2>1, <2>2
<1>. QED  BY <1>1, <1>2, <1>3, <1>4, <1>5 DEF Next, Proc, Watch

(* While tmux answers, reconciling keeps the list complete.                *)
LEMMA BootStep == ~TmuxFails /\ Shape /\ DownOK /\ BootOK /\ [Next]_vars => BootOK'
<1>. SUFFICES ASSUME ~TmuxFails, Shape, DownOK, BootOK, [Next]_vars, daemon' = "booting"
              PROVE BootOK'
  BY DEF BootOK
<1>0. /\ Poller \in Proc /\ ProcOK /\ rows \in [SessionId -> Row]
      /\ tmux \in [Task -> Pane \cup {NoSession}] /\ \A r \in Request : r \in Proc /\ r # Poller
  BY SessionsAssumption DEF Proc, Shape, StoreOK, WorldOK
<1>a. ASSUME NEW step, Go(Poller, step)
      PROVE pc'[Poller] = step /\ \A r \in Request : pc'[r] = pc[r]
  BY <1>0, <1>a DEF Go, ProcOK
<1>b. ASSUME NEW step, NEW j, GoWith(Poller, step, j)
      PROVE /\ pc'[Poller] = step /\ job'[Poller] = j /\ \A r \in Request : pc'[r] = pc[r]
  BY <1>0, <1>a, <1>b DEF GoWith, ProcOK
<1>1. CASE Boot
  <2>1. \A p \in Proc : pc[p] = "idle"  BY <1>1 DEF Boot, DownOK
  <2>2. pc'[Poller] = "list" /\ \A r \in Request : pc'[r] = pc[r]  BY <1>a, <1>1 DEF Boot
  <2>. QED  BY <1>0, <2>1, <2>2 DEF BootOK
<1>2. CASE daemon = "booting" /\ Next /\ ~Boot
  <2>0. /\ \A r \in Request : pc[r] = "idle"
        /\ pc[Poller] \in {"close", "mirror", "announce"} => job[Poller].why = "vanished"
        /\ pc[Poller] # "list" => \A t \in Task : tmux[t] # NoSession => t \in listed
        /\ pc[Poller] = "close" => rows[job[Poller].id].task \notin listed
        /\ pc[Poller] \in {"list", "rows", "match", "close", "mirror", "announce"}
    BY <1>2 DEF BootOK
  <2>1. CASE List
    <3>1. /\ listed' = {t \in Task : tmux[t] # NoSession} /\ tmux' = tmux
          /\ Go(Poller, "rows")
      BY <2>1 DEF List
    <3>2. pc'[Poller] = "rows" /\ \A r \in Request : pc'[r] = pc[r]  BY <1>a, <3>1
    <3>. QED  BY <2>0, <3>1, <3>2 DEF BootOK
  <2>2. CASE Rows
    <3>1. UNCHANGED <<listed, tmux>> /\ pc[Poller] = "rows" /\ Go(Poller, "match")
      BY <2>2 DEF Rows, At
    <3>2. pc'[Poller] = "match" /\ \A r \in Request : pc'[r] = pc[r]  BY <1>a, <3>1
    <3>. QED  BY <2>0, <3>1, <3>2 DEF BootOK
  <2>3. CASE Match
    <3>1. UNCHANGED <<listed, tmux, rows>> /\ pc[Poller] = "match"  BY <2>3 DEF Match, At, store
    <3>2. PICK e \in todo : IF rows[e.id].task \in listed THEN UNCHANGED <<pc, job>>
                            ELSE GoWith(Poller, "close", [NoJob EXCEPT
                                   !.task = rows[e.id].task, !.id = e.id, !.why = "vanished"])
      BY <2>3 DEF Match
    <3>3. CASE UNCHANGED <<pc, job>>  BY <2>0, <3>1, <3>3 DEF BootOK
    <3>4. CASE rows[e.id].task \notin listed /\
               GoWith(Poller, "close", [NoJob EXCEPT
                 !.task = rows[e.id].task, !.id = e.id, !.why = "vanished"])
      <4>1. LET j == [NoJob EXCEPT !.task = rows[e.id].task, !.id = e.id, !.why = "vanished"]
            IN j.id = e.id /\ j.why = "vanished"
        BY DEF NoJob
      <4>2. /\ pc'[Poller] = "close" /\ job'[Poller].id = e.id /\ job'[Poller].why = "vanished"
            /\ \A r \in Request : pc'[r] = pc[r]
        BY <1>b, <3>4, <4>1
      <4>. QED  BY <2>0, <3>1, <3>4, <4>2 DEF BootOK
    <3>. QED  BY <3>2, <3>3, <3>4
  <2>4. CASE Finalise(Poller)
    <3>0. job[Poller].why = "vanished" /\ pc[Poller] # "list" /\ UNCHANGED <<listed, tmux>>
      BY <2>0, <2>4 DEF Finalise, Close, Mirror, Announce, At, KeepPoll
    <3>1. \/ GoWith(Poller, "match", NoJob)
          \/ UNCHANGED job /\ \E step \in {"mirror", "announce"} : Go(Poller, step)
      BY <2>4, <3>0 DEF Finalise, Close, Mirror, Announce, AfterClose
    <3>2. /\ pc'[Poller] \in {"match", "mirror", "announce"} /\ \A r \in Request : pc'[r] = pc[r]
          /\ pc'[Poller] = "match" \/ UNCHANGED job
      BY <1>a, <1>b, <3>1
    <3>. QED  BY <2>0, <3>0, <3>2 DEF BootOK
  <2>5. CASE Reconciled  BY <2>5 DEF Reconciled
  <2>6. CASE World
    <3>1. ~Crash  BY DEF Crash
    <3>2. /\ UNCHANGED <<rows, pc, job, listed>>
          /\ \A t \in Task : tmux'[t] # NoSession => tmux[t] # NoSession
      BY <1>0, <1>2, <2>6, <3>1 DEF World, AgentExits, KilledByHand, store, KeepPoll
    <3>. QED  BY <2>0, <3>2 DEF BootOK
  <2>. QED  BY <1>2, <2>1, <2>2, <2>3, <2>4, <2>5, <2>6, BootSteps
<1>3. CASE UNCHANGED vars  BY <1>3 DEF vars, store, BootOK
<1>4. CASE Next /\ daemon # "booting" /\ ~Boot
  <2>1. CASE World
    BY <1>4, <2>1 DEF World, Crash, AgentExits, KilledByHand, KeepDaemon
  <2>2. CASE Watch
    BY <1>4, <2>2 DEF Watch, List, Rows, Match, Reconciled, Scan, PickNext, PaneState, Screen, Apply,
       Tell, Alert, Reap, Report, KeepDaemon
  <2>3. ASSUME NEW r \in Request, Serve(r) PROVE FALSE
    BY <1>4, <2>3 DEF Serve, Probe, Insert, Create, Launch, Teardown, Undo, Record, Greet, Again, Find,
       Exists, Kill, KeepDaemon
  <2>4. ASSUME NEW r \in Request,
               \/ Abandon(r)
               \/ \E t \in Task, kind \in {"start", "stop", "restart"} : Begin(r, t, kind)
        PROVE FALSE
    BY <1>4, <2>4 DEF Abandon, Begin, KeepDaemon
  <2>5. ASSUME NEW p \in Proc, Finalise(p) PROVE FALSE
    BY <1>4, <2>5 DEF Finalise, Close, Mirror, Announce, KeepDaemon
  <2>. QED  BY <1>4, <2>1, <2>2, <2>3, <2>4, <2>5 DEF Next
<1>. QED  BY <1>1, <1>2, <1>3, <1>4

(* Reconciling at boot closes a row only when tmux holds no session of its *)
(* task's name: listing tmux before reading the rows is safe there.  That  *)
(* tmux answers is needed, since `list` takes a refusal for "none".        *)
THEOREM BootAdoptsAgents == ASSUME ~TmuxFails PROVE Spec => BootAdopts
<1>1. Init => BootOK  BY DEF Init, BootOK
<1>2. Init => DownOK  BY DEF Init, DownOK
<1>3. Shape /\ BootOK /\ [Next]_vars =>
        [\A s \in SessionId : daemon = "booting" /\ Live(s) /\ rows'[s].state = "ended"
           => tmux[rows[s].task] = NoSession]_vars
  <2>. SUFFICES ASSUME Shape, BootOK, Next, NEW s \in SessionId, daemon = "booting", Live(s),
                       rows'[s].state = "ended"
                PROVE tmux[rows[s].task] = NoSession
    OBVIOUS
  <2>1. ~UNCHANGED rows  BY DEF Live
  <2>2. Close(Poller)
    BY <2>1, BootSteps DEF List, Rows, Match, Reconciled, Finalise, Mirror, Announce, World, Crash,
       Boot, AgentExits, KilledByHand, store
  <2>3. /\ pc[Poller] = "close" /\ EndRow(job[Poller].id, job[Poller].status)
        /\ rows \in [SessionId -> Row] /\ lastId \in 0 .. MaxSessions
        /\ \A x \in SessionId : x <= lastId => rows[x].task \in Task
        /\ \A x \in SessionId : ~(x <= lastId) => rows[x].state = "free"
    BY <2>2 DEF Close, At, Shape, StoreOK, RowsOK
  <2>4. s = job[Poller].id  BY <2>3 DEF EndRow, Live
  <2>5. rows[s].task \notin listed /\ \A t \in Task : tmux[t] # NoSession => t \in listed
    BY <2>3, <2>4 DEF BootOK
  <2>6. rows[s].task \in Task  BY <2>3 DEF Live
  <2>. QED  BY <2>5, <2>6
<1>4. Shape /\ DownOK /\ BootOK /\ [Next]_vars => BootOK'  BY BootStep
<1>. QED  BY <1>1, <1>2, <1>3, <1>4, DownStep, Shaped, PTL DEF Spec, BootAdopts
=============================================================================
