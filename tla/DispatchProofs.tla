--------------------------- MODULE DispatchProofs ---------------------------
(* What TLAPS proves of Dispatch, for every queue, every fleet, every      *)
(* number of requests in flight and every bound on what may fail: that a   *)
(* machine makes one task of a row, that a row which names its machine     *)
(* leaves nothing elsewhere, that what is recorded as dispatched was       *)
(* started, and that what was placed stays placed.                         *)
EXTENDS Dispatch, FiniteSetTheorems, TLAPS

Idle == {"asleep", "ask", "place"}

(* The hub is the first machine of every fleet.                            *)
LEMMA HubIsMachine == Hub \in Machine /\ Machine \subseteq Nat
BY DispatchAssumption DEF Hub, Machine

-----------------------------------------------------------------------------
(* What moves of the hub leave of its state                                *)

(* The loop at rest.                                                       *)
LEMMA AsleepIs ==
  /\ Asleep \in HubState /\ Asleep.step = "asleep" /\ Asleep.call = 0
  /\ Asleep.todo = {} /\ Asleep.machine = Hub
<1>1. PICK none : none = [m \in Machine |-> 0]  OBVIOUS
<1>2. none \in [Machine -> Nat]  BY <1>1
<1>. QED  BY <1>1, <1>2, HubIsMachine DEF Asleep, HubState

(* The loop when it takes the next row.                                    *)
LEMMA NextRowIs ==
  ASSUME hub \in HubState, NextRow
  PROVE  /\ hub' \in HubState /\ hub'.step = "place" /\ hub'.call = 0
         /\ hub'.todo = hub.todo /\ hub'.machine = Hub
BY HubIsMachine DEF NextRow, HubState

(* The calls when one has ended.                                           *)
LEMMA HangIs ==
  ASSUME calls \in [Call -> CallState], NEW c \in Call, Hang(c)
  PROVE  /\ calls' \in [Call -> CallState]
         /\ \A d \in Call : calls'[d] = IF d = c THEN NoCall ELSE calls[d]
         /\ NoCall.step = "free" /\ NoCall.heard = FALSE /\ NoCall.machine = Hub
BY HubIsMachine DEF Hang, NoCall, CallState

(* The calls when one is sent.                                             *)
LEMMA SendIs ==
  ASSUME calls \in [Call -> CallState], NEW c \in Call, NEW m \in Machine, NEW r \in Row,
         NEW step \in {"lookup", "start"}, Send(c, m, r, step)
  PROVE  /\ calls' \in [Call -> CallState]
         /\ \A d \in Call : d # c => calls'[d] = calls[d]
         /\ calls'[c].step = step /\ calls'[c].machine = m /\ calls'[c].row = r
         /\ calls'[c].heard = TRUE
BY DEF Send, CallState

(* The calls when one has moved on by a step.                              *)
LEMMA ToIs ==
  ASSUME calls \in [Call -> CallState], NEW c \in Call, NEW step, To(c, step),
         step \in {"insert", "provision", "rollback"} \cup Answers
  PROVE  /\ calls' \in [Call -> CallState]
         /\ \A d \in Call : d # c => calls'[d] = calls[d]
         /\ calls'[c].step = step /\ calls'[c].machine = calls[c].machine
         /\ calls'[c].row = calls[c].row /\ calls'[c].heard = calls[c].heard
BY DEF To, CallState

-----------------------------------------------------------------------------
(* The clients of the queue, and the world                                 *)

(* A row is put on the queue.                                              *)
LEMMA EnqueueOK ==
  ASSUME IInv, NEW r \in Row, NEW target \in Target, Enqueue(r, target)
  PROVE  IInv'
<1>1. /\ queue \in [Row -> QueueRow] /\ queue[r].state = "none"
      /\ queue' = [queue EXCEPT ![r] = Queued(target)] /\ queue[r].machine = 0
      /\ UNCHANGED <<made, agent, hub, calls, failures, crashes, left>>
  BY DEF IInv, TypeOK, Enqueue, machines, past
<1>2. Queued(target) \in QueueRow /\ Queued(target).state = "queued" /\ Queued(target).machine = 0
  BY DEF Queued, QueueRow
<1>3. /\ queue' \in [Row -> QueueRow] /\ queue'[r].state = "queued"
      /\ queue'[r].machine = queue[r].machine
      /\ \A q \in Row : q # r => queue'[q] = queue[q]
  BY <1>2, <1>1
<1>4. \A q, m : RowOK(q, m) => RowOK(q, m)'
  BY <1>1, <1>3 DEF RowOK
<1>5. TypeOK'  BY <1>1, <1>3 DEF IInv, TypeOK
<1>6. UntouchedOK' /\ NamedStaysPut' /\ DispatchedWasStarted' /\ OneTaskPerKey'
  BY <1>1, <1>3 DEF IInv, UntouchedOK, NamedStaysPut, DispatchedWasStarted, OneTaskPerKey
<1>7. CallsOK'  BY <1>1, <1>4 DEF IInv, CallsOK
<1>8. HubOK'
  BY <1>1, <1>3, <1>4 DEF IInv, HubOK, TypeOK, HubState
<1>9. OwnTaskOK'  BY <1>1 DEF IInv, OwnTaskOK
<1>. QED  BY <1>5, <1>6, <1>7, <1>8, <1>9 DEF IInv

(* A row that changes its state, not its target, and is still on the       *)
(* queue or was dispatched to where its agent was started.                 *)
LEMMA RowMovesOK ==
  ASSUME IInv, NEW r \in Row, queue[r].state # "none",
         UNCHANGED <<made, agent, hub, calls, failures, crashes, left>>,
         queue' \in [Row -> QueueRow],
         \A q \in Row : q # r => queue'[q] = queue[q],
         queue'[r].target = queue[r].target, queue'[r].state # "none",
         queue'[r].state = "dispatched" <=> queue'[r].machine # 0,
         queue'[r].state = "dispatched" =>
           \/ agent[queue'[r].machine][r] # "none"
           \/ queue'[r].machine = Hub /\ r \in left
  PROVE  IInv'
<1>1. \A q, m : RowOK(q, m) => RowOK(q, m)'  BY DEF RowOK
<1>2. TypeOK'
  <2>1. \A q \in Row : queue'[q].state = "dispatched" <=> queue'[q].machine # 0
    BY DEF IInv, TypeOK
  <2>. QED  BY <2>1 DEF IInv, TypeOK
<1>3. UntouchedOK' /\ NamedStaysPut' /\ OneTaskPerKey'
  BY DEF IInv, UntouchedOK, NamedStaysPut, OneTaskPerKey
<1>4. DispatchedWasStarted'  BY DEF IInv, DispatchedWasStarted
<1>5. CallsOK'  BY <1>1 DEF IInv, CallsOK
<1>6. HubOK'  BY <1>1 DEF IInv, HubOK, TypeOK, HubState
<1>7. OwnTaskOK'  BY DEF IInv, OwnTaskOK
<1>. QED  BY <1>2, <1>3, <1>4, <1>5, <1>6, <1>7 DEF IInv

(* A row that is still queued is cancelled.                                *)
LEMMA CancelOK == ASSUME IInv, NEW r \in Row, Cancel(r) PROVE IInv'
<1>1. /\ queue \in [Row -> QueueRow] /\ queue[r].state # "none"
      /\ queue' = [queue EXCEPT ![r] = Cancelled(queue[r])]
      /\ UNCHANGED <<made, agent, hub, calls, failures, crashes, left>>
  BY DEF IInv, TypeOK, Cancel, machines, past
<1>2. /\ Cancelled(queue[r]) \in QueueRow /\ Cancelled(queue[r]).target = queue[r].target
      /\ \/ Cancelled(queue[r]) = queue[r]
         \/ /\ queue[r].state = "queued" /\ Cancelled(queue[r]).state = "cancelled"
            /\ Cancelled(queue[r]).machine = queue[r].machine
  <2>1. queue[r] \in QueueRow  BY <1>1
  <2>. QED  BY <2>1 DEF Cancelled, QueueRow
<1>3. /\ queue' \in [Row -> QueueRow] /\ queue'[r] = Cancelled(queue[r])
      /\ \A q \in Row : q # r => queue'[q] = queue[q]
  BY <1>1, <1>2
<1>4. queue[r].state = "dispatched" <=> queue[r].machine # 0  BY DEF IInv, TypeOK
<1>5. queue[r].state = "dispatched" =>
        \/ agent[queue[r].machine][r] # "none"
        \/ queue[r].machine = Hub /\ r \in left
  BY DEF IInv, DispatchedWasStarted
<1>. QED  BY <1>1, <1>2, <1>3, <1>4, <1>5, RowMovesOK

(* An agent exits.                                                         *)
LEMMA AgentEndsOK ==
  ASSUME IInv, NEW m \in Machine, NEW r \in Row, AgentEnds(m, r) PROVE IInv'
<1>1. /\ agent \in [Machine -> [Row -> {"none", "running", "ended"}]]
      /\ agent[m][r] = "running" /\ agent' = [agent EXCEPT ![m][r] = "ended"]
      /\ UNCHANGED <<queue, made, hub, calls, failures, crashes, left>>
  BY DEF IInv, TypeOK, AgentEnds, past
<1>2. /\ agent' \in [Machine -> [Row -> {"none", "running", "ended"}]]
      /\ \A n \in Machine, q \in Row : agent'[n][q] = "none" <=> agent[n][q] = "none"
  BY <1>1
<1>3. TypeOK'  BY <1>1, <1>2 DEF IInv, TypeOK
<1>4. UntouchedOK' /\ NamedStaysPut' /\ OneTaskPerKey'
  BY <1>1, <1>2 DEF IInv, UntouchedOK, NamedStaysPut, OneTaskPerKey
<1>5. DispatchedWasStarted'
  <2>1. \A q \in Row : queue[q].state = "dispatched" => queue[q].machine \in Machine
    BY DEF IInv, TypeOK, QueueRow
  <2>. QED  BY <1>1, <1>2, <2>1 DEF IInv, DispatchedWasStarted
<1>6. CallsOK'
  BY <1>1, <1>2 DEF IInv, TypeOK, CallState, CallsOK, RowOK
<1>7. HubOK'
  BY <1>1, <1>2 DEF IInv, TypeOK, HubState, HubOK, RowOK
<1>8. OwnTaskOK'  BY <1>1, <1>2, HubIsMachine DEF IInv, OwnTaskOK
<1>. QED  BY <1>3, <1>4, <1>5, <1>6, <1>7, <1>8 DEF IInv

-----------------------------------------------------------------------------
(* What a machine does with a call                                         *)

(* A call moves on by one step, and with it only what its machine has of   *)
(* its row, in a way that agrees with the step it comes to.                *)
LEMMA ServeOK ==
  ASSUME IInv, NEW c \in Call, NEW step \in {"insert", "provision", "rollback"} \cup Answers,
         NEW m, NEW r, m = calls[c].machine, r = calls[c].row,
         calls[c].step \in {"lookup", "insert", "provision", "rollback", "start"},
         To(c, step), UNCHANGED <<queue, hub, crashes>>, failures' \in 0 .. MaxFailures,
         left \subseteq left', left' \subseteq Row,
         made' \in [Machine -> [Row -> Nat]],
         agent' \in [Machine -> [Row -> {"none", "running", "ended"}]],
         \A n \in Machine, q \in Row : n # m \/ q # r =>
           made'[n][q] = made[n][q] /\ agent'[n][q] = agent[n][q],
         made'[m][r] <= 1,
         agent[m][r] # "none" => agent'[m][r] # "none",
         step \in {"started", "running"} => agent'[m][r] # "none",
         IF calls[c].step = "start" THEN step \in StartSteps ELSE step \in CreateSteps,
         m = Hub /\ step = "found" => made'[m][r] > 0,
         m = Hub /\ r \notin left' /\ made'[m][r] > 0 /\ agent'[m][r] = "none" =>
           calls[c].step = "start" \/ step \in {"provision", "rollback", "created"}
  PROVE  IInv'
<1>1. /\ calls \in [Call -> CallState] /\ hub \in HubState
      /\ queue \in [Row -> QueueRow]
      /\ made \in [Machine -> [Row -> Nat]]
      /\ agent \in [Machine -> [Row -> {"none", "running", "ended"}]]
  BY DEF IInv, TypeOK
<1>2. /\ calls' \in [Call -> CallState]
      /\ \A d \in Call : d # c => calls'[d] = calls[d]
      /\ calls'[c].step = step /\ calls'[c].machine = m
      /\ calls'[c].row = r /\ calls'[c].heard = calls[c].heard
  BY <1>1, ToIs
<1>3. RowOK(r, m) /\ r \in Row /\ m \in Machine /\ (m = Hub => calls[c].heard)
  <2>1. calls[c] \in CallState /\ calls[c].step # "free"  BY <1>1
  <2>. QED  BY <2>1 DEF IInv, CallsOK, RowOK, CallState
<1>5. \A n \in Machine, q \in Row : agent[n][q] # "none" => agent'[n][q] # "none"
  OBVIOUS
<1>6. TypeOK'
  <2>1. \A d \in Call : calls'[d].heard = calls[d].heard  BY <1>2
  <2>. QED  BY <1>2, <2>1 DEF IInv, TypeOK
<1>7. UntouchedOK'
  BY <1>3 DEF IInv, UntouchedOK, RowOK
<1>8. OneTaskPerKey'
  <2>. SUFFICES ASSUME NEW n \in Machine, NEW q \in Row PROVE made'[n][q] <= 1
    BY DEF OneTaskPerKey
  <2>. QED  BY DEF IInv, OneTaskPerKey
<1>9. NamedStaysPut'
  <2>1. queue[r].target \in {m, Anywhere}  BY <1>3 DEF RowOK
  <2>2. \A q \in Row, n \in Machine : queue[q].target \notin {n, Anywhere} => q # r \/ n # m
    BY <2>1
  <2>. QED  BY <2>2 DEF IInv, NamedStaysPut
<1>10. DispatchedWasStarted'
  <2>1. \A q \in Row : queue[q].state = "dispatched" => queue[q].machine \in Machine
    BY DEF IInv, TypeOK, QueueRow
  <2>. QED  BY <1>5, <2>1 DEF IInv, DispatchedWasStarted
<1>11. CallsOK'
  <2>. SUFFICES ASSUME NEW d \in Call, calls'[d].step # "free"
                PROVE  /\ RowOK(calls[d].row, calls[d].machine)'
                       /\ calls'[d].machine = Hub => calls'[d].heard
                       /\ calls'[d].step \in {"started", "running"} =>
                            agent'[calls'[d].machine][calls'[d].row] # "none"
    BY DEF CallsOK
  <2>1. CASE d = c  BY <1>2, <1>3, <2>1 DEF RowOK
  <2>2. CASE d # c
    <3>1. calls'[d] = calls[d] /\ calls[d] \in CallState  BY <1>1, <1>2, <2>2
    <3>. QED  BY <1>5, <3>1 DEF IInv, CallsOK, CallState, RowOK
  <2>. QED  BY <2>1, <2>2
(* The hub waits for this call, or for another that does not move.         *)
<1>12. /\ hub.call = c => /\ hub.machine = m /\ hub.row = r
                          /\ calls[c].step = "start" <=> hub.step = "start"
                          /\ hub.step \in {"create", "start"}
       /\ hub.call # c /\ hub.call # 0 => calls'[hub.call] = calls[hub.call]
       /\ hub.step \in {"create", "start"} <=> hub.call # 0
       /\ 0 \notin Call
  BY <1>1, <1>2, DispatchAssumption
     DEF IInv, TypeOK, HubOK, HubState, CreateSteps, StartSteps
<1>13. HubOK'
  <2>1. /\ \A q \in hub'.todo : queue'[q].state # "none"
        /\ hub'.step \in {"create", "start", "mark"} => RowOK(hub.row, hub.machine)'
    BY DEF IInv, HubOK, RowOK
  <2>2. /\ hub'.step = "create" => calls'[hub'.call].step \in CreateSteps
        /\ hub'.step = "start" => calls'[hub'.call].step \in StartSteps
        /\ hub'.call # 0 =>
             calls'[hub'.call].machine = hub'.machine /\ calls'[hub'.call].row = hub'.row
    <3>1. CASE hub.call = c  BY <1>2, <1>12, <3>1
    <3>2. CASE hub.call # c  BY <1>12, <3>2 DEF IInv, HubOK
    <3>. QED  BY <3>1, <3>2
  <2>3. hub'.step = "mark" => \/ agent'[hub'.machine][hub'.row] # "none"
                              \/ hub'.machine = Hub /\ hub'.row \in left'
    <3>1. hub.step = "mark" => hub.machine \in Machine /\ hub.row \in Row
      BY <1>1 DEF IInv, HubOK, HubState, RowOK
    <3>2. hub.step = "mark" => \/ agent[hub.machine][hub.row] # "none"
                               \/ hub.machine = Hub /\ hub.row \in left
      BY DEF IInv, HubOK
    <3>. QED  BY <1>5, <3>1, <3>2
  <2>. QED  BY <2>1, <2>2, <2>3 DEF HubOK
<1>14. OwnTaskOK'
  <2>1. m = Hub => hub.call = c  BY <1>3 DEF IInv, TypeOK
  <2>2. ASSUME hub.machine = Hub, hub.step = "create", calls'[hub.call].step = "found"
        PROVE  made'[Hub][hub.row] > 0
    <3>1. CASE hub.call = c  BY <1>2, <1>12, <2>2, <3>1
    <3>2. CASE hub.call # c
      <4>1. made[Hub][hub.row] > 0  BY <1>12, <2>2, <3>2 DEF IInv, OwnTaskOK
      <4>2. hub.row \in Row /\ m # Hub  BY <2>1, <2>2, <3>2 DEF IInv, HubOK, RowOK
      <4>. QED  BY <4>1, <4>2, HubIsMachine
    <3>. QED  BY <3>1, <3>2
  <2>3. ASSUME NEW q \in Row \ left', made'[Hub][q] > 0, agent'[Hub][q] = "none"
        PROVE  /\ hub.machine = Hub /\ hub.row = q
               /\ \/ hub.step = "start"
                  \/ /\ hub.step = "create"
                     /\ calls'[hub.call].step \in {"provision", "rollback", "created"}
    <3>1. CASE m = Hub /\ r = q  BY <1>2, <1>12, <2>1, <2>3, <3>1
    <3>2. CASE m # Hub \/ r # q
      <4>1. made[Hub][q] > 0 /\ agent[Hub][q] = "none"  BY <2>3, <3>2, HubIsMachine
      <4>2. /\ hub.machine = Hub /\ hub.row = q
            /\ \/ hub.step = "start"
               \/ /\ hub.step = "create"
                  /\ calls[hub.call].step \in {"provision", "rollback", "created"}
        BY <2>3, <4>1 DEF IInv, OwnTaskOK
      <4>3. hub.call # c  BY <1>12, <3>2, <4>2
      <4>. QED  BY <1>12, <4>2, <4>3
    <3>. QED  BY <3>1, <3>2
  <2>. QED  BY <2>2, <2>3 DEF OwnTaskOK
<1>. QED
  BY <1>6, <1>7, <1>8, <1>9, <1>10, <1>11, <1>13, <1>14 DEF IInv

(* What a call that is being carried out deals with.                       *)
LEMMA CallIs ==
  ASSUME IInv, NEW c \in Call, calls[c].step # "free"
  PROVE  /\ calls[c] \in CallState
         /\ calls[c].machine \in Machine /\ calls[c].row \in Row
         /\ RowOK(calls[c].row, calls[c].machine)
         /\ made \in [Machine -> [Row -> Nat]]
         /\ agent \in [Machine -> [Row -> {"none", "running", "ended"}]]
         /\ made[calls[c].machine][calls[c].row] <= 1
         /\ failures \in 0 .. MaxFailures /\ left \subseteq Row
<1>1. calls[c] \in CallState  BY DEF IInv, TypeOK
<1>2. RowOK(calls[c].row, calls[c].machine)  BY DEF IInv, CallsOK
<1>3. calls[c].machine \in Machine /\ calls[c].row \in Row
  BY <1>1, <1>2 DEF CallState, RowOK
<1>. QED  BY <1>1, <1>2, <1>3 DEF IInv, TypeOK, OneTaskPerKey

(* But for those left behind, a task of the hub's own daemon that no agent *)
(* was started for is not looked up: it is being made.                     *)
LEMMA OwnCallIs ==
  ASSUME IInv, NEW c \in Call, calls[c].machine = Hub, calls[c].row \notin left,
         calls[c].step \in {"lookup", "insert", "provision", "rollback"},
         made[Hub][calls[c].row] > 0, agent[Hub][calls[c].row] = "none"
  PROVE  calls[c].step \in {"provision", "rollback"}
<1>1. calls[c].row \in Row /\ calls[c].heard  BY CallIs DEF IInv, CallsOK
<1>2. hub.call = c  BY <1>1 DEF IInv, TypeOK
<1>3. hub.step # "start"
  BY <1>2 DEF IInv, HubOK, StartSteps
<1>. QED  BY <1>1, <1>2, <1>3 DEF IInv, OwnTaskOK

(* What has failed stays within its bound.                                 *)
LEMMA FailsOK == ASSUME IInv, Fails \/ FailsNot PROVE failures' \in 0 .. MaxFailures
BY DispatchAssumption DEF IInv, TypeOK, Fails, FailsNot

(* A key is looked up.                                                     *)
LEMMA LookupOK == ASSUME IInv, NEW c \in Call, Lookup(c) PROVE IInv'
<1>1. PICK m, r : m = calls[c].machine /\ r = calls[c].row  OBVIOUS
<1>2. PICK step : /\ step = "refused" \/ step = IF made[m][r] > 0 THEN "found" ELSE "insert"
                  /\ To(c, step)
  BY <1>1 DEF Lookup, Key
<1>3. /\ calls[c].step = "lookup"
      /\ UNCHANGED <<queue, hub, crashes, left>> /\ UNCHANGED <<made, agent>>
      /\ failures' \in 0 .. MaxFailures
  BY <1>1, <1>2, FailsOK DEF Lookup, Serving, Key, Elsewhere, machines
<1>4. m = Hub /\ r \notin left /\ made[m][r] > 0 => agent[m][r] # "none"
  BY <1>1, <1>3, OwnCallIs
<1>. QED
  BY <1>1, <1>2, <1>3, <1>4, CallIs, ServeOK DEF Answers, CreateSteps

(* A task is recorded, or the machine refuses to.                          *)
LEMMA InsertOK == ASSUME IInv, NEW c \in Call, Insert(c) PROVE IInv'
<1>1. PICK m, r : m = calls[c].machine /\ r = calls[c].row  OBVIOUS
<1>2. calls[c].step = "insert" /\ UNCHANGED <<queue, hub, crashes, left>> /\ UNCHANGED agent
  BY DEF Insert, Serving, Elsewhere
<1>3. m = Hub /\ r \notin left /\ made[m][r] > 0 => agent[m][r] # "none"
  BY <1>1, <1>2, OwnCallIs
<1>4. failures' \in 0 .. MaxFailures  BY FailsOK DEF Insert
<1>5. /\ m \in Machine /\ r \in Row /\ made \in [Machine -> [Row -> Nat]]
      /\ agent \in [Machine -> [Row -> {"none", "running", "ended"}]] /\ made[m][r] <= 1
      /\ left \subseteq Row
  BY <1>1, <1>2, CallIs
<1>6. CASE made[m][r] = 0 /\ To(c, "provision") /\ made' = [made EXCEPT ![m][r] = @ + 1]
  <2>1. /\ made' \in [Machine -> [Row -> Nat]] /\ made'[m][r] = 1
        /\ \A n \in Machine, q \in Row : n # m \/ q # r => made'[n][q] = made[n][q]
    BY <1>5, <1>6
  <2>2. /\ made'[m][r] <= 1 /\ agent' \in [Machine -> [Row -> {"none", "running", "ended"}]]
        /\ \A n \in Machine, q \in Row : n # m \/ q # r =>
             made'[n][q] = made[n][q] /\ agent'[n][q] = agent[n][q]
        /\ agent[m][r] # "none" => agent'[m][r] # "none"
        /\ To(c, "provision")
    BY <1>2, <1>5, <1>6, <2>1
  <2>. QED  BY <1>1, <1>2, <1>4, <1>5, <2>1, <2>2, ServeOK, SMTT(30) DEF CreateSteps, Answers
<1>7. CASE To(c, "refused") /\ UNCHANGED made
  BY <1>1, <1>2, <1>3, <1>4, <1>5, <1>7, ServeOK DEF CreateSteps, Answers
<1>. QED  BY <1>1, <1>6, <1>7 DEF Insert, Key

(* A task gets its worktree, or does not.                                  *)
LEMMA ProvisionOK == ASSUME IInv, NEW c \in Call, Provision(c) PROVE IInv'
<1>1. PICK m, r : m = calls[c].machine /\ r = calls[c].row  OBVIOUS
<1>2. PICK step \in {"created", "rollback"} : To(c, step)  BY DEF Provision
<1>3. /\ calls[c].step = "provision"
      /\ UNCHANGED <<queue, hub, crashes, left>> /\ UNCHANGED <<made, agent>>
  BY DEF Provision, Serving, Elsewhere
<1>4. failures' \in 0 .. MaxFailures  BY FailsOK DEF Provision
<1>. QED
  BY <1>1, <1>2, <1>3, <1>4, CallIs, ServeOK DEF Answers, CreateSteps

(* A task that could not be provisioned is removed, or is not.             *)
LEMMA RollBackOK == ASSUME IInv, NEW c \in Call, RollBack(c) PROVE IInv'
<1>1. PICK m, r : m = calls[c].machine /\ r = calls[c].row  OBVIOUS
<1>2. /\ calls[c].step = "rollback" /\ To(c, "refused") /\ UNCHANGED <<queue, hub, crashes>>
      /\ failures' \in 0 .. MaxFailures
  BY FailsOK DEF RollBack, Removed, Serving, Elsewhere
<1>3. /\ m \in Machine /\ r \in Row /\ made \in [Machine -> [Row -> Nat]]
      /\ agent \in [Machine -> [Row -> {"none", "running", "ended"}]]
      /\ made[m][r] <= 1 /\ left \subseteq Row
  BY <1>1, <1>2, CallIs
<1>4. CASE /\ made' = [made EXCEPT ![m][r] = 0] /\ left' = left
           /\ agent' = [agent EXCEPT ![m][r] = IF @ = "running" THEN "ended" ELSE @]
  <2>1. /\ made' \in [Machine -> [Row -> Nat]] /\ made'[m][r] = 0
        /\ \A n \in Machine, q \in Row : n # m \/ q # r => made'[n][q] = made[n][q]
    BY <1>4, <1>3
  <2>2. /\ agent' \in [Machine -> [Row -> {"none", "running", "ended"}]]
        /\ agent[m][r] # "none" => agent'[m][r] # "none"
        /\ \A n \in Machine, q \in Row : n # m \/ q # r => agent'[n][q] = agent[n][q]
    BY <1>4, <1>3
  <2>3. /\ made'[m][r] <= 1 /\ left \subseteq left' /\ left' \subseteq Row
        /\ \A n \in Machine, q \in Row : n # m \/ q # r =>
             made'[n][q] = made[n][q] /\ agent'[n][q] = agent[n][q]
    BY <1>3, <1>4, <2>1, <2>2
  <2>. QED  BY <1>1, <1>2, <1>3, <2>1, <2>2, <2>3, ServeOK DEF CreateSteps, Answers
<1>5. CASE /\ UNCHANGED <<made, agent>>
           /\ left' = IF m = Hub THEN left \cup {r} ELSE left
  <2>1. left \subseteq left' /\ left' \subseteq Row /\ (m = Hub => r \in left')
    BY <1>3, <1>5
  <2>. QED  BY <1>1, <1>2, <1>3, <1>5, <2>1, ServeOK DEF CreateSteps, Answers
<1>. QED  BY <1>1, <1>4, <1>5 DEF RollBack

(* A task is started, runs already, or cannot be started.                  *)
LEMMA StartOK == ASSUME IInv, NEW c \in Call, Start(c) PROVE IInv'
<1>1. PICK m, r : m = calls[c].machine /\ r = calls[c].row  OBVIOUS
<1>2. /\ calls[c].step = "start" /\ UNCHANGED <<queue, hub, crashes, left>> /\ UNCHANGED made
      /\ failures' \in 0 .. MaxFailures
  BY FailsOK DEF Start, Serving, Elsewhere
<1>3. /\ m \in Machine /\ r \in Row /\ made \in [Machine -> [Row -> Nat]]
      /\ agent \in [Machine -> [Row -> {"none", "running", "ended"}]] /\ made[m][r] <= 1
      /\ left \subseteq Row
  BY <1>1, <1>2, CallIs
<1>4. CASE agent' = [agent EXCEPT ![m][r] = "running"] /\ To(c, "started")
  <2>1. /\ agent' \in [Machine -> [Row -> {"none", "running", "ended"}]]
        /\ agent'[m][r] = "running"
        /\ \A n \in Machine, q \in Row : n # m \/ q # r => agent'[n][q] = agent[n][q]
    BY <1>3, <1>4
  <2>2. /\ made' \in [Machine -> [Row -> Nat]] /\ made'[m][r] <= 1
        /\ \A n \in Machine, q \in Row : n # m \/ q # r =>
             made'[n][q] = made[n][q] /\ agent'[n][q] = agent[n][q]
        /\ agent'[m][r] # "none" /\ To(c, "started")
    BY <1>2, <1>3, <1>4, <2>1
  <2>. QED  BY <1>1, <1>2, <1>3, <2>1, <2>2, ServeOK, SMTT(30) DEF StartSteps, Answers
<1>5. CASE agent[m][r] = "running" /\ To(c, "running") /\ UNCHANGED agent
  BY <1>1, <1>2, <1>3, <1>5, ServeOK DEF StartSteps, Answers
<1>6. CASE To(c, "refused") /\ UNCHANGED agent
  BY <1>1, <1>2, <1>3, <1>6, ServeOK DEF StartSteps, Answers
<1>. QED  BY <1>1, <1>4, <1>5, <1>6 DEF Start

-----------------------------------------------------------------------------
(* Calls that are dropped, and crashes                                     *)

(* Calls that end, or that the hub no longer waits for, while it sleeps,   *)
(* asks or goes on with a call that stays as it is.                        *)
LEMMA CallsEndOK ==
  ASSUME IInv, UNCHANGED <<queue, made, agent, hub, failures, crashes, left>>,
         calls' \in [Call -> CallState],
         \A d \in Call : calls'[d] = calls[d] \/ (d # hub.call /\ calls'[d] = NoCall)
  PROVE  IInv'
<1>1. hub \in HubState /\ NoCall.step = "free" /\ NoCall.heard = FALSE
  BY DEF IInv, TypeOK, NoCall
<1>2. hub.call # 0 => hub.call \in Call /\ calls'[hub.call] = calls[hub.call]
  BY <1>1 DEF HubState
<1>3. TypeOK'  BY <1>1 DEF IInv, TypeOK
<1>4. UntouchedOK' /\ NamedStaysPut' /\ OneTaskPerKey' /\ DispatchedWasStarted'
  BY DEF IInv, UntouchedOK, NamedStaysPut, OneTaskPerKey, DispatchedWasStarted
<1>5. CallsOK'  BY <1>1 DEF IInv, CallsOK, RowOK
<1>6. hub.step \in {"create", "start"} => hub.call # 0  BY DEF IInv, TypeOK
<1>7. HubOK'  BY <1>2, <1>6 DEF IInv, HubOK, RowOK
<1>8. OwnTaskOK'  BY <1>2, <1>6 DEF IInv, OwnTaskOK
<1>. QED  BY <1>3, <1>4, <1>5, <1>7, <1>8 DEF IInv

(* A call nobody waits for is dropped.                                     *)
LEMMA DropOK == ASSUME IInv, NEW c \in Call, Drop(c) PROVE IInv'
<1>1. /\ calls \in [Call -> CallState] /\ ~calls[c].heard /\ Hang(c)
      /\ UNCHANGED <<queue, made, agent, hub, failures, crashes, left>>
  BY DEF IInv, TypeOK, Drop, machines, past
<1>2. c # hub.call  BY <1>1 DEF IInv, TypeOK
<1>. QED  BY <1>1, <1>2, HangIs, CallsEndOK

(* A daemon dies and comes back.                                           *)
LEMMA CrashOK == ASSUME IInv, NEW m \in Machine, Crash(m) PROVE IInv'
<1>1. /\ calls \in [Call -> CallState] /\ hub \in HubState
      /\ crashes' \in 0 .. MaxCrashes /\ left \subseteq left' /\ left' \subseteq Row
      /\ UNCHANGED <<queue, made, agent, failures>>
  <2>1. /\ crashes < MaxCrashes /\ crashes' = crashes + 1 /\ crashes \in 0 .. MaxCrashes
        /\ left \subseteq left' /\ left' \subseteq Row
    BY DEF IInv, TypeOK, Crash
  <2>. QED  BY <2>1, DispatchAssumption DEF IInv, TypeOK, Crash, machines, past
<1>2. /\ UntouchedOK' /\ NamedStaysPut' /\ OneTaskPerKey'
  BY <1>1 DEF IInv, UntouchedOK, NamedStaysPut, OneTaskPerKey
<1>3. DispatchedWasStarted'  BY <1>1 DEF IInv, DispatchedWasStarted
<1>4. NoCall \in CallState /\ NoCall.step = "free" /\ NoCall.heard = FALSE
  BY HubIsMachine DEF NoCall, CallState
<1>5. CASE m = Hub
  <2>1. hub' = Asleep /\ calls' = [c \in Call |-> IF calls[c].machine = Hub THEN NoCall
                                                  ELSE [calls[c] EXCEPT !.heard = FALSE]]
    BY <1>5 DEF Crash
  <2>2. hub' \in HubState /\ hub'.step = "asleep" /\ hub'.call = 0 /\ hub'.todo = {}
        /\ hub'.machine = Hub
    BY <2>1, AsleepIs
  <2>3. \A c \in Call : /\ calls'[c] \in CallState /\ ~calls'[c].heard
                        /\ \/ calls'[c] = NoCall
                           \/ /\ calls[c].machine # Hub /\ calls'[c].step = calls[c].step
                              /\ calls'[c].machine = calls[c].machine
                              /\ calls'[c].row = calls[c].row
    <3>. SUFFICES ASSUME NEW c \in Call
                  PROVE  /\ calls'[c] \in CallState /\ ~calls'[c].heard
                         /\ \/ calls'[c] = NoCall
                            \/ /\ calls[c].machine # Hub /\ calls'[c].step = calls[c].step
                               /\ calls'[c].machine = calls[c].machine
                               /\ calls'[c].row = calls[c].row
      OBVIOUS
    <3>1. CASE calls[c].machine = Hub  BY <1>4, <2>1, <3>1
    <3>2. CASE calls[c].machine # Hub
      <4>1. calls'[c] = [calls[c] EXCEPT !.heard = FALSE] /\ calls[c] \in CallState
        BY <1>1, <2>1, <3>2
      <4>. QED  BY <3>2, <4>1 DEF CallState
    <3>. QED  BY <3>1, <3>2
  <2>4. calls' \in [Call -> CallState]
    <3>1. calls' = [c \in Call |-> calls'[c]]  BY <2>1
    <3>. QED  BY <2>3, <3>1
  <2>5. TypeOK'
    BY <1>1, <2>2, <2>3, <2>4, DispatchAssumption DEF IInv, TypeOK
  <2>6. CallsOK'  BY <1>1, <1>4, <2>3 DEF IInv, CallsOK, RowOK
  <2>7. HubOK'  BY <1>1, <2>2 DEF HubOK
  <2>8. \A r \in Row : made[Hub][r] > 0 /\ agent[Hub][r] = "none" => r \in left'
    BY <1>5 DEF Crash
  <2>9. OwnTaskOK'  BY <1>1, <2>2, <2>8 DEF OwnTaskOK
  <2>. QED  BY <1>2, <1>3, <2>5, <2>6, <2>7, <2>9 DEF IInv
<1>6. CASE m # Hub
  <2>0. left' = left  BY <1>6 DEF Crash
  <2>1. hub' = hub /\ calls' = [c \in Call |-> IF calls[c].machine # m THEN calls[c]
                                               ELSE IF calls[c].heard
                                               THEN [calls[c] EXCEPT !.step = "refused"]
                                               ELSE NoCall]
    BY <1>6 DEF Crash
  <2>2. \A c \in Call :
          /\ calls'[c] \in CallState /\ calls'[c].heard = calls[c].heard
          /\ \/ calls'[c] = calls[c]
             \/ calls'[c] = NoCall /\ ~calls[c].heard
             \/ /\ calls[c].heard /\ calls'[c].step = "refused" /\ calls[c].machine = m
                /\ calls'[c].machine = m /\ calls'[c].row = calls[c].row
    <3>. SUFFICES ASSUME NEW c \in Call
                  PROVE  /\ calls'[c] \in CallState /\ calls'[c].heard = calls[c].heard
                         /\ \/ calls'[c] = calls[c]
                            \/ calls'[c] = NoCall /\ ~calls[c].heard
                            \/ /\ calls[c].heard /\ calls'[c].step = "refused"
                               /\ calls[c].machine = m
                               /\ calls'[c].machine = m /\ calls'[c].row = calls[c].row
      OBVIOUS
    <3>0. calls[c] \in CallState  BY <1>1
    <3>1. CASE calls[c].machine # m  BY <2>1, <3>0, <3>1
    <3>2. CASE calls[c].machine = m /\ calls[c].heard
      <4>1. calls'[c] = [calls[c] EXCEPT !.step = "refused"]  BY <2>1, <3>2
      <4>. QED  BY <3>0, <3>2, <4>1 DEF CallState, Answers
    <3>3. CASE calls[c].machine = m /\ ~calls[c].heard
      BY <1>4, <2>1, <3>0, <3>3 DEF CallState
    <3>. QED  BY <3>1, <3>2, <3>3
  <2>3. calls' \in [Call -> CallState]
    <3>1. calls' = [c \in Call |-> calls'[c]]  BY <2>1
    <3>. QED  BY <2>2, <3>1
  <2>4. TypeOK'  BY <1>1, <2>0, <2>1, <2>2, <2>3, ZenonT(30) DEF IInv, TypeOK
  <2>5. CallsOK'
    <3>. SUFFICES ASSUME NEW c \in Call, calls'[c].step # "free"
                  PROVE  /\ RowOK(calls[c].row, calls[c].machine)'
                         /\ calls'[c].machine = Hub => calls'[c].heard
                         /\ calls'[c].step \in {"started", "running"} =>
                              agent'[calls'[c].machine][calls'[c].row] # "none"
      BY DEF CallsOK
    <3>1. calls[c].heard => calls[c].step # "free"
      <4>1. calls[c].heard => c = hub.call /\ hub.call # 0
        BY DispatchAssumption DEF IInv, TypeOK
      <4>2. hub.call # 0 => hub.step = "create" \/ hub.step = "start"
        BY DEF IInv, TypeOK
      <4>. QED  BY <4>1, <4>2 DEF IInv, HubOK, CreateSteps, StartSteps
    <3>2. CASE calls'[c] = calls[c]  BY <1>1, <3>2 DEF IInv, CallsOK, RowOK
    <3>3. CASE calls[c].heard /\ calls'[c].step = "refused" /\ calls[c].machine = m
               /\ calls'[c].machine = m /\ calls'[c].row = calls[c].row
      BY <1>1, <1>6, <3>1, <3>3 DEF IInv, CallsOK, RowOK
    <3>. QED  BY <1>4, <2>2, <3>2, <3>3
  <2>6. /\ hub.call # 0 => hub.call \in Call /\ calls[hub.call].machine = hub.machine
        /\ hub.step \in {"create", "start"} => hub.call # 0
    BY <1>1 DEF IInv, TypeOK, HubOK, HubState
  <2>7. hub.call # 0 => /\ calls'[hub.call].machine = calls[hub.call].machine
                        /\ calls'[hub.call].row = calls[hub.call].row
                        /\ \/ calls'[hub.call].step = calls[hub.call].step
                           \/ calls'[hub.call].step = "refused" /\ hub.machine # Hub
    <3>1. hub.call # 0 => hub.call \in Call /\ calls[hub.call].heard
      BY <2>6 DEF IInv, TypeOK
    <3>. QED  BY <1>6, <2>2, <2>6, <3>1
  <2>8. HubOK'
    <3>1. /\ \A r \in hub'.todo : queue'[r].state # "none"
          /\ hub'.step \in {"create", "start", "mark"} => RowOK(hub.row, hub.machine)'
      BY <1>1, <2>1 DEF IInv, HubOK, RowOK
    <3>2. /\ hub'.step = "create" => calls'[hub'.call].step \in CreateSteps
          /\ hub'.step = "start" => calls'[hub'.call].step \in StartSteps
      BY <2>1, <2>6, <2>7 DEF IInv, HubOK, CreateSteps, StartSteps
    <3>3. hub'.call # 0 =>
            calls'[hub'.call].machine = hub'.machine /\ calls'[hub'.call].row = hub'.row
      BY <2>1, <2>7 DEF IInv, HubOK
    <3>4. hub'.step = "mark" => \/ agent'[hub'.machine][hub'.row] # "none"
                                \/ hub'.machine = Hub /\ hub'.row \in left'
      BY <1>1, <2>0, <2>1 DEF IInv, HubOK
    <3>. QED  BY <3>1, <3>2, <3>3, <3>4 DEF HubOK
  <2>9. OwnTaskOK'
    <3>1. hub.machine = Hub /\ hub.step = "create" /\ calls'[hub.call].step = "found" =>
            calls[hub.call].step = "found"
      BY <2>6, <2>7
    <3>2. hub.machine = Hub /\ hub.step = "create" /\ calls'[hub.call].step = "found" =>
            made[Hub][hub.row] > 0
      BY <3>1 DEF IInv, OwnTaskOK
    <3>3. ASSUME NEW q \in Row \ left, made[Hub][q] > 0, agent[Hub][q] = "none"
          PROVE  /\ hub.machine = Hub /\ hub.row = q
                 /\ \/ hub.step = "start"
                    \/ /\ hub.step = "create"
                       /\ calls'[hub.call].step \in {"provision", "rollback", "created"}
      <4>1. /\ hub.machine = Hub /\ hub.row = q
            /\ \/ hub.step = "start"
               \/ /\ hub.step = "create"
                  /\ calls[hub.call].step \in {"provision", "rollback", "created"}
        BY <3>3 DEF IInv, OwnTaskOK
      <4>. QED  BY <2>6, <2>7, <4>1
    <3>. QED  BY <1>1, <2>0, <2>1, <3>2, <3>3 DEF OwnTaskOK
  <2>. QED  BY <1>2, <1>3, <2>4, <2>5, <2>8, <2>9 DEF IInv
<1>. QED  BY <1>5, <1>6

-----------------------------------------------------------------------------
(* The pass                                                                *)

(* The hub comes to wait for no call: it sleeps, asks or takes the next    *)
(* row, and with it a row may have been dispatched or a task deleted.      *)
LEMMA SettlesOK ==
  ASSUME IInv, UNCHANGED <<agent, crashes>>, failures' \in 0 .. MaxFailures,
         left \subseteq left', left' \subseteq Row,
         queue' \in [Row -> QueueRow],
         \A r \in Row : /\ queue'[r].state = "none" <=> queue[r].state = "none"
                        /\ queue'[r].target = queue[r].target
                        /\ queue'[r].state = "dispatched" <=> queue'[r].machine # 0,
         DispatchedWasStarted',
         made' \in [Machine -> [Row -> Nat]],
         \A m \in Machine, r \in Row : made'[m][r] = made[m][r] \/ made'[m][r] = 0,
         hub' \in HubState, hub'.step \in Idle, hub'.call = 0,
         \A r \in hub'.todo : queue[r].state # "none",
         calls' \in [Call -> CallState],
         \A c \in Call : /\ ~calls'[c].heard
                         /\ \/ calls'[c].step = "free"
                            \/ /\ calls[c].machine # Hub /\ calls'[c].step = calls[c].step
                               /\ calls'[c].machine = calls[c].machine
                               /\ calls'[c].row = calls[c].row,
         \A r \in Row \ left' : made'[Hub][r] > 0 => agent[Hub][r] # "none"
  PROVE  IInv'
<1>1. TypeOK'  BY DispatchAssumption DEF IInv, TypeOK, Idle
<1>2. UntouchedOK' /\ NamedStaysPut'
  BY DEF IInv, UntouchedOK, NamedStaysPut
<1>3. OneTaskPerKey'
  <2>. SUFFICES ASSUME NEW m \in Machine, NEW r \in Row PROVE made'[m][r] <= 1
    BY DEF OneTaskPerKey
  <2>. QED  BY DEF IInv, OneTaskPerKey
<1>4. CallsOK'  BY DEF IInv, CallsOK, RowOK
<1>5. \A r \in hub'.todo : queue'[r].state # "none"  BY DEF HubState
<1>6. HubOK' /\ OwnTaskOK'  BY <1>5 DEF HubOK, OwnTaskOK, Idle
<1>. QED  BY <1>1, <1>2, <1>3, <1>4, <1>6 DEF IInv

(* The hub goes on with a row: it sends a request about it, or is to       *)
(* record it as dispatched.                                                *)
LEMMA GoesOnOK ==
  ASSUME IInv, UNCHANGED <<queue, made, agent, failures, crashes, left>>,
         hub' \in HubState, hub'.todo \subseteq hub.todo,
         RowOK(hub'.row, hub'.machine),
         calls' \in [Call -> CallState],
         \A d \in Call : /\ calls'[d].heard <=> d = hub'.call
                         /\ d # hub'.call => calls'[d].step = "free" \/ calls'[d] = calls[d],
         \/ hub'.step = "create" /\ hub'.call \in Call /\ calls'[hub'.call].step = "lookup"
         \/ hub'.step = "start" /\ hub'.call \in Call /\ calls'[hub'.call].step = "start"
         \/ /\ hub'.step = "mark" /\ hub'.call = 0
            /\ \/ agent[hub'.machine][hub'.row] # "none"
               \/ hub'.machine = Hub /\ hub'.row \in left,
         hub'.call # 0 => /\ calls'[hub'.call].machine = hub'.machine
                          /\ calls'[hub'.call].row = hub'.row,
         \A r \in Row \ left : made[Hub][r] > 0 /\ agent[Hub][r] = "none" =>
           hub'.machine = Hub /\ hub'.row = r /\ hub'.step = "start"
  PROVE  IInv'
<1>1. TypeOK'  BY DispatchAssumption DEF IInv, TypeOK
<1>2. UntouchedOK' /\ NamedStaysPut' /\ OneTaskPerKey' /\ DispatchedWasStarted'
  BY DEF IInv, UntouchedOK, NamedStaysPut, OneTaskPerKey, DispatchedWasStarted
<1>3. \A q, m : RowOK(q, m) => RowOK(q, m)'  BY DEF RowOK
<1>4. CallsOK'
  <2>. SUFFICES ASSUME NEW d \in Call, calls'[d].step # "free"
                PROVE  /\ RowOK(calls[d].row, calls[d].machine)'
                       /\ calls'[d].machine = Hub => calls'[d].heard
                       /\ calls'[d].step \in {"started", "running"} =>
                            agent'[calls'[d].machine][calls'[d].row] # "none"
    BY DEF CallsOK
  <2>1. CASE d = hub'.call
    <3>1. RowOK(hub.row, hub.machine)'  BY DEF RowOK
    <3>2. calls'[d].row = hub'.row /\ calls'[d].machine = hub'.machine /\ calls'[d].heard
      BY <2>1, DispatchAssumption
    <3>3. calls'[d].step \notin {"started", "running"}  BY <2>1, DispatchAssumption
    <3>. QED  BY <3>1, <3>2, <3>3 DEF RowOK
  <2>2. CASE d # hub'.call
    <3>1. calls'[d] = calls[d]  BY <2>2
    <3>2. /\ RowOK(calls[d].row, calls[d].machine)
          /\ calls[d].machine = Hub => calls[d].heard
          /\ calls[d].step \in {"started", "running"} =>
               agent[calls[d].machine][calls[d].row] # "none"
      BY <3>1 DEF IInv, CallsOK
    <3>. QED  BY <3>1, <3>2 DEF RowOK
  <2>. QED  BY <2>1, <2>2
<1>5. HubOK'
  <2>1. /\ \A r \in hub'.todo : queue'[r].state # "none"
        /\ RowOK(hub.row, hub.machine)'
    BY DEF IInv, HubOK, RowOK
  <2>. QED  BY <2>1 DEF HubOK, CreateSteps, StartSteps
<1>6. OwnTaskOK'  BY DEF OwnTaskOK
<1>. QED  BY <1>1, <1>2, <1>4, <1>5, <1>6 DEF IInv

(* What holds while the hub waits for no call.                             *)
LEMMA IdleIs ==
  ASSUME IInv, hub.step \in Idle \cup {"mark"}
  PROVE  /\ hub \in HubState /\ hub.call = 0 /\ calls \in [Call -> CallState]
         /\ queue \in [Row -> QueueRow] /\ made \in [Machine -> [Row -> Nat]]
         /\ failures \in 0 .. MaxFailures /\ left \subseteq Row
         /\ \A c \in Call : ~calls[c].heard
                            /\ (calls[c].step = "free" \/ calls[c].machine # Hub)
         /\ \A r \in Row \ left : made[Hub][r] > 0 => agent[Hub][r] # "none"
         /\ \A r \in hub.todo : queue[r].state # "none"
<1>1. /\ hub \in HubState /\ hub.call = 0 /\ calls \in [Call -> CallState]
      /\ queue \in [Row -> QueueRow] /\ made \in [Machine -> [Row -> Nat]]
      /\ failures \in 0 .. MaxFailures /\ left \subseteq Row
      /\ \A c \in Call : ~calls[c].heard
  BY DispatchAssumption DEF IInv, TypeOK, Idle
<1>2. \A c \in Call : calls[c].step = "free" \/ calls[c].machine # Hub
  BY <1>1 DEF IInv, CallsOK
<1>3. \A r \in Row \ left : made[Hub][r] > 0 => agent[Hub][r] # "none"
  BY DEF IInv, OwnTaskOK, Idle
<1>. QED  BY <1>1, <1>2, <1>3 DEF IInv, HubOK

(* While the hub waits for no call and moves to where it waits for none    *)
(* either, nothing can go wrong but what it has left to do.                *)
LEMMA IdleStepOK ==
  ASSUME IInv, hub.step \in Idle, UNCHANGED <<queue, made, agent, calls, crashes, left>>,
         failures' \in 0 .. MaxFailures, hub' \in HubState, hub'.step \in Idle,
         hub'.call = 0, \A r \in hub'.todo : queue[r].state # "none"
  PROVE  IInv'
<1>1. DispatchedWasStarted'  BY DEF IInv, DispatchedWasStarted
<1>2. \A r \in Row : queue[r].state = "dispatched" <=> queue[r].machine # 0
  BY DEF IInv, TypeOK
<1>. QED  BY <1>1, <1>2, IdleIs, SettlesOK

(* A pass begins.                                                          *)
LEMMA WakeOK == ASSUME IInv, Wake PROVE IInv'
<1>1. /\ hub.step \in Idle /\ UNCHANGED <<queue, made, agent, calls, failures, crashes, left>>
      /\ hub' = [Asleep EXCEPT !.step = "ask", !.unasked = Machine,
                               !.todo = Pending]
  BY DEF Wake, At, Idle, machines, past
<1>2. PICK todo : todo = Pending  OBVIOUS
<1>3. hub' = [Asleep EXCEPT !.step = "ask", !.unasked = Machine, !.todo = todo]
  BY <1>1, <1>2
<1>4. todo \in SUBSET Row /\ "ask" \in Idle /\ Machine \in SUBSET Machine
  BY <1>2 DEF Idle, Pending
<1>5. hub' \in HubState /\ hub'.step = "ask" /\ hub'.call = 0 /\ hub'.todo = todo
  BY <1>3, <1>4, AsleepIs DEF HubState, Idle
<1>6. \A r \in hub'.todo : queue[r].state # "none"  BY <1>2, <1>5 DEF Pending
<1>. QED  BY <1>1, <1>4, <1>5, <1>6, IdleIs, IdleStepOK

(* A machine is asked what it has.                                         *)
LEMMA AskOK == ASSUME IInv, Ask PROVE IInv'
<1>1. /\ hub.step = "ask" /\ hub.step \in Idle
      /\ UNCHANGED <<queue, made, agent, calls, crashes, left>>
  BY DEF Ask, At, Idle, machines, past
<1>2. /\ hub \in HubState /\ hub.call = 0
      /\ \A r \in hub.todo : queue[r].state # "none"
  BY <1>1, IdleIs
<1>a. PICK m \in hub.unasked :
        LET rest   == hub.unasked \ {m}
            onward == [hub EXCEPT !.unasked = rest,
                                  !.step = IF rest = {} THEN "place" ELSE "ask"] IN
        \/ /\ hub' = [onward EXCEPT
                !.reachable = @ \cup {m},
                !.active[m] = Active(m)]
           /\ FailsNot
        \/ Fails /\ hub' = onward
  BY DEF Ask
<1>b. PICK rest, step, count :
        /\ rest = hub.unasked \ {m}
        /\ step = IF rest = {} THEN "place" ELSE "ask"
        /\ count = Active(m)
  OBVIOUS
<1>3. /\ step \in {"place", "ask"} /\ failures' \in 0 .. MaxFailures
      /\ \/ hub' = [[hub EXCEPT !.unasked = rest, !.step = step]
                      EXCEPT !.reachable = @ \cup {m}, !.active[m] = count]
         \/ hub' = [hub EXCEPT !.unasked = rest, !.step = step]
  <2>1. failures' \in 0 .. MaxFailures  BY <1>a, FailsOK
  <2>2. step \in {"place", "ask"}  BY <1>b
  <2>3. \/ hub' = [[hub EXCEPT !.unasked = rest, !.step = step]
                     EXCEPT !.reachable = @ \cup {m}, !.active[m] = count]
        \/ hub' = [hub EXCEPT !.unasked = rest, !.step = step]
    BY <1>a, <1>b
  <2>. QED  BY <2>1, <2>2, <2>3
<1>4. count \in Nat
  BY <1>b, DispatchAssumption, FS_CardinalityType, FS_Subset DEF Active
<1>5. /\ hub' \in HubState /\ hub'.step = step /\ hub'.call = 0 /\ hub'.todo = hub.todo
  <2>1. m \in Machine /\ rest \in SUBSET Machine  BY <1>2, <1>b DEF HubState
  <2>2. CASE hub' = [hub EXCEPT !.unasked = rest, !.step = step]
    BY <1>2, <1>3, <2>1, <2>2 DEF HubState
  <2>3. CASE hub' = [[hub EXCEPT !.unasked = rest, !.step = step]
                       EXCEPT !.reachable = @ \cup {m}, !.active[m] = count]
    <3>1. PICK h : h = [hub EXCEPT !.unasked = rest, !.step = step]  OBVIOUS
    <3>2. h \in HubState /\ h.step = step /\ h.call = 0 /\ h.todo = hub.todo
      BY <1>2, <1>3, <2>1, <3>1 DEF HubState
    <3>3. hub' = [h EXCEPT !.reachable = @ \cup {m}, !.active[m] = count]
      BY <2>3, <3>1
    <3>4. hub' = [h EXCEPT !.reachable = h.reachable \cup {m},
                           !.active = [h.active EXCEPT ![m] = count]]
      BY <3>3
    <3>5. PICK active : active = [h.active EXCEPT ![m] = count]  OBVIOUS
    <3>6. active \in [Machine -> Nat] /\ h.reachable \cup {m} \in SUBSET Machine
      BY <1>4, <2>1, <3>2, <3>5 DEF HubState
    <3>7. hub' = [h EXCEPT !.reachable = h.reachable \cup {m}, !.active = active]
      BY <3>4, <3>5
    <3>. QED  BY <3>2, <3>6, <3>7 DEF HubState
  <2>. QED  BY <1>3, <2>2, <2>3
<1>6. hub'.step \in Idle  BY <1>3, <1>5 DEF Idle
<1>. QED  BY <1>1, <1>2, <1>3, <1>5, <1>6, IdleStepOK

(* A row is placed, or left waiting.                                       *)
LEMMA PlaceOK == ASSUME IInv, Place PROVE IInv'
<1>1. /\ hub.step \in Idle /\ UNCHANGED <<queue, made, agent, failures, crashes, left>>
  BY DEF Place, At, Idle, machines, past
<1>2. /\ hub \in HubState /\ hub.call = 0 /\ calls \in [Call -> CallState]
      /\ failures \in 0 .. MaxFailures /\ hub.step = "place"
      /\ \A c \in Call : ~calls[c].heard
      /\ \A r \in Row \ left : made[Hub][r] > 0 => agent[Hub][r] # "none"
      /\ \A r \in hub.todo : queue[r].state # "none"
  BY <1>1, IdleIs DEF Place, At
<1>3. PICK r \in hub.todo :
        \/ hub' = [hub EXCEPT !.todo = @ \ {r}] /\ UNCHANGED calls
        \/ \E m \in Best(Eligible(r)), c \in Call :
             /\ hub' = [hub EXCEPT !.todo = @ \ {r}, !.step = "create", !.row = r,
                                   !.machine = m, !.call = c]
             /\ Send(c, m, r, "lookup")
  BY DEF Place
<1>4. CASE hub' = [hub EXCEPT !.todo = @ \ {r}] /\ UNCHANGED calls
  <2>1. hub' \in HubState /\ hub'.step = "place" /\ hub'.call = 0 /\ hub'.todo = hub.todo \ {r}
    BY <1>2, <1>4 DEF HubState
  <2>2. hub'.step \in Idle /\ \A q \in hub'.todo : queue[q].state # "none"
    BY <1>2, <2>1 DEF Idle
  <2>. QED  BY <1>1, <1>2, <1>4, <2>1, <2>2, IdleStepOK
<1>5. ASSUME NEW m \in Best(Eligible(r)), NEW c \in Call,
             hub' = [hub EXCEPT !.todo = @ \ {r}, !.step = "create", !.row = r,
                                !.machine = m, !.call = c],
             Send(c, m, r, "lookup")
      PROVE  IInv'
  <2>1. m \in Machine /\ r \in Row /\ RowOK(r, m)
    BY <1>2, <1>3 DEF Best, Eligible, RowOK, HubState
  <2>2. /\ hub' \in HubState /\ hub'.step = "create" /\ hub'.call = c /\ hub'.row = r
        /\ hub'.machine = m /\ hub'.todo = hub.todo \ {r}
    BY <1>2, <1>5, <2>1 DEF HubState
  <2>3. /\ calls' \in [Call -> CallState]
        /\ \A d \in Call : d # c => calls'[d] = calls[d]
        /\ calls'[c].step = "lookup" /\ calls'[c].machine = m /\ calls'[c].row = r
        /\ calls'[c].heard = TRUE
    BY <1>2, <1>5, <2>1, SendIs
  <2>4. \A d \in Call : /\ calls'[d].heard <=> d = hub'.call
                        /\ d # hub'.call => calls'[d].step = "free" \/ calls'[d] = calls[d]
    BY <1>2, <2>2, <2>3
  <2>. QED  BY <1>1, <1>2, <2>1, <2>2, <2>3, <2>4, GoesOnOK
<1>. QED  BY <1>3, <1>4, <1>5

(* A pass ends.                                                            *)
LEMMA PassDoneOK == ASSUME IInv, PassDone PROVE IInv'
<1>1. /\ hub.step \in Idle /\ UNCHANGED <<queue, made, agent, calls, failures, crashes, left>>
      /\ hub' = Asleep
  BY DEF PassDone, At, Idle, machines, past
<1>2. hub' \in HubState /\ hub'.step \in Idle /\ hub'.call = 0 /\ hub'.todo = {}
  BY <1>1, AsleepIs DEF Idle
<1>. QED  BY <1>1, <1>2, IdleIs, IdleStepOK

(* What holds while the hub waits for a call.                              *)
LEMMA WaitingIs ==
  ASSUME IInv, hub.call # 0
  PROVE  /\ hub \in HubState /\ calls \in [Call -> CallState] /\ hub.call \in Call
         /\ queue \in [Row -> QueueRow] /\ made \in [Machine -> [Row -> Nat]]
         /\ agent \in [Machine -> [Row -> {"none", "running", "ended"}]]
         /\ failures \in 0 .. MaxFailures /\ left \subseteq Row
         /\ calls[hub.call].machine = hub.machine /\ calls[hub.call].row = hub.row
         /\ RowOK(hub.row, hub.machine) /\ hub.machine \in Machine /\ hub.row \in Row
         /\ \A c \in Call : c # hub.call =>
              ~calls[c].heard /\ (calls[c].step = "free" \/ calls[c].machine # Hub)
         /\ \A r \in hub.todo : queue[r].state # "none"
         /\ calls[hub.call].step # "free"
<1>1. /\ hub \in HubState /\ calls \in [Call -> CallState]
      /\ queue \in [Row -> QueueRow] /\ made \in [Machine -> [Row -> Nat]]
      /\ agent \in [Machine -> [Row -> {"none", "running", "ended"}]]
      /\ failures \in 0 .. MaxFailures /\ left \subseteq Row
      /\ \A c \in Call : c # hub.call => ~calls[c].heard
      /\ hub.step \in {"create", "start"}
  BY DEF IInv, TypeOK
<1>2. hub.call \in Call /\ hub.machine \in Machine  BY <1>1 DEF HubState
<1>3. /\ calls[hub.call].machine = hub.machine /\ calls[hub.call].row = hub.row
      /\ RowOK(hub.row, hub.machine)
      /\ calls[hub.call].step # "free"
  BY <1>1 DEF IInv, HubOK, CreateSteps, StartSteps
<1>4. \A c \in Call : c # hub.call => calls[c].step = "free" \/ calls[c].machine # Hub
  BY <1>1 DEF IInv, CallsOK
<1>. QED  BY <1>1, <1>2, <1>3, <1>4 DEF IInv, HubOK, RowOK

(* The call the hub waited for has ended, and it waits for none.           *)
LEMMA HangsUpIs ==
  ASSUME IInv, hub.call # 0, Hang(hub.call), hub'.call = 0
  PROVE  /\ calls' \in [Call -> CallState]
         /\ \A d \in Call : /\ calls'[d].heard <=> d = hub'.call
                            /\ d # hub'.call => calls'[d].step = "free" \/ calls'[d] = calls[d]
<1>1. /\ calls' \in [Call -> CallState]
      /\ \A d \in Call : calls'[d] = IF d = hub.call THEN NoCall ELSE calls[d]
      /\ NoCall.step = "free" /\ NoCall.heard = FALSE
  BY WaitingIs, HangIs
<1>2. \A d \in Call : d # 0 /\ ~calls'[d].heard
  BY <1>1, WaitingIs, DispatchAssumption
<1>3. \A d \in Call : calls'[d].step = "free" \/ calls'[d] = calls[d]
  BY <1>1
<1>. QED  BY <1>1, <1>2, <1>3

(* The call the hub waited for ends, or the hub waits for it no longer,    *)
(* and the next row is taken.                                              *)
LEMMA NextRowOK ==
  ASSUME IInv, hub.call # 0, NextRow, UNCHANGED <<queue, agent, crashes>>,
         left \subseteq left', left' \subseteq Row,
         failures' \in 0 .. MaxFailures, calls' \in [Call -> CallState],
         \A c \in Call : c # hub.call => calls'[c] = calls[c],
         ~calls'[hub.call].heard,
         \/ calls'[hub.call].step = "free"
         \/ /\ hub.machine # Hub /\ calls'[hub.call].step = calls[hub.call].step
            /\ calls'[hub.call].machine = hub.machine /\ calls'[hub.call].row = hub.row,
         made' \in [Machine -> [Row -> Nat]],
         \A m \in Machine, r \in Row : made'[m][r] = made[m][r] \/ made'[m][r] = 0,
         \A r \in Row \ left' : made'[Hub][r] > 0 => agent[Hub][r] # "none"
  PROVE  IInv'
<1>1. /\ hub' \in HubState /\ hub'.step = "place" /\ hub'.call = 0 /\ hub'.todo = hub.todo
  BY WaitingIs, NextRowIs
<1>2. \A c \in Call : /\ ~calls'[c].heard
                      /\ \/ calls'[c].step = "free"
                         \/ /\ calls[c].machine # Hub /\ calls'[c].step = calls[c].step
                            /\ calls'[c].machine = calls[c].machine
                            /\ calls'[c].row = calls[c].row
  BY WaitingIs
<1>3. DispatchedWasStarted'  BY DEF IInv, DispatchedWasStarted
<1>4. /\ queue' \in [Row -> QueueRow]
      /\ \A r \in Row : queue[r].state = "dispatched" <=> queue[r].machine # 0
      /\ \A r \in hub'.todo : queue[r].state # "none"
  BY <1>1, WaitingIs DEF IInv, TypeOK
<1>5. hub'.step \in Idle  BY <1>1 DEF Idle
<1>. QED  BY <1>1, <1>2, <1>3, <1>4, <1>5, SettlesOK

(* A request is refused.                                                   *)
LEMMA RefusedOK == ASSUME IInv, Refused PROVE IInv'
<1>1. /\ hub.call # 0 /\ calls[hub.call].step = "refused" /\ NextRow /\ Hang(hub.call)
      /\ UNCHANGED <<queue, made, agent, failures, crashes, left>>
      /\ hub.step = "create" \/ hub.machine # Hub
  BY DEF Refused, Answered, At, machines, past
<1>2. /\ calls' \in [Call -> CallState]
      /\ \A c \in Call : c # hub.call => calls'[c] = calls[c]
      /\ calls'[hub.call].step = "free" /\ ~calls'[hub.call].heard
  BY <1>1, WaitingIs, HangIs
<1>3. \A r \in Row \ left : made[Hub][r] > 0 => agent[Hub][r] # "none"
  BY <1>1 DEF IInv, OwnTaskOK
<1>. QED  BY <1>1, <1>2, <1>3, WaitingIs, NextRowOK

(* A task of the hub's own daemon is deleted again, or left.               *)
LEMMA UndoOK == ASSUME IInv, Undo PROVE IInv'
<1>1. /\ hub.call # 0 /\ hub.machine = Hub /\ NextRow /\ Hang(hub.call)
      /\ UNCHANGED <<queue, agent, crashes>> /\ failures' \in 0 .. MaxFailures
  BY FailsOK DEF Undo, Answered
<1>2. /\ calls' \in [Call -> CallState]
      /\ \A c \in Call : c # hub.call => calls'[c] = calls[c]
      /\ calls'[hub.call].step = "free" /\ ~calls'[hub.call].heard
  BY <1>1, WaitingIs, HangIs
<1>3. /\ made \in [Machine -> [Row -> Nat]] /\ hub.row \in Row /\ Hub \in Machine
      /\ left \subseteq Row
  BY <1>1, WaitingIs
<1>4. /\ left \subseteq left' /\ left' \subseteq Row
      /\ made' \in [Machine -> [Row -> Nat]]
      /\ \A m \in Machine, r \in Row : made'[m][r] = made[m][r] \/ made'[m][r] = 0
      /\ \/ agent[Hub][hub.row] = "running"
         \/ made'[Hub][hub.row] = 0
         \/ hub.row \in left'
      /\ \A r \in Row : r # hub.row => made'[Hub][r] = made[Hub][r]
  <2>1. CASE agent[Hub][hub.row] = "running" /\ UNCHANGED <<made, left>>  BY <1>3, <2>1
  <2>2. CASE made' = [made EXCEPT ![Hub][hub.row] = 0] /\ UNCHANGED left  BY <1>3, <2>2
  <2>3. CASE left' = left \cup {hub.row} /\ UNCHANGED made  BY <1>3, <2>3
  <2>. QED  BY <2>1, <2>2, <2>3 DEF Undo
<1>5. \A r \in Row \ left' : made'[Hub][r] > 0 => agent[Hub][r] # "none"
  <2>. SUFFICES ASSUME NEW r \in Row \ left', made'[Hub][r] > 0, agent[Hub][r] = "none"
                PROVE  FALSE
    OBVIOUS
  <2>1. CASE r = hub.row  BY <1>4, <2>1
  <2>2. CASE r # hub.row  BY <1>4, <2>2 DEF IInv, OwnTaskOK
  <2>. QED  BY <2>1, <2>2
<1>. QED  BY <1>1, <1>2, <1>4, <1>5, WaitingIs, NextRowOK

(* A request is given up.                                                  *)
LEMMA GiveUpOK == ASSUME IInv, GiveUp PROVE IInv'
<1>1. /\ hub.call # 0 /\ hub.machine # Hub /\ NextRow /\ Fails
      /\ calls' = [calls EXCEPT ![hub.call].heard = FALSE]
      /\ UNCHANGED <<queue, made, agent, crashes, left>>
  BY DEF GiveUp, IInv, TypeOK, machines, past
<1>2. /\ calls' \in [Call -> CallState]
      /\ \A c \in Call : c # hub.call => calls'[c] = calls[c]
      /\ calls'[hub.call].step = calls[hub.call].step /\ ~calls'[hub.call].heard
      /\ calls'[hub.call].machine = calls[hub.call].machine
      /\ calls'[hub.call].row = calls[hub.call].row
  BY <1>1, WaitingIs DEF CallState
<1>3. \A r \in Row \ left : made[Hub][r] > 0 => agent[Hub][r] # "none"
  BY <1>1 DEF IInv, OwnTaskOK
<1>4. failures' \in 0 .. MaxFailures  BY <1>1, FailsOK
<1>. QED  BY <1>1, <1>2, <1>3, <1>4, WaitingIs, NextRowOK

(* A task was made, or was found.                                          *)
LEMMA CreatedOK == ASSUME IInv, Created PROVE IInv'
<1>1. /\ hub.call # 0 /\ hub.step = "create"
      /\ calls[hub.call].step \in {"found", "created"}
      /\ UNCHANGED <<queue, made, agent, failures, crashes, left>>
  BY DEF Created, Answered, At, machines, past
<1>2. CASE /\ hub.machine = Hub /\ calls[hub.call].step = "found"
           /\ hub' = [hub EXCEPT !.step = "mark", !.call = 0] /\ Hang(hub.call)
  <2>1. /\ hub' \in HubState /\ hub'.step = "mark" /\ hub'.call = 0 /\ hub'.todo = hub.todo
        /\ hub'.row = hub.row /\ hub'.machine = hub.machine
    BY <1>1, <1>2, WaitingIs DEF HubState
  <2>2. /\ calls' \in [Call -> CallState]
        /\ \A d \in Call : /\ calls'[d].heard <=> d = hub'.call
                           /\ d # hub'.call => calls'[d].step = "free" \/ calls'[d] = calls[d]
    BY <1>1, <1>2, <2>1, HangsUpIs
  <2>3. \A r \in Row \ left : ~(made[Hub][r] > 0 /\ agent[Hub][r] = "none")
    BY <1>1, <1>2 DEF IInv, OwnTaskOK
  <2>4. agent[Hub][hub.row] # "none" \/ hub.row \in left
    <3>1. made[Hub][hub.row] > 0 /\ hub.row \in Row
      BY <1>1, <1>2, WaitingIs DEF IInv, OwnTaskOK, TypeOK
    <3>. QED  BY <2>3, <3>1
  <2>. QED  BY <1>1, <1>2, <2>1, <2>2, <2>3, <2>4, WaitingIs, GoesOnOK
<1>3. CASE /\ ~(hub.machine = Hub /\ calls[hub.call].step = "found")
           /\ hub' = [hub EXCEPT !.step = "start"]
           /\ Send(hub.call, hub.machine, hub.row, "start")
  <2>1. /\ hub' \in HubState /\ hub'.step = "start" /\ hub'.call = hub.call
        /\ hub'.todo = hub.todo /\ hub'.row = hub.row /\ hub'.machine = hub.machine
    BY <1>1, <1>3, WaitingIs DEF HubState
  <2>2. /\ calls' \in [Call -> CallState]
        /\ \A d \in Call : d # hub.call => calls'[d] = calls[d]
        /\ calls'[hub.call].step = "start" /\ calls'[hub.call].machine = hub.machine
        /\ calls'[hub.call].row = hub.row /\ calls'[hub.call].heard = TRUE
    BY <1>1, <1>3, WaitingIs, SendIs
  <2>3. \A d \in Call : /\ calls'[d].heard <=> d = hub'.call
                        /\ d # hub'.call => calls'[d].step = "free" \/ calls'[d] = calls[d]
    BY <1>1, <2>1, <2>2, WaitingIs
  <2>4. \A r \in Row \ left : made[Hub][r] > 0 /\ agent[Hub][r] = "none" =>
          hub.machine = Hub /\ hub.row = r
    BY DEF IInv, OwnTaskOK
  <2>. QED  BY <1>1, <2>1, <2>2, <2>3, <2>4, WaitingIs, GoesOnOK
<1>. QED  BY <1>1, <1>2, <1>3 DEF Created, Answered

(* An agent was started, or ran.                                           *)
LEMMA StartedOK == ASSUME IInv, Started PROVE IInv'
<1>1. /\ hub.call # 0 /\ hub.step = "start"
      /\ calls[hub.call].step \in {"started", "running"}
      /\ hub' = [hub EXCEPT !.step = "mark", !.call = 0] /\ Hang(hub.call)
      /\ UNCHANGED <<queue, made, agent, failures, crashes, left>>
  BY DEF Started, Answered, At, machines, past
<1>2. /\ hub' \in HubState /\ hub'.step = "mark" /\ hub'.call = 0 /\ hub'.todo = hub.todo
      /\ hub'.row = hub.row /\ hub'.machine = hub.machine
  BY <1>1, WaitingIs DEF HubState
<1>3. /\ calls' \in [Call -> CallState]
      /\ \A d \in Call : /\ calls'[d].heard <=> d = hub'.call
                         /\ d # hub'.call => calls'[d].step = "free" \/ calls'[d] = calls[d]
  BY <1>1, <1>2, HangsUpIs
<1>4. agent[hub.machine][hub.row] # "none"
  BY <1>1, WaitingIs DEF IInv, CallsOK
<1>5. \A r \in Row \ left : ~(made[Hub][r] > 0 /\ agent[Hub][r] = "none")
  BY <1>4 DEF IInv, OwnTaskOK
<1>. QED  BY <1>1, <1>2, <1>3, <1>4, <1>5, WaitingIs, GoesOnOK

(* A row is recorded as dispatched, or was cancelled.                      *)
LEMMA MarkDispatchedOK == ASSUME IInv, MarkDispatched PROVE IInv'
<1>1. /\ hub.step = "mark" /\ hub.step \in Idle \cup {"mark"} /\ NextRow
      /\ UNCHANGED <<made, agent, calls, crashes, left>> /\ failures' \in 0 .. MaxFailures
      /\ \/ queue' = [queue EXCEPT ![hub.row] = Claimed(queue[hub.row], hub.machine)]
         \/ queue' = queue
  BY FailsOK DEF MarkDispatched, At, machines, past
<1>2. /\ hub' \in HubState /\ hub'.step = "place" /\ hub'.call = 0 /\ hub'.todo = hub.todo
  BY <1>1, IdleIs, NextRowIs
<1>3. /\ hub.row \in Row /\ queue[hub.row].state # "none" /\ hub.machine \in Machine
      /\ \/ agent[hub.machine][hub.row] # "none"
         \/ hub.machine = Hub /\ hub.row \in left
  BY <1>1, IdleIs DEF IInv, HubOK, RowOK, HubState
<1>4. /\ queue' \in [Row -> QueueRow]
      /\ \A r \in Row : r # hub.row => queue'[r] = queue[r]
      /\ \/ queue'[hub.row] = queue[hub.row]
         \/ /\ queue'[hub.row].state = "dispatched"
            /\ queue'[hub.row].target = queue[hub.row].target
            /\ queue'[hub.row].machine = hub.machine
  <2>1. queue[hub.row] \in QueueRow  BY <1>1, <1>3, IdleIs
  <2>0. CASE queue' = queue  BY <1>1, <1>3, <2>0, IdleIs
  <2>2. CASE /\ queue[hub.row].state = "queued"
             /\ queue' = [queue EXCEPT ![hub.row] = Claimed(queue[hub.row], hub.machine)]
    <3>1. PICK row : row = [queue[hub.row] EXCEPT !.state = "dispatched",
                                                  !.machine = hub.machine]
      OBVIOUS
    <3>2. /\ row \in QueueRow /\ row.state = "dispatched" /\ row.machine = hub.machine
          /\ row.target = queue[hub.row].target
      BY <1>3, <2>1, <3>1 DEF QueueRow
    <3>3. queue' = [queue EXCEPT ![hub.row] = row]  BY <1>1, <1>3, <2>2, <3>1, IdleIs DEF Claimed
    <3>. QED  BY <1>1, <1>3, <3>2, <3>3, IdleIs
  <2>3. CASE /\ queue[hub.row].state # "queued"
             /\ queue' = [queue EXCEPT ![hub.row] = Claimed(queue[hub.row], hub.machine)]
    <3>1. queue' = [queue EXCEPT ![hub.row] = queue[hub.row]]
      BY <1>1, <1>3, <2>3, IdleIs DEF Claimed
    <3>. QED  BY <1>1, <1>3, <3>1, IdleIs
  <2>. QED  BY <1>1, <2>0, <2>2, <2>3
<1>5. hub.machine # 0  BY <1>3 DEF Machine
<1>6. /\ \A r \in Row : /\ queue'[r].state = "none" <=> queue[r].state = "none"
                        /\ queue'[r].target = queue[r].target
                        /\ queue'[r].state = "dispatched" <=> queue'[r].machine # 0
      /\ DispatchedWasStarted'
  <2>1. \A r \in Row : queue[r].state = "dispatched" <=> queue[r].machine # 0
    BY DEF IInv, TypeOK
  <2>2. DispatchedWasStarted'
    BY <1>1, <1>3, <1>4 DEF IInv, DispatchedWasStarted
  <2>. QED  BY <1>3, <1>4, <1>5, <2>1, <2>2
<1>7. hub'.step \in Idle  BY <1>2 DEF Idle
<1>8. \A m \in Machine, r \in Row : made'[m][r] = made[m][r]  BY <1>1
<1>. QED  BY <1>1, <1>2, <1>4, <1>6, <1>7, <1>8, IdleIs, SettlesOK

-----------------------------------------------------------------------------
(* The theorems                                                            *)

(* The daemons start with an empty queue and nothing made.                 *)
LEMMA InitOK == Init => IInv
<1>. SUFFICES ASSUME Init PROVE IInv  OBVIOUS
<1>1. NoCall \in CallState /\ NoCall.step = "free" /\ NoCall.heard = FALSE
  BY HubIsMachine DEF NoCall, CallState
<1>2. calls \in [Call -> CallState] /\ \A c \in Call : calls[c] = NoCall
  BY <1>1 DEF Init
<1>3. /\ queue \in [Row -> QueueRow]
      /\ \A r \in Row : queue[r].state = "none" /\ queue[r].machine = 0
  BY DEF Init, QueueRow, Target
<1>4. /\ made \in [Machine -> [Row -> Nat]]
      /\ agent \in [Machine -> [Row -> {"none", "running", "ended"}]]
      /\ \A m \in Machine, r \in Row : made[m][r] = 0 /\ agent[m][r] = "none"
  BY DEF Init
<1>5. failures \in 0 .. MaxFailures /\ crashes \in 0 .. MaxCrashes /\ hub = Asleep
      /\ left = {}
  BY DispatchAssumption DEF Init
<1>6. TypeOK
  BY <1>1, <1>2, <1>3, <1>4, <1>5, AsleepIs, DispatchAssumption DEF TypeOK
<1>7. UntouchedOK /\ OneTaskPerKey /\ NamedStaysPut /\ DispatchedWasStarted
  BY <1>3, <1>4 DEF UntouchedOK, OneTaskPerKey, NamedStaysPut, DispatchedWasStarted
<1>8. CallsOK /\ HubOK /\ OwnTaskOK
  BY <1>1, <1>2, <1>4, <1>5, AsleepIs, HubIsMachine DEF CallsOK, HubOK, OwnTaskOK
<1>. QED  BY <1>6, <1>7, <1>8 DEF IInv

(* Every step of the hub, of a machine, of a client and of the world       *)
(* keeps the invariant.                                                    *)
LEMMA NextOK == IInv /\ [Next]_vars => IInv'
<1>. SUFFICES ASSUME IInv, [Next]_vars PROVE IInv'  OBVIOUS
<1>1. CASE Pass
  BY <1>1, WakeOK, AskOK, PlaceOK, PassDoneOK, CreatedOK, StartedOK, RefusedOK, UndoOK,
     GiveUpOK, MarkDispatchedOK DEF Pass
<1>2. ASSUME NEW r \in Row, Cancel(r) \/ \E target \in Target : Enqueue(r, target)
      PROVE  IInv'
  BY <1>2, CancelOK, EnqueueOK
<1>3. ASSUME NEW c \in Call, Serve(c) \/ Drop(c) PROVE IInv'
  BY <1>3, LookupOK, InsertOK, ProvisionOK, RollBackOK, StartOK, DropOK DEF Serve
<1>4. ASSUME NEW m \in Machine, Crash(m) \/ \E r \in Row : AgentEnds(m, r) PROVE IInv'
  BY <1>4, CrashOK, AgentEndsOK
<1>5. CASE UNCHANGED vars
  BY <1>5 DEF vars, machines, past, IInv, TypeOK, UntouchedOK, CallsOK, RowOK, HubOK, OwnTaskOK,
     OneTaskPerKey, NamedStaysPut, DispatchedWasStarted
<1>. QED  BY <1>1, <1>2, <1>3, <1>4, <1>5 DEF Next

(* The inductive invariant holds in every state the daemons reach, of any  *)
(* fleet, with any queue and however much fails.                           *)
THEOREM Invariant == Spec => []IInv
<1>1. Init => IInv  BY InitOK
<1>2. IInv /\ [Next]_vars => IInv'  BY NextOK
<1>. QED  BY <1>1, <1>2, PTL DEF Spec

(* What git has of an attempt is one of three things, and what an attempt  *)
(* leaves is too.                                                          *)
LEMMA LeavesOK ==
  ASSUME GitOK, NEW m \in Machine, NEW r \in Row, NEW what \in Tree, Leaves(m, r, what)
  PROVE  git' \in [Machine -> [Row -> [Id -> Tree]]]
<1>1. PICK i \in Id : i = given[m][r] /\ git' = [git EXCEPT ![m][r][i] = what]
  BY DEF GitOK, Leaves
<1>. QED  BY <1>1 DEF GitOK

(* Every step keeps the types of what git and the tables of tasks have.    *)
LEMMA GitStepOK == IInv /\ GitOK /\ [Next]_vars => GitOK'
<1>. SUFFICES ASSUME IInv, GitOK, [Next]_vars PROVE GitOK'  OBVIOUS
<1>1. CASE UNCHANGED <<given, git>>  BY <1>1 DEF GitOK
<1>2. CASE Undo
  <2>1. hub.call # 0 /\ hub.machine = Hub /\ UNCHANGED given  BY <1>2 DEF Undo, Answered
  <2>2. Hub \in Machine /\ hub.row \in Row  BY <2>1, WaitingIs
  <2>3. UNCHANGED git \/ \E what \in Tree : Leaves(Hub, hub.row, what)
    BY <1>2 DEF Undo, Tree
  <2>. QED  BY <2>1, <2>2, <2>3, LeavesOK DEF GitOK
<1>3. ASSUME NEW c \in Call, Insert(c) PROVE GitOK'
  <2>1. calls[c].machine \in Machine /\ calls[c].row \in Row  BY <1>3, CallIs DEF Insert, Serving
  <2>2. UNCHANGED git  BY <1>3 DEF Insert
  <2>3. UNCHANGED given \/ \E i \in Id : given' = [given EXCEPT ![calls[c].machine][calls[c].row] = i]
    BY <1>3 DEF Insert
  <2>4. given' \in [Machine -> [Row -> Id]]
    <3>1. CASE UNCHANGED given  BY <3>1 DEF GitOK
    <3>2. ASSUME NEW i \in Id, given' = [given EXCEPT ![calls[c].machine][calls[c].row] = i]
          PROVE  given' \in [Machine -> [Row -> Id]]
      BY <2>1, <3>2 DEF GitOK
    <3>. QED  BY <2>3, <3>1, <3>2
  <2>. QED  BY <2>2, <2>4 DEF GitOK
<1>4. ASSUME NEW c \in Call, Provision(c) \/ RollBack(c) PROVE GitOK'
  <2>1. calls[c].machine \in Machine /\ calls[c].row \in Row
    BY <1>4, CallIs DEF Provision, RollBack, Serving
  <2>2. UNCHANGED given  BY <1>4 DEF Provision, RollBack
  <2>3. UNCHANGED git \/ \E what \in Tree : Leaves(calls[c].machine, calls[c].row, what)
    BY <1>4 DEF Provision, RollBack, Removed, Tree
  <2>. QED  BY <2>1, <2>2, <2>3, LeavesOK DEF GitOK
<1>. QED
  BY <1>1, <1>2, <1>3, <1>4
     DEF Next, Pass, Wake, Ask, Place, PassDone, Created, Started, Refused, GiveUp,
         MarkDispatched, Serve, Lookup, Start, Drop, Crash, AgentEnds, Cancel, Enqueue,
         machines, vars

(* The ids given to tasks and what git has of the attempts keep their      *)
(* types; nothing else the proofs maintain depends on them.                *)
THEOREM GitIsTyped == Spec => []GitOK
<1>1. Init => GitOK
  <2>1. (CHOOSE i \in Id : TRUE) \in Id  BY DispatchAssumption
  <2>. QED  BY <2>1 DEF Init, GitOK, Tree
<1>2. IInv /\ GitOK /\ [Next]_vars => GitOK'  BY GitStepOK
<1>. QED  BY <1>1, <1>2, Invariant, PTL DEF Spec

(* However retries and earlier attempts overlap, a machine makes at most   *)
(* one task under a row's key.                                             *)
THEOREM KeyIsUnique == Spec => []OneTaskPerKey
<1>1. IInv => OneTaskPerKey  BY DEF IInv
<1>. QED  BY <1>1, Invariant, PTL

(* A row that names its machine has a task and an agent on no other.       *)
THEOREM NamedIsHonoured == Spec => []NamedStaysPut
<1>1. IInv => NamedStaysPut  BY DEF IInv
<1>. QED  BY <1>1, Invariant, PTL

(* A row the queue calls dispatched had its agent started on the machine   *)
(* recorded, unless that is the hub's own, which left the row's task with  *)
(* its agent not started.                                                  *)
THEOREM DispatchedRan == Spec => []DispatchedWasStarted
<1>1. IInv => DispatchedWasStarted  BY DEF IInv
<1>. QED  BY <1>1, Invariant, PTL

(* A row that was dispatched or cancelled never changes again.             *)
THEOREM PlacedStays == Spec => PlacedIsFinal
<1>1. IInv /\ [Next]_vars =>
        [\A r \in Row : queue[r].state \in {"dispatched", "cancelled"} =>
           queue'[r] = queue[r]]_vars
  <2>. SUFFICES ASSUME IInv, Next, NEW r \in Row,
                       queue[r].state \in {"dispatched", "cancelled"}
                PROVE  queue'[r] = queue[r]
    BY DEF vars
  <2>1. queue \in [Row -> QueueRow]  BY DEF IInv, TypeOK
  <2>2. CASE UNCHANGED queue  BY <2>2
  <2>3. ASSUME NEW q \in Row, Cancel(q) PROVE queue'[r] = queue[r]
    BY <2>1, <2>3 DEF Cancel, Cancelled
  <2>4. ASSUME NEW q \in Row, NEW target, Enqueue(q, target) PROVE queue'[r] = queue[r]
    BY <2>1, <2>4 DEF Enqueue
  <2>5. CASE MarkDispatched
    <3>1. hub.row \in Row  BY <2>5 DEF MarkDispatched, At, IInv, HubOK, RowOK
    <3>. QED  BY <2>1, <2>5, <3>1 DEF MarkDispatched, Claimed
  <2>. QED
    BY <2>2, <2>3, <2>4, <2>5
       DEF Next, Pass, Wake, Ask, Place, PassDone, Created, Started, Refused, Undo, GiveUp,
           Serve, Lookup, Insert, Provision, RollBack, Start, Elsewhere, Drop, Crash, AgentEnds
<1>. QED  BY <1>1, Invariant, PTL DEF Spec, PlacedIsFinal
=============================================================================
